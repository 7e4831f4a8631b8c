--------------------------- MODULE IdentityProofs ---------------------------
(* Theorems about accounts and sessions, for any requests, calls, accounts  *)
(* of staff, lifetimes and fault budgets, with the whole catalog beside     *)
(* them.                                                                    *)
EXTENDS Catalog, TLAPS

-----------------------------------------------------------------------------
(* The tables of the controllers.                                          *)

\* The routes are those of the table.
LEMMA RouteNames ==
  Routes = {"signup", "login", "session", "logout", "create", "bulk", "update",
            "remove", "list", "search", "get", "organizations"}
BY DEF Routes, Endpoint

\* What the accounts' controllers look at, and what they answer.
LEMMA AccountControllers ==
  ASSUME NEW q \in Requests
  PROVE  /\ Route(q) = "signup" =>
              /\ At(q).on["done"] = 201 /\ At(q).on["taken"] = 409
              /\ At(q).errors = {503} /\ At(q).session = "none"
         /\ Route(q) = "login" =>
              /\ At(q).on["done"] = 200 /\ At(q).on["absent"] = 404
              /\ At(q).on["wrong"] = 401
              /\ At(q).errors = {503} /\ At(q).session = "none"
         /\ Route(q) = "session" =>
              /\ At(q).on["done"] = 200 /\ At(q).session = "required"
              /\ At(q).after = {}
         /\ Route(q) = "logout" =>
              /\ At(q).on["done"] = 204 /\ At(q).session = "required"
              /\ At(q).before = {} /\ At(q).after = {}
<1>1. /\ LogOutEndpoint.on = [done |-> 204] /\ LogOutEndpoint.session = "required"
      /\ LogOutEndpoint.before = {} /\ LogOutEndpoint.after = {}
  BY DEF LogOutEndpoint, SessionEndpoint
<1>2. Route(q) = "logout" => At(q) = LogOutEndpoint
  BY DEF At, Endpoint
<1> QED
  BY <1>1, <1>2 DEF At, Endpoint, SignUpEndpoint, LogInEndpoint, SessionEndpoint, AccountStatus

\* What the catalog's controllers look at, and what they answer.
LEMMA CatalogControllers ==
  ASSUME NEW q \in Requests
  PROVE  /\ Route(q) = "create" =>
              /\ At(q).on["done"] = 201 /\ At(q).errors = {500, 503}
              /\ At(q).session = "required"
         /\ Route(q) = "bulk" =>
              /\ At(q).on["done"] = 200 /\ At(q).on["thrown"] = 500
              /\ At(q).session = "required"
         /\ Route(q) = "update" =>
              /\ At(q).on["done"] = 200 /\ At(q).on["absent"] = 404
              /\ At(q).errors = {500, 503} /\ At(q).session = "required"
         /\ Route(q) = "remove" =>
              /\ At(q).on["done"] = 204 /\ At(q).errors = {500, 503}
              /\ At(q).session = "required"
         /\ Route(q) = "list" =>
              /\ At(q).on["done"] = 200 /\ At(q).errors = {500, 503}
              /\ At(q).session = "required"
         /\ Route(q) = "search" =>
              /\ At(q).on["done"] = 200 /\ At(q).errors = {500, 503}
              /\ At(q).session = "optional"
         /\ Route(q) = "get" =>
              /\ At(q).on["done"] = 200 /\ At(q).on["absent"] = 404
              /\ At(q).errors = {500} /\ At(q).session = "none"
         /\ Route(q) = "organizations" =>
              /\ At(q).on["done"] = 200 /\ At(q).errors = {500, 503}
              /\ At(q).session = "none"
<1>1. Route(q) = "create" => At(q) = CreateResourceEndpoint
  BY DEF At, Endpoint
<1>2. Route(q) = "bulk" => At(q) = BulkCreateEndpoint
  BY DEF At, Endpoint
<1>3. Route(q) = "update" => At(q) = UpdateResourceEndpoint
  BY DEF At, Endpoint
<1>4. Route(q) = "remove" => At(q) = DeleteResourceEndpoint
  BY DEF At, Endpoint
<1>5. Route(q) = "list" => At(q) = ListResourcesEndpoint
  BY DEF At, Endpoint
<1>6. Route(q) = "search" => At(q) = SearchEndpoint
  BY DEF At, Endpoint
<1>7. Route(q) = "get" => At(q) = GetResourceEndpoint
  BY DEF At, Endpoint
<1>8. Route(q) = "organizations" => At(q) = ListOrganizationsEndpoint
  BY DEF At, Endpoint
<1>9. Route(q) = "create" =>
       /\ At(q).on["done"] = 201 /\ At(q).errors = {500, 503}
       /\ At(q).session = "required"
  BY <1>1 DEF CreateResourceEndpoint
<1>10. Route(q) = "bulk" =>
       /\ At(q).on["done"] = 200 /\ At(q).on["thrown"] = 500
       /\ At(q).session = "required"
  BY <1>2 DEF BulkCreateEndpoint
<1>11. Route(q) = "update" =>
       /\ At(q).on["done"] = 200 /\ At(q).on["absent"] = 404
       /\ At(q).errors = {500, 503} /\ At(q).session = "required"
  BY <1>3 DEF UpdateResourceEndpoint
<1>12. Route(q) = "remove" =>
       /\ At(q).on["done"] = 204 /\ At(q).errors = {500, 503}
       /\ At(q).session = "required"
  BY <1>4 DEF DeleteResourceEndpoint
<1>13. Route(q) = "list" =>
       /\ At(q).on["done"] = 200 /\ At(q).errors = {500, 503}
       /\ At(q).session = "required"
  BY <1>5 DEF ListResourcesEndpoint
<1>14. Route(q) = "search" =>
       /\ At(q).on["done"] = 200 /\ At(q).errors = {500, 503}
       /\ At(q).session = "optional"
  BY <1>6 DEF SearchEndpoint
<1>15. Route(q) = "get" =>
       /\ At(q).on["done"] = 200 /\ At(q).on["absent"] = 404
       /\ At(q).errors = {500} /\ At(q).session = "none"
  BY <1>7 DEF GetResourceEndpoint
<1>16. Route(q) = "organizations" =>
       /\ At(q).on["done"] = 200 /\ At(q).errors = {500, 503}
       /\ At(q).session = "none"
  BY <1>8 DEF ListOrganizationsEndpoint
<1> QED BY <1>9, <1>10, <1>11, <1>12, <1>13, <1>14, <1>15, <1>16

-----------------------------------------------------------------------------
(* Types, and what the step that a request makes next says of it.          *)

Account == [user : Users, password : {"first", "second"}, role : Roles]
Session == [user : Users, role : Roles, expires : Nat]
Identities == [user : Users, role : Roles]

Types ==
  /\ call \in Calls
  /\ credentials \in [Email -> Account \cup {NoAccount}]
  /\ sessions \in [Tokens -> Session \cup {NoSession}]
  /\ now \in 0 .. MaxTime
  /\ at \in [Requests -> Steps]
  /\ owner \in [Requests -> Identities \cup {Nobody}]
  /\ answer \in [Requests -> [status : Nat, time : Nat, failed : BOOLEAN]]
  /\ begun \in [Requests -> [time : Nat, after : SUBSET Requests]]
  /\ faults \in 0 .. Faults

Authenticated ==
  {"session", "create", "bulk", "update", "remove", "list", "search"}
Works == {"create", "bulk", "remove", "list", "search", "organizations"}

\* Each step is one of certain routes; a session is opened for an account.
RoutedAt(q) ==
  /\ at[q] = "insert" => Route(q) = "signup"
  /\ at[q] = "credential" => Route(q) = "login"
  /\ at[q] = "open" => Route(q) \in {"signup", "login"} /\ owner[q] # Nobody
  /\ at[q] = "authenticate" => Route(q) \in Authenticated
  /\ at[q] = "revoke" => Route(q) = "logout"
  /\ at[q] = "work" => Route(q) \in Works
  /\ at[q] \in {"load", "save"} => Route(q) = "update"
  /\ at[q] \in {"look", "fetch", "fill"} => Route(q) = "get"

Routed == \A q \in Requests : RoutedAt(q)

\* A request has its answer when it is done, and nobody is known to come after
\* a request that has none.
Histories ==
  \A q \in Requests :
    /\ at[q] = "done" <=> Answered(q)
    /\ begun[q].time <= now
    /\ \A p \in begun[q].after : Answered(p)

Shape == Types /\ Routed /\ Histories

\* What a request asks for.
LEMMA CallType ==
  ASSUME Types, NEW q \in Requests
  PROVE  /\ Route(q) \in Routes
         /\ call[q].email \in Email /\ KeyOf(q) \in Email
         /\ call[q].password \in {"first", "second"}
         /\ call[q].token \in Tokens \cup {"none", "malformed"}
         /\ call[q].resource \in Resources
         /\ call[q].units \in Nat /\ call[q].active \in BOOLEAN
         /\ call[q].rows \in Seq({"good", "bad", "scalar"})
<1>1. call[q] \in Call
  BY CallsAssumption DEF Types
<1> QED
  BY <1>1 DEF Call, Route, KeyOf, CredentialKey, Email

\* Two addresses of one name have one key.
LEMMA SameKey ==
  ASSUME Types, NEW p \in Requests, NEW q \in Requests
  PROVE  SameAddress(p, q) <=> KeyOf(p) = KeyOf(q)
BY CallType DEF SameAddress, KeyOf, CredentialKey, Email

\* Documents and the lack of them differ.
LEMMA Absences ==
  /\ "none" \notin Users /\ "malformed" \notin Users
  /\ NoAccount \notin Account /\ NoSession \notin Session
  /\ Nobody \notin Identities
BY TokensAssumption
DEF Users, Tokens, NoAccount, NoSession, Nobody, Account, Session, Identities

-----------------------------------------------------------------------------
(* The steps of a request.                                                 *)

\* What a step makes of its request, and of no other: it goes on, it is
\* answered, or it is where it was.
Moves(q) ==
  \/ \E s \in Steps \ {"new", "done"} : Goes(q, s)
  \/ \E status \in Nat \ {0}, failed \in BOOLEAN : AnswersWith(q, status, failed)
  \/ at[q] = "work" /\ UNCHANGED <<at, answer>>

\* What is received is refused, or goes on to its first step.
LEMMA ReceiveCases ==
  ASSUME Types, NEW q \in Requests, Receive(q)
  PROVE  \/ Answers(q, 400) /\ Route(q) # "logout"
         \/ /\ Answers(q, 401) /\ call[q].token = "none"
            /\ Route(q) \in Authenticated \cup {"logout"}
         \/ Goes(q, FirstStep(Route(q)))
         \/ Goes(q, "work") /\ Route(q) = "search"
<1>1. CASE \E part \in At(q).before : ~call[q][part]
  <2>1. Answers(q, 400)
    BY <1>1 DEF Receive
  <2> QED
    BY <1>1, <2>1, AccountControllers
<1>2. CASE /\ ~\E part \in At(q).before : ~call[q][part]
           /\ At(q).session # "none" /\ call[q].token = "none"
  <2>1. Refuse(q, 401)
    BY <1>2 DEF Receive
  <2>2. CASE At(q).session = "optional"
    <3>1. Route(q) = "search"
      BY <2>2, CallType, RouteNames, AccountControllers, CatalogControllers
    <3> QED
      BY <2>1, <2>2, <3>1 DEF Refuse, Proceed
  <2>3. CASE At(q).session # "optional"
    <3>1. Route(q) \in Authenticated \cup {"logout"}
      BY <1>2, <2>3, CallType, RouteNames, AccountControllers, CatalogControllers
      DEF Authenticated
    <3> QED
      BY <1>2, <2>1, <2>3, <3>1 DEF Refuse
  <2> QED
    BY <2>2, <2>3
<1>3. CASE /\ ~\E part \in At(q).before : ~call[q][part]
           /\ At(q).session = "none" \/ call[q].token # "none"
  BY <1>3 DEF Receive
<1> QED
  BY <1>1, <1>2, <1>3

\* A request that is let in goes to its work, unless its body is no good.
LEMMA ProceedCases ==
  ASSUME Types, NEW q \in Requests, Route(q) \in Authenticated, Proceed(q)
  PROVE  \/ Answers(q, 400)
         \/ Answers(q, 200) /\ Route(q) = "session"
         \/ Goes(q, "load") /\ Route(q) = "update"
         \/ Goes(q, "work") /\ Route(q) \in Works
BY AccountControllers DEF Proceed, Ends, Authenticated, Works

\* A request whose session is looked up goes to its work or is refused.
LEMMA AuthenticateCases ==
  ASSUME Types, Routed, NEW q \in Requests, at[q] = "authenticate",
         Authenticate(q) \/ AuthenticateFails(q)
  PROVE  \/ \E status \in {400, 401, 403, 503} : Answers(q, status)
         \/ Answers(q, 200) /\ Route(q) = "session"
         \/ Goes(q, "load") /\ Route(q) = "update"
         \/ Goes(q, "work") /\ Route(q) \in Works
<1>1. Route(q) \in Authenticated
  BY DEF Routed, RoutedAt
<1>2. \/ Proceed(q)
      \/ \E status \in {400, 401, 403, 503} : Answers(q, status)
  BY DEF Authenticate, AuthenticateFails, Admit, Refuse, AccountStatus
<1> QED
  BY <1>1, <1>2, ProceedCases

\* Being answered, and going on, are moves.
LEMMA MovesBy ==
  ASSUME NEW q \in Requests
  PROVE  /\ \A status \in Nat \ {0} : Answers(q, status) => Moves(q)
         /\ \A s \in Steps \ {"new", "done"} : Goes(q, s) => Moves(q)
BY DEF Moves, Answers

\* The first step of a route is a step.
LEMMA FirstSteps ==
  ASSUME Types, NEW q \in Requests
  PROVE  FirstStep(Route(q)) \in Steps \ {"new", "done"}
BY CallType, RouteNames DEF FirstStep, Steps

IdentitySteps == {"new", "insert", "credential", "open", "authenticate", "revoke"}
CatalogSteps == {"work", "load", "save", "look", "fetch", "fill"}

\* A step of Identity is a move of its request.
LEMMA IdentityMoves ==
  ASSUME Types, Routed, NEW q \in Requests, IdentityStep(q)
  PROVE  /\ Moves(q) /\ at[q] \in IdentitySteps /\ UNCHANGED <<call, now>>
         /\ faults' \in 0 .. Faults
<1> USE DEF IdentitySteps, identityVars
<1> faults \in 0 .. Faults /\ Faults \in Nat
  BY FaultsAssumption DEF Types
<1>1. CASE Receive(q)
  <2>1. Moves(q)
    BY <1>1, ReceiveCases, FirstSteps, MovesBy DEF Steps
  <2> QED
    BY <1>1, <2>1 DEF Receive
<1>2. CASE InsertCredential(q) \/ InsertFails(q)
  <2>1. Route(q) = "signup"
    BY <1>2 DEF InsertCredential, InsertFails, Routed, RoutedAt
  <2>2. Moves(q)
    BY <1>2, <2>1, MovesBy, AccountControllers
    DEF InsertCredential, InsertFails, Ends, EndsInError, Steps
  <2> QED
    BY <1>2, <2>2 DEF InsertCredential, InsertFails, Fault
<1>3. CASE ReadCredential(q)
  <2>1. Route(q) = "login"
    BY <1>3 DEF ReadCredential, Routed, RoutedAt
  <2>2. Moves(q)
    BY <1>3, <2>1, MovesBy, AccountControllers DEF ReadCredential, Ends, Steps
  <2> QED
    BY <1>3, <2>2 DEF ReadCredential
<1>4. CASE CreateSession(q) \/ CreateSessionFails(q)
  <2>1. Route(q) \in {"signup", "login"}
    BY <1>4 DEF CreateSession, CreateSessionFails, Routed, RoutedAt
  <2>2. Moves(q)
    BY <1>4, <2>1, MovesBy, AccountControllers
    DEF CreateSession, CreateSessionFails, Ends, EndsInError
  <2> QED
    BY <1>4, <2>2 DEF CreateSession, CreateSessionFails, Fault
<1>5. CASE at[q] = "authenticate" /\ (Authenticate(q) \/ AuthenticateFails(q))
  <2>1. Moves(q)
    BY <1>5, AuthenticateCases, MovesBy DEF Steps
  <2> QED
    BY <1>5, <2>1 DEF Authenticate, AuthenticateFails, Fault
<1>6. CASE at[q] = "credential" /\ AuthenticateFails(q)
  <2>1. Route(q) = "login"
    BY <1>6 DEF Routed, RoutedAt
  <2>2. Moves(q)
    BY <1>6, <2>1, MovesBy, AccountControllers DEF AuthenticateFails, EndsInError
  <2> QED
    BY <1>6, <2>2 DEF AuthenticateFails, Fault
<1>7. CASE Logout(q)
  <2>1. Answers(q, 204)
    BY <1>7, AccountControllers DEF Logout, Ends, Routed, RoutedAt
  <2> QED
    BY <1>7, <2>1, MovesBy DEF Logout
<1>8. CASE LogoutFails(q)
  <2>1. AnswersWith(q, 204, TRUE)
    BY <1>8, AccountControllers DEF LogoutFails, Routed, RoutedAt
  <2>2. Moves(q)
    <3>1. 204 \in Nat \ {0} /\ TRUE \in BOOLEAN
      OBVIOUS
    <3> QED
      BY <2>1, <3>1, Zenon DEF Moves
  <2>3. faults' = faults - 1 /\ faults > 0
    BY <1>8 DEF LogoutFails, Fault
  <2> QED
    BY <1>8, <2>2, <2>3 DEF LogoutFails
<1> QED
  BY <1>1, <1>2, <1>3, <1>4, <1>5, <1>6, <1>7, <1>8
  DEF IdentityStep, Authenticate, AuthenticateFails

\* A step of Catalog is a move of its request, and touches no account.
LEMMA CatalogMoves ==
  ASSUME Types, Routed, NEW q \in Requests, CatalogStep(q)
  PROVE  /\ Moves(q) /\ at[q] \in CatalogSteps
         /\ \/ at'[q] \in {"done", at[q]}
            \/ at[q] = "load" /\ at'[q] = "save"
            \/ at[q] \in {"look", "fetch"} /\ at'[q] \in {"fetch", "fill"}
         /\ UNCHANGED <<Elsewhere>>
         /\ faults' \in 0 .. Faults
<1> USE DEF CatalogSteps
<1> faults \in 0 .. Faults /\ Faults \in Nat
  BY FaultsAssumption DEF Types
<1>1. CASE Load(q) \/ LoadFails(q) \/ Save(q) \/ SaveFails(q)
  <2>1. Route(q) = "update" /\ at[q] \in CatalogSteps
    BY <1>1 DEF Load, LoadFails, Save, SaveFails, Routed, RoutedAt
  <2>2. Moves(q)
    BY <1>1, <2>1, MovesBy, CatalogControllers
    DEF Load, LoadFails, Save, SaveFails, Ends, EndsInError, Steps
  <2> QED
    BY <1>1, <2>1, <2>2
    DEF Load, LoadFails, Save, SaveFails, Fault, Ends, EndsInError, Answers,
        AnswersWith, Goes, Types
<1>2. CASE Remove(q) \/ RemoveFails(q) \/ Create(q) \/ CreateFails(q)
  <2>1. Route(q) \in {"remove", "create"} /\ at[q] = "work"
    BY <1>2 DEF Remove, RemoveFails, Create, CreateFails, Working
  <2>2. Moves(q)
    BY <1>2, <2>1, MovesBy, CatalogControllers
    DEF Remove, RemoveFails, Create, CreateFails, Ends, EndsInError
  <2> QED
    BY <1>2, <2>1, <2>2
    DEF Remove, RemoveFails, Create, CreateFails, Fault, Ends, EndsInError,
        Answers, AnswersWith, Types
<1>3. CASE InsertRow(q) \/ InsertRowFails(q) \/ SkipRow(q)
  BY <1>3 DEF InsertRow, InsertRowFails, SkipRow, RowIs, MoreRows, Working, Moves,
              Elsewhere, Fault
<1>4. CASE AbortBulk(q) \/ AnswerBulk(q)
  <2>1. Route(q) = "bulk" /\ at[q] = "work"
    BY <1>4 DEF AbortBulk, AnswerBulk, RowIs, MoreRows, Working
  <2>2. Moves(q)
    BY <1>4, <2>1, MovesBy, CatalogControllers DEF AbortBulk, AnswerBulk, Ends
  <2> QED
    BY <1>4, <2>1, <2>2
    DEF AbortBulk, AnswerBulk, Ends, Answers, AnswersWith, Types
<1>5. CASE List(q) \/ Search(q) \/ ListOrganizations(q) \/ QueryFails(q)
  <2>1. Route(q) \in {"list", "search", "organizations"} /\ at[q] = "work"
    BY <1>5 DEF List, Search, ListOrganizations, QueryFails, Working
  <2>2. Moves(q)
    BY <1>5, <2>1, MovesBy, CatalogControllers
    DEF List, Search, ListOrganizations, QueryFails, Ends, EndsInError
  <2> QED
    BY <1>5, <2>1, <2>2
    DEF List, Search, ListOrganizations, QueryFails, Fault, Ends, EndsInError,
        Answers, AnswersWith, Types
<1>6. CASE Look(q) \/ LookFails(q) \/ Fetch(q) \/ FetchFails(q) \/ Fill(q) \/ FillFails(q)
  <2>1. Route(q) = "get" /\ at[q] \in CatalogSteps
    BY <1>6 DEF Look, LookFails, Fetch, FetchFails, Fill, FillFails, Routed, RoutedAt
  <2>2. Moves(q)
    BY <1>6, <2>1, MovesBy, CatalogControllers
    DEF Look, LookFails, Fetch, FetchFails, Fill, FillFails, Ends, EndsInError, Steps
  <2> QED
    BY <1>6, <2>1, <2>2
    DEF Look, LookFails, Fetch, FetchFails, Fill, FillFails, Fault, Ends,
        EndsInError, Answers, AnswersWith, Goes, Types
<1> QED
  BY <1>1, <1>2, <1>3, <1>4, <1>5, <1>6 DEF CatalogStep

-----------------------------------------------------------------------------
(* Type correctness.                                                       *)

\* A move keeps the types of what it writes, and leaves other requests alone.
LEMMA MovesKeep ==
  ASSUME Types, NEW q \in Requests, Moves(q)
  PROVE  /\ at' \in [Requests -> Steps]
         /\ answer' \in [Requests -> [status : Nat, time : Nat, failed : BOOLEAN]]
         /\ \A p \in Requests \ {q} : at'[p] = at[p] /\ answer'[p] = answer[p]
         /\ at'[q] # "new"
         /\ \/ at'[q] = "done" /\ answer'[q].status # 0 /\ answer'[q].time = now
            \/ at'[q] # "done" /\ answer'[q] = answer[q]
<1>1. CASE \E s \in Steps \ {"new", "done"} : Goes(q, s)
  BY <1>1 DEF Goes, Types
<1>2. CASE \E status \in Nat \ {0}, failed \in BOOLEAN : AnswersWith(q, status, failed)
  <2>1. PICK status \in Nat \ {0}, failed \in BOOLEAN :
          AnswersWith(q, status, failed)
    BY <1>2
  <2> DEFINE new == [status |-> status, time |-> now, failed |-> failed]
  <2>2. /\ new \in [status : Nat, time : Nat, failed : BOOLEAN]
        /\ new.status # 0 /\ new.time = now
    BY <2>1, TimesAssumption DEF Types
  <2>3. at' = [at EXCEPT ![q] = "done"] /\ answer' = [answer EXCEPT ![q] = new]
    BY <2>1 DEF AnswersWith
  <2> HIDE DEF new
  <2> QED
    BY <2>2, <2>3 DEF Types, Steps
<1>3. CASE at[q] = "work" /\ UNCHANGED <<at, answer>>
  BY <1>3 DEF Types
<1> QED
  BY <1>1, <1>2, <1>3 DEF Moves

\* What a step of Identity writes has its type, and is its request's own.
LEMMA IdentityWrites ==
  ASSUME Types, Routed, NEW q \in Requests, IdentityStep(q)
  PROVE  /\ credentials' \in [Email -> Account \cup {NoAccount}]
         /\ sessions' \in [Tokens -> Session \cup {NoSession}]
         /\ owner' \in [Requests -> Identities \cup {Nobody}]
         /\ begun' \in [Requests -> [time : Nat, after : SUBSET Requests]]
         /\ \A p \in Requests \ {q} : owner'[p] = owner[p] /\ begun'[p] = begun[p]
         /\ at[q] # "new" => UNCHANGED begun
         /\ at[q] = "new" =>
              begun'[q] = [time |-> now, after |-> {p \in Requests : Answered(p)}]
         /\ Routed'
<1> now \in Nat /\ Lifetime \in Nat
  BY TimesAssumption DEF Types
<1>m. /\ \A p \in Requests \ {q} : at'[p] = at[p] /\ answer'[p] = answer[p]
      /\ call' = call
  BY IdentityMoves, MovesKeep
<1>r. /\ \A p \in Requests \ {q} : owner'[p] = owner[p]
      /\ RoutedAt(q)'
      => Routed'
  BY <1>m DEF Routed, RoutedAt, Route
<1>1. CASE Receive(q)
  <2>1. /\ begun' = [begun EXCEPT ![q] =
             [time |-> now, after |-> {p \in Requests : Answered(p)}]]
        /\ UNCHANGED <<credentials, sessions, owner>> /\ at[q] = "new"
    BY <1>1 DEF Receive, identityVars
  <2>2. RoutedAt(q)'
    BY <1>1, <1>m, ReceiveCases, CallType, RouteNames
    DEF RoutedAt, Route, Answers, AnswersWith, Goes, FirstStep, Types, Works,
        Authenticated
  <2> QED
    BY <1>r, <2>1, <2>2 DEF Types
<1>2. CASE InsertCredential(q) \/ InsertFails(q)
  <2>1. Route(q) = "signup" /\ at[q] = "insert"
    BY <1>2 DEF InsertCredential, InsertFails, Routed, RoutedAt
  <2>2. [user |-> q, password |-> call[q].password, role |-> "MEMBER"] \in Account
    BY CallType DEF Account, Users, Roles
  <2>3. credentials' \in [Email -> Account \cup {NoAccount}]
    BY <1>2, <2>2, CallType DEF InsertCredential, InsertFails, StoreCredential, Types
  <2>4. [user |-> q, role |-> "MEMBER"] \in Identities
    BY DEF Identities, Users, Roles
  <2>5. /\ owner' \in [Requests -> Identities \cup {Nobody}]
        /\ \A p \in Requests \ {q} : owner'[p] = owner[p]
        /\ at'[q] = "open" => owner'[q] # Nobody
    BY <1>2, <2>4, Absences
    DEF InsertCredential, InsertFails, Types, Ends, EndsInError, Answers, AnswersWith
  <2>6. at'[q] \in {"open", "done"}
    BY <1>2
    DEF InsertCredential, InsertFails, Types, Ends, EndsInError, Answers,
        AnswersWith, Goes
  <2>7. RoutedAt(q)'
    BY <2>1, <2>5, <2>6, <1>m DEF RoutedAt, Route
  <2> QED
    BY <1>2, <1>r, <2>1, <2>3, <2>5, <2>7 DEF InsertCredential, InsertFails, Types
<1>3. CASE ReadCredential(q)
  <2>1. Route(q) = "login" /\ at[q] = "credential"
    BY <1>3 DEF ReadCredential, Routed, RoutedAt
  <2>2. Credential(q) # NoAccount =>
          [user |-> Credential(q).user, role |-> Credential(q).role] \in Identities
    BY CallType DEF Credential, Types, Account, Identities
  <2>3. /\ owner' \in [Requests -> Identities \cup {Nobody}]
        /\ \A p \in Requests \ {q} : owner'[p] = owner[p]
        /\ at'[q] = "open" => owner'[q] # Nobody
    BY <1>3, <2>2, Absences
    DEF ReadCredential, Types, Ends, Answers, AnswersWith
  <2>4. at'[q] \in {"open", "done"}
    BY <1>3 DEF ReadCredential, Types, Ends, Answers, AnswersWith, Goes
  <2>5. RoutedAt(q)'
    BY <2>1, <2>3, <2>4, <1>m DEF RoutedAt, Route
  <2> QED
    BY <1>3, <1>r, <2>1, <2>3, <2>5 DEF ReadCredential, Types, identityVars
<1>4. CASE CreateSession(q) \/ CreateSessionFails(q)
  <2>1. owner[q] # Nobody /\ at[q] = "open"
    BY <1>4 DEF CreateSession, CreateSessionFails, Routed, RoutedAt
  <2>2. owner[q].user \in Users /\ owner[q].role \in Roles
    BY <2>1 DEF Types, Identities
  <2>3. SessionOf(q) \in Session
    BY <2>2 DEF SessionOf, Session
  <2>4. sessions' \in [Tokens -> Session \cup {NoSession}]
    BY <1>4, <2>3 DEF CreateSession, CreateSessionFails, Types, Tokens
  <2>5. at'[q] = "done"
    BY <1>4 DEF CreateSession, CreateSessionFails, Types, Ends, EndsInError,
                Answers, AnswersWith
  <2> QED
    BY <1>4, <1>r, <2>1, <2>4, <2>5
    DEF CreateSession, CreateSessionFails, Types, RoutedAt
<1>5. CASE at[q] = "authenticate" /\ Authenticate(q)
  <2>1. Valid(Presented(q)) =>
          [user |-> Presented(q).user, role |-> Presented(q).role] \in Identities
    BY DEF Valid, Presented, Types, Session, Identities
  <2>2. /\ owner' \in [Requests -> Identities \cup {Nobody}]
        /\ \A p \in Requests \ {q} : owner'[p] = owner[p]
    BY <1>5, <2>1 DEF Authenticate, Types
  <2>3. RoutedAt(q)'
    BY <1>5, <1>m, AuthenticateCases
    DEF RoutedAt, Route, Answers, AnswersWith, Goes, Types
  <2> QED
    BY <1>5, <1>r, <2>2, <2>3 DEF Authenticate, Types, identityVars
<1>6. CASE at[q] = "authenticate" /\ AuthenticateFails(q)
  <2>1. RoutedAt(q)'
    BY <1>6, <1>m, AuthenticateCases
    DEF RoutedAt, Route, Answers, AnswersWith, Goes, Types
  <2> QED
    BY <1>6, <1>r, <2>1 DEF AuthenticateFails, Types, identityVars
<1>7. CASE at[q] = "credential" /\ AuthenticateFails(q)
  <2>1. at'[q] = "done"
    BY <1>7 DEF AuthenticateFails, Types, EndsInError, Answers, AnswersWith
  <2> QED
    BY <1>7, <1>r, <2>1 DEF AuthenticateFails, Types, identityVars, RoutedAt
<1>8. CASE Logout(q) \/ LogoutFails(q)
  <2>1. Removed(call[q].token) \in [Tokens -> Session \cup {NoSession}]
    BY DEF Removed, Types
  <2>2. sessions' \in [Tokens -> Session \cup {NoSession}] /\ at[q] = "revoke"
    BY <1>8, <2>1 DEF Logout, LogoutFails, Types
  <2>3. at'[q] = "done"
    BY <1>8 DEF Logout, LogoutFails, Types, Ends, Answers, AnswersWith
  <2> QED
    BY <1>8, <1>r, <2>2, <2>3 DEF Logout, LogoutFails, Types, RoutedAt
<1> QED
  BY <1>1, <1>2, <1>3, <1>4, <1>5, <1>6, <1>7, <1>8
  DEF IdentityStep, Authenticate, AuthenticateFails

\* Types, the routes of the steps and the histories hold at first.
LEMMA ShapeInit == Init => Shape
<1> SUFFICES ASSUME Init PROVE Shape
  OBVIOUS
<1> USE DEF Init, IdentityInit
<1>1. \A t \in Staff : [user |-> t, role |-> "APPROVER", expires |-> Lifetime] \in Session
  BY TimesAssumption DEF Session, Users, Roles, AdminRoles
<1>2. sessions \in [Tokens -> Session \cup {NoSession}]
  BY <1>1
<1>3. Unanswered \in [status : Nat, time : Nat, failed : BOOLEAN]
  BY DEF Unanswered
<1>4. Types
  BY <1>2, <1>3, TimesAssumption, FaultsAssumption DEF Types, Steps
<1>5. Routed
  BY DEF Routed, RoutedAt
<1>6. Histories
  BY DEF Histories, Answered, Unanswered
<1> QED
  BY <1>4, <1>5, <1>6 DEF Shape

\* Who has an answer keeps it, and whom a request knows to come before it.
LEMMA ShapeNext == Shape /\ [Next]_vars => Shape'
<1> SUFFICES ASSUME Shape, [Next]_vars PROVE Shape'
  OBVIOUS
<1> Types /\ Routed /\ Histories
  BY DEF Shape
<1> now \in Nat /\ MaxTime \in Nat
  BY TimesAssumption DEF Types
<1>1. ASSUME NEW q \in Requests, IdentityStep(q) PROVE Shape'
  <2>1. /\ Moves(q) /\ at[q] # "done" /\ UNCHANGED <<call, now>>
        /\ faults' \in 0 .. Faults
    BY <1>1, IdentityMoves DEF IdentitySteps
  <2>2. /\ at' \in [Requests -> Steps]
        /\ answer' \in [Requests -> [status : Nat, time : Nat, failed : BOOLEAN]]
        /\ \A p \in Requests \ {q} : at'[p] = at[p] /\ answer'[p] = answer[p]
        /\ \/ at'[q] = "done" /\ answer'[q].status # 0
           \/ at'[q] # "done" /\ answer'[q] = answer[q]
    BY <2>1, MovesKeep
  <2>3. Types' /\ Routed'
    BY <1>1, <2>1, <2>2, IdentityWrites DEF Types
  <2>4. ~Answered(q)
    BY <2>1 DEF Histories
  <2>5. Histories'
    <3> SUFFICES ASSUME NEW p \in Requests
                 PROVE  /\ (at[p] = "done" <=> Answered(p))'
                        /\ (begun[p].time <= now)'
                        /\ \A o \in begun'[p].after : Answered(o)'
      BY DEF Histories
    <3>1. (at[p] = "done" <=> Answered(p))'
      BY <2>1, <2>2, <2>4 DEF Histories, Answered
    <3>2. \A o \in Requests : Answered(o) => Answered(o)'
      BY <2>2, <2>4 DEF Answered
    <3>3. \/ begun'[p] = begun[p]
          \/ begun'[p] = [time |-> now, after |-> {o \in Requests : Answered(o)}]
      BY <1>1, IdentityWrites
    <3>4. begun[p].after \subseteq Requests
      BY DEF Types
    <3>5. (begun[p].time <= now)'
      BY <2>1, <3>3 DEF Histories
    <3>6. ASSUME NEW o \in begun'[p].after PROVE Answered(o)'
      BY <3>2, <3>3, <3>4, <3>6 DEF Histories
    <3> QED
      BY <3>1, <3>5, <3>6
  <2> QED
    BY <2>3, <2>5 DEF Shape
<1>2. ASSUME NEW q \in Requests, CatalogStep(q) PROVE Shape'
  <2>1. /\ Moves(q) /\ at[q] \in CatalogSteps
        /\ \/ at'[q] \in {"done", at[q]}
           \/ at[q] = "load" /\ at'[q] = "save"
           \/ at[q] \in {"look", "fetch"} /\ at'[q] \in {"fetch", "fill"}
        /\ UNCHANGED <<call, credentials, sessions, owner, now, begun>>
        /\ faults' \in 0 .. Faults
    BY <1>2, CatalogMoves DEF Elsewhere, identityVars
  <2>2. /\ at' \in [Requests -> Steps]
        /\ answer' \in [Requests -> [status : Nat, time : Nat, failed : BOOLEAN]]
        /\ \A p \in Requests \ {q} : at'[p] = at[p] /\ answer'[p] = answer[p]
        /\ \/ at'[q] = "done" /\ answer'[q].status # 0
           \/ at'[q] # "done" /\ answer'[q] = answer[q]
    BY <2>1, MovesKeep
  <2>3. Types'
    BY <2>1, <2>2 DEF Types
  <2>4. Routed'
    BY <2>1, <2>2 DEF Routed, RoutedAt, Route, CatalogSteps
  <2>5. ~Answered(q) /\ at[q] # "done"
    BY <2>1 DEF Histories, CatalogSteps
  <2>6. Histories'
    BY <2>1, <2>2, <2>5 DEF Histories, Answered, Types
  <2> QED
    BY <2>3, <2>4, <2>6 DEF Shape
<1>3. CASE Tick
  <2>1. Types'
    BY <1>3 DEF Tick, Types, requestVars, identityVars
  <2>2. Routed' /\ Histories'
    BY <1>3 DEF Tick, Routed, RoutedAt, Route, Histories, Answered, requestVars,
                identityVars, Types
  <2> QED
    BY <2>1, <2>2 DEF Shape
<1>4. CASE UNCHANGED vars
  BY <1>4 DEF vars, requestVars, identityVars, Shape, Types, Routed, RoutedAt, Route,
              Histories, Answered
<1> QED
  BY <1>1, <1>2, <1>3, <1>4 DEF Next

\* The types hold throughout.
THEOREM ShapeKept == Spec => []Shape
BY ShapeInit, ShapeNext, PTL DEF Spec

\* The types of Identity hold throughout.
THEOREM IdentityTypeCorrect == Spec => []IdentityTypeOK
<1>1. Shape => IdentityTypeOK
  BY DEF Shape, Types, Histories, Answered, IdentityTypeOK, Account, Session, Identities
<1> QED
  BY <1>1, ShapeKept, PTL

\* What no step changes: what was asked for, when a request was received and
\* after what, and everything about a request that has its answer.
LEMMA Frozen ==
  ASSUME Shape, [Next]_vars
  PROVE  /\ call' = call
         /\ now \in Nat /\ now' \in Nat /\ now <= now'
         /\ \A p \in Requests : at[p] # "new" =>
              at'[p] # "new" /\ begun'[p] = begun[p]
         /\ \A p \in Requests : at'[p] # "new" =>
              \/ at[p] # "new"
              \/ begun'[p] = [time |-> now, after |-> {o \in Requests : Answered(o)}]
         /\ \A p \in Requests : Answered(p) =>
              /\ at[p] = "done" /\ at'[p] = "done" /\ Answered(p)'
              /\ answer'[p] = answer[p] /\ owner'[p] = owner[p]
         /\ \A p, q \in Requests : Before(p, q) => Answered(p)
<1> Types /\ Routed /\ Histories /\ Shape'
  BY ShapeNext DEF Shape
<1>0. \A p, q \in Requests : Before(p, q) => Answered(p)
  BY DEF Before, Histories
<1>1. now \in Nat /\ now' \in Nat
  BY TimesAssumption DEF Shape, Types
<1>2. ASSUME NEW q \in Requests,
             \/ IdentityStep(q) /\ UNCHANGED catalogVars
             \/ CatalogStep(q)
      PROVE  /\ Moves(q) /\ at[q] # "done" /\ call' = call /\ now' = now
             /\ \A p \in Requests \ {q} : owner'[p] = owner[p] /\ begun'[p] = begun[p]
             /\ at[q] # "new" => UNCHANGED begun
             /\ at[q] = "new" =>
                  begun'[q] = [time |-> now, after |-> {p \in Requests : Answered(p)}]
  BY <1>2, IdentityMoves, IdentityWrites, CatalogMoves
  DEF IdentitySteps, CatalogSteps, Elsewhere
<1>3. CASE \E q \in Requests : \/ IdentityStep(q) /\ UNCHANGED catalogVars
                               \/ CatalogStep(q)
  <2>1. PICK q \in Requests : \/ IdentityStep(q) /\ UNCHANGED catalogVars
                              \/ CatalogStep(q)
    BY <1>3
  <2>2. /\ \A p \in Requests \ {q} : at'[p] = at[p] /\ answer'[p] = answer[p]
        /\ at'[q] # "new"
    BY <1>2, <2>1, MovesKeep
  <2>3. /\ at[q] # "done" /\ ~Answered(q) /\ call' = call /\ now' = now
        /\ \A p \in Requests \ {q} : owner'[p] = owner[p] /\ begun'[p] = begun[p]
        /\ at[q] # "new" => begun'[q] = begun[q]
        /\ at[q] = "new" =>
             begun'[q] = [time |-> now, after |-> {p \in Requests : Answered(p)}]
    BY <1>2, <2>1 DEF Histories
  <2>4. ASSUME NEW p \in Requests, Answered(p)
        PROVE  /\ at[p] = "done" /\ at'[p] = "done" /\ Answered(p)'
               /\ answer'[p] = answer[p] /\ owner'[p] = owner[p]
    BY <2>2, <2>3, <2>4 DEF Histories, Answered
  <2>5. ASSUME NEW p \in Requests
        PROVE  /\ at[p] # "new" => at'[p] # "new" /\ begun'[p] = begun[p]
               /\ at'[p] # "new" =>
                    \/ at[p] # "new"
                    \/ begun'[p] = [time |-> now,
                                    after |-> {o \in Requests : Answered(o)}]
    BY <2>2, <2>3, <2>5
  <2> QED
    BY <1>0, <1>1, <2>3, <2>4, <2>5
<1>4. CASE Tick \/ UNCHANGED vars
  BY <1>0, <1>1, <1>4 DEF Tick, vars, requestVars, identityVars, Histories, Answered
<1> QED
  BY <1>3, <1>4 DEF Next

-----------------------------------------------------------------------------
(* Accounts.                                                               *)

\* The document under an address is that of a sign-up which inserted it.
FoundedBy(k, p) ==
  /\ p \in Requests /\ Route(p) = "signup" /\ KeyOf(p) = k
  /\ credentials[k].password = call[p].password
  /\ at[p] \in {"open", "done"}
  /\ answer[p].status \notin {400, 409}

Founded ==
  \A k \in Email :
    credentials[k] # NoAccount => FoundedBy(k, credentials[k].user)

\* A sign-up that got beyond its insert is the founder, one that was told 409
\* is not.
SignUpKnows(q) ==
  Route(q) = "signup" =>
    /\ at[q] = "open" \/ answer[q].status = 201 =>
         Credential(q) # NoAccount /\ Credential(q).user = q
    /\ answer[q].status = 409 => Credential(q) # NoAccount /\ Credential(q).user # q

\* A login was told what the credential says.
LogInKnows(l) ==
  Route(l) = "login" =>
    /\ at[l] = "open" \/ answer[l].status = 200 =>
         Credential(l) # NoAccount /\ Credential(l).password = call[l].password
    /\ answer[l].status = 401 =>
         Credential(l) # NoAccount /\ Credential(l).password # call[l].password
    /\ answer[l].status = 404 =>
         \A q \in Requests :
           Route(q) = "signup" /\ answer[q].status = 409 /\ KeyOf(q) = KeyOf(l) =>
             ~Before(q, l)

Accounts ==
  /\ Founded
  /\ \A q \in Requests : SignUpKnows(q) /\ LogInKnows(q)

\* What a step of its own makes of a sign-up.
LEMMA SignUpCases ==
  ASSUME Shape, NEW q \in Requests, Route(q) = "signup", IdentityStep(q)
  PROVE  \/ /\ at[q] = "new" /\ UNCHANGED credentials
            /\ \/ at'[q] = "insert" /\ answer'[q] = answer[q]
               \/ at'[q] = "done" /\ answer'[q].status = 400
         \/ /\ at[q] = "insert" /\ StoreCredential(q) /\ Credential(q) = NoAccount
            /\ \/ at'[q] = "open" /\ answer'[q] = answer[q]
               \/ at'[q] = "done" /\ answer'[q].status = 503
         \/ /\ at[q] = "insert" /\ UNCHANGED credentials /\ at'[q] = "done"
            /\ \/ answer'[q].status = 409 /\ Credential(q) # NoAccount
               \/ answer'[q].status = 503
         \/ /\ at[q] = "open" /\ UNCHANGED credentials /\ at'[q] = "done"
            /\ answer'[q].status \in {201, 503}
<1> Types /\ Routed
  BY DEF Shape
<1>1. CASE Receive(q)
  <2>1. Answers(q, 400) \/ Goes(q, "insert")
    BY <1>1, ReceiveCases DEF FirstStep, Authenticated
  <2> QED
    BY <1>1, <2>1 DEF Receive, identityVars, Answers, AnswersWith, Goes, Types
<1>2. CASE InsertCredential(q)
  BY <1>2, AccountControllers
  DEF InsertCredential, StoreCredential, Ends, Answers, AnswersWith, Goes, Types
<1>3. CASE InsertFails(q)
  <2>1. Answers(q, 503)
    BY <1>3, AccountControllers DEF InsertFails, EndsInError
  <2>2. at'[q] = "done" /\ answer'[q].status = 503
    BY <2>1 DEF Answers, AnswersWith, Types
  <2> QED
    BY <1>3, <2>2 DEF InsertFails, StoreCredential
<1>4. CASE CreateSession(q) \/ CreateSessionFails(q)
  <2>1. \E status \in {201, 503} : Answers(q, status)
    BY <1>4, AccountControllers DEF CreateSession, CreateSessionFails, Ends, EndsInError
  <2> QED
    BY <1>4, <2>1
    DEF CreateSession, CreateSessionFails, Answers, AnswersWith, Types
<1>5. CASE \/ ReadCredential(q) \/ Authenticate(q) \/ AuthenticateFails(q)
           \/ Logout(q) \/ LogoutFails(q)
  BY <1>5
  DEF ReadCredential, Authenticate, AuthenticateFails, Logout, LogoutFails, Routed,
      RoutedAt, Authenticated
<1> QED
  BY <1>1, <1>2, <1>3, <1>4, <1>5 DEF IdentityStep

\* What a step of its own makes of a login, and that others write no credential.
LEMMA LogInCases ==
  ASSUME Shape, NEW q \in Requests, Route(q) # "signup", IdentityStep(q)
  PROVE  /\ UNCHANGED credentials
         /\ Route(q) = "login" =>
              \/ at'[q] = "done" /\ answer'[q].status \in {400, 503}
              \/ at[q] = "new" /\ at'[q] = "credential" /\ answer'[q] = answer[q]
              \/ /\ at[q] = "credential" /\ Credential(q) = NoAccount
                 /\ at'[q] = "done" /\ answer'[q].status = 404
              \/ /\ at[q] = "credential" /\ Credential(q) # NoAccount
                 /\ Credential(q).password # call[q].password
                 /\ at'[q] = "done" /\ answer'[q].status = 401
              \/ /\ at[q] = "credential" /\ Credential(q) # NoAccount
                 /\ Credential(q).password = call[q].password
                 /\ at'[q] = "open" /\ answer'[q] = answer[q]
              \/ at[q] = "open" /\ at'[q] = "done" /\ answer'[q].status = 200
<1> Types /\ Routed
  BY DEF Shape
<1>1. CASE Receive(q)
  BY <1>1, ReceiveCases
  DEF Receive, identityVars, Answers, AnswersWith, Goes, FirstStep, Types,
      Authenticated
<1>2. CASE InsertCredential(q) \/ InsertFails(q)
  BY <1>2 DEF InsertCredential, InsertFails, Routed, RoutedAt
<1>3. CASE ReadCredential(q)
  BY <1>3, AccountControllers
  DEF ReadCredential, identityVars, Ends, Answers, AnswersWith, Goes, Types, Routed,
      RoutedAt
<1>4. CASE CreateSession(q) \/ CreateSessionFails(q)
  <2>1. Route(q) = "login" /\ at[q] = "open"
    BY <1>4 DEF CreateSession, CreateSessionFails, Routed, RoutedAt
  <2>2. \E status \in {200, 503} : Answers(q, status)
    BY <1>4, <2>1, AccountControllers
    DEF CreateSession, CreateSessionFails, Ends, EndsInError
  <2> QED
    BY <1>4, <2>1, <2>2
    DEF CreateSession, CreateSessionFails, Answers, AnswersWith, Types
<1>5. CASE at[q] = "credential" /\ AuthenticateFails(q)
  <2>1. Answers(q, 503)
    BY <1>5, AccountControllers DEF AuthenticateFails, EndsInError, Routed, RoutedAt
  <2> QED
    BY <1>5, <2>1 DEF AuthenticateFails, identityVars, Answers, AnswersWith, Types
<1>6. CASE at[q] # "credential" /\ (Authenticate(q) \/ AuthenticateFails(q))
  BY <1>6
  DEF Authenticate, AuthenticateFails, identityVars, Routed, RoutedAt, Authenticated
<1>7. CASE Logout(q) \/ LogoutFails(q)
  BY <1>7 DEF Logout, LogoutFails, Routed, RoutedAt
<1> QED
  BY <1>1, <1>2, <1>3, <1>4, <1>5, <1>6, <1>7
  DEF IdentityStep, Authenticate

\* What a request that does not move knows stays true.
LEMMA KnowledgeKept ==
  ASSUME Shape, Accounts, [Next]_vars, NEW p \in Requests,
         \A k \in Email : credentials[k] # NoAccount => credentials'[k] = credentials[k],
         at'[p] = at[p], answer'[p] = answer[p]
  PROVE  SignUpKnows(p)' /\ LogInKnows(p)'
<1> Types
  BY DEF Shape
<1>1. /\ call' = call /\ KeyOf(p) \in Email /\ Route(p)' = Route(p)
      /\ KeyOf(p)' = KeyOf(p)
      /\ Credential(p) # NoAccount => Credential(p)' = Credential(p)
  BY Frozen, CallType DEF Route, KeyOf, Credential
<1>2. SignUpKnows(p)'
  <2>1. SignUpKnows(p)
    BY DEF Accounts
  <2> QED
    BY <1>1, <2>1 DEF SignUpKnows
<1>3. ASSUME NEW q \in Requests, Route(p) = "login", answer[p].status = 404,
             (Route(q) = "signup" /\ answer[q].status = 409 /\ KeyOf(q) = KeyOf(p))'
      PROVE  ~Before(q, p)'
  <2>1. Answered(p) /\ at[p] # "new"
    BY <1>3, Frozen DEF Answered
  <2>2. Before(q, p)' => Before(q, p)
    BY <2>1, Frozen DEF Before
  <2>3. SUFFICES ASSUME Before(q, p) PROVE FALSE
    BY <2>2
  <2>4. answer'[q] = answer[q]
    BY <2>3, Frozen
  <2> QED
    BY <1>1, <1>3, <2>3, <2>4 DEF Accounts, LogInKnows, Route, KeyOf
<1>4. LogInKnows(p)'
  <2>1. LogInKnows(p)
    BY DEF Accounts
  <2> QED
    BY <1>1, <1>3, <2>1 DEF LogInKnows
<1> QED
  BY <1>2, <1>4

\* Accounts are as they are known to be: inserted once, and never changed.
LEMMA AccountsNext == Shape /\ Accounts /\ [Next]_vars => Accounts'
<1> SUFFICES ASSUME Shape, Accounts, [Next]_vars PROVE Accounts'
  OBVIOUS
<1> Types /\ Routed /\ Histories
  BY DEF Shape
<1>c. /\ call' = call
      /\ \A p \in Requests : Route(p)' = Route(p) /\ KeyOf(p)' = KeyOf(p)
  BY Frozen DEF Route, KeyOf
<1>1. ASSUME NEW q \in Requests, IdentityStep(q), Route(q) = "signup" PROVE Accounts'
  <2>1. \A p \in Requests \ {q} : at'[p] = at[p] /\ answer'[p] = answer[p]
    BY <1>1, IdentityMoves, MovesKeep
  <2>2. KeyOf(q) \in Email /\ q \in Users
    BY CallType DEF Users
  <2>3. Credential(q) # NoAccount /\ Credential(q).user = q => at[q] \in {"open", "done"}
    BY <2>2 DEF Accounts, Founded, FoundedBy, Credential
  <2>4. LogInKnows(q)'
    BY <1>1, <1>c DEF LogInKnows
  <2>5. SignUpKnows(q)
    BY DEF Accounts
  <2>6. CASE UNCHANGED credentials
    <3>1. \A p \in Requests \ {q} : SignUpKnows(p)' /\ LogInKnows(p)'
      BY <2>1, <2>6, KnowledgeKept
    <3>2. Credential(q)' = Credential(q)
      BY <1>c, <2>6 DEF Credential
    <3>3. /\ \/ at[q] \in {"new", "insert"} /\ at'[q] \in {"insert", "done"}
             \/ at[q] = "open" /\ at'[q] = "done"
          /\ at[q] = "open" => answer'[q].status \in {201, 503}
          /\ answer'[q].status = 201 => at[q] = "open" \/ answer[q].status = 201
          /\ answer'[q].status = 409 =>
               \/ at[q] = "insert" /\ Credential(q) # NoAccount
               \/ answer[q].status = 409
      <4>1. ~(StoreCredential(q) /\ Credential(q) = NoAccount)
        <5> DEFINE new == [user |-> q, password |-> call[q].password, role |-> "MEMBER"]
        <5>1. new.user # NoAccount.user
          BY <2>2, Absences DEF NoAccount
        <5>2. new # NoAccount
          BY <5>1
        <5> HIDE DEF new
        <5>3. SUFFICES ASSUME StoreCredential(q), Credential(q) = NoAccount PROVE FALSE
          OBVIOUS
        <5>4. credentials' = [credentials EXCEPT ![KeyOf(q)] = new]
          BY <5>3 DEF StoreCredential, new
        <5> QED
          BY <2>2, <2>6, <5>2, <5>3, <5>4 DEF Types, Credential
      <4>2. answer[q].status = 0
        BY <1>1, IdentityMoves DEF IdentitySteps, Histories, Answered
      <4> QED
        BY <1>1, <4>1, <4>2, SignUpCases
    <3>4. SignUpKnows(q)'
      BY <1>c, <2>3, <2>5, <3>2, <3>3 DEF SignUpKnows
    <3>5. ASSUME NEW k \in Email, credentials[k] # NoAccount
          PROVE  FoundedBy(k, credentials[k].user)'
      <4> DEFINE p == credentials[k].user
      <4>1. FoundedBy(k, p)
        BY <3>5 DEF Accounts, Founded
      <4>2. p = q => at[q] = "open"
        BY <3>3, <4>1 DEF FoundedBy
      <4>3. p' = p
        BY <2>6
      <4> HIDE DEF p
      <4>4. FoundedBy(k, p)'
        BY <1>c, <2>1, <2>6, <3>3, <4>1, <4>2, <4>3 DEF FoundedBy, Route, KeyOf
      <4> QED
        BY <4>4 DEF p
    <3>6. Founded'
      BY <2>6, <3>5 DEF Founded
    <3> QED
      BY <2>4, <3>1, <3>4, <3>6 DEF Accounts
  <2>7. CASE /\ at[q] = "insert" /\ StoreCredential(q) /\ Credential(q) = NoAccount
             /\ \/ at'[q] = "open" /\ answer'[q] = answer[q]
                \/ at'[q] = "done" /\ answer'[q].status = 503
    <3> DEFINE new == [user |-> q, password |-> call[q].password, role |-> "MEMBER"]
    <3>1. credentials' = [credentials EXCEPT ![KeyOf(q)] = new]
      BY <2>7 DEF StoreCredential
    <3>2. new # NoAccount /\ new.user = q /\ new.password = call[q].password
      BY <2>2, Absences DEF NoAccount
    <3>3. answer[q].status = 0
      BY <2>7 DEF Histories, Answered
    <3> HIDE DEF new
    <3>4. /\ credentials'[KeyOf(q)] = new
          /\ \A k \in Email \ {KeyOf(q)} : credentials'[k] = credentials[k]
      BY <2>2, <3>1 DEF Types
    <3>5. \A p \in Requests \ {q} : SignUpKnows(p)' /\ LogInKnows(p)'
      BY <2>1, <2>7, <3>4, KnowledgeKept DEF Credential
    <3>6. SignUpKnows(q)'
      BY <1>c, <2>7, <3>2, <3>3, <3>4 DEF SignUpKnows, Credential
    <3>7. ASSUME NEW k \in Email, credentials'[k] # NoAccount
          PROVE  FoundedBy(k, credentials[k].user)'
      <4> DEFINE p == credentials[k].user
      <4>1. CASE k = KeyOf(q)
        <5>1. p' = q
          BY <3>2, <3>4, <4>1
        <5>2. /\ credentials'[k].password = call'[q].password
              /\ at'[q] \in {"open", "done"} /\ answer'[q].status \notin {400, 409}
          BY <1>c, <2>7, <3>2, <3>3, <3>4, <4>1
        <5> HIDE DEF p
        <5>3. FoundedBy(k, p)'
          BY <1>1, <1>c, <4>1, <5>1, <5>2 DEF FoundedBy, Route, KeyOf
        <5> QED
          BY <5>3 DEF p
      <4>2. CASE k # KeyOf(q)
        <5>1. credentials'[k] = credentials[k]
          BY <3>4, <4>2
        <5>2. FoundedBy(k, p)
          BY <3>7, <5>1 DEF Accounts, Founded
        <5>3. p # q
          BY <2>7, <5>2 DEF FoundedBy
        <5>4. p' = p
          BY <5>1
        <5> HIDE DEF p
        <5>5. FoundedBy(k, p)'
          BY <1>c, <2>1, <5>1, <5>2, <5>3, <5>4 DEF FoundedBy, Route, KeyOf
        <5> QED
          BY <5>5 DEF p
      <4> QED
        BY <4>1, <4>2
    <3>8. Founded'
      BY <3>7 DEF Founded
    <3> QED
      BY <2>4, <3>5, <3>6, <3>8 DEF Accounts
  <2> QED
    BY <1>1, <2>6, <2>7, SignUpCases
<1>2. ASSUME UNCHANGED credentials,
             \A p \in Requests : Route(p) = "signup" => at'[p] = at[p] /\ answer'[p] = answer[p]
      PROVE  Founded'
  BY <1>2, <1>c DEF Accounts, Founded, FoundedBy, Route, KeyOf
<1>3. ASSUME NEW q \in Requests, IdentityStep(q), Route(q) # "signup" PROVE Accounts'
  <2>1. \A p \in Requests \ {q} : at'[p] = at[p] /\ answer'[p] = answer[p]
    BY <1>3, IdentityMoves, MovesKeep
  <2>2. UNCHANGED credentials
    BY <1>3, LogInCases
  <2>3. Founded'
    BY <1>2, <1>3, <2>1, <2>2
  <2>4. \A p \in Requests \ {q} : SignUpKnows(p)' /\ LogInKnows(p)'
    BY <2>1, <2>2, KnowledgeKept
  <2>5. SignUpKnows(q)'
    BY <1>3, <1>c DEF SignUpKnows
  <2>6. LogInKnows(q)'
    <3> SUFFICES ASSUME Route(q) = "login" PROVE LogInKnows(q)'
      BY <1>c DEF LogInKnows
    <3>1. Credential(q)' = Credential(q) /\ call'[q] = call[q]
      BY <1>c, <2>2 DEF Credential
    <3>2. LogInKnows(q)
      BY DEF Accounts
    <3>3. answer'[q].status = 404 =>
            \A p \in Requests :
              Route(p)' = "signup" /\ answer'[p].status = 409 /\ KeyOf(p)' = KeyOf(q)' =>
                ~Before(p, q)'
      <4> SUFFICES ASSUME answer'[q].status = 404, NEW p \in Requests,
                          Route(p) = "signup", answer'[p].status = 409,
                          KeyOf(p) = KeyOf(q)
                   PROVE  FALSE
        BY <1>c
      <4>1. p # q
        BY <1>3
      <4>2. Credential(p) # NoAccount
        BY <2>1, <4>1 DEF Accounts, SignUpKnows
      <4>3. answer[q].status = 0
        BY <1>3, IdentityMoves DEF IdentitySteps, Histories, Answered
      <4>4. Credential(q) = NoAccount
        BY <1>3, <4>3, LogInCases
      <4> QED
        BY <4>2, <4>4 DEF Credential
    <3>4. /\ at'[q] = "open" \/ answer'[q].status = 200 =>
               Credential(q) # NoAccount /\ Credential(q).password = call[q].password
          /\ answer'[q].status = 401 =>
               Credential(q) # NoAccount /\ Credential(q).password # call[q].password
      <4>1. answer[q].status = 0
        BY <1>3, IdentityMoves DEF IdentitySteps, Histories, Answered
      <4> QED
        BY <1>3, <3>2, <4>1, LogInCases DEF LogInKnows
    <3> QED
      BY <1>c, <3>1, <3>3, <3>4 DEF LogInKnows
  <2> QED
    BY <2>3, <2>4, <2>5, <2>6 DEF Accounts
<1>4. ASSUME NEW q \in Requests, CatalogStep(q) PROVE Accounts'
  <2>1. /\ \A p \in Requests \ {q} : at'[p] = at[p] /\ answer'[p] = answer[p]
        /\ UNCHANGED credentials /\ at[q] \in CatalogSteps
    BY <1>4, CatalogMoves, MovesKeep DEF Elsewhere, identityVars
  <2>2. Route(q) \notin {"signup", "login"}
    BY <2>1 DEF Routed, RoutedAt, CatalogSteps, Works
  <2>3. Founded'
    BY <1>2, <2>1, <2>2
  <2>4. \A p \in Requests \ {q} : SignUpKnows(p)' /\ LogInKnows(p)'
    BY <2>1, KnowledgeKept
  <2>5. SignUpKnows(q)' /\ LogInKnows(q)'
    BY <2>2, <1>c DEF SignUpKnows, LogInKnows
  <2> QED
    BY <2>3, <2>4, <2>5 DEF Accounts
<1>5. CASE Tick \/ UNCHANGED vars
  <2>1. UNCHANGED <<at, answer, credentials>>
    BY <1>5 DEF Tick, vars, requestVars, identityVars
  <2> QED
    BY <1>2, <2>1, KnowledgeKept DEF Accounts
<1> QED
  BY <1>1, <1>3, <1>4, <1>5 DEF Next

\* What is known of accounts holds throughout.
THEOREM AccountsKept == Spec => []Accounts
<1>1. Init => Accounts
  BY DEF Init, IdentityInit, Accounts, Founded, SignUpKnows, LogInKnows, Unanswered
<1> QED
  BY <1>1, AccountsNext, ShapeKept, PTL DEF Spec

\* At most one sign-up for an address, however it is written, is answered 201.
THEOREM OneAccount == Spec => []OneAccountPerAddress
<1>1. Shape /\ Accounts => OneAccountPerAddress
  <2> SUFFICES ASSUME Shape, Accounts, NEW p \in Requests, NEW q \in Requests,
                      Route(p) = "signup", answer[p].status = 201,
                      Route(q) = "signup", answer[q].status = 201,
                      SameAddress(p, q)
               PROVE  p = q
    BY DEF OneAccountPerAddress
  <2>1. KeyOf(p) = KeyOf(q)
    BY SameKey DEF Shape
  <2> QED
    BY <2>1 DEF Accounts, SignUpKnows, Credential
<1> QED
  BY <1>1, ShapeKept, AccountsKept, PTL

\* Whoever a sign-up lost to gets in with the password it gave, and only so.
THEOREM OwnerIsAdmitted == Spec => []OwnerGetsIn
<1>1. Shape /\ Accounts => OwnerGetsIn
  <2> SUFFICES ASSUME Shape, Accounts, NEW q \in Requests,
                      Route(q) = "signup", answer[q].status = 409
               PROVE  \E p \in Requests \ {q} :
                        /\ Route(p) = "signup" /\ SameAddress(p, q)
                        /\ answer[p].status \notin {400, 409}
                        /\ \A l \in Requests :
                             /\ Route(l) = "login" /\ SameAddress(l, q) /\ Before(q, l)
                             /\ answer[l].status \in {200, 401, 404}
                             => (answer[l].status = 200 <=>
                                   call[l].password = call[p].password)
    BY DEF OwnerGetsIn
  <2> Types
    BY DEF Shape
  <2> DEFINE p == Credential(q).user
  <2>1. Credential(q) # NoAccount /\ p # q
    BY DEF Accounts, SignUpKnows
  <2>2. /\ p \in Requests /\ Route(p) = "signup" /\ KeyOf(p) = KeyOf(q)
        /\ Credential(q).password = call[p].password
        /\ answer[p].status \notin {400, 409}
    BY <2>1, CallType DEF Accounts, Founded, FoundedBy, Credential
  <2>3. ASSUME NEW l \in Requests, Route(l) = "login", SameAddress(l, q), Before(q, l),
               answer[l].status \in {200, 401, 404}
        PROVE  answer[l].status = 200 <=> call[l].password = call[p].password
    <3>1. KeyOf(l) = KeyOf(q) /\ Credential(l) = Credential(q)
      BY <2>3, SameKey DEF Credential
    <3>2. LogInKnows(l)
      BY DEF Accounts
    <3> HIDE DEF p
    <3> QED
      BY <2>2, <2>3, <3>1, <3>2 DEF LogInKnows
  <2>4. SameAddress(p, q)
    BY <2>2, SameKey
  <2> HIDE DEF p
  <2> QED
    BY <2>1, <2>2, <2>3, <2>4
<1> QED
  BY <1>1, ShapeKept, AccountsKept, PTL

-----------------------------------------------------------------------------
(* Sessions.                                                               *)

\* A session opened here expires a lifetime after the answer that gave it out.
Opened(t) ==
  t \in Requests /\ sessions[t] # NoSession =>
    Answered(t) /\ sessions[t].expires = answer[t].time + Lifetime

\* A logout knows its token, and takes its session away unless it failed.
Revoked(l) ==
  Route(l) = "logout" =>
    /\ at[l] # "new" /\ call[l].token \in Requests => Answered(call[l].token)
    /\ Answered(l) /\ call[l].token \in Tokens =>
         answer[l].failed \/ sessions[call[l].token] = NoSession

\* Who was let in presented the token of a session that had not ended.
AdmittedInTime(q) ==
  Route(q) \notin {"signup", "login"} /\ owner[q] # Nobody =>
    /\ at[q] # "new" /\ call[q].token \in Tokens
    /\ call[q].token \in Requests =>
         /\ Answered(call[q].token)
         /\ begun[q].time < answer[call[q].token].time + Lifetime
    /\ \A l \in Requests :
         Route(l) = "logout" /\ call[l].token = call[q].token /\ Before(l, q) =>
           answer[l].failed

SessionsKnown ==
  /\ \A t \in Tokens : Opened(t)
  /\ \A q \in Requests : Revoked(q) /\ AdmittedInTime(q)

\* Only a request at its last step opens a session, and only under its own token.
LEMMA SessionWrites ==
  ASSUME Shape, NEW q \in Requests, IdentityStep(q), NEW t \in Tokens
  PROVE  \/ sessions'[t] \in {sessions[t], NoSession}
         \/ /\ t = q /\ at[q] = "open" /\ sessions'[t].expires = now + Lifetime
            /\ at'[q] = "done" /\ answer'[q].time = now
<1> Types
  BY DEF Shape
<1>1. CASE CreateSession(q) \/ CreateSessionFails(q)
  <2>1. at'[q] = "done" /\ answer'[q].time = now
    BY <1>1 DEF CreateSession, CreateSessionFails, Ends, EndsInError, Answers,
                AnswersWith, Types
  <2>2. UNCHANGED sessions \/ sessions' = [sessions EXCEPT ![q] = SessionOf(q)]
    BY <1>1 DEF CreateSession, CreateSessionFails
  <2> QED
    BY <1>1, <2>1, <2>2 DEF CreateSession, CreateSessionFails, SessionOf, Types
<1>2. CASE Logout(q) \/ LogoutFails(q)
  BY <1>2 DEF Logout, LogoutFails, Removed, Types
<1>3. CASE ~(CreateSession(q) \/ CreateSessionFails(q) \/ Logout(q) \/ LogoutFails(q))
  BY <1>3
  DEF IdentityStep, Receive, InsertCredential, InsertFails, ReadCredential,
      Authenticate, AuthenticateFails, identityVars
<1> QED
  BY <1>1, <1>2, <1>3

\* What a step of its own makes of a logout.
LEMMA LogoutCases ==
  ASSUME Shape, NEW q \in Requests, Route(q) = "logout", IdentityStep(q)
  PROVE  \/ /\ at[q] = "new" /\ Knows(q)
            /\ \/ at'[q] = "done" /\ call[q].token = "none"
               \/ at'[q] = "revoke" /\ answer'[q] = answer[q]
         \/ /\ at[q] = "revoke" /\ at'[q] = "done"
            /\ \/ sessions' = Removed(call[q].token)
               \/ answer'[q].failed
<1> Types /\ Routed
  BY DEF Shape
<1>1. CASE Receive(q)
  <2>1. \/ Answers(q, 401) /\ call[q].token = "none"
        \/ Goes(q, "revoke")
    BY <1>1, ReceiveCases DEF FirstStep
  <2> QED
    BY <1>1, <2>1 DEF Receive, Answers, AnswersWith, Goes, Types
<1>2. CASE Logout(q)
  BY <1>2 DEF Logout, Ends, Answers, AnswersWith, Types
<1>3. CASE LogoutFails(q)
  BY <1>3 DEF LogoutFails, AnswersWith, Types
<1>4. CASE ~(Receive(q) \/ Logout(q) \/ LogoutFails(q))
  BY <1>4
  DEF IdentityStep, InsertCredential, InsertFails, ReadCredential, CreateSession,
      CreateSessionFails, Authenticate, AuthenticateFails, Routed, RoutedAt,
      Authenticated
<1> QED
  BY <1>1, <1>2, <1>3, <1>4

\* Whom a step lets in has presented a session that has not expired.
LEMMA OwnerWrites ==
  ASSUME Shape, NEW q \in Requests, IdentityStep(q),
         Route(q) \notin {"signup", "login"}
  PROVE  \/ owner'[q] = owner[q]
         \/ /\ at[q] = "authenticate" /\ at'[q] # "new" /\ UNCHANGED sessions
            /\ call[q].token \in Tokens
            /\ sessions[call[q].token] # NoSession
            /\ sessions[call[q].token].expires > now
<1> Types /\ Routed
  BY DEF Shape
<1>1. CASE Authenticate(q)
  <2>1. at'[q] # "new"
    BY <1>1, IdentityMoves, MovesKeep
  <2> QED
    BY <1>1, <2>1 DEF Authenticate, Valid, Presented, identityVars
<1>2. CASE ~Authenticate(q)
  BY <1>2
  DEF IdentityStep, Receive, InsertCredential, InsertFails, ReadCredential,
      CreateSession, CreateSessionFails, AuthenticateFails, Logout, LogoutFails,
      Routed, RoutedAt
<1> QED
  BY <1>1, <1>2

\* What any step does to the session of t, to the logout l and to the owner of p.
SessionEffect(t) ==
  \/ sessions'[t] \in {sessions[t], NoSession}
  \/ /\ t \in Requests /\ at[t] = "open" /\ at'[t] = "done"
     /\ answer'[t].time = now /\ sessions'[t].expires = now + Lifetime

LogoutEffect(l) ==
  Route(l) = "logout" =>
    \/ at'[l] = at[l] /\ answer'[l] = answer[l]
    \/ /\ at[l] = "new" /\ Knows(l)
       /\ call[l].token = "none" \/ answer'[l] = answer[l]
    \/ /\ at[l] = "revoke" /\ at'[l] = "done"
       /\ sessions' = Removed(call[l].token) \/ answer'[l].failed

OwnerEffect(p) ==
  Route(p) \notin {"signup", "login"} =>
    \/ owner'[p] = owner[p]
    \/ /\ at[p] = "authenticate" /\ at'[p] # "new"
       /\ call[p].token \in Tokens /\ sessions[call[p].token] # NoSession
       /\ sessions[call[p].token].expires > now

\* Every step has these effects.
LEMMA SessionEffects ==
  ASSUME Shape, [Next]_vars
  PROVE  /\ \A t \in Tokens : SessionEffect(t)
         /\ \A q \in Requests : LogoutEffect(q) /\ OwnerEffect(q)
<1> Types /\ Routed
  BY DEF Shape
<1>1. ASSUME NEW q \in Requests, IdentityStep(q)
      PROVE  /\ \A t \in Tokens : SessionEffect(t)
             /\ \A p \in Requests : LogoutEffect(p) /\ OwnerEffect(p)
  <2>1. /\ \A p \in Requests \ {q} : at'[p] = at[p] /\ answer'[p] = answer[p]
        /\ \A p \in Requests \ {q} : owner'[p] = owner[p]
    BY <1>1, IdentityMoves, MovesKeep, IdentityWrites
  <2>2. ASSUME NEW t \in Tokens PROVE SessionEffect(t)
    BY <1>1, SessionWrites DEF SessionEffect
  <2>3. LogoutEffect(q)
    BY <1>1, LogoutCases DEF LogoutEffect
  <2>4. OwnerEffect(q)
    BY <1>1, OwnerWrites DEF OwnerEffect
  <2> QED
    BY <2>1, <2>2, <2>3, <2>4 DEF LogoutEffect, OwnerEffect
<1>2. ASSUME NEW q \in Requests, CatalogStep(q)
      PROVE  /\ \A t \in Tokens : SessionEffect(t)
             /\ \A p \in Requests : LogoutEffect(p) /\ OwnerEffect(p)
  <2>1. /\ \A p \in Requests \ {q} : at'[p] = at[p] /\ answer'[p] = answer[p]
        /\ UNCHANGED <<sessions, owner>> /\ at[q] \in CatalogSteps
    BY <1>2, CatalogMoves, MovesKeep DEF Elsewhere, identityVars
  <2>2. Route(q) # "logout"
    BY <2>1 DEF Routed, RoutedAt, CatalogSteps, Works
  <2> QED
    BY <2>1, <2>2 DEF SessionEffect, LogoutEffect, OwnerEffect
<1>3. CASE Tick \/ UNCHANGED vars
  BY <1>3 DEF Tick, vars, requestVars, identityVars, SessionEffect, LogoutEffect,
              OwnerEffect
<1> QED
  BY <1>1, <1>2, <1>3 DEF Next

\* Sessions are as they are known to be, until they are taken away for good.
LEMMA SessionsNext == Shape /\ SessionsKnown /\ [Next]_vars => SessionsKnown'
<1> SUFFICES ASSUME Shape, SessionsKnown, [Next]_vars PROVE SessionsKnown'
  OBVIOUS
<1> Types /\ Routed /\ Histories /\ Shape'
  BY ShapeNext DEF Shape
<1> Lifetime \in Nat
  BY TimesAssumption
<1>c. /\ call' = call /\ \A p \in Requests : Route(p)' = Route(p)
      /\ \A p \in Requests : Answered(p) =>
           /\ at[p] = "done" /\ at'[p] = "done" /\ Answered(p)'
           /\ answer'[p] = answer[p] /\ owner'[p] = owner[p]
  BY Frozen DEF Route
<1>1. ASSUME NEW t \in Tokens PROVE Opened(t)'
  <2> SUFFICES ASSUME t \in Requests, sessions'[t] # NoSession
               PROVE  Answered(t)' /\ sessions'[t].expires = answer'[t].time + Lifetime
    BY DEF Opened
  <2>1. CASE sessions'[t] = sessions[t]
    BY <1>c, <2>1 DEF SessionsKnown, Opened
  <2>2. CASE at'[t] = "done" /\ answer'[t].time = now /\ sessions'[t].expires = now + Lifetime
    BY <2>2 DEF Shape, Histories
  <2> QED
    BY <2>1, <2>2, SessionEffects DEF SessionEffect
<1>2. ASSUME NEW l \in Requests PROVE Revoked(l)'
  <2> SUFFICES ASSUME Route(l) = "logout"
               PROVE  /\ at'[l] # "new" /\ call[l].token \in Requests =>
                           Answered(call[l].token)'
                      /\ Answered(l)' /\ call[l].token \in Tokens =>
                           answer'[l].failed \/ sessions'[call[l].token] = NoSession
    BY <1>c DEF Revoked
  <2> DEFINE t == call[l].token
  <2>1. Revoked(l) /\ LogoutEffect(l)
    BY SessionEffects DEF SessionsKnown
  <2>2. ASSUME at'[l] # "new", t \in Requests PROVE Answered(t) /\ Answered(t)'
    <3>1. Answered(t)
      BY <2>1, <2>2 DEF Revoked, LogoutEffect, Knows, Answered
    <3> QED
      BY <1>c, <2>2, <3>1
  <2>3. ASSUME Answered(l)', t \in Tokens
        PROVE  answer'[l].failed \/ sessions'[t] = NoSession
    <3>1. at'[l] = "done"
      BY <2>3 DEF Shape, Histories
    <3>2. CASE Answered(l)
      <4>1. answer'[l].failed = answer[l].failed
        BY <1>c, <3>2
      <4>2. answer[l].failed \/ sessions[t] = NoSession
        BY <2>1, <2>3, <3>2 DEF Revoked
      <4>3. t \in Requests => at[t] = "done"
        BY <1>c, <2>2, <3>1
      <4>4. SessionEffect(t)
        BY <2>3, SessionEffects
      <4> QED
        BY <4>1, <4>2, <4>3, <4>4 DEF SessionEffect
    <3>3. CASE ~Answered(l)
      <4>1. t # "none"
        BY <2>3, TokensAssumption
      <4>2. sessions' = Removed(t) \/ answer'[l].failed
        BY <2>1, <2>3, <3>3, <4>1 DEF LogoutEffect, Answered
      <4> QED
        BY <2>3, <4>2 DEF Removed, Types
    <3> QED
      BY <3>2, <3>3
  <2> QED
    BY <2>2, <2>3
<1>3. ASSUME NEW p \in Requests PROVE AdmittedInTime(p)'
  <2> SUFFICES ASSUME Route(p) \notin {"signup", "login"}, owner'[p] # Nobody
               PROVE  /\ at'[p] # "new" /\ call[p].token \in Tokens
                      /\ call[p].token \in Requests =>
                           /\ Answered(call[p].token)'
                           /\ begun'[p].time < answer'[call[p].token].time + Lifetime
                      /\ \A l \in Requests :
                           /\ Route(l) = "logout" /\ call[l].token = call[p].token
                           /\ Before(l, p)'
                           => answer'[l].failed
    BY <1>c DEF AdmittedInTime
  <2> DEFINE t == call[p].token
  <2>1. /\ at[p] # "new" /\ at'[p] # "new" /\ t \in Tokens
        /\ t \in Requests =>
             Answered(t) /\ begun[p].time < answer[t].time + Lifetime
        /\ \A l \in Requests :
             Route(l) = "logout" /\ call[l].token = t /\ Before(l, p) =>
               answer[l].failed
    <3>1. CASE owner'[p] = owner[p]
      <4>1. AdmittedInTime(p)
        BY DEF SessionsKnown
      <4> QED
        BY <3>1, <4>1, Frozen DEF AdmittedInTime
    <3>2. CASE owner'[p] # owner[p]
      <4>1. /\ at[p] = "authenticate" /\ at'[p] # "new" /\ t \in Tokens
            /\ sessions[t] # NoSession /\ sessions[t].expires > now
        BY <3>2, SessionEffects DEF OwnerEffect
      <4>2. ASSUME t \in Requests
            PROVE  Answered(t) /\ begun[p].time < answer[t].time + Lifetime
        <5>1. Answered(t) /\ sessions[t].expires = answer[t].time + Lifetime
          BY <4>1, <4>2 DEF SessionsKnown, Opened
        <5>2. begun[p].time <= now /\ begun[p].time \in Nat /\ answer[t].time \in Nat /\ now \in Nat
          BY <4>2, TimesAssumption DEF Histories, Types
        <5> QED
          BY <4>1, <5>1, <5>2
      <4>3. ASSUME NEW l \in Requests, Route(l) = "logout", call[l].token = t,
                   Before(l, p)
            PROVE  answer[l].failed
        <5>1. Answered(l)
          BY <4>3, Frozen
        <5> QED
          BY <4>1, <4>3, <5>1 DEF SessionsKnown, Revoked
      <4> QED
        BY <4>1, <4>2, <4>3
    <3> QED
      BY <3>1, <3>2
  <2>2. begun'[p] = begun[p]
    BY <2>1, Frozen
  <2>3. ASSUME NEW l \in Requests, Route(l) = "logout", call[l].token = t, Before(l, p)'
        PROVE  answer'[l].failed
    <3>1. Before(l, p)
      BY <2>2, <2>3 DEF Before
    <3>2. answer[l].failed /\ Answered(l)
      BY <2>1, <2>3, <3>1, Frozen
    <3> QED
      BY <1>c, <3>2
  <2> QED
    BY <1>c, <2>1, <2>2, <2>3
<1> QED
  BY <1>1, <1>2, <1>3 DEF SessionsKnown

\* Nobody is let in on a session that has expired or that was logged out of.
THEOREM SessionsDoEnd == Spec => []SessionsEnd
<1>1. Init => SessionsKnown
  BY TokensAssumption
  DEF Init, IdentityInit, SessionsKnown, Opened, Revoked, AdmittedInTime, Answered,
      Unanswered
<1>2. Spec => []SessionsKnown
  BY <1>1, SessionsNext, ShapeKept, PTL DEF Spec
<1>3. SessionsKnown => SessionsEnd
  BY DEF SessionsKnown, AdmittedInTime, SessionsEnd
<1> QED
  BY <1>2, <1>3, PTL

=============================================================================
