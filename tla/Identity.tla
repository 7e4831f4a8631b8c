------------------------------ MODULE Identity ------------------------------
(***************************************************************************)
(* Accounts and sessions: CouchbaseAuthenticationService behind the routes *)
(* /auth/signup, /auth/login and /auth/session, and the check of a bearer  *)
(* token with which every other protected route begins.                    *)
(*                                                                         *)
(* A request is a process whose steps are its round trips to Couchbase.    *)
(* Its access token and its user id are random, so the model names both    *)
(* after the request that made them.                                       *)
(***************************************************************************)
EXTENDS Endpoints, FiniteSets, Sequences

CONSTANTS
  Requests,      \* HTTP requests
  Calls,         \* the assignments of a call to every request, one per mix
  Staff,         \* accounts that were there, and were promoted, long ago
  Resources,     \* resources that were in the catalog as the model begins
  Lifetime,      \* kSessionLifetime
  MaxTime,       \* bound: the clock
  Faults         \* bound: round trips that fail, processes that die

Names == {"ann", "eve"}
Email == [name : Names, spelling : {"plain", "padded"}]
Tokens == Requests \cup Staff

Endpoint ==
  [signup |-> SignUpEndpoint, login |-> LogInEndpoint, session |-> SessionEndpoint,
   logout |-> LogOutEndpoint, create |-> CreateResourceEndpoint,
   bulk |-> BulkCreateEndpoint, update |-> UpdateResourceEndpoint,
   remove |-> DeleteResourceEndpoint, list |-> ListResourcesEndpoint,
   search |-> SearchEndpoint, get |-> GetResourceEndpoint,
   organizations |-> ListOrganizationsEndpoint]
Routes == DOMAIN Endpoint

\* What a request says.  A token is that of the request which opened the
\* session, or "none", or "malformed"; body says whether the body parses.
Call ==
  [route : Routes, email : Email, password : {"first", "second"}, body : BOOLEAN,
   identifier : BOOLEAN, token : Tokens \cup {"none", "malformed"},
   resource : Resources, units : Nat, active : BOOLEAN,
   rows : Seq({"good", "bad", "scalar"})]

ASSUME TokensAssumption ==
  /\ Requests \cap Staff = {}
  /\ {"none", "malformed"} \cap Tokens = {}
ASSUME CallsAssumption == \A c \in Calls : c \in [Requests -> Call]
ASSUME TimesAssumption == Lifetime \in Nat \ {0} /\ MaxTime \in Nat
ASSUME FaultsAssumption == Faults \in Nat

VARIABLES
  call,          \* call[q]: what request q asks for
  credentials,   \* credentials[k]: the document under an address's key
  sessions,      \* sessions[t]: the document under a token's key
  now,           \* the clock of the servers
  at,            \* at[q]: the round trip q makes next
  owner,         \* owner[q]: the account q is made for, once it is known
  answer,        \* answer[q]: what the client of q has got
  begun,         \* history: begun[q]: when q was received, and what had been
                 \* answered by then
  faults         \* faults left

identityVars == <<credentials, sessions>>
requestVars == <<call, at, owner, answer, begun>>

Steps ==
  {"new", "insert", "credential", "open", "authenticate", "revoke", "work",
   "load", "save", "look", "fetch", "fill", "done"}

\* The session of a staff account was opened as the model begins.
NoAccount == [user |-> "none", password |-> "none", role |-> "none"]
NoSession == [user |-> "none", role |-> "none", expires |-> 0]
Nobody == [user |-> "none", role |-> "none"]
Unanswered == [status |-> 0, time |-> 0, failed |-> FALSE]

Users == Requests \cup Staff

IdentityTypeOK ==
  /\ call \in Calls
  /\ \A k \in DOMAIN credentials :
       credentials[k] \in [user : Users, password : {"first", "second"}, role : Roles] \cup {NoAccount}
  /\ sessions \in [Tokens -> [user : Users, role : Roles, expires : Nat] \cup {NoSession}]
  /\ now \in 0 .. MaxTime
  /\ at \in [Requests -> Steps]
  /\ owner \in [Requests -> [user : Users, role : Roles] \cup {Nobody}]
  /\ \A q \in Requests : answer[q].status # 0 => at[q] = "done"
  /\ faults \in 0 .. Faults

IdentityInit ==
  /\ call \in Calls
  /\ credentials = [k \in Email |-> NoAccount]
  /\ sessions = [t \in Tokens |->
       IF t \in Staff THEN [user |-> t, role |-> "APPROVER", expires |-> Lifetime]
                      ELSE NoSession]
  /\ now = 0
  /\ at = [q \in Requests |-> "new"]
  /\ owner = [q \in Requests |-> Nobody]
  /\ answer = [q \in Requests |-> Unanswered]
  /\ begun = [q \in Requests |-> [time |-> 0, after |-> {}]]
  /\ faults = Faults

-----------------------------------------------------------------------------
(* A request.                                                              *)

Route(q) == call[q].route

Goes(q, step) ==
  /\ at' = [at EXCEPT ![q] = step]
  /\ UNCHANGED answer

\* The response, and for the history whether it hides that a call has failed.
AnswersWith(q, status, failed) ==
  /\ at' = [at EXCEPT ![q] = "done"]
  /\ answer' = [answer EXCEPT ![q] =
                  [status |-> status, time |-> now, failed |-> failed]]

Answers(q, status) == AnswersWith(q, status, FALSE)

Answered(q) == answer[q].status # 0

Fault == faults > 0 /\ faults' = faults - 1

\* What the controller of q's route makes of an outcome.
At(q) == Endpoint[Route(q)]
Ends(q, outcome) == Answers(q, At(q).on[outcome])
EndsInError(q) == \E status \in At(q).errors : Answers(q, status)

\* Nothing is left to look at before the handler runs.
Proceed(q) ==
  IF \E part \in At(q).after : ~call[q][part]
    THEN Answers(q, 400)
    ELSE CASE Route(q) = "session" -> Ends(q, "done")
           [] Route(q) = "update" -> Goes(q, "load")
           [] OTHER -> Goes(q, "work")

\* A search goes on without a session where the others are refused.
Refuse(q, status) ==
  IF At(q).session = "optional" THEN Proceed(q) ELSE Answers(q, status)

FirstStep(route) ==
  CASE route = "signup" -> "insert"
    [] route = "login" -> "credential"
    [] route = "logout" -> "revoke"
    [] route = "get" -> "look"
    [] route = "organizations" -> "work"
    [] OTHER -> "authenticate"

\* Tokens are random: a client has only those it was given.
Knows(q) ==
  LET t == call[q].token IN t \in Requests => answer[t].status \in {200, 201}

\* All that a controller can tell without a round trip.
Receive(q) ==
  /\ at[q] = "new"
  /\ Knows(q)
  /\ begun' = [begun EXCEPT ![q] =
                 [time |-> now, after |-> {p \in Requests : Answered(p)}]]
  /\ IF \E part \in At(q).before : ~call[q][part]
       THEN Answers(q, 400)
       ELSE IF At(q).session = "none" \/ call[q].token # "none"
         THEN Goes(q, FirstStep(Route(q)))
         ELSE Refuse(q, 401)
  /\ UNCHANGED <<call, identityVars, owner, now, faults>>

-----------------------------------------------------------------------------
(* CouchbaseAuthenticationService.                                         *)

\* Mutant: the address is taken as it is written.
KeyAsWritten(email) == email

\* The key of normalize_email(): trimmed, and in lower case.
CredentialKey(email) == [email EXCEPT !.spelling = "plain"]

KeyOf(q) == CredentialKey(call[q].email)
Credential(q) == credentials[KeyOf(q)]

\* Mutant: sign_up() upserts.
StoreCredentialAnyway(q) ==
  credentials' = [credentials EXCEPT ![KeyOf(q)] =
    [user |-> q, password |-> call[q].password, role |-> "MEMBER"]]

\* An insert: it changes nothing where there is a document.
StoreCredential(q) ==
  credentials' =
    IF Credential(q) = NoAccount
      THEN [credentials EXCEPT ![KeyOf(q)] =
              [user |-> q, password |-> call[q].password, role |-> "MEMBER"]]
      ELSE credentials

\* sign_up() up to its first write.
InsertCredential(q) ==
  /\ at[q] = "insert"
  /\ StoreCredential(q)
  /\ IF Credential(q) = NoAccount
       THEN /\ owner' = [owner EXCEPT ![q] = [user |-> q, role |-> "MEMBER"]]
            /\ Goes(q, "open")
       ELSE Ends(q, "taken") /\ UNCHANGED owner
  /\ UNCHANGED <<call, sessions, now, begun, faults>>

\* Any other error of the insert, which may have been applied.
InsertFails(q) ==
  /\ at[q] = "insert"
  /\ Fault
  /\ UNCHANGED credentials \/ StoreCredential(q)
  /\ EndsInError(q)
  /\ UNCHANGED <<call, sessions, now, owner, begun>>

\* login(): the credential is read, and the password is compared with it.
ReadCredential(q) ==
  /\ at[q] = "credential"
  /\ IF Credential(q) = NoAccount
       THEN Ends(q, "absent") /\ UNCHANGED owner
       ELSE IF Credential(q).password # call[q].password
         THEN Ends(q, "wrong") /\ UNCHANGED owner
         ELSE /\ owner' = [owner EXCEPT ![q] =
                   [user |-> Credential(q).user, role |-> Credential(q).role]]
              /\ Goes(q, "open")
  /\ UNCHANGED <<call, identityVars, now, begun, faults>>

\* Mutant: a session does not expire.
SessionForEver(q) ==
  [user |-> owner[q].user, role |-> owner[q].role, expires |-> MaxTime + 1]

SessionOf(q) ==
  [user |-> owner[q].user, role |-> owner[q].role, expires |-> now + Lifetime]

\* create_session(), the last step of sign_up() and of login().
CreateSession(q) ==
  /\ at[q] = "open"
  /\ sessions' = [sessions EXCEPT ![q] = SessionOf(q)]
  /\ Ends(q, "done")
  /\ UNCHANGED <<call, credentials, now, owner, begun, faults>>

CreateSessionFails(q) ==
  /\ at[q] = "open"
  /\ Fault
  /\ UNCHANGED sessions \/ sessions' = [sessions EXCEPT ![q] = SessionOf(q)]
  /\ EndsInError(q)
  /\ UNCHANGED <<call, credentials, now, owner, begun>>

\* The session a request presents, if there is one that has not expired.
Presented(q) ==
  IF call[q].token \in Tokens THEN sessions[call[q].token] ELSE NoSession
Valid(session) == session # NoSession /\ session.expires > now

Admit(q, account) ==
  IF account.role \in At(q).roles THEN Proceed(q) ELSE Answers(q, 403)

\* authenticate(), and what the controller makes of it.
Authenticate(q) ==
  /\ at[q] = "authenticate"
  /\ IF Valid(Presented(q))
       THEN LET account == [user |-> Presented(q).user, role |-> Presented(q).role] IN
            /\ owner' = [owner EXCEPT ![q] = account]
            /\ Admit(q, account)
       ELSE Refuse(q, AccountStatus.invalid_session) /\ UNCHANGED owner
  /\ UNCHANGED <<call, identityVars, now, begun, faults>>

\* A malformed token is refused before anything is read.
AuthenticateFails(q) ==
  /\ at[q] = "authenticate" \/ at[q] = "credential"
  /\ call[q].token # "malformed"
  /\ Fault
  /\ IF at[q] = "authenticate" THEN Refuse(q, 503) ELSE EndsInError(q)
  /\ UNCHANGED <<call, identityVars, now, owner, begun>>

Removed(t) ==
  IF t \in Tokens THEN [sessions EXCEPT ![t] = NoSession] ELSE sessions

\* logout() tells nobody of an error, and the route answers 204 all the same.
Logout(q) ==
  /\ at[q] = "revoke"
  /\ sessions' = Removed(call[q].token)
  /\ Ends(q, "done")
  /\ UNCHANGED <<call, credentials, now, owner, begun, faults>>

LogoutFails(q) ==
  /\ at[q] = "revoke"
  /\ call[q].token \in Tokens
  /\ Fault
  /\ UNCHANGED sessions \/ sessions' = Removed(call[q].token)
  /\ AnswersWith(q, At(q).on.done, TRUE)
  /\ UNCHANGED <<call, credentials, now, owner, begun>>

Tick ==
  /\ now < MaxTime
  /\ now' = now + 1
  /\ UNCHANGED <<identityVars, requestVars, faults>>

\* Identity steps of a request.
IdentityStep(q) ==
  \/ Receive(q)
  \/ InsertCredential(q) \/ InsertFails(q) \/ ReadCredential(q)
  \/ CreateSession(q) \/ CreateSessionFails(q)
  \/ Authenticate(q) \/ AuthenticateFails(q)
  \/ Logout(q) \/ LogoutFails(q)

-----------------------------------------------------------------------------
(* Properties.                                                             *)

\* p had its answer before q was received.
Before(p, q) == p \in begun[q].after
Overlap(p, q) == ~Before(p, q) /\ ~Before(q, p)

SameAddress(p, q) == call[p].email.name = call[q].email.name

\* Of the sign-ups for one address, however it is written, at most one is ever
\* answered 201: the insert under the normalized address decides.
OneAccountPerAddress ==
  \A p, q \in Requests :
    /\ Route(p) = "signup" /\ answer[p].status = 201
    /\ Route(q) = "signup" /\ answer[q].status = 201
    /\ SameAddress(p, q)
    => p = q

\* A sign-up that is told 409 lost to another one, which may have failed
\* half-way, before it gave out a session; from then on that one's password
\* opens the account at every login, and no other password does.
OwnerGetsIn ==
  \A q \in Requests :
    Route(q) = "signup" /\ answer[q].status = 409 =>
      \E p \in Requests \ {q} :
        /\ Route(p) = "signup" /\ SameAddress(p, q)
        /\ answer[p].status \notin {400, 409}
        /\ \A l \in Requests :
             /\ Route(l) = "login" /\ SameAddress(l, q) /\ Before(q, l)
             /\ answer[l].status \in {200, 401, 404}
             => (answer[l].status = 200 <=> call[l].password = call[p].password)

\* A request is let in on a session only if that session was opened less than
\* a lifetime before, and no logout of it had been answered by then, save one
\* whose removal failed.
SessionsEnd ==
  \A q \in Requests :
    LET t == call[q].token IN
    Route(q) \notin {"signup", "login"} /\ owner[q] # Nobody =>
      /\ t \in Requests /\ Answered(t) =>
           begun[q].time < answer[t].time + Lifetime
      /\ \A l \in Requests :
           Route(l) = "logout" /\ call[l].token = t /\ Before(l, q) =>
             answer[l].failed

=============================================================================
