---------------------------- MODULE CatalogProofs ----------------------------
(* Theorems about the catalog and its cache, for any requests, calls,       *)
(* resources, times to live and fault budgets.                              *)
EXTENDS IdentityProofs, FiniteSetTheorems

-----------------------------------------------------------------------------
(* Type correctness.                                                       *)

Entries == [document : Document, lineage : SUBSET Requests, filler : Requests, until : Nat]
Rows == Requests \X (Nat \ {0})

CatalogTypes ==
  /\ resources \in [Resources -> Document \cup {NoResource}]
  /\ inserted \subseteq Rows
  /\ cache \in [Resources -> Entries \cup {NoEntry}]
  /\ held \in [Requests -> Copy]
  /\ tally \in [Requests -> [imported : Nat, failed : Nat]]
  /\ listed \in [Requests -> SUBSET (Resources \cup Rows)]
  /\ lineage \in [Resources -> SUBSET Requests]

\* A request that is to save or to cache a copy has one.
CopiesHeld == \A q \in Requests : at[q] \in {"save", "fill"} => held[q] # NoCopy

\* No entry outlives the time to live.
EntriesExpire ==
  \A r \in Resources : cache[r] # NoEntry => cache[r].until <= now + Ttl

CatalogShape == CatalogTypes /\ CopiesHeld /\ EntriesExpire

\* Documents, copies and entries differ from the lack of them.
LEMMA CopyFields ==
  /\ NoResource \notin Document
  /\ \A c \in Copy \ {NoCopy} :
       c.document \in Document /\ c.lineage \in SUBSET Requests /\ c.filler \in Requests
  /\ NoCopy \notin [document : Document, lineage : SUBSET Requests, filler : Requests]
  /\ NoEntry \notin Entries
BY DEF NoResource, Document, Copy, NoCopy, NoEntry, Entries

\* What a request would write, store and show has its type.
LEMMA Written ==
  ASSUME Shape, CatalogShape, NEW q \in Requests
  PROVE  /\ Of(q) \in Resources
         /\ at[q] = "save" => Updated(q) \in Document /\ held[q].lineage \in SUBSET Requests
         /\ at[q] = "fill" => Entry(q, now + Ttl) \in Entries
         /\ Stored(q) # NoResource => StoredCopy(q) \in Copy \ {NoCopy}
         /\ Cached(Of(q)) => CachedCopy(Of(q)) \in Copy \ {NoCopy}
<1> Types
  BY DEF Shape
<1>1. Of(q) \in Resources /\ call[q].units \in Nat /\ call[q].active \in BOOLEAN
  BY CallType DEF Of
<1>2. now + Ttl \in Nat
  BY TimesAssumption, TtlAssumption DEF Types
<1>3. ASSUME at[q] \in {"save", "fill"}
      PROVE  held[q].document \in Document /\ held[q].lineage \in SUBSET Requests
  BY <1>3, CopyFields DEF CatalogShape, CatalogTypes, CopiesHeld
<1>4. ASSUME at[q] = "save" PROVE Updated(q) \in Document
  BY <1>1, <1>3, <1>4 DEF Updated, Units, Document
<1>5. ASSUME at[q] = "fill" PROVE Entry(q, now + Ttl) \in Entries
  BY <1>2, <1>3, <1>5 DEF Entry, Recorded, Entries, Document
<1>6. ASSUME Stored(q) # NoResource PROVE StoredCopy(q) \in Copy \ {NoCopy}
  <2>1. Stored(q) \in Document /\ lineage[Of(q)] \in SUBSET Requests
    BY <1>1, <1>6 DEF CatalogShape, CatalogTypes, Stored
  <2> QED
    BY <2>1, CopyFields DEF StoredCopy, Copy
<1>7. ASSUME Cached(Of(q)) PROVE CachedCopy(Of(q)) \in Copy \ {NoCopy}
  <2>1. cache[Of(q)] \in Entries
    BY <1>1, <1>7 DEF CatalogShape, CatalogTypes, Cached
  <2> QED
    BY <2>1, CopyFields DEF CachedCopy, Copy, Entries
<1> QED
  BY <1>1, <1>3, <1>4, <1>5, <1>6, <1>7

\* The number of a row.
LEMMA RowType ==
  ASSUME CatalogShape, NEW q \in Requests
  PROVE  /\ tally[q].imported \in Nat /\ tally[q].failed \in Nat
         /\ Row(q) \in Nat \ {0} /\ <<q, Row(q)>> \in Rows /\ <<q, 1>> \in Rows
<1>1. tally[q].imported \in Nat /\ tally[q].failed \in Nat
  BY DEF CatalogShape, CatalogTypes
<1>2. Row(q) \in Nat \ {0}
  BY <1>1 DEF Row
<1> QED
  BY <1>1, <1>2 DEF Rows

\* What the resources and their lineages become.
ResourceEffect(q) ==
  \/ UNCHANGED <<resources, lineage>>
  \/ at[q] = "save" /\ Upsert(q)
  \/ Working(q, "remove") /\ Erase(q)

\* What becomes of the copy that q holds, and what q goes on to do with it.
HeldEffect(q) ==
  \/ /\ UNCHANGED held
     /\ at'[q] \in {"save", "fill"} => at'[q] = at[q]
     /\ Route(q) = "get" /\ answer'[q].status = 200 => at[q] = "fill"
  \/ /\ at[q] \in {"load", "fetch"} /\ Stored(q) # NoResource
     /\ held' = [held EXCEPT ![q] = StoredCopy(q)]
     /\ at'[q] \in {"save", "fill"}
  \/ /\ at[q] = "look" /\ Cached(Of(q))
     /\ held' = [held EXCEPT ![q] = CachedCopy(Of(q))]
     /\ at'[q] = "done"

\* What becomes of the cache.
CacheEffect(q) ==
  \/ UNCHANGED cache
  \/ cache' = [cache EXCEPT ![Of(q)] = NoEntry]
  \/ at[q] = "fill" /\ StoreEntry(q) /\ at'[q] = "done" /\ answer'[q].time = now

\* What becomes of the rows and of their count, and what is listed.
RowsEffect(q) ==
  \/ UNCHANGED <<inserted, tally, listed>>
  \/ /\ Working(q, "create") /\ inserted' = inserted \cup {<<q, 1>>}
     /\ UNCHANGED <<tally, listed>>
  \/ /\ RowIs(q, "good") /\ CountsImported(q) /\ UNCHANGED <<at, answer, listed>>
     /\ inserted' = inserted \cup {<<q, Row(q)>>}
  \/ /\ RowIs(q, "good") /\ CountsFailed(q) /\ UNCHANGED <<at, answer, listed>>
     /\ UNCHANGED inserted \/ inserted' = inserted \cup {<<q, Row(q)>>}
  \/ /\ RowIs(q, "bad") /\ CountsFailed(q) /\ UNCHANGED <<at, answer, inserted, listed>>
  \/ /\ Working(q, "list") /\ at'[q] = "done" /\ answer'[q].status = 200
     /\ listed' = [listed EXCEPT ![q] = AllResources] /\ UNCHANGED <<inserted, tally>>
  \/ /\ Working(q, "search") /\ at'[q] = "done"
     /\ listed' = [listed EXCEPT ![q] = ActiveResources] /\ UNCHANGED <<inserted, tally>>

\* Statuses that promise something are given only where it was done.
StatusEffect(q) ==
  /\ Route(q) = "update" /\ answer'[q].status = 200 => at[q] = "save" /\ Upsert(q)
  /\ Route(q) = "remove" /\ answer'[q].status = 204 => Erase(q)
  /\ Route(q) = "create" /\ answer'[q].status = 201 => inserted' = inserted \cup {<<q, 1>>}
  /\ Route(q) = "list" /\ answer'[q].status = 200 =>
       at[q] = "work" /\ listed' = [listed EXCEPT ![q] = AllResources]
  /\ Route(q) = "bulk" /\ answer'[q].status = 200 =>
       at[q] = "work" /\ Row(q) > Len(call[q].rows)

\* A step of Catalog has these effects.
LEMMA CatalogEffects ==
  ASSUME Shape, NEW q \in Requests, CatalogStep(q)
  PROVE  /\ ResourceEffect(q) /\ HeldEffect(q) /\ CacheEffect(q) /\ RowsEffect(q)
         /\ StatusEffect(q)
<1> Types /\ Routed
  BY DEF Shape
<1>0. answer[q].status = 0
  BY CatalogMoves DEF CatalogSteps, Shape, Histories, Answered
<1> USE DEF ResourceEffect, HeldEffect, CacheEffect, RowsEffect, StatusEffect
<1>a. ASSUME NEW status \in Nat, Answers(q, status)
      PROVE  at'[q] = "done" /\ answer'[q].status = status /\ answer'[q].time = now
  BY <1>a DEF Answers, AnswersWith, Types
<1>g. ASSUME NEW s \in Steps, Goes(q, s)
      PROVE  at'[q] = s /\ answer'[q].status = 0
  BY <1>0, <1>g DEF Goes, Types
<1>1. CASE Load(q) \/ LoadFails(q)
  <2>1. Route(q) = "update"
    BY <1>1 DEF Load, LoadFails, Routed, RoutedAt
  <2>2. CASE Load(q)
    BY <1>0, <1>a, <1>g, <2>1, <2>2, CatalogControllers DEF Load, Ends, Steps
  <2>3. CASE LoadFails(q)
    BY <1>0, <1>a, <2>1, <2>3, CatalogControllers
    DEF LoadFails, EndsInError, catalogVars
  <2> QED
    BY <1>1, <2>2, <2>3
<1>2. CASE Save(q) \/ SaveFails(q)
  <2>1. Route(q) = "update"
    BY <1>2 DEF Save, SaveFails, Routed, RoutedAt
  <2>2. CASE Save(q)
    BY <1>a, <2>1, <2>2, CatalogControllers DEF Save, Ends
  <2>3. CASE SaveFails(q)
    BY <1>a, <2>1, <2>3, CatalogControllers DEF SaveFails, EndsInError
  <2> QED
    BY <1>2, <2>2, <2>3
<1>3. CASE Remove(q) \/ RemoveFails(q)
  <2>1. Route(q) = "remove"
    BY <1>3 DEF Remove, RemoveFails, Working
  <2>2. CASE Remove(q)
    BY <1>a, <2>1, <2>2, CatalogControllers DEF Remove, Ends
  <2>3. CASE RemoveFails(q)
    BY <1>a, <2>1, <2>3, CatalogControllers DEF RemoveFails, EndsInError
  <2> QED
    BY <1>3, <2>2, <2>3
<1>4. CASE Create(q) \/ CreateFails(q)
  <2>1. Route(q) = "create"
    BY <1>4 DEF Create, CreateFails, Working
  <2>2. CASE Create(q)
    BY <1>a, <2>1, <2>2, CatalogControllers DEF Create, Ends
  <2>3. CASE CreateFails(q)
    BY <1>a, <2>1, <2>3, CatalogControllers DEF CreateFails, EndsInError
  <2> QED
    BY <1>4, <2>2, <2>3
<1>5. CASE InsertRow(q) \/ InsertRowFails(q) \/ SkipRow(q)
  <2>1. Route(q) = "bulk" /\ at[q] = "work" /\ UNCHANGED <<at, answer>>
    BY <1>5 DEF InsertRow, InsertRowFails, SkipRow, RowIs, MoreRows, Working
  <2> QED
    BY <1>0, <1>5, <2>1 DEF InsertRow, InsertRowFails, SkipRow
<1>6. CASE AbortBulk(q)
  <2>1. Route(q) = "bulk" /\ at[q] = "work"
    BY <1>6 DEF AbortBulk, RowIs, MoreRows, Working
  <2> QED
    BY <1>a, <1>6, <2>1, CatalogControllers DEF AbortBulk, Ends, catalogVars
<1>7. CASE AnswerBulk(q)
  <2>1. Route(q) = "bulk" /\ at[q] = "work"
    BY <1>7 DEF AnswerBulk, Working
  <2> QED
    BY <1>a, <1>7, <2>1, CatalogControllers DEF AnswerBulk, Ends, catalogVars
<1>8. CASE List(q) \/ Search(q)
  <2>1. CASE List(q)
    <3>1. Route(q) = "list" /\ at[q] = "work"
      BY <2>1 DEF List, Working
    <3> QED
      BY <1>a, <2>1, <3>1, CatalogControllers DEF List, Ends
  <2>2. CASE Search(q)
    <3>1. Route(q) = "search" /\ at[q] = "work"
      BY <2>2 DEF Search, Working
    <3> QED
      BY <1>a, <2>2, <3>1, CatalogControllers DEF Search, Ends
  <2> QED
    BY <1>8, <2>1, <2>2
<1>9. CASE ListOrganizations(q) \/ QueryFails(q)
  <2>1. Route(q) \in {"list", "search", "organizations"}
    BY <1>9 DEF ListOrganizations, QueryFails, Working
  <2>2. \E status \in {200, 500, 503} :
          /\ Answers(q, status)
          /\ status = 200 => Route(q) = "organizations"
    BY <1>9, <2>1, CatalogControllers
    DEF ListOrganizations, QueryFails, Working, Ends, EndsInError
  <2>3. UNCHANGED catalogVars
    BY <1>9 DEF ListOrganizations, QueryFails
  <2> QED
    BY <1>a, <2>1, <2>2, <2>3 DEF catalogVars
<1>10. CASE Look(q) \/ LookFails(q)
  <2>1. Route(q) = "get" /\ at[q] = "look"
    BY <1>10 DEF Look, LookFails, Routed, RoutedAt
  <2>2. CASE Look(q)
    BY <1>a, <1>g, <2>1, <2>2, CatalogControllers DEF Look, Ends, Steps
  <2>3. CASE LookFails(q)
    BY <1>g, <2>1, <2>3 DEF LookFails, Steps
  <2> QED
    BY <1>10, <2>2, <2>3
<1>11. CASE Fetch(q) \/ FetchFails(q)
  <2>1. Route(q) = "get" /\ at[q] = "fetch"
    BY <1>11 DEF Fetch, FetchFails, Routed, RoutedAt
  <2>2. CASE Fetch(q)
    BY <1>a, <1>g, <2>1, <2>2, CatalogControllers DEF Fetch, Ends, Steps
  <2>3. CASE FetchFails(q)
    BY <1>a, <2>1, <2>3, CatalogControllers DEF FetchFails, EndsInError, catalogVars
  <2> QED
    BY <1>11, <2>2, <2>3
<1>12. CASE Fill(q) \/ FillFails(q)
  <2>1. Route(q) = "get" /\ at[q] = "fill"
    BY <1>12 DEF Fill, FillFails, Routed, RoutedAt
  <2>2. Answers(q, 200)
    BY <1>12, <2>1, CatalogControllers DEF Fill, FillFails, Ends
  <2> QED
    BY <1>a, <1>12, <2>1, <2>2 DEF Fill, FillFails
<1> QED
  BY <1>1, <1>2, <1>3, <1>4, <1>5, <1>6, <1>7, <1>8, <1>9, <1>10, <1>11, <1>12
  DEF CatalogStep

Effects(q) ==
  /\ ResourceEffect(q) /\ HeldEffect(q) /\ CacheEffect(q) /\ RowsEffect(q)
  /\ StatusEffect(q)

\* A step of Identity promises nothing of the catalog.
LEMMA IdentityEffects ==
  ASSUME Shape, NEW q \in Requests, IdentityStep(q), UNCHANGED catalogVars
  PROVE  Effects(q)
<1> Types /\ Routed
  BY DEF Shape
<1>0. answer[q].status = 0
  BY IdentityMoves DEF IdentitySteps, Shape, Histories, Answered
<1>1. /\ at'[q] \notin {"save", "fill"}
      /\ Route(q) \in {"update", "remove", "create", "list", "bulk", "get"} =>
           answer'[q].status \in {0, 400, 401, 403, 503}
  <2>1. CASE Receive(q)
    <3>1. \/ \E status \in {400, 401} : Answers(q, status)
          \/ Goes(q, FirstStep(Route(q))) \/ Goes(q, "work")
      BY <2>1, ReceiveCases
    <3>2. FirstStep(Route(q)) \notin {"save", "fill"}
      BY CallType, RouteNames DEF FirstStep
    <3> QED
      BY <1>0, <3>1, <3>2 DEF Answers, AnswersWith, Goes, Types
  <2>2. CASE at[q] = "authenticate" /\ (Authenticate(q) \/ AuthenticateFails(q))
    BY <1>0, <2>2, AuthenticateCases DEF Answers, AnswersWith, Goes, Types
  <2>3. CASE /\ ~Receive(q)
             /\ ~(at[q] = "authenticate" /\ (Authenticate(q) \/ AuthenticateFails(q)))
    <3>1. Route(q) \in {"signup", "login", "logout"}
      BY <2>3
      DEF IdentityStep, InsertCredential, InsertFails, ReadCredential, CreateSession,
          CreateSessionFails, Authenticate, AuthenticateFails, Logout, LogoutFails,
          Routed, RoutedAt
    <3>2. RoutedAt(q)' /\ Route(q)' = Route(q)
      BY IdentityWrites, IdentityMoves DEF Routed, Route
    <3> QED
      BY <3>1, <3>2 DEF RoutedAt
  <2> QED
    BY <2>1, <2>2, <2>3
<1> QED
  BY <1>1
  DEF Effects, ResourceEffect, HeldEffect, CacheEffect, RowsEffect, StatusEffect,
      catalogVars

\* Every step of a request has these effects, on itself alone.
LEMMA StepEffects ==
  ASSUME Shape, NEW q \in Requests,
         \/ IdentityStep(q) /\ UNCHANGED catalogVars
         \/ CatalogStep(q)
  PROVE  /\ Effects(q)
         /\ at[q] # "done" /\ at'[q] # "new" /\ ~Answered(q)
         /\ \A p \in Requests \ {q} : at'[p] = at[p] /\ answer'[p] = answer[p]
         /\ UNCHANGED <<call, now>>
         /\ at[q] \in {"work", "save", "fill", "look", "load", "fetch"} => UNCHANGED begun
<1> Types /\ Routed
  BY DEF Shape
<1>1. Effects(q)
  BY IdentityEffects, CatalogEffects DEF Effects
<1>2. Moves(q) /\ at[q] # "done" /\ UNCHANGED <<call, now>>
  BY IdentityMoves, CatalogMoves DEF IdentitySteps, CatalogSteps, Elsewhere
<1>3. /\ \A p \in Requests \ {q} : at'[p] = at[p] /\ answer'[p] = answer[p]
      /\ at'[q] # "new"
  BY <1>2, MovesKeep
<1>4. at[q] \in {"work", "save", "fill", "look", "load", "fetch"} => UNCHANGED begun
  BY IdentityMoves, CatalogMoves DEF IdentitySteps, Elsewhere
<1> QED
  BY <1>1, <1>2, <1>3, <1>4 DEF Shape, Histories

\* The types of the catalog hold at first.
LEMMA CatalogShapeInit == Init => CatalogShape
<1> SUFFICES ASSUME Init PROVE CatalogShape
  OBVIOUS
<1>1. [units |-> 2, active |-> TRUE, version |-> 1] \in Document
  BY DEF Document
<1>2. CatalogTypes
  BY <1>1 DEF Init, CatalogInit, CatalogTypes, Rows, Copy
<1>3. CopiesHeld /\ EntriesExpire
  BY DEF Init, IdentityInit, CatalogInit, CopiesHeld, EntriesExpire
<1> QED
  BY <1>2, <1>3 DEF CatalogShape

\* And every step keeps them.
LEMMA CatalogShapeNext ==
  Shape /\ CatalogShape /\ [Next]_vars => CatalogShape'
<1> SUFFICES ASSUME Shape, CatalogShape, [Next]_vars PROVE CatalogShape'
  OBVIOUS
<1> CatalogTypes /\ CopiesHeld /\ EntriesExpire /\ Types
  BY DEF Shape, CatalogShape
<1>1. ASSUME NEW q \in Requests,
             \/ IdentityStep(q) /\ UNCHANGED catalogVars
             \/ CatalogStep(q)
      PROVE  CatalogShape'
  <2>e. Effects(q) /\ UNCHANGED now
    BY <1>1, StepEffects
  <2>w. /\ Of(q) \in Resources
        /\ at[q] = "save" => Updated(q) \in Document /\ held[q].lineage \in SUBSET Requests
        /\ at[q] = "fill" => Entry(q, now + Ttl) \in Entries
        /\ Stored(q) # NoResource => StoredCopy(q) \in Copy \ {NoCopy}
        /\ Cached(Of(q)) => CachedCopy(Of(q)) \in Copy \ {NoCopy}
    BY Written
  <2>1. /\ resources' \in [Resources -> Document \cup {NoResource}]
        /\ lineage' \in [Resources -> SUBSET Requests]
    BY <2>e, <2>w DEF Effects, ResourceEffect, Upsert, Erase, CatalogTypes
  <2>2. cache' \in [Resources -> Entries \cup {NoEntry}]
    BY <2>e, <2>w DEF Effects, CacheEffect, StoreEntry, CatalogTypes
  <2>3. held' \in [Requests -> Copy]
    BY <2>e, <2>w DEF Effects, HeldEffect, CatalogTypes
  <2>4. inserted' \subseteq Rows
    BY <2>e, RowType DEF Effects, RowsEffect, CatalogTypes
  <2>5. tally' \in [Requests -> [imported : Nat, failed : Nat]]
    BY <2>e DEF Effects, RowsEffect, CountsImported, CountsFailed, CatalogTypes
  <2>6. listed' \in [Requests -> SUBSET (Resources \cup Rows)]
    <3>1. AllResources \subseteq Resources \cup Rows /\ ActiveResources \subseteq Resources \cup Rows
      BY DEF AllResources, ActiveResources, CatalogTypes
    <3> QED
      BY <2>e, <3>1 DEF Effects, RowsEffect, CatalogTypes
  <2>7. CopiesHeld'
    <3>1. \A p \in Requests \ {q} : at'[p] = at[p] /\ held'[p] = held[p]
      BY <1>1, <2>e, StepEffects DEF Effects, HeldEffect, CatalogTypes
    <3>2. at'[q] \in {"save", "fill"} => held'[q] # NoCopy
      BY <2>e, <2>w DEF Effects, HeldEffect, CopiesHeld, CatalogTypes
    <3> QED
      BY <3>1, <3>2 DEF CopiesHeld
  <2>8. EntriesExpire'
    <3>1. Entry(q, now + Ttl).until = now + Ttl
      BY DEF Entry
    <3>2. now + Ttl <= now + Ttl
      BY TimesAssumption, TtlAssumption DEF Types
    <3> QED
      BY <2>e, <2>w, <3>1, <3>2
      DEF Effects, CacheEffect, StoreEntry, EntriesExpire, CatalogTypes
  <2> QED
    BY <2>1, <2>2, <2>3, <2>4, <2>5, <2>6, <2>7, <2>8 DEF CatalogShape, CatalogTypes
<1>2. CASE Tick /\ UNCHANGED catalogVars
  <2>1. CatalogTypes' /\ CopiesHeld'
    BY <1>2 DEF Tick, requestVars, catalogVars, CatalogTypes, CopiesHeld
  <2>2. EntriesExpire'
    <3>1. ASSUME NEW r \in Resources, cache[r] # NoEntry
          PROVE  cache[r].until <= now' + Ttl
      <4>1. cache[r].until \in Nat /\ cache[r].until <= now + Ttl
        BY <3>1 DEF CatalogTypes, Entries, EntriesExpire
      <4> QED
        BY <1>2, <4>1, TimesAssumption, TtlAssumption DEF Tick, Types
    <3> QED
      BY <1>2, <3>1 DEF EntriesExpire, catalogVars
  <2> QED
    BY <2>1, <2>2 DEF CatalogShape
<1>3. CASE UNCHANGED vars
  BY <1>3 DEF vars, requestVars, catalogVars, CatalogShape, CatalogTypes, CopiesHeld,
              EntriesExpire
<1> QED
  BY <1>1, <1>2, <1>3 DEF Next

\* The types of the catalog hold throughout.
THEOREM CatalogShapeKept == Spec => []CatalogShape
BY CatalogShapeInit, CatalogShapeNext, ShapeKept, PTL DEF Spec

\* Types are correct, and no cache entry outlives the time to live.
THEOREM CatalogTypeCorrect == Spec => []CatalogTypeOK
<1>1. CatalogShape /\ IdentityTypeOK => CatalogTypeOK
  BY CopyFields
  DEF CatalogShape, CatalogTypes, EntriesExpire, CatalogTypeOK, Rows, Entries
<1> QED
  BY <1>1, CatalogShapeKept, IdentityTypeCorrect, PTL

-----------------------------------------------------------------------------
(* Lost updates and stale reads.                                           *)

\* A document that builds on these writers has p's change, or lost it in a race.
Survives(p, writers) == p \in writers \/ \E w \in writers : Overlap(w, p)

\* So does a copy that q took, for every change made before q was received.
BuildsOn(q, writers) ==
  \A p \in Requests :
    Changed(p) /\ Of(p) = Of(q) /\ Before(p, q) => Survives(p, writers)

Received(writers) == \A w \in writers : at[w] # "new"

WritersReceived ==
  /\ \A r \in Resources : Received(lineage[r]) /\ Received(cache[r].lineage)
  /\ \A q \in Requests : Received(held[q].lineage)

CopyCurrent(q) ==
  at[q] \in {"save", "fill"} => held[q].filler = q /\ BuildsOn(q, held[q].lineage)

\* An entry was taken by its filler, and lives from its filler's answer on.
EntryCurrent(r) ==
  cache[r] # NoEntry =>
    /\ Of(cache[r].filler) = r /\ Answered(cache[r].filler)
    /\ cache[r].until = answer[cache[r].filler].time + Ttl
    /\ BuildsOn(cache[r].filler, cache[r].lineage)

\* What q shows lacks p's change at worst because an entry had not expired.
ShownLate(q, p) ==
  /\ held[q].filler # q /\ ~Before(p, held[q].filler)
  /\ begun[q].time < answer[held[q].filler].time + Ttl

Shown(q) ==
  Route(q) = "get" /\ answer[q].status = 200 =>
    /\ held[q].filler \in Requests
    /\ held[q].filler # q => Answered(held[q].filler)
    /\ \A p \in Requests :
         Changed(p) /\ Of(p) = Of(q) /\ Before(p, q) =>
           Survives(p, held[q].lineage) \/ ShownLate(q, p)

ChangeKept(p) == Changed(p) => Survives(p, lineage[Of(p)])

Lineages ==
  /\ WritersReceived
  /\ \A q \in Requests : CopyCurrent(q) /\ Shown(q) /\ ChangeKept(q)
  /\ \A r \in Resources : EntryCurrent(r)

\* Two requests that were received keep their order.
LEMMA OrderKept ==
  ASSUME Shape, [Next]_vars, NEW w \in Requests, NEW p \in Requests,
         at[w] # "new", at[p] # "new"
  PROVE  /\ Before(w, p)' <=> Before(w, p)
         /\ Overlap(w, p)' <=> Overlap(w, p)
BY Frozen DEF Before, Overlap

\* A change was answered; what was answered stays a change, and no other becomes one.
LEMMA ChangedKept ==
  ASSUME Shape, [Next]_vars, NEW p \in Requests
  PROVE  /\ Changed(p) => Answered(p) /\ at[p] # "new" /\ Changed(p)'
         /\ Answered(p) /\ Changed(p)' => Changed(p)
         /\ Of(p)' = Of(p)
<1>1. Changed(p) => Answered(p)
  BY DEF Changed, Answered
<1> QED
  BY <1>1, Frozen DEF Changed, Route, Of

\* The fate of a change in a document is settled.
LEMMA SurvivalKept ==
  ASSUME Shape, [Next]_vars, NEW p \in Requests, Answered(p),
         NEW writers \in SUBSET Requests, Received(writers), Survives(p, writers)
  PROVE  Survives(p, writers)'
<1>1. at[p] # "new"
  BY Frozen
<1>2. ASSUME NEW w \in writers, Overlap(w, p) PROVE Overlap(w, p)'
  BY <1>1, <1>2, OrderKept DEF Received
<1> QED
  BY <1>2 DEF Survives

\* A copy stays as good as it was for the request that took it.
LEMMA BuildsOnKept ==
  ASSUME Shape, [Next]_vars, NEW q \in Requests, at[q] # "new",
         NEW writers \in SUBSET Requests, Received(writers), BuildsOn(q, writers)
  PROVE  BuildsOn(q, writers)'
<1> SUFFICES ASSUME NEW p \in Requests, Changed(p)', Of(p) = Of(q), Before(p, q)'
             PROVE  Survives(p, writers)'
  BY ChangedKept DEF BuildsOn
<1>1. Before(p, q) /\ Answered(p)
  BY Frozen DEF Before
<1>2. Survives(p, writers)
  BY <1>1, ChangedKept DEF BuildsOn
<1> QED
  BY <1>1, <1>2, SurvivalKept

\* A step of q leaves standing what is known of changes and copies.
LEMMA LineagesStep ==
  ASSUME Shape, CatalogShape, Lineages, [Next]_vars, NEW q \in Requests,
         \/ IdentityStep(q) /\ UNCHANGED catalogVars
         \/ CatalogStep(q)
  PROVE  Lineages'
<1> Shape' /\ Types /\ Histories /\ CatalogTypes
  BY ShapeNext DEF Shape, CatalogShape
<1> Ttl \in Nat /\ now \in Nat
  BY TimesAssumption, TtlAssumption DEF Types
<1>e. /\ Effects(q) /\ ~Answered(q) /\ at[q] # "done" /\ at'[q] # "new"
      /\ \A p \in Requests \ {q} : at'[p] = at[p] /\ answer'[p] = answer[p]
      /\ UNCHANGED <<call, now>>
      /\ \A p \in Requests : Of(p)' = Of(p) /\ Route(p)' = Route(p)
  BY StepEffects DEF Of, Route
<1>o. Of(q) \in Resources
  BY Written
<1>t. /\ \A r \in Resources : lineage[r] \in SUBSET Requests
      /\ \A r \in Resources : cache[r].lineage \in SUBSET Requests
      /\ \A p \in Requests : held[p].lineage \in SUBSET Requests
  <2>1. ASSUME NEW r \in Resources PROVE cache[r].lineage \in SUBSET Requests
    <3>1. cache[r] \in Entries \/ cache[r] = NoEntry
      BY DEF CatalogTypes
    <3> QED
      BY <3>1 DEF Entries, NoEntry
  <2>2. ASSUME NEW p \in Requests PROVE held[p].lineage \in SUBSET Requests
    <3>1. held[p] \in Copy \ {NoCopy} \/ held[p] = NoCopy
      BY DEF CatalogTypes
    <3> QED
      BY <3>1, CopyFields DEF NoCopy
  <2> QED
    BY <2>1, <2>2 DEF CatalogTypes
<1>r. ASSUME NEW writers \in SUBSET Requests, Received(writers)
      PROVE  Received(writers)'
  BY <1>r, Frozen DEF Received
<1>n. /\ \A p \in Requests \ {q} : held'[p] = held[p]
      /\ UNCHANGED held \/ held'[q] \in {StoredCopy(q), CachedCopy(Of(q))}
  BY <1>e DEF Effects, HeldEffect, CatalogTypes
<1>l. \A r \in Resources :
        \/ lineage'[r] = lineage[r]
        \/ /\ Of(q) = r /\ at[q] # "new" /\ q \in lineage'[r]
           /\ \/ lineage'[r] = lineage[r] \cup {q}
              \/ at[q] = "save" /\ lineage'[r] = held[q].lineage \cup {q}
  BY <1>e, <1>o DEF Effects, ResourceEffect, Upsert, Erase, Working, CatalogTypes
<1>h. \A r \in Resources :
        \/ cache'[r] = cache[r]
        \/ cache'[r] = NoEntry
        \/ /\ Of(q) = r /\ at[q] = "fill" /\ cache'[r] = Entry(q, now + Ttl)
           /\ at'[q] = "done" /\ answer'[q].time = now
  BY <1>e, <1>o DEF Effects, CacheEffect, StoreEntry, CatalogTypes
<1>1. WritersReceived'
  <2>1. ASSUME NEW r \in Resources PROVE Received(lineage[r])'
    BY <1>e, <1>l, <1>o, <1>r, <1>t DEF Lineages, WritersReceived, Received
  <2>2. ASSUME NEW r \in Resources PROVE Received(cache[r].lineage)'
    BY <1>h, <1>r, <1>t DEF Lineages, WritersReceived, Received, Entry, NoEntry
  <2>3. ASSUME NEW p \in Requests PROVE Received(held[p].lineage)'
    BY <1>n, <1>o, <1>r, <1>t
    DEF Lineages, WritersReceived, Received, StoredCopy, CachedCopy
  <2> QED
    BY <2>1, <2>2, <2>3 DEF WritersReceived
<1>2. ASSUME NEW p \in Requests PROVE ChangeKept(p)'
  <2> SUFFICES ASSUME Changed(p)'
               PROVE  Survives(p, lineage[Of(p)])'
    BY DEF ChangeKept
  <2>1. CASE ~Answered(p)
    <3>1. answer'[p] # answer[p] /\ p = q
      BY <1>e, <2>1 DEF Changed, Answered
    <3>2. q \in lineage'[Of(q)]
      BY <1>e, <1>o, <3>1
      DEF Changed, Effects, StatusEffect, Upsert, Erase, CatalogTypes
    <3> QED
      BY <1>e, <3>1, <3>2 DEF Survives
  <2>2. CASE Answered(p)
    <3>1. Changed(p) /\ p # q /\ Of(p) \in Resources
      BY <1>e, <2>2, ChangedKept, Written
    <3>2. Survives(p, lineage[Of(p)])
      BY <3>1 DEF Lineages, ChangeKept
    <3> DEFINE before == lineage[Of(p)]
               after == lineage'[Of(p)]
    <3>3. before \in SUBSET Requests /\ Received(before)
      BY <1>t, <3>1 DEF Lineages, WritersReceived
    <3>4. p \in before \/ \E w \in before : Overlap(w, p)'
      BY <2>2, <3>2, <3>3, SurvivalKept DEF Survives
    <3>5. CASE before \subseteq after
      <4> HIDE DEF before, after
      <4>1. p \in after \/ \E w \in after : Overlap(w, p)'
        BY <3>4, <3>5
      <4> QED
        BY <1>e, <4>1 DEF Survives, after
    <3>6. CASE at[q] = "save" /\ after = held[q].lineage \cup {q} /\ Of(q) = Of(p)
      <4>1. CASE Before(p, q)
        <5> DEFINE copy == held[q].lineage
        <5>1. copy \in SUBSET Requests /\ Received(copy) /\ Survives(p, copy)
          BY <1>t, <3>1, <3>6, <4>1
          DEF Lineages, WritersReceived, CopyCurrent, BuildsOn
        <5>2. p \in copy \/ \E w \in copy : Overlap(w, p)'
          BY <2>2, <5>1, SurvivalKept DEF Survives
        <5>3. copy \subseteq after
          BY <3>6
        <5> HIDE DEF before, after, copy
        <5>4. p \in after \/ \E w \in after : Overlap(w, p)'
          BY <5>2, <5>3
        <5> QED
          BY <1>e, <5>4 DEF Survives, after
      <4>2. CASE ~Before(p, q)
        <5>1. ~Before(q, p)
          BY <1>e, Frozen
        <5>2. Overlap(q, p) /\ at[q] # "new" /\ at[p] # "new"
          BY <3>1, <3>6, <4>2, <5>1, ChangedKept DEF Overlap
        <5>3. Overlap(q, p)' /\ q \in after
          BY <3>6, <5>2, OrderKept
        <5> HIDE DEF before, after
        <5>4. \E w \in after : Overlap(w, p)'
          BY <5>3
        <5> QED
          BY <1>e, <5>4 DEF Survives, after
      <4> QED
        BY <4>1, <4>2
    <3> QED
      BY <1>l, <3>1, <3>5, <3>6
  <2> QED
    BY <2>1, <2>2
<1>3. ASSUME NEW p \in Requests PROVE CopyCurrent(p)'
  <2> SUFFICES ASSUME at'[p] \in {"save", "fill"}
               PROVE  held'[p].filler = p /\ BuildsOn(p, held[p].lineage)'
    BY DEF CopyCurrent
  <2>1. CASE held'[p] = held[p] /\ at'[p] = at[p]
    <3> DEFINE copy == held[p].lineage
    <3>1. /\ held[p].filler = p /\ BuildsOn(p, copy) /\ at[p] # "new"
          /\ copy \in SUBSET Requests /\ Received(copy)
      BY <1>t, <2>1 DEF Lineages, CopyCurrent, WritersReceived
    <3>2. copy' = copy
      BY <2>1
    <3> HIDE DEF copy
    <3>3. BuildsOn(p, copy)'
      BY <3>1, <3>2, BuildsOnKept DEF BuildsOn
    <3> QED
      BY <2>1, <3>1, <3>3 DEF copy
  <2>2. CASE p = q /\ at[q] \in {"load", "fetch"} /\ held'[q] = StoredCopy(q)
    <3> DEFINE copy == lineage[Of(q)]
    <3>1. copy \in SUBSET Requests /\ Received(copy) /\ at[q] # "new"
      BY <1>o, <1>t, <2>2 DEF Lineages, WritersReceived
    <3>2. BuildsOn(q, copy)
      BY DEF BuildsOn, Lineages, ChangeKept
    <3>3. held'[q].lineage = copy /\ held'[q].filler = q
      BY <2>2 DEF StoredCopy
    <3> HIDE DEF copy
    <3>4. \A o \in Requests :
            (Changed(o) /\ Of(o) = Of(q) /\ Before(o, q))' =>
              o \in copy \/ \E w \in copy : Overlap(w, o)'
      BY <3>1, <3>2, BuildsOnKept DEF BuildsOn, Survives
    <3> QED
      BY <2>2, <3>3, <3>4 DEF BuildsOn, Survives
  <2> QED
    BY <1>e, <1>n, <2>1, <2>2 DEF Effects, HeldEffect, CatalogTypes
<1>4. ASSUME NEW r \in Resources PROVE EntryCurrent(r)'
  <2> SUFFICES ASSUME cache'[r] # NoEntry
               PROVE  /\ Of(cache[r].filler)' = r /\ Answered(cache[r].filler)'
                      /\ cache'[r].until = answer'[cache'[r].filler].time + Ttl
                      /\ BuildsOn(cache[r].filler, cache[r].lineage)'
    BY DEF EntryCurrent
  <2>1. CASE cache'[r] = cache[r]
    <3> DEFINE f == cache[r].filler
               copy == cache[r].lineage
    <3>1. /\ f \in Requests /\ copy \in SUBSET Requests
          /\ Of(f) = r /\ Answered(f) /\ cache[r].until = answer[f].time + Ttl
          /\ BuildsOn(f, copy) /\ Received(copy)
      BY <1>t, <2>1 DEF CatalogTypes, Entries, Lineages, EntryCurrent, WritersReceived
    <3>2. f' = f /\ copy' = copy
      BY <2>1
    <3> HIDE DEF f, copy
    <3>3. at[f] # "new" /\ answer'[f].status # 0 /\ answer'[f] = answer[f]
      BY <3>1, Frozen DEF Answered
    <3>4. \A o \in Requests :
            (Changed(o) /\ Of(o) = Of(f) /\ Before(o, f))' =>
              o \in copy \/ \E w \in copy : Overlap(w, o)'
      BY <3>1, <3>2, <3>3, BuildsOnKept DEF BuildsOn, Survives
    <3>5. BuildsOn(f, copy)'
      BY <3>2, <3>4 DEF BuildsOn, Survives
    <3>6. Of(f)' = r /\ Answered(f)' /\ cache'[r].until = answer'[f'].time + Ttl
      BY <1>e, <2>1, <3>1, <3>2, <3>3 DEF Answered
    <3> QED
      BY <3>5, <3>6 DEF f, copy
  <2>2. CASE /\ Of(q) = r /\ at[q] = "fill" /\ cache'[r] = Entry(q, now + Ttl)
             /\ at'[q] = "done" /\ answer'[q].time = now
    <3> DEFINE copy == held[q].lineage
    <3>1. copy \in SUBSET Requests /\ Received(copy) /\ at[q] # "new" /\ BuildsOn(q, copy)
      BY <1>t, <2>2 DEF Lineages, WritersReceived, CopyCurrent
    <3>2. cache'[r].filler = q /\ cache'[r].lineage = copy /\ cache'[r].until = now + Ttl
      BY <2>2 DEF Entry
    <3>3. Answered(q)'
      BY <2>2 DEF Shape, Histories
    <3> HIDE DEF copy
    <3>4. \A o \in Requests :
            (Changed(o) /\ Of(o) = Of(q) /\ Before(o, q))' =>
              o \in copy \/ \E w \in copy : Overlap(w, o)'
      BY <3>1, BuildsOnKept DEF BuildsOn, Survives
    <3>5. BuildsOn(cache[r].filler, cache[r].lineage)'
      BY <3>2, <3>4 DEF BuildsOn, Survives
    <3>6. Of(cache[r].filler)' = r /\ Answered(cache[r].filler)'
      BY <1>e, <2>2, <3>2, <3>3 DEF Of, Answered
    <3> QED
      BY <2>2, <3>2, <3>5, <3>6
  <2> QED
    BY <1>h, <2>1, <2>2
<1>5. ASSUME NEW p \in Requests PROVE Shown(p)'
  <2> SUFFICES ASSUME Route(p) = "get", answer'[p].status = 200
               PROVE  /\ held'[p].filler \in Requests
                      /\ held'[p].filler # p => Answered(held[p].filler)'
                      /\ \A o \in Requests :
                           (Changed(o) /\ Of(o) = Of(p) /\ Before(o, p))' =>
                             Survives(o, held[p].lineage)' \/ ShownLate(p, o)'
    BY <1>e DEF Shown
  <2>1. CASE Answered(p)
    <3> DEFINE f == held[p].filler
               copy == held[p].lineage
    <3>1. /\ p # q /\ held'[p] = held[p] /\ answer'[p] = answer[p]
          /\ begun'[p] = begun[p] /\ at[p] # "new"
      BY <1>e, <1>n, <2>1, Frozen
    <3>2. /\ f \in Requests /\ (f # p => Answered(f))
          /\ copy \in SUBSET Requests /\ Received(copy)
      BY <1>t, <3>1 DEF Lineages, Shown, WritersReceived
    <3>3. \A o \in Requests :
            Changed(o) /\ Of(o) = Of(p) /\ Before(o, p) =>
              Survives(o, copy) \/ ShownLate(p, o)
      BY <3>1 DEF Lineages, Shown
    <3>4. f' = f /\ copy' = copy
      BY <3>1
    <3> HIDE DEF f, copy
    <3>5. at[f] # "new" /\ (f # p => answer'[f].status # 0 /\ answer'[f] = answer[f])
      BY <3>1, <3>2, Frozen DEF Answered
    <3>6. ASSUME NEW o \in Requests, (Changed(o) /\ Of(o) = Of(p) /\ Before(o, p))'
          PROVE  \/ o \in copy \/ \E w \in copy : Overlap(w, o)'
                 \/ f # p /\ o \notin begun'[f].after /\ begun'[p].time < answer'[f].time + Ttl
      <4>1. Before(o, p) /\ Answered(o) /\ Changed(o) /\ Of(o) = Of(p)
        <5>1. Before(o, p) /\ Answered(o)
          BY <3>1, <3>6, Frozen DEF Before
        <5> QED
          BY <1>e, <3>6, <5>1, ChangedKept
      <4>2. CASE Survives(o, copy)
        BY <3>2, <4>1, <4>2, SurvivalKept DEF Survives
      <4>3. CASE ShownLate(p, o)
        BY <3>1, <3>2, <3>5, <4>3, Frozen DEF ShownLate, Before, f
      <4> QED
        BY <3>3, <4>1, <4>2, <4>3
    <3>7. ASSUME NEW o \in Requests, (Changed(o) /\ Of(o) = Of(p) /\ Before(o, p))'
          PROVE  Survives(o, held[p].lineage)' \/ ShownLate(p, o)'
      <4>1. held'[p].lineage = copy /\ held'[p].filler = f
        BY <3>1 DEF copy, f
      <4> QED
        BY <3>6, <3>7, <4>1 DEF Survives, ShownLate, Before
    <3>8. held'[p].filler = f /\ (f # p => Answered(f)')
      BY <3>1, <3>4, <3>5 DEF f, Answered
    <3> QED
      BY <3>2, <3>4, <3>7, <3>8 DEF f
  <2>2. CASE ~Answered(p) /\ at[q] = "fill" /\ UNCHANGED held
    <3> DEFINE copy == held[q].lineage
    <3>1. p = q
      BY <1>e, <2>2 DEF Answered
    <3>2. /\ held[q].filler = q /\ BuildsOn(q, copy)
          /\ copy \in SUBSET Requests /\ Received(copy)
      BY <1>t, <2>2 DEF Lineages, CopyCurrent, WritersReceived
    <3>3. held'[q].filler = q /\ held'[q].lineage = copy
      BY <2>2, <3>2
    <3> HIDE DEF copy
    <3>4. \A o \in Requests :
            (Changed(o) /\ Of(o) = Of(q) /\ Before(o, q))' =>
              o \in copy \/ \E w \in copy : Overlap(w, o)'
      BY <2>2, <3>2, BuildsOnKept DEF BuildsOn, Survives
    <3> QED
      BY <3>1, <3>3, <3>4 DEF Survives
  <2>3. CASE /\ ~Answered(p) /\ at[q] = "look" /\ Cached(Of(q))
             /\ held' = [held EXCEPT ![q] = CachedCopy(Of(q))]
    <3>1. p = q
      BY <1>e, <2>3 DEF Answered
    <3>2. PICK f \in Requests, copy \in SUBSET Requests :
            /\ f = cache[Of(q)].filler /\ copy = cache[Of(q)].lineage
            /\ Answered(f) /\ Of(f) = Of(q) /\ now < answer[f].time + Ttl
            /\ BuildsOn(f, copy) /\ Received(copy)
      <4>1. cache[Of(q)] \in Entries /\ cache[Of(q)].until > now
        BY <1>o, <2>3 DEF Cached, CatalogTypes
      <4>2. cache[Of(q)].until \in Nat /\ cache[Of(q)].filler \in Requests
        BY <4>1 DEF Entries
      <4>3. EntryCurrent(Of(q)) /\ cache[Of(q)] # NoEntry
        BY <1>o, <2>3 DEF Lineages, Cached
      <4>4. Received(cache[Of(q)].lineage)
        BY <1>o DEF Lineages, WritersReceived
      <4> QED
        BY <1>o, <1>t, <4>1, <4>2, <4>3, <4>4 DEF EntryCurrent
    <3>3. held'[q].filler = f /\ held'[q].lineage = copy
      BY <2>3, <3>2 DEF CachedCopy, CatalogTypes
    <3>4. f # q /\ at[f] # "new" /\ answer'[f] = answer[f] /\ answer'[f].status # 0
          /\ begun'[f] = begun[f]
      BY <1>e, <3>2, Frozen DEF Answered
    <3>5. /\ begun'[q] = begun[q] /\ begun[q].time <= now
          /\ begun[q].time \in Nat /\ answer[f].time \in Nat
      BY <2>3, <3>2, Frozen DEF Histories, Types
    <3>6. begun'[q].time < answer'[f].time + Ttl
      BY <3>2, <3>4, <3>5
    <3>7. ASSUME NEW o \in Requests, (Changed(o) /\ Of(o) = Of(q) /\ Before(o, q))'
          PROVE  Survives(o, held[q].lineage)' \/ ShownLate(q, o)'
      <4>1. CASE o \in begun[f].after
        <5>1. (Changed(o) /\ Of(o) = Of(f) /\ Before(o, f))'
          BY <1>e, <3>2, <3>4, <3>7, <4>1 DEF Before
        <5>2. o \in copy \/ \E w \in copy : Overlap(w, o)'
          BY <3>2, <3>4, <5>1, BuildsOnKept DEF BuildsOn, Survives
        <5> QED
          BY <3>3, <5>2 DEF Survives
      <4>2. CASE o \notin begun[f].after
        BY <3>3, <3>4, <3>6, <4>2 DEF ShownLate, Before
      <4> QED
        BY <4>1, <4>2
    <3>8. Answered(held[q].filler)'
      BY <3>3, <3>4 DEF Answered
    <3> QED
      BY <3>1, <3>2, <3>3, <3>7, <3>8
  <2>4. ~Answered(p) => p = q /\ at'[q] = "done"
    BY <1>e DEF Shape, Histories, Answered
  <2> QED
    BY <1>e, <2>1, <2>2, <2>3, <2>4 DEF Effects, HeldEffect
<1> QED
  BY <1>1, <1>2, <1>3, <1>4, <1>5 DEF Lineages

\* What is known of changes and copies holds throughout.
THEOREM LineagesKept == Spec => []Lineages
<1>1. Init => Lineages
  <2> SUFFICES ASSUME Init PROVE Lineages
    OBVIOUS
  <2>1. \A q \in Requests : answer[q].status = 0 /\ at[q] = "new"
    BY DEF Init, IdentityInit, Unanswered
  <2>2. /\ \A r \in Resources : lineage[r] = {} /\ cache[r] = NoEntry
        /\ \A q \in Requests : held[q] = NoCopy
    BY DEF Init, CatalogInit
  <2>3. NoEntry.lineage = {} /\ NoCopy.lineage = {}
    BY DEF NoEntry, NoCopy
  <2>4. WritersReceived
    BY <2>2, <2>3 DEF WritersReceived, Received
  <2>5. ASSUME NEW q \in Requests PROVE CopyCurrent(q) /\ Shown(q) /\ ChangeKept(q)
    BY <2>1 DEF CopyCurrent, Shown, ChangeKept, Changed
  <2> QED
    BY <2>2, <2>4, <2>5 DEF Lineages, EntryCurrent
<1>2. Shape /\ CatalogShape /\ Lineages /\ [Next]_vars => Lineages'
  <2> SUFFICES ASSUME Shape, CatalogShape, Lineages, [Next]_vars PROVE Lineages'
    OBVIOUS
  <2>1. ASSUME UNCHANGED <<call, at, answer, begun, resources, cache, held, lineage>>
        PROVE  Lineages'
    BY <2>1
    DEF Lineages, WritersReceived, Received, CopyCurrent, Shown, ShownLate, ChangeKept,
        EntryCurrent, BuildsOn, Survives, Overlap, Before, Changed, Route, Of, Answered
  <2>2. CASE (Tick /\ UNCHANGED catalogVars) \/ UNCHANGED vars
    BY <2>1, <2>2 DEF Tick, vars, requestVars, catalogVars
  <2> QED
    BY <2>2, LineagesStep DEF Next
<1> QED
  BY <1>1, <1>2, ShapeKept, CatalogShapeKept, PTL DEF Spec

\* A change that was answered is undone only by a request that ran beside it.
THEOREM LostUpdatesAreRaces == Spec => []LostUpdateNeedsARace
<1>1. Lineages => LostUpdateNeedsARace
  BY DEF Lineages, ChangeKept, Survives, LostUpdateNeedsARace
<1> QED
  BY <1>1, LineagesKept, PTL

\* A read that lacks a change made before it shows an entry cached before the
\* change was answered, and for no longer than the time to live.
THEOREM ReadsAreStaleWithinBounds == Spec => []StalenessBounded
<1>1. Lineages => StalenessBounded
  BY DEF Lineages, Shown, ShownLate, Survives, StalenessBounded
<1> QED
  BY <1>1, LineagesKept, PTL

-----------------------------------------------------------------------------
(* Imports.                                                                *)

RowsOf(p) == {i \in 1 .. Len(call[p].rows) : <<p, i>> \in inserted}

\* An import has looked at the rows it has counted, and inserted some of them.
ImportCounted(p) ==
  Route(p) = "bulk" =>
    /\ tally[p].imported <= Cardinality(RowsOf(p))
    /\ tally[p].imported + tally[p].failed <= Len(call[p].rows)
    /\ \A i \in Nat \ {0} : <<p, i>> \in inserted =>
         i <= tally[p].imported + tally[p].failed /\ call[p].rows[i] = "good"
    /\ answer[p].status = 200 =>
         tally[p].imported + tally[p].failed = Len(call[p].rows)

CreationKept(p) ==
  Route(p) = "create" /\ answer[p].status = 201 => <<p, 1>> \in inserted

\* What q has listed of the rows of p.
ListedInFull(q, p) ==
  Route(q) = "list" /\ answer[q].status = 200 /\ Before(p, q) =>
    LET rows == {i \in 1 .. Len(call[p].rows) : <<p, i>> \in listed[q]} IN
    /\ Route(p) = "create" /\ answer[p].status = 201 => <<p, 1>> \in listed[q]
    /\ Route(p) = "bulk" /\ answer[p].status = 200 =>
         /\ tally[p].imported <= Cardinality(rows)
         /\ \A i \in rows : call[p].rows[i] = "good"
         /\ tally[p].imported + tally[p].failed = Len(call[p].rows)

Imports ==
  /\ \A p \in Requests : ImportCounted(p) /\ CreationKept(p)
  /\ \A p, q \in Requests : ListedInFull(q, p)

\* The rows of an import are finitely many.
LEMMA RowsFinite ==
  ASSUME Shape, NEW p \in Requests
  PROVE  /\ Len(call[p].rows) \in Nat
         /\ IsFiniteSet(RowsOf(p)) /\ Cardinality(RowsOf(p)) \in Nat
<1>1. Len(call[p].rows) \in Nat
  BY CallType DEF Shape
<1>2. IsFiniteSet(1 .. Len(call[p].rows))
  BY <1>1, FS_Interval
<1>3. IsFiniteSet(RowsOf(p))
  BY <1>2, FS_Subset DEF RowsOf
<1> QED
  BY <1>1, <1>3, FS_CardinalityType

\* The keys that creations draw are none of those that were there.
LEMMA RowsAreNew ==
  ASSUME NEW p \in Requests, NEW i \in Nat
  PROVE  <<p, i>> \in AllResources <=> <<p, i>> \in inserted
BY KeysAssumption DEF AllResources

\* A row is inserted once, and counted once.
LEMMA RowInserted ==
  ASSUME Shape, CatalogShape, Imports, NEW q \in Requests, RowIs(q, "good"),
         UNCHANGED call, inserted' = inserted \cup {<<q, Row(q)>>}
  PROVE  Cardinality(RowsOf(q)') = Cardinality(RowsOf(q)) + 1
<1>1. Route(q) = "bulk" /\ Row(q) <= Len(call[q].rows)
  BY DEF RowIs, MoreRows, Working
<1>2. /\ Row(q) \in Nat \ {0} /\ Row(q) = tally[q].imported + tally[q].failed + 1
      /\ tally[q].imported \in Nat /\ tally[q].failed \in Nat
  BY RowType DEF Row
<1>3. Row(q) \notin RowsOf(q)
  <2>1. <<q, Row(q)>> \notin inserted
    BY <1>1, <1>2 DEF Imports, ImportCounted
  <2> QED
    BY <2>1 DEF RowsOf
<1>4. RowsOf(q)' = RowsOf(q) \cup {Row(q)}
  BY <1>1, <1>2, RowsFinite DEF RowsOf
<1> QED
  BY <1>3, <1>4, RowsFinite, FS_AddElement

\* A step of q leaves standing what is known of imports and listings.
LEMMA ImportsStep ==
  ASSUME Shape, CatalogShape, Imports, [Next]_vars, NEW q \in Requests,
         \/ IdentityStep(q) /\ UNCHANGED catalogVars
         \/ CatalogStep(q)
  PROVE  Imports'
<1> Shape' /\ Types /\ Histories /\ CatalogTypes
  BY ShapeNext DEF Shape, CatalogShape
<1>e. /\ Effects(q) /\ ~Answered(q) /\ at[q] # "done" /\ at'[q] # "new"
      /\ \A p \in Requests \ {q} : at'[p] = at[p] /\ answer'[p] = answer[p]
      /\ UNCHANGED <<call, now>>
      /\ \A p \in Requests : Route(p)' = Route(p)
  BY StepEffects DEF Route
<1>i. \/ UNCHANGED inserted
      \/ Working(q, "create") /\ inserted' = inserted \cup {<<q, 1>>}
      \/ RowIs(q, "good") /\ inserted' = inserted \cup {<<q, Row(q)>>}
  BY <1>e DEF Effects, RowsEffect
<1>o. \A p \in Requests \ {q} : tally'[p] = tally[p] /\ listed'[p] = listed[p]
  BY <1>e DEF Effects, RowsEffect, CountsImported, CountsFailed, CatalogTypes
<1>0. answer[q].status = 0
  BY <1>e DEF Answered
<1>1. ASSUME NEW p \in Requests PROVE CreationKept(p)'
  <2>1. CASE p = q
    BY <1>e, <2>1 DEF CreationKept, Effects, StatusEffect
  <2>2. CASE p # q
    <3>1. CreationKept(p) /\ inserted \subseteq inserted'
      BY <1>i DEF Imports
    <3> QED
      BY <1>e, <2>2, <3>1 DEF CreationKept
  <2> QED
    BY <2>1, <2>2
<1>2. ASSUME NEW p \in Requests, p # q PROVE ImportCounted(p)'
  <2>1. \A i \in Nat : <<p, i>> \in inserted' <=> <<p, i>> \in inserted
    BY <1>i, <1>2
  <2>2. RowsOf(p)' = RowsOf(p)
    BY <1>e, <2>1, RowsFinite DEF RowsOf
  <2>3. ImportCounted(p)
    BY DEF Imports
  <2> QED
    BY <1>2, <1>e, <1>o, <2>1, <2>2, <2>3 DEF ImportCounted
<1>3. ImportCounted(q)'
  <2> SUFFICES ASSUME Route(q) = "bulk" PROVE ImportCounted(q)'
    BY <1>e DEF ImportCounted
  <2>n. PICK n \in Nat, f \in Nat, l \in Nat, c \in Nat :
          /\ n = tally[q].imported /\ f = tally[q].failed
          /\ l = Len(call[q].rows) /\ c = Cardinality(RowsOf(q))
    BY RowType, RowsFinite
  <2>r. Row(q) = n + f + 1
    BY <2>n DEF Row
  <2>k. n <= c /\ n + f <= l
    BY <2>n DEF Imports, ImportCounted
  <2>j. \A i \in Nat \ {0} :
          <<q, i>> \in inserted => i <= n + f /\ call[q].rows[i] = "good"
    BY <2>n DEF Imports, ImportCounted
  <2>1. CASE UNCHANGED <<inserted, tally>>
    <3>1. RowsOf(q)' = RowsOf(q)
      BY <1>e, <2>1 DEF RowsOf
    <3>2. answer'[q].status = 200 =>
            tally[q].imported + tally[q].failed = Len(call[q].rows)
      <4>1. answer'[q].status = 200 => n + f + 1 > l
        BY <1>e, <2>n, <2>r DEF Effects, StatusEffect
      <4>2. n + f + 1 > l => n + f = l
        BY <2>k
      <4> QED
        BY <2>n, <4>1, <4>2
    <3>3. ImportCounted(q)
      BY DEF Imports
    <3> QED
      BY <1>e, <2>1, <3>1, <3>2, <3>3 DEF ImportCounted
  <2>2. CASE /\ RowIs(q, "good") /\ CountsImported(q) /\ UNCHANGED answer
             /\ inserted' = inserted \cup {<<q, Row(q)>>}
    <3>1. tally'[q].imported = n + 1 /\ tally'[q].failed = f
      BY <2>2, <2>n DEF CountsImported, CatalogTypes
    <3>2. n + f + 1 <= l /\ call[q].rows[n + f + 1] = "good"
      BY <2>2, <2>n, <2>r DEF RowIs, MoreRows
    <3>3. Cardinality(RowsOf(q)') = c + 1
      BY <1>e, <2>2, <2>n, RowInserted
    <3>4. ASSUME NEW i \in Nat \ {0}, <<q, i>> \in inserted'
          PROVE  i <= tally'[q].imported + tally'[q].failed /\ call[q].rows[i] = "good"
      <4>1. CASE i = n + f + 1
        BY <3>1, <3>2, <4>1
      <4>2. CASE <<q, i>> \in inserted
        <5>1. i <= n + f /\ call[q].rows[i] = "good"
          BY <2>j, <4>2
        <5> QED
          BY <3>1, <5>1
      <4> QED
        BY <2>2, <2>r, <3>4, <4>1, <4>2
    <3>5. /\ tally'[q].imported <= Cardinality(RowsOf(q)')
          /\ tally'[q].imported + tally'[q].failed <= Len(call[q].rows)
      <4>1. n + 1 <= c + 1 /\ n + 1 + f <= l
        BY <2>k, <3>2
      <4> QED
        BY <2>n, <3>1, <3>3, <4>1
    <3>6. answer'[q].status = 0
      BY <1>0, <2>2
    <3> QED
      BY <1>e, <3>4, <3>5, <3>6 DEF ImportCounted
  <2>3. CASE /\ \E kind \in {"good", "bad"} : RowIs(q, kind)
             /\ CountsFailed(q) /\ UNCHANGED answer
             /\ \/ UNCHANGED inserted
                \/ RowIs(q, "good") /\ inserted' = inserted \cup {<<q, Row(q)>>}
    <3>1. tally'[q].imported = n /\ tally'[q].failed = f + 1
      BY <2>3, <2>n DEF CountsFailed, CatalogTypes
    <3>2. n + f + 1 <= l
      BY <2>3, <2>n, <2>r DEF RowIs, MoreRows
    <3>3. \/ UNCHANGED inserted
          \/ /\ inserted' = inserted \cup {<<q, n + f + 1>>}
             /\ call[q].rows[n + f + 1] = "good"
      BY <2>3, <2>r DEF RowIs
    <3>4. Cardinality(RowsOf(q)') \in {c, c + 1}
      <4>1. CASE UNCHANGED inserted
        <5>1. RowsOf(q)' = RowsOf(q)
          BY <1>e, <4>1 DEF RowsOf
        <5> QED
          BY <2>n, <5>1
      <4>2. CASE RowIs(q, "good") /\ inserted' = inserted \cup {<<q, Row(q)>>}
        BY <1>e, <2>n, <4>2, RowInserted
      <4> QED
        BY <2>3, <4>1, <4>2
    <3>5. ASSUME NEW i \in Nat \ {0}, <<q, i>> \in inserted'
          PROVE  i <= tally'[q].imported + tally'[q].failed /\ call[q].rows[i] = "good"
      <4>1. CASE i = n + f + 1 /\ call[q].rows[i] = "good"
        BY <3>1, <4>1
      <4>2. CASE <<q, i>> \in inserted
        <5>1. i <= n + f /\ call[q].rows[i] = "good"
          BY <2>j, <4>2
        <5> QED
          BY <3>1, <5>1
      <4> QED
        BY <3>3, <3>5, <4>1, <4>2
    <3>6. /\ tally'[q].imported <= Cardinality(RowsOf(q)')
          /\ tally'[q].imported + tally'[q].failed <= Len(call[q].rows)
      <4>1. n <= c /\ n <= c + 1 /\ n + (f + 1) <= l
        BY <2>k, <3>2
      <4> QED
        BY <2>n, <3>1, <3>4, <4>1
    <3>7. answer'[q].status = 0
      BY <1>0, <2>3
    <3> QED
      BY <1>e, <3>5, <3>6, <3>7 DEF ImportCounted
  <2>4. \/ UNCHANGED <<inserted, tally>>
        \/ /\ RowIs(q, "good") /\ CountsImported(q) /\ UNCHANGED answer
           /\ inserted' = inserted \cup {<<q, Row(q)>>}
        \/ /\ RowIs(q, "good") \/ RowIs(q, "bad")
           /\ CountsFailed(q) /\ UNCHANGED answer
           /\ \/ UNCHANGED inserted
              \/ RowIs(q, "good") /\ inserted' = inserted \cup {<<q, Row(q)>>}
    BY <1>e DEF Effects, RowsEffect, Working
  <2> QED
    BY <2>1, <2>2, <2>3, <2>4
<1>4. ASSUME NEW o \in Requests, NEW p \in Requests PROVE ListedInFull(o, p)'
  <2> SUFFICES ASSUME Route(o) = "list", answer'[o].status = 200, Before(p, o)'
               PROVE  ListedInFull(o, p)'
    BY <1>e DEF ListedInFull
  <2>1. CASE Answered(o)
    <3>1. /\ o # q /\ at[o] # "new" /\ answer'[o] = answer[o] /\ listed'[o] = listed[o]
          /\ Before(p, o)
      BY <1>e, <1>o, <2>1, Frozen DEF Before
    <3>2. p # q /\ answer'[p] = answer[p] /\ tally'[p] = tally[p]
      BY <1>e, <1>o, <3>1, Frozen
    <3>3. ListedInFull(o, p)
      BY DEF Imports
    <3> QED
      BY <1>e, <3>1, <3>2, <3>3 DEF ListedInFull
  <2>2. CASE ~Answered(o)
    <3>1. o = q
      BY <1>e, <2>2 DEF Answered
    <3>a. /\ at[q] = "work" /\ Route(q) = "list"
          /\ listed' = [listed EXCEPT ![q] = AllResources]
      BY <1>e, <3>1 DEF Effects, StatusEffect
    <3>b. UNCHANGED <<inserted, tally>>
      <4>1. ~Working(q, "create") /\ ~RowIs(q, "good") /\ ~RowIs(q, "bad")
        BY <3>a DEF Working, RowIs, MoreRows
      <4> QED
        BY <1>e, <4>1 DEF Effects, RowsEffect
    <3>2. /\ Working(q, "list") /\ listed'[q] = AllResources
          /\ UNCHANGED <<inserted, tally>>
      BY <3>a, <3>b DEF Working, CatalogTypes
    <3>3. Before(p, q)
      BY <1>e, <3>1, <3>2, StepEffects DEF Before, Working
    <3>4. p # q /\ answer'[p] = answer[p] /\ tally'[p] = tally[p]
      BY <1>e, <1>o, <3>3, Frozen
    <3>5. ImportCounted(p) /\ CreationKept(p)
      BY DEF Imports
    <3> DEFINE rows == {i \in 1 .. Len(call[p].rows) : <<p, i>> \in AllResources}
    <3>6. rows = RowsOf(p)
      BY RowsAreNew, RowsFinite DEF RowsOf
    <3>7. \A i \in rows : call[p].rows[i] = "good" \/ Route(p) # "bulk"
      BY <3>5, <3>6, RowsFinite DEF RowsOf, ImportCounted
    <3>8. <<p, 1>> \in AllResources <=> <<p, 1>> \in inserted
      BY RowsAreNew
    <3>9. /\ Route(p) = "create" /\ answer[p].status = 201 => <<p, 1>> \in AllResources
          /\ Route(p) = "bulk" /\ answer[p].status = 200 =>
               /\ tally[p].imported <= Cardinality(rows)
               /\ \A i \in rows : call[p].rows[i] = "good"
               /\ tally[p].imported + tally[p].failed = Len(call[p].rows)
      BY <3>5, <3>6, <3>7, <3>8 DEF ImportCounted, CreationKept
    <3> QED
      BY <1>e, <3>1, <3>2, <3>4, <3>9 DEF ListedInFull
  <2> QED
    BY <2>1, <2>2
<1> QED
  BY <1>1, <1>2, <1>3, <1>4 DEF Imports

\* What was said to be created or imported is in every listing asked for later.
THEOREM ImportsAreInListings == Spec => []ImportsAreListed
<1>1. Init => Imports
  <2> SUFFICES ASSUME Init PROVE Imports
    OBVIOUS
  <2>1. /\ \A q \in Requests : answer[q].status = 0
        /\ \A q \in Requests : tally[q].imported = 0 /\ tally[q].failed = 0
        /\ inserted = {}
    BY DEF Init, IdentityInit, CatalogInit, Unanswered
  <2>2. ASSUME NEW p \in Requests PROVE ImportCounted(p)
    <3>1. Shape
      BY ShapeInit
    <3> QED
      BY <2>1, <3>1, RowsFinite DEF ImportCounted
  <2> QED
    BY <2>1, <2>2 DEF Imports, CreationKept, ListedInFull
<1>2. Shape /\ CatalogShape /\ Imports /\ [Next]_vars => Imports'
  <2> SUFFICES ASSUME Shape, CatalogShape, Imports, [Next]_vars PROVE Imports'
    OBVIOUS
  <2>1. ASSUME UNCHANGED <<call, at, answer, begun, inserted, tally, listed>>
        PROVE  Imports'
    <3>1. \A p \in Requests : Route(p)' = Route(p) /\ RowsOf(p)' = RowsOf(p)
      BY <2>1 DEF Route, RowsOf
    <3>2. ASSUME NEW p \in Requests PROVE ImportCounted(p)' /\ CreationKept(p)'
      <4>1. ImportCounted(p) /\ CreationKept(p)
        BY DEF Imports
      <4> QED
        BY <2>1, <3>1, <4>1 DEF ImportCounted, CreationKept
    <3>3. ASSUME NEW p \in Requests, NEW o \in Requests PROVE ListedInFull(o, p)'
      <4>1. ListedInFull(o, p) /\ Before(p, o)' = Before(p, o)
        BY <2>1 DEF Imports, Before
      <4> QED
        BY <2>1, <3>1, <4>1 DEF ListedInFull
    <3> QED
      BY <3>2, <3>3 DEF Imports
  <2>2. CASE (Tick /\ UNCHANGED catalogVars) \/ UNCHANGED vars
    BY <2>1, <2>2 DEF Tick, vars, requestVars, catalogVars
  <2> QED
    BY <2>2, ImportsStep DEF Next
<1>3. Imports => ImportsAreListed
  BY DEF Imports, ListedInFull, ImportsAreListed
<1> QED
  BY <1>1, <1>2, <1>3, ShapeKept, CatalogShapeKept, PTL DEF Spec

=============================================================================
