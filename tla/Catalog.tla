------------------------------ MODULE Catalog ------------------------------
(***************************************************************************)
(* The catalog of resources: the routes that create, import, update,       *)
(* remove, list, search and show them, the Couchbase repository under      *)
(* these, and the Redis cache of CachedResourceQueryRepository under the   *)
(* last.  All of it is of one organization, that of the accounts.          *)
(*                                                                         *)
(* A request authenticates as in Identity and then makes its own round     *)
(* trips here.  It may stop between any two of them: a process that dies   *)
(* is one that takes no step.                                              *)
(***************************************************************************)
EXTENDS Identity

CONSTANT Ttl     \* resource_detail_ttl

ASSUME TtlAssumption == Ttl \in Nat \ {0}

\* A key drawn at random is none of those in the catalog.
ASSUME KeysAssumption == Resources \cap (Requests \X Nat) = {}

VARIABLES
  resources,     \* resources[r]: the document under a resource's key
  inserted,      \* the rows <<q, i>> that requests have inserted, each under
                 \* a key of its own, drawn at random
  cache,         \* cache[r]: the Redis entry of a resource
  held,          \* held[q]: the copy q has loaded or shows
  tally,         \* tally[q]: the rows q has imported, and those that failed
  listed,        \* listed[q]: what q has listed
  lineage        \* history: lineage[r]: the writers that the document under
                 \* r's key, or its absence, builds on

catalogVars == <<resources, inserted, cache, held, tally, listed, lineage>>
vars == <<requestVars, identityVars, now, faults, catalogVars>>

\* What the model keeps of a resource: name, type and address never decide
\* anything here.
Document == [units : Nat \ {0}, active : BOOLEAN, version : Nat \ {0}]
NoResource == [units |-> 0, active |-> FALSE, version |-> 0]
NoEntry == [document |-> NoResource, lineage |-> {}, filler |-> "none", until |-> 0]
NoCopy == [document |-> NoResource, lineage |-> {}, filler |-> "none"]

Copy ==
  [document : Document, lineage : SUBSET Requests, filler : Requests] \cup {NoCopy}

CatalogTypeOK ==
  /\ IdentityTypeOK
  /\ resources \in [Resources -> Document \cup {NoResource}]
  /\ inserted \subseteq Requests \X (Nat \ {0})
  /\ \A r \in Resources : cache[r] # NoEntry =>
       /\ cache[r].document \in Document
       /\ cache[r].until <= now + Ttl
  /\ held \in [Requests -> Copy]
  /\ tally \in [Requests -> [imported : Nat, failed : Nat]]
  /\ lineage \in [Resources -> SUBSET Requests]

CatalogInit ==
  /\ resources = [r \in Resources |-> [units |-> 2, active |-> TRUE, version |-> 1]]
  /\ inserted = {}
  /\ cache = [r \in Resources |-> NoEntry]
  /\ held = [q \in Requests |-> NoCopy]
  /\ tally = [q \in Requests |-> [imported |-> 0, failed |-> 0]]
  /\ listed = [q \in Requests |-> {}]
  /\ lineage = [r \in Resources |-> {}]

Init == IdentityInit /\ CatalogInit

Of(q) == call[q].resource
Elsewhere == <<call, identityVars, owner, now, begun>>

-----------------------------------------------------------------------------
(* PUT /admin/resources/{id}: UpdateResourceHandler.                       *)

Stored(q) == resources[Of(q)]
StoredCopy(q) ==
  [document |-> Stored(q), lineage |-> lineage[Of(q)], filler |-> q]

Cached(r) == cache[r] # NoEntry /\ cache[r].until > now
CachedCopy(r) ==
  [document |-> cache[r].document, lineage |-> cache[r].lineage,
   filler |-> cache[r].filler]

\* Mutant: the resource is loaded through the cache.
LoadThroughCache(q) ==
  /\ at[q] = "load"
  /\ IF Stored(q) = NoResource
       THEN Ends(q, "absent") /\ UNCHANGED held
       ELSE /\ held' = [held EXCEPT ![q] =
                 IF Cached(Of(q)) THEN CachedCopy(Of(q)) ELSE StoredCopy(q)]
            /\ Goes(q, "save")
  /\ UNCHANGED <<Elsewhere, faults, resources, inserted, cache, tally, listed, lineage>>

Load(q) ==
  /\ at[q] = "load"
  /\ IF Stored(q) = NoResource
       THEN Ends(q, "absent") /\ UNCHANGED held
       ELSE held' = [held EXCEPT ![q] = StoredCopy(q)] /\ Goes(q, "save")
  /\ UNCHANGED <<Elsewhere, faults, resources, inserted, cache, tally, listed, lineage>>

LoadFails(q) ==
  /\ at[q] = "load"
  /\ Fault
  /\ EndsInError(q)
  /\ UNCHANGED <<Elsewhere, catalogVars>>

\* Mutant: no units are no units.
UnitsAsGiven(n) == n

\* rehydrate() takes no units for one unit.
Units(n) == IF n = 0 THEN 1 ELSE n

Updated(q) ==
  [units |-> Units(call[q].units), active |-> call[q].active,
   version |-> held[q].document.version + 1]

\* update_resource() upserts: it compares the document with nothing.
Upsert(q) ==
  /\ resources' = [resources EXCEPT ![Of(q)] = Updated(q)]
  /\ lineage' = [lineage EXCEPT ![Of(q)] = held[q].lineage \cup {q}]

Save(q) ==
  /\ at[q] = "save"
  /\ Upsert(q)
  /\ Ends(q, "done")
  /\ UNCHANGED <<Elsewhere, faults, inserted, cache, held, tally, listed>>

SaveFails(q) ==
  /\ at[q] = "save"
  /\ Fault
  /\ UNCHANGED <<resources, lineage>> \/ Upsert(q)
  /\ EndsInError(q)
  /\ UNCHANGED <<Elsewhere, inserted, cache, held, tally, listed>>

-----------------------------------------------------------------------------
(* DELETE /admin/resources/{id}.                                           *)

Working(q, route) == at[q] = "work" /\ Route(q) = route

Erase(q) ==
  /\ resources' = [resources EXCEPT ![Of(q)] = NoResource]
  /\ lineage' = [lineage EXCEPT ![Of(q)] = @ \cup {q}]

\* A resource that is not there is removed all the same.
Remove(q) ==
  /\ Working(q, "remove")
  /\ Erase(q)
  /\ Ends(q, "done")
  /\ UNCHANGED <<Elsewhere, faults, inserted, cache, held, tally, listed>>

RemoveFails(q) ==
  /\ Working(q, "remove")
  /\ Fault
  /\ UNCHANGED <<resources, lineage>> \/ Erase(q)
  /\ EndsInError(q)
  /\ UNCHANGED <<Elsewhere, inserted, cache, held, tally, listed>>

-----------------------------------------------------------------------------
(* POST /admin/resources and /admin/resources/bulk.                        *)

\* The key is new, so the insert cannot meet a document.
Create(q) ==
  /\ Working(q, "create")
  /\ inserted' = inserted \cup {<<q, 1>>}
  /\ Ends(q, "done")
  /\ UNCHANGED <<Elsewhere, faults, resources, cache, held, tally, listed, lineage>>

CreateFails(q) ==
  /\ Working(q, "create")
  /\ Fault
  /\ UNCHANGED inserted \/ inserted' = inserted \cup {<<q, 1>>}
  /\ EndsInError(q)
  /\ UNCHANGED <<Elsewhere, resources, cache, held, tally, listed, lineage>>

Row(q) == tally[q].imported + tally[q].failed + 1
MoreRows(q) == Working(q, "bulk") /\ Row(q) <= Len(call[q].rows)
RowIs(q, kind) == MoreRows(q) /\ call[q].rows[Row(q)] = kind

\* Mutant: a row counts as imported before it is inserted.
CountsFailedAsImported(q) == tally' = [tally EXCEPT ![q].imported = @ + 1]

CountsImported(q) == tally' = [tally EXCEPT ![q].imported = @ + 1]
CountsFailed(q) == tally' = [tally EXCEPT ![q].failed = @ + 1]

InsertRow(q) ==
  /\ RowIs(q, "good")
  /\ inserted' = inserted \cup {<<q, Row(q)>>}
  /\ CountsImported(q)
  /\ UNCHANGED <<Elsewhere, at, answer, faults, resources, cache, held, listed, lineage>>

\* An error is told in the answer, which may be wrong about an insert whose
\* own answer was lost.
InsertRowFails(q) ==
  /\ RowIs(q, "good")
  /\ Fault
  /\ UNCHANGED inserted \/ inserted' = inserted \cup {<<q, Row(q)>>}
  /\ CountsFailed(q)
  /\ UNCHANGED <<Elsewhere, at, answer, resources, cache, held, listed, lineage>>

\* A row without a name, or of a type that does not exist.
SkipRow(q) ==
  /\ RowIs(q, "bad")
  /\ CountsFailed(q)
  /\ UNCHANGED <<Elsewhere, at, answer, faults, resources, inserted, cache, held,
                 listed, lineage>>

\* A row that is no object: isMember() throws out of the controller, whatever
\* has been imported before it.
AbortBulk(q) ==
  /\ RowIs(q, "scalar")
  /\ Ends(q, "thrown")
  /\ UNCHANGED <<Elsewhere, faults, catalogVars>>

AnswerBulk(q) ==
  /\ Working(q, "bulk")
  /\ Row(q) > Len(call[q].rows)
  /\ Ends(q, "done")
  /\ UNCHANGED <<Elsewhere, faults, catalogVars>>

-----------------------------------------------------------------------------
(* GET /admin/resources and GET /resources.                                *)

\* What a query finds with request_plus: everything written before it.
AllResources == {r \in Resources : resources[r] # NoResource} \cup inserted
ActiveResources == {r \in Resources : resources[r].active} \cup inserted

List(q) ==
  /\ Working(q, "list")
  /\ listed' = [listed EXCEPT ![q] = AllResources]
  /\ Ends(q, "done")
  /\ UNCHANGED <<Elsewhere, faults, resources, inserted, cache, held, tally, lineage>>

\* The units that reservations take are counted by the reservation repository;
\* none are taken here.
Search(q) ==
  /\ Working(q, "search")
  /\ listed' = [listed EXCEPT ![q] = ActiveResources]
  /\ Ends(q, "done")
  /\ UNCHANGED <<Elsewhere, faults, resources, inserted, cache, held, tally, lineage>>

\* The organizations are not among the state: nothing here writes them.
ListOrganizations(q) ==
  /\ Working(q, "organizations")
  /\ Ends(q, "done")
  /\ UNCHANGED <<Elsewhere, faults, catalogVars>>

QueryFails(q) ==
  /\ at[q] = "work" /\ Route(q) \in {"list", "search", "organizations"}
  /\ Fault
  /\ EndsInError(q)
  /\ UNCHANGED <<Elsewhere, catalogVars>>

-----------------------------------------------------------------------------
(* GET /resources/{id}: CachedResourceQueryRepository.                     *)

\* An entry says nothing of the units and of the address: it is read back as
\* a resource of one unit.
Recorded(document) == [document EXCEPT !.units = 1]

Look(q) ==
  /\ at[q] = "look"
  /\ IF Cached(Of(q))
       THEN held' = [held EXCEPT ![q] = CachedCopy(Of(q))] /\ Ends(q, "done")
       ELSE Goes(q, "fetch") /\ UNCHANGED held
  /\ UNCHANGED <<Elsewhere, faults, resources, inserted, cache, tally, listed, lineage>>

\* Redis is out of reach, or the entry is one that another release wrote, and
\* it may then be erased.
LookFails(q) ==
  /\ at[q] = "look"
  /\ Fault
  /\ UNCHANGED cache \/ cache' = [cache EXCEPT ![Of(q)] = NoEntry]
  /\ Goes(q, "fetch")
  /\ UNCHANGED <<Elsewhere, resources, inserted, held, tally, listed, lineage>>

\* That there is no such resource is not cached.
Fetch(q) ==
  /\ at[q] = "fetch"
  /\ IF Stored(q) = NoResource
       THEN Ends(q, "absent") /\ UNCHANGED held
       ELSE held' = [held EXCEPT ![q] = StoredCopy(q)] /\ Goes(q, "fill")
  /\ UNCHANGED <<Elsewhere, faults, resources, inserted, cache, tally, listed, lineage>>

FetchFails(q) ==
  /\ at[q] = "fetch"
  /\ Fault
  /\ EndsInError(q)
  /\ UNCHANGED <<Elsewhere, catalogVars>>

Entry(q, until) ==
  [document |-> Recorded(held[q].document), lineage |-> held[q].lineage,
   filler |-> q, until |-> until]

\* Mutant: the entry is stored without a time to live.
StoreEntryForEver(q) == cache' = [cache EXCEPT ![Of(q)] = Entry(q, MaxTime + 1)]

StoreEntry(q) == cache' = [cache EXCEPT ![Of(q)] = Entry(q, now + Ttl)]

Fill(q) ==
  /\ at[q] = "fill"
  /\ StoreEntry(q)
  /\ Ends(q, "done")
  /\ UNCHANGED <<Elsewhere, faults, resources, inserted, held, tally, listed, lineage>>

\* The copy is shown all the same.
FillFails(q) ==
  /\ at[q] = "fill"
  /\ Fault
  /\ UNCHANGED cache \/ StoreEntry(q)
  /\ Ends(q, "done")
  /\ UNCHANGED <<Elsewhere, resources, inserted, held, tally, listed, lineage>>

-----------------------------------------------------------------------------

CatalogStep(q) ==
  \/ Load(q) \/ LoadFails(q) \/ Save(q) \/ SaveFails(q)
  \/ Remove(q) \/ RemoveFails(q)
  \/ Create(q) \/ CreateFails(q)
  \/ InsertRow(q) \/ InsertRowFails(q) \/ SkipRow(q) \/ AbortBulk(q) \/ AnswerBulk(q)
  \/ List(q) \/ Search(q) \/ ListOrganizations(q) \/ QueryFails(q)
  \/ Look(q) \/ LookFails(q) \/ Fetch(q) \/ FetchFails(q) \/ Fill(q) \/ FillFails(q)

\* A request that never comes, or never ends, is no deadlock.
Next ==
  \/ \E q \in Requests : IdentityStep(q) /\ UNCHANGED catalogVars
  \/ \E q \in Requests : CatalogStep(q)
  \/ Tick /\ UNCHANGED catalogVars

Spec == Init /\ [][Next]_vars

-----------------------------------------------------------------------------
(* Properties.                                                             *)

\* The client of p was told that its change was made.
Changed(p) ==
  \/ Route(p) = "update" /\ answer[p].status = 200
  \/ Route(p) = "remove" /\ answer[p].status = 204

\* An update or a removal that was answered is undone only by a request that
\* ran at the same time: the upsert of update_resource_handler.cpp checks no
\* version, so what is stored may build on a copy from before the change, but
\* then one of the writers it builds on overlaps it.
LostUpdateNeedsARace ==
  \A p \in Requests :
    Changed(p) /\ p \notin lineage[Of(p)] =>
      \E w \in lineage[Of(p)] : Overlap(w, p)

\* A read may show a resource without a change that was answered before the
\* read was received, for nothing erases a cache entry.  If no race undid the
\* change, then the copy was cached by a read that began before the answer to
\* it, and less than the time to live ago.
StalenessBounded ==
  \A q, p \in Requests :
    /\ Route(q) = "get" /\ answer[q].status = 200
    /\ Changed(p) /\ Of(p) = Of(q) /\ Before(p, q)
    /\ p \notin held[q].lineage
    => \/ \E w \in held[q].lineage : Overlap(w, p)
       \/ LET f == held[q].filler IN
          /\ f # q /\ ~Before(p, f)
          /\ begun[q].time < answer[f].time + Ttl

\* What a creation or an import says it made is in every listing that is asked
\* for afterwards, and a row that is in one was reported as imported, or as
\* failed if the error was that of its insert.
ImportsAreListed ==
  \A p, q \in Requests :
    Route(q) = "list" /\ answer[q].status = 200 /\ Before(p, q) =>
      LET rows == {i \in 1 .. Len(call[p].rows) : <<p, i>> \in listed[q]} IN
      /\ Route(p) = "create" /\ answer[p].status = 201 => <<p, 1>> \in listed[q]
      /\ Route(p) = "bulk" /\ answer[p].status = 200 =>
           /\ tally[p].imported <= Cardinality(rows)
           /\ \A i \in rows : call[p].rows[i] = "good"
           /\ tally[p].imported + tally[p].failed = Len(call[p].rows)

=============================================================================
