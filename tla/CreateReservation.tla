-------------------------- MODULE CreateReservation --------------------------
(***************************************************************************)
(* CreateReservationHandler::handle_core with the idempotency repository   *)
(* it claims and completes its record in.  A step is one round trip to     *)
(* Couchbase; requests, of one process or of several, interleave between   *)
(* them.  A request that dies at any step just stops: what it has written  *)
(* stays, and its client sees an error.                                    *)
(***************************************************************************)
EXTENDS ReservationStore

VARIABLES
  pc,            \* pc[q]: the round trip request q makes next
  found,         \* found[q]: the idempotency record q works under
  verdict,       \* verdict[q]: the result q has reached, not yet recorded
  reply          \* reply[q]: what the client got

requestVars == <<pc, found, verdict, reply>>
vars == <<storeVars, requestVars>>

Steps ==
  {"claim", "classify", "recover", "verify", "resource", "schedule", "persist",
   "complete", "replace", "reconcile", "done"}
Replies ==
  Successes \cup Rejections \cup
  {"IDEMPOTENCY_IN_PROGRESS", "IDEMPOTENCY_CONFLICT", "ERROR", "none"}

RequestTypeOK ==
  /\ pc \in [Requests -> Steps]
  /\ found \in [Requests -> IdempotencyRecord \cup {NoRecord}]
  /\ verdict \in [Requests -> Successes \cup Rejections \cup {"none"}]
  /\ reply \in [Requests -> Replies]
  /\ \A q \in Requests : pc[q] = "done" <=> reply[q] # "none"

TypeOK == StoreTypeOK /\ RequestTypeOK

RequestInit ==
  /\ pc = [q \in Requests |-> "claim"]
  /\ found = [q \in Requests |-> NoRecord]
  /\ verdict = [q \in Requests |-> "none"]
  /\ reply = [q \in Requests |-> "none"]

Init == StoreInit /\ RequestInit

-----------------------------------------------------------------------------

GoTo(q, step) == pc' = [pc EXCEPT ![q] = step] /\ UNCHANGED reply

Answer(q, result) ==
  /\ pc' = [pc EXCEPT ![q] = "done"]
  /\ reply' = [reply EXCEPT ![q] = result]

\* Mutant: a rejection is answered and not recorded.
ConcludeUnrecorded(q, result) ==
  /\ verdict' = [verdict EXCEPT ![q] = result]
  /\ IF result \in Rejections THEN Answer(q, result) ELSE GoTo(q, "complete")
  /\ UNCHANGED found

\* The result is known: all that is left is to record it.
Conclude(q, result) ==
  /\ verdict' = [verdict EXCEPT ![q] = result]
  /\ GoTo(q, "complete")
  /\ UNCHANGED found

-----------------------------------------------------------------------------
(* The claim.                                                              *)

\* Mutant: the claim upserts its record.
UpsertRecord(q) ==
  /\ idempotency' = [idempotency EXCEPT ![Key(q)] = Processing(q)]
  /\ UNCHANGED <<reservation, outbox, txn, checked>>

InsertRecord(q) ==
  /\ idempotency[Key(q)] = NoRecord
  /\ idempotency' = [idempotency EXCEPT ![Key(q)] = Processing(q)]
  /\ UNCHANGED <<reservation, outbox, txn, checked>>

ClaimAcquired(q) ==
  /\ pc[q] = "claim"
  /\ InsertRecord(q)
  /\ found' = [found EXCEPT ![q] = Processing(q)]
  /\ GoTo(q, "resource")
  /\ UNCHANGED <<verdict, budget>>

\* The insert meets a record, which is then read.
ClaimCollides(q) ==
  /\ pc[q] = "claim"
  /\ idempotency[Key(q)] # NoRecord
  /\ GoTo(q, "classify")
  /\ UNCHANGED <<storeVars, found, verdict>>

\* The insert ends in ambiguous_timeout: it may have created the record, which
\* is then read back like anybody else's.
ClaimTimesOut(q) ==
  /\ pc[q] = "claim"
  /\ Fault
  /\ \/ InsertRecord(q)
     \/ UNCHANGED <<reservation, outbox, txn, idempotency, checked>>
  /\ GoTo(q, "classify")
  /\ UNCHANGED <<found, verdict>>

\* classify() compares fingerprints first, then looks at the state.
Classify(q) ==
  LET record == idempotency[Key(q)] IN
  /\ pc[q] = "classify"
  /\ \/ record = NoRecord /\ Answer(q, "ERROR") /\ UNCHANGED found
     \/ /\ record # NoRecord
        /\ Fingerprint(record.owner) # Fingerprint(q)
        /\ Answer(q, "IDEMPOTENCY_CONFLICT")
        /\ UNCHANGED found
     \/ /\ record # NoRecord
        /\ Fingerprint(record.owner) = Fingerprint(q)
        /\ \/ /\ record.status = "PROCESSING"
              /\ found' = [found EXCEPT ![q] = record]
              /\ GoTo(q, "recover")
           \/ /\ record.status # "PROCESSING"
              /\ Answer(q, record.result)
              /\ UNCHANGED found
  /\ UNCHANGED <<storeVars, verdict>>

-----------------------------------------------------------------------------
(* Recovery of an operation whose record is still PROCESSING.              *)

\* Only what creation itself leaves is recognised: pending approval, or
\* confirmed without approval_info, in the interval asked for.
MatchesOriginalOperation(r, command) ==
  /\ \/ r.status = "PENDING_APPROVAL"
     \/ r.status = "CONFIRMED" /\ ~r.approved
  /\ r.interval = command.interval

\* Mutant: an operation that has left nothing yet is taken over.
RecoverTakesOver(q) ==
  LET owner == found[q].owner
      r == reservation[owner] IN
  /\ pc[q] = "recover"
  /\ IF Exists(owner)
       THEN verdict' = [verdict EXCEPT ![q] = CreationStatus(r)] /\ GoTo(q, "verify")
       ELSE GoTo(q, "resource") /\ UNCHANGED verdict
  /\ UNCHANGED <<storeVars, found>>

\* Mutant: an operation that has left nothing yet is taken for a failed one.
RecoverRejects(q) ==
  LET owner == found[q].owner
      r == reservation[owner] IN
  /\ pc[q] = "recover"
  /\ IF Exists(owner)
       THEN verdict' = [verdict EXCEPT ![q] = CreationStatus(r)] /\ GoTo(q, "verify")
       ELSE Answer(q, "SCHEDULE_CONFLICT") /\ UNCHANGED verdict
  /\ UNCHANGED <<storeVars, found>>

Recover(q) ==
  LET owner == found[q].owner
      r == reservation[owner] IN
  /\ pc[q] = "recover"
  /\ \/ ~Exists(owner) /\ Answer(q, "IDEMPOTENCY_IN_PROGRESS") /\ UNCHANGED verdict
     \/ /\ Exists(owner)
        /\ ~MatchesOriginalOperation(r, Command[q])
        /\ Answer(q, "IDEMPOTENCY_CONFLICT")
        /\ UNCHANGED verdict
     \/ /\ Exists(owner)
        /\ MatchesOriginalOperation(r, Command[q])
        /\ verdict' = [verdict EXCEPT ![q] = CreationStatus(r)]
        /\ GoTo(q, "verify")
  /\ UNCHANGED <<storeVars, found>>

\* expected_event_ids() of the reservation as it was loaded.
ExpectedEvents(result) ==
  CreationEvents(IF result = "CREATED_CONFIRMED" THEN "CONFIRMED"
                                                 ELSE "PENDING_APPROVAL")

VerifyEvents(q) ==
  /\ pc[q] = "verify"
  /\ IF ContainsAll(found[q].owner, ExpectedEvents(verdict[q]))
       THEN GoTo(q, "complete")
       ELSE Answer(q, "IDEMPOTENCY_IN_PROGRESS")
  /\ UNCHANGED <<storeVars, found, verdict>>

-----------------------------------------------------------------------------
(* The operation itself.                                                   *)

CheckResource(q) ==
  LET command == Command[q] IN
  /\ pc[q] = "resource"
  /\ CASE ResourceOf(q).state = "absent" -> Conclude(q, "RESOURCE_NOT_FOUND")
       [] ResourceOf(q).state = "inactive" -> Conclude(q, "RESOURCE_INACTIVE")
       [] OTHER ->
            IF PolicyViolated(command.interval, command.kind, command.authorized)
              THEN Conclude(q, "POLICY_REJECTED")
              ELSE GoTo(q, "schedule") /\ UNCHANGED <<found, verdict>>
  /\ UNCHANGED storeVars

ScheduleFull(q) ==
  Cardinality(Conflicting(Command[q].resource, Command[q].interval))
    >= ResourceOf(q).totalUnits

CheckSchedule(q) ==
  /\ pc[q] = "schedule"
  /\ \/ /\ ScheduleFull(q)
        /\ Conclude(q, "SCHEDULE_CONFLICT")
        /\ UNCHANGED <<txn, checked>>
     \/ /\ ~ScheduleFull(q)
        /\ txn' = [txn EXCEPT ![q] = "open"]
        /\ checked' = [checked EXCEPT ![q] = Visible(Command[q].resource)]
        /\ GoTo(q, "persist")
        /\ UNCHANGED <<found, verdict>>
  /\ UNCHANGED <<reservation, outbox, idempotency, budget>>

\* Mutant: a transaction of unknown outcome counts as committed.
PersistedInDoubt(q) ==
  /\ pc[q] = "persist"
  /\ txn[q] # "aborted"
  /\ Conclude(q, CreationStatus(Created(q)))
  /\ UNCHANGED storeVars

\* persist() returns once the transaction has committed and a plain read has
\* found the reservation, which may be before its events are visible.  A commit
\* whose reservation that read does not find is a failed call: see Abandon.
Persisted(q) ==
  /\ pc[q] = "persist"
  /\ txn[q] = "committed"
  /\ Exists(q)
  /\ Conclude(q, CreationStatus(Created(q)))
  /\ UNCHANGED storeVars

PersistFails(q) ==
  /\ pc[q] = "persist"
  /\ txn[q] = "aborted"
  /\ Answer(q, "ERROR")
  /\ UNCHANGED <<storeVars, found, verdict>>

-----------------------------------------------------------------------------
(* record_succeeded() and record_failed_permanently().                     *)

\* Mutant: the snapshot of the result is not stored.
TerminalWithoutResult(record, result) ==
  [record EXCEPT
     !.status = IF result \in Successes THEN "SUCCEEDED" ELSE "FAILED_PERMANENT"]

Terminal(record, result) ==
  [record EXCEPT
     !.status = IF result \in Successes THEN "SUCCEEDED" ELSE "FAILED_PERMANENT",
     !.result = result]

\* Mutant: anybody's success completes anybody's record.
CompletionOfAnyOwner(q, record) ==
  \/ record = NoRecord
  \/ Fingerprint(record.owner) # Fingerprint(q)
  \/ record.status # "PROCESSING" /\ record.result # verdict[q]

\* validate_completion() throws: a success is recorded only under the claim
\* that generated the reservation's id, and never over another outcome.
CompletionInvalid(q, record) ==
  \/ record = NoRecord
  \/ Fingerprint(record.owner) # Fingerprint(q)
  \/ verdict[q] \in Successes /\ record.owner # found[q].owner
  \/ record.status # "PROCESSING" /\ record.result # verdict[q]

ReadForCompletion(q) ==
  LET record == idempotency[Key(q)] IN
  /\ pc[q] = "complete"
  /\ IF CompletionInvalid(q, record) THEN Answer(q, "ERROR") /\ UNCHANGED found
     ELSE IF record.status # "PROCESSING"
       THEN Answer(q, verdict[q]) /\ UNCHANGED found
       ELSE GoTo(q, "replace") /\ found' = [found EXCEPT ![q] = record]
  /\ UNCHANGED <<storeVars, verdict>>

\* Mutant: the replace does not pass the CAS.
ReplaceWithoutCas(q) ==
  /\ pc[q] = "replace"
  /\ idempotency[Key(q)] # NoRecord
  /\ idempotency' =
       [idempotency EXCEPT ![Key(q)] = Terminal(found[q], verdict[q])]
  /\ Answer(q, verdict[q])
  /\ UNCHANGED <<reservation, outbox, txn, checked, budget, found, verdict>>

WriteTerminal(q) ==
  /\ pc[q] = "replace"
  /\ idempotency[Key(q)] = found[q]
  /\ idempotency' =
       [idempotency EXCEPT ![Key(q)] = Terminal(found[q], verdict[q])]
  /\ UNCHANGED <<reservation, outbox, txn, checked, found, verdict>>

ReplaceRecord(q) ==
  /\ WriteTerminal(q)
  /\ Answer(q, verdict[q])
  /\ UNCHANGED budget

\* The replace takes effect and its request does not see it do so: the call ends
\* in a timeout, which throws, or the process dies.
ReplaceUnanswered(q) ==
  /\ WriteTerminal(q)
  /\ Fault
  /\ Answer(q, "ERROR")

\* cas_mismatch is reconciled by one more read; a missing record is an error.
ReplaceLoses(q) ==
  LET record == idempotency[Key(q)] IN
  /\ pc[q] = "replace"
  /\ \/ record = NoRecord /\ Answer(q, "ERROR")
     \/ record \notin {NoRecord, found[q]} /\ GoTo(q, "reconcile")
  /\ UNCHANGED <<storeVars, found, verdict>>

Reconcile(q) ==
  LET record == idempotency[Key(q)] IN
  /\ pc[q] = "reconcile"
  /\ IF CompletionInvalid(q, record) \/ record.status = "PROCESSING"
       THEN Answer(q, "ERROR")
       ELSE Answer(q, verdict[q])
  /\ UNCHANGED <<storeVars, found, verdict>>

\* The process dies, or a call fails and its exception ends the request; what
\* the call wrote before it failed is ClaimTimesOut's and ReplaceUnanswered's.
Abandon(q) ==
  /\ pc[q] \notin {"claim", "done"}
  /\ Fault
  /\ Answer(q, "ERROR")
  /\ UNCHANGED <<reservation, outbox, txn, idempotency, checked, found, verdict>>

Handle(q) ==
  \/ ClaimAcquired(q) \/ ClaimCollides(q) \/ Classify(q)
  \/ Recover(q) \/ VerifyEvents(q)
  \/ CheckResource(q) \/ CheckSchedule(q) \/ Persisted(q) \/ PersistFails(q)
  \/ ReadForCompletion(q) \/ ReplaceRecord(q) \/ ReplaceLoses(q) \/ Reconcile(q)

RequestNext ==
  \E q \in Requests :
    Handle(q) \/ ClaimTimesOut(q) \/ ReplaceUnanswered(q) \/ Abandon(q)

Next ==
  \/ RequestNext
  \/ StoreNext /\ UNCHANGED requestVars

Spec == Init /\ [][Next]_vars

\* Request threads run on, and Couchbase finishes the transactions it is given.
FairSpec ==
  /\ Spec
  /\ \A q \in Requests :
       /\ WF_vars(Handle(q))
       /\ WF_vars(TxnCommits(q) /\ UNCHANGED requestVars)
       /\ WF_vars(ReservationAppears(q) /\ UNCHANGED requestVars)
       /\ WF_vars(EventAppears(q) /\ UNCHANGED requestVars)

-----------------------------------------------------------------------------
(* Properties.                                                             *)

SameKey(p, q) == Key(p) = Key(q)

\* However many requests carry a key, and whichever of them die, at most one
\* of their transactions commits (docs/08-concurrency.md, CT-004).
OneReservationPerKey ==
  \A p, q \in Requests :
    SameKey(p, q) /\ txn[p] = "committed" /\ txn[q] = "committed" => p = q

\* A record that says SUCCEEDED stands for a transaction that committed, and
\* says what that transaction created: the reservation cannot be lost after a
\* client was told of it.
SuccessIsDurable ==
  \A k \in Keys :
    idempotency[k].status = "SUCCEEDED" =>
      LET owner == idempotency[k].owner IN
      /\ txn[owner] = "committed"
      /\ idempotency[k].result = CreationStatus(Created(owner))

\* A client is told CREATED only if a transaction under its key committed.
PromisedReservationExists ==
  \A q \in Requests :
    reply[q] \in Successes =>
      \E p \in Requests :
        /\ SameKey(p, q)
        /\ txn[p] = "committed"
        /\ reply[q] = CreationStatus(Created(p))

\* A recorded rejection leaves nothing behind, now or later: no transaction
\* under its key has committed or is still open.
RejectionLeavesNothing ==
  \A q \in Requests :
    idempotency[Key(q)].status = "FAILED_PERMANENT" =>
      txn[q] \in {"none", "aborted"}

\* All definite answers to requests with one key and one payload are the same.
RepliesAgree ==
  \A p, q \in Requests :
    /\ SameKey(p, q)
    /\ Fingerprint(p) = Fingerprint(q)
    /\ {reply[p], reply[q]} \subseteq Successes \cup Rejections
    => reply[p] = reply[q]

\* A terminal record is never rewritten; only its retention removes it.
TerminalRecordsStay ==
  [][\A k \in Keys :
       idempotency[k].status \in {"SUCCEEDED", "FAILED_PERMANENT"} =>
         idempotency'[k] \in {idempotency[k], NoRecord}]_vars

\* A key stands for one payload: no two requests that differ in what they ask
\* for both get a definite answer under it (docs/08-concurrency.md, CT-005).
PayloadsKeptApart ==
  \A p, q \in Requests :
    /\ SameKey(p, q)
    /\ {reply[p], reply[q]} \subseteq Successes \cup Rejections
    => Command[p] = Command[q]

Working(q) == pc[q] \notin {"claim", "classify", "done"}

\* A PROCESSING record nobody works under is the trace of a fault: without one
\* the claimant always brings its own record to an end.
AbandonedOnlyByFault ==
  \A k \in Keys :
    /\ idempotency[k].status = "PROCESSING"
    /\ \A q \in Requests : Key(q) = k => ~Working(q)
    => budget.faults < Faults

\* Every claimed key gets its outcome, unless a fault took its claimant.
ClaimsResolve ==
  \A k \in Keys :
    idempotency[k].status = "PROCESSING" ~>
      idempotency[k].status # "PROCESSING" \/ budget.faults < Faults

\* The creation command keeps the promise of an idempotent command.
Promise == INSTANCE IdempotentCommand WITH
  KeyOf <- [q \in Requests |-> Key(q)],
  performed <- {q \in Requests : txn[q] = "committed"},
  outcome <- [k \in Keys |-> idempotency[k].result],
  answer <- reply

ImplementsPromise == Promise!Spec

=============================================================================
