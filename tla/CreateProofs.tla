---------------------------- MODULE CreateProofs ----------------------------
(* Theorems about CreateReservation, for any requests, resources and fault  *)
(* budgets; those about a key's single operation are for records that       *)
(* outlive the requests that use them.                                      *)
EXTENDS CreateReservation, TLAPS, FiniteSetTheorems

-----------------------------------------------------------------------------
(* Facts about records and documents.                                      *)

\* The status of a record says what kind of result it carries.
LEMMA RecordKinds ==
  ASSUME NEW r \in IdempotencyRecord \cup {NoRecord}
  PROVE  /\ r = NoRecord <=> r.status = "NONE"
         /\ r # NoRecord => r.owner \in Requests
         /\ r.status \in {"NONE", "PROCESSING", "SUCCEEDED", "FAILED_PERMANENT"}
         /\ r.status \in {"NONE", "PROCESSING"} <=> r.result = "none"
         /\ r.status = "SUCCEEDED" <=> r.result \in Successes
         /\ r.status = "FAILED_PERMANENT" <=> r.result \in Rejections
BY DEF IdempotencyRecord, NoRecord, Successes, Rejections

\* Completing a record sets its result and leaves its owner.
LEMMA TerminalType ==
  ASSUME NEW r \in IdempotencyRecord, NEW v \in Successes \cup Rejections
  PROVE  /\ Terminal(r, v) \in IdempotencyRecord
         /\ Terminal(r, v).owner = r.owner
         /\ Terminal(r, v).result = v
BY DEF Terminal, IdempotencyRecord, Successes, Rejections

\* What a claim inserts is a record of its own.
LEMMA ProcessingType ==
  ASSUME NEW q \in Requests
  PROVE  /\ Processing(q) \in IdempotencyRecord
         /\ Processing(q) # NoRecord
         /\ Processing(q).owner = q
         /\ Processing(q).status = "PROCESSING"
BY DEF Processing, IdempotencyRecord, NoRecord

\* What the creation transaction stores is a document that exists.
LEMMA CreatedType ==
  ASSUME NEW q \in Requests
  PROVE  /\ Stored(Created(q), 1) \in ReservationDocument
         /\ Stored(Created(q), 1).status = Created(q).status
         /\ Created(q).status \in {"CONFIRMED", "PENDING_APPROVAL"}
BY CommandAssumption
DEF Stored, Created, CreateConfirmed, CreatePendingApproval,
    ReservationDocument, Status

\* Both creation results are successes, and each creation has its own.
LEMMA CreationIsSuccess ==
  ASSUME NEW r
  PROVE  CreationStatus(r) \in Successes
BY DEF CreationStatus, Successes

\* No success is a rejection, and neither is an indefinite answer.
LEMMA ResultsApart ==
  /\ Successes \cap Rejections = {}
  /\ "none" \notin Successes \cup Rejections
BY DEF Successes, Rejections

-----------------------------------------------------------------------------
(* Type correctness.                                                       *)

\* Whoever works under a record has read one, and whoever records a result
\* has reached one.
WorkInPhase ==
  \A q \in Requests :
    /\ Working(q) => found[q] # NoRecord
    /\ pc[q] \in {"verify", "complete", "replace", "reconcile"} =>
         verdict[q] # "none"
    /\ pc[q] \in {"claim", "classify", "recover", "resource", "schedule",
                  "persist"} =>
         verdict[q] = "none"
    /\ pc[q] = "replace" => found[q].status = "PROCESSING"

Shape == TypeOK /\ WorkInPhase

\* The store's steps by themselves keep the store's types.
LEMMA StoreShape ==
  ASSUME StoreTypeOK, StoreNext
  PROVE  StoreTypeOK'
<1> USE DEF StoreTypeOK
<1>1. ASSUME NEW q \in Requests, TxnCommits(q) \/ TxnAborts(q)
      PROVE  StoreTypeOK'
  BY <1>1 DEF TxnCommits, TxnAborts, Fault
<1>2. ASSUME NEW q \in Requests, ReservationAppears(q)
      PROVE  StoreTypeOK'
  BY <1>2, CreatedType DEF ReservationAppears
<1>3. ASSUME NEW q \in Requests, EventAppears(q)
      PROVE  StoreTypeOK'
  <2>1. CreationEvents(Created(q).status) \subseteq EventTypes
    BY DEF CreationEvents, EventTypes
  <2> QED BY <1>3, <2>1 DEF EventAppears
<1>4. ASSUME NEW k \in Keys, RetentionEnds(k)
      PROVE  StoreTypeOK'
  BY <1>4 DEF RetentionEnds
<1> QED BY <1>1, <1>2, <1>3, <1>4, StoreNext DEF StoreNext

\* An answer, and only an answer, ends a request.
LEMMA StepType ==
  ASSUME NEW q \in Requests, RequestTypeOK, pc[q] # "done",
         \/ \E step \in Steps \ {"done"} : GoTo(q, step)
         \/ \E result \in Replies \ {"none"} : Answer(q, result)
  PROVE  /\ pc' \in [Requests -> Steps]
         /\ reply' \in [Requests -> Replies]
         /\ \A p \in Requests : pc'[p] = "done" <=> reply'[p] # "none"
         /\ \A p \in Requests \ {q} : pc'[p] = pc[p] /\ reply'[p] = reply[p]
BY DEF GoTo, Answer, RequestTypeOK, Steps, Replies

\* Every step of a request, of a transaction and of the store leaves records,
\* documents and requests of the declared shape.
LEMMA ShapeStep ==
  ASSUME Shape, [Next]_vars
  PROVE  Shape'
<1> SUFFICES ASSUME StoreTypeOK, RequestTypeOK, WorkInPhase, [Next]_vars
             PROVE  StoreTypeOK' /\ RequestTypeOK' /\ WorkInPhase'
  BY DEF Shape, TypeOK
<1> DEFINE Goal == StoreTypeOK' /\ RequestTypeOK' /\ WorkInPhase'
<1>1. ASSUME NEW q \in Requests, ClaimAcquired(q) PROVE Goal
  BY <1>1, StepType, ProcessingType
  DEF ClaimAcquired, InsertRecord, GoTo, StoreTypeOK, RequestTypeOK,
      WorkInPhase, Working, Steps, Keys
<1>2. ASSUME NEW q \in Requests, ClaimCollides(q) PROVE Goal
  BY <1>2
  DEF ClaimCollides, GoTo, storeVars, StoreTypeOK, RequestTypeOK,
      WorkInPhase, Working, Steps
<1>3. ASSUME NEW q \in Requests, ClaimTimesOut(q) PROVE Goal
  <2>1. StoreTypeOK'
    BY <1>3, ProcessingType
    DEF ClaimTimesOut, InsertRecord, Fault, StoreTypeOK, Keys
  <2> QED BY <1>3, <2>1
          DEF ClaimTimesOut, GoTo, RequestTypeOK, WorkInPhase, Working, Steps
<1>4. ASSUME NEW q \in Requests, Classify(q) PROVE Goal
  <2>1. idempotency[Key(q)] \in IdempotencyRecord \cup {NoRecord}
    BY DEF StoreTypeOK, Keys
  <2> QED BY <1>4, <2>1, RecordKinds
          DEF Classify, Answer, GoTo, storeVars, StoreTypeOK, RequestTypeOK,
              WorkInPhase, Working, Steps, Replies
<1>5. ASSUME NEW q \in Requests, Recover(q) PROVE Goal
  BY <1>5, CreationIsSuccess, ResultsApart
  DEF Recover, Answer, GoTo, storeVars, StoreTypeOK, RequestTypeOK,
      WorkInPhase, Working, Steps, Replies
<1>6. ASSUME NEW q \in Requests, VerifyEvents(q) PROVE Goal
  BY <1>6
  DEF VerifyEvents, Answer, GoTo, storeVars, StoreTypeOK, RequestTypeOK,
      WorkInPhase, Working, Steps, Replies
<1>7. ASSUME NEW q \in Requests, CheckResource(q) PROVE Goal
  BY <1>7, ResultsApart
  DEF CheckResource, Conclude, GoTo, storeVars, StoreTypeOK, RequestTypeOK,
      WorkInPhase, Working, Steps, Rejections
<1>8. ASSUME NEW q \in Requests, CheckSchedule(q) PROVE Goal
  <2>1. Visible(Command[q].resource) \subseteq Requests \X Nat
    BY DEF Visible, StoreTypeOK, ReservationDocument, NoReservation, Stored
  <2> QED BY <1>8, <2>1, ResultsApart
          DEF CheckSchedule, Conclude, GoTo, StoreTypeOK, RequestTypeOK,
              WorkInPhase, Working, Steps, Rejections
<1>9. ASSUME NEW q \in Requests, Persisted(q) PROVE Goal
  BY <1>9, CreationIsSuccess, ResultsApart
  DEF Persisted, Conclude, GoTo, storeVars, StoreTypeOK, RequestTypeOK,
      WorkInPhase, Working, Steps
<1>10. ASSUME NEW q \in Requests, PersistFails(q) PROVE Goal
  BY <1>10
  DEF PersistFails, Answer, storeVars, StoreTypeOK, RequestTypeOK,
      WorkInPhase, Working, Steps, Replies
<1>11. ASSUME NEW q \in Requests, ReadForCompletion(q) PROVE Goal
  BY <1>11
  DEF ReadForCompletion, CompletionInvalid, Answer, GoTo, storeVars, Keys,
      StoreTypeOK, RequestTypeOK, WorkInPhase, Working, Steps, Replies
<1>12. ASSUME NEW q \in Requests, ReplaceRecord(q) \/ ReplaceUnanswered(q)
       PROVE  Goal
  <2>0. WriteTerminal(q)
    BY <1>12 DEF ReplaceRecord, ReplaceUnanswered
  <2>1. /\ found[q] \in IdempotencyRecord
        /\ verdict[q] \in Successes \cup Rejections
    BY <2>0 DEF WriteTerminal, WorkInPhase, Working, RequestTypeOK
  <2>2. Terminal(found[q], verdict[q]) \in IdempotencyRecord
    BY <2>1, TerminalType
  <2>3. StoreTypeOK'
    <3>1. budget' \in [expiries : Nat, faults : Nat]
      BY <1>12 DEF ReplaceRecord, ReplaceUnanswered, Fault, StoreTypeOK
    <3> QED BY <2>0, <2>2, <3>1 DEF WriteTerminal, StoreTypeOK
  <2>4. PICK heard \in {verdict[q], "ERROR"} : Answer(q, heard)
    BY <1>12 DEF ReplaceRecord, ReplaceUnanswered
  <2> QED BY <2>0, <2>1, <2>3, <2>4
          DEF WriteTerminal, Answer, RequestTypeOK, WorkInPhase, Working, Steps,
              Replies
<1>13. ASSUME NEW q \in Requests, ReplaceLoses(q) PROVE Goal
  BY <1>13
  DEF ReplaceLoses, Answer, GoTo, storeVars, StoreTypeOK, RequestTypeOK,
      WorkInPhase, Working, Steps, Replies
<1>14. ASSUME NEW q \in Requests, Reconcile(q) PROVE Goal
  BY <1>14
  DEF Reconcile, Answer, storeVars, StoreTypeOK, RequestTypeOK,
      WorkInPhase, Working, Steps, Replies
<1>15. ASSUME NEW q \in Requests, Abandon(q) PROVE Goal
  BY <1>15
  DEF Abandon, Answer, Fault, StoreTypeOK, RequestTypeOK,
      WorkInPhase, Working, Steps, Replies
<1>16. CASE StoreNext /\ UNCHANGED requestVars
  BY <1>16, StoreShape DEF requestVars, RequestTypeOK, WorkInPhase, Working
<1>17. CASE UNCHANGED vars
  BY <1>17
  DEF vars, storeVars, requestVars, StoreTypeOK, RequestTypeOK, WorkInPhase,
      Working
<1> QED
  BY <1>1, <1>2, <1>3, <1>4, <1>5, <1>6, <1>7, <1>8, <1>9, <1>10, <1>11,
     <1>12, <1>13, <1>14, <1>15, <1>16, <1>17
  DEF Next, RequestNext, Handle

\* Records, documents and requests always have the declared shape.
THEOREM ShapeKept == Spec => []Shape
<1>1. Init => Shape
  BY BoundsAssumption
  DEF Init, StoreInit, RequestInit, Shape, TypeOK, StoreTypeOK, RequestTypeOK,
      WorkInPhase, Working, Steps, Replies
<1>2. Shape /\ [Next]_vars => Shape'
  BY ShapeStep
<1> QED BY <1>1, <1>2, PTL DEF Spec

\* Type correctness of the creation handler and of its collections.
THEOREM TypeCorrect == Spec => []TypeOK
<1>1. Shape => TypeOK
  BY DEF Shape
<1> QED BY <1>1, ShapeKept, PTL

-----------------------------------------------------------------------------
(* Who writes what.                                                        *)

\* A record is inserted by a claim, completed by a replace, or dropped.
LEMMA RecordWrites ==
  ASSUME StoreTypeOK, [Next]_vars, NEW k \in Keys
  PROVE  \/ idempotency'[k] = idempotency[k]
         \/ idempotency'[k] = NoRecord /\ budget.expiries > 0
         \/ \E q \in Requests :
              /\ k = Key(q)
              /\ \/ /\ ClaimAcquired(q) \/ ClaimTimesOut(q)
                    /\ idempotency[k] = NoRecord
                    /\ idempotency'[k] = Processing(q)
                 \/ /\ ReplaceRecord(q) \/ ReplaceUnanswered(q)
                    /\ WriteTerminal(q)
                    /\ idempotency[k] = found[q]
                    /\ idempotency'[k] = Terminal(found[q], verdict[q])
<1>1. ASSUME NEW q \in Requests, ClaimAcquired(q) \/ ClaimTimesOut(q)
      PROVE  \/ idempotency'[k] = idempotency[k]
             \/ /\ k = Key(q)
                /\ idempotency[k] = NoRecord
                /\ idempotency'[k] = Processing(q)
  BY <1>1 DEF ClaimAcquired, ClaimTimesOut, InsertRecord, StoreTypeOK
<1>2. ASSUME NEW q \in Requests, WriteTerminal(q)
      PROVE  \/ idempotency'[k] = idempotency[k]
             \/ /\ k = Key(q)
                /\ idempotency[k] = found[q]
                /\ idempotency'[k] = Terminal(found[q], verdict[q])
  BY <1>2 DEF WriteTerminal, StoreTypeOK
<1>3. ASSUME NEW j \in Keys, RetentionEnds(j)
      PROVE  \/ idempotency'[k] = idempotency[k]
             \/ idempotency'[k] = NoRecord /\ budget.expiries > 0
  BY <1>3 DEF RetentionEnds, StoreTypeOK
<1> QED
  BY <1>1, <1>2, <1>3
  DEF Next, RequestNext, Handle, StoreNext, vars, storeVars, ClaimCollides,
      Classify, Recover, VerifyEvents, CheckResource, CheckSchedule, Persisted,
      PersistFails, ReadForCompletion, ReplaceRecord, ReplaceUnanswered,
      ReplaceLoses, Reconcile, Abandon, TxnCommits, TxnAborts,
      ReservationAppears, EventAppears

\* A request works under the record it inserted or under one it has read.
LEMMA FoundWrites ==
  ASSUME RequestTypeOK, [Next]_vars, NEW q \in Requests
  PROVE  \/ found'[q] = found[q]
         \/ ClaimAcquired(q) /\ found'[q] = Processing(q)
         \/ /\ Classify(q)
            /\ idempotency[Key(q)] # NoRecord
            /\ found'[q] = idempotency[Key(q)]
         \/ /\ ReadForCompletion(q)
            /\ ~CompletionInvalid(q, idempotency[Key(q)])
            /\ found'[q] = idempotency[Key(q)]
<1>1. ASSUME NEW p \in Requests,
             ClaimAcquired(p) \/ Classify(p) \/ ReadForCompletion(p), p # q
      PROVE  found'[q] = found[q]
  BY <1>1 DEF ClaimAcquired, Classify, ReadForCompletion, RequestTypeOK
<1>2. ASSUME ClaimAcquired(q) PROVE found'[q] = Processing(q)
  BY <1>2 DEF ClaimAcquired, RequestTypeOK
<1>3. ASSUME Classify(q), found'[q] # found[q]
      PROVE  idempotency[Key(q)] # NoRecord /\ found'[q] = idempotency[Key(q)]
  BY <1>3 DEF Classify, RequestTypeOK
<1>4. ASSUME ReadForCompletion(q), found'[q] # found[q]
      PROVE  /\ ~CompletionInvalid(q, idempotency[Key(q)])
             /\ found'[q] = idempotency[Key(q)]
  BY <1>4 DEF ReadForCompletion, RequestTypeOK
<1> QED
  BY <1>1, <1>2, <1>3, <1>4
  DEF Next, RequestNext, Handle, requestVars, vars, ClaimCollides,
      ClaimTimesOut, Recover, VerifyEvents, CheckResource, CheckSchedule,
      Conclude, Persisted, PersistFails, ReplaceRecord, ReplaceUnanswered,
      WriteTerminal, ReplaceLoses, Reconcile,
      Abandon

\* A request reaches a success by recovering an operation or performing it,
\* and a rejection by checking the resource and its schedule.
LEMMA VerdictWrites ==
  ASSUME RequestTypeOK, [Next]_vars, NEW q \in Requests
  PROVE  \/ verdict'[q] = verdict[q]
         \/ /\ Recover(q)
            /\ Exists(found[q].owner)
            /\ verdict'[q] = CreationStatus(reservation[found[q].owner])
         \/ Persisted(q) /\ verdict'[q] = CreationStatus(Created(q))
         \/ /\ CheckResource(q) \/ CheckSchedule(q)
            /\ verdict'[q] \in Rejections
<1>1. ASSUME NEW p \in Requests, p # q,
             Recover(p) \/ Persisted(p) \/ CheckResource(p) \/ CheckSchedule(p)
      PROVE  verdict'[q] = verdict[q]
  BY <1>1
  DEF Recover, Persisted, CheckResource, CheckSchedule, Conclude, RequestTypeOK
<1>2. ASSUME Recover(q), verdict'[q] # verdict[q]
      PROVE  /\ Exists(found[q].owner)
             /\ verdict'[q] = CreationStatus(reservation[found[q].owner])
  BY <1>2 DEF Recover, RequestTypeOK
<1>3. ASSUME Persisted(q) PROVE verdict'[q] = CreationStatus(Created(q))
  BY <1>3 DEF Persisted, Conclude, RequestTypeOK
<1>4. ASSUME CheckResource(q) \/ CheckSchedule(q), verdict'[q] # verdict[q]
      PROVE  verdict'[q] \in Rejections
  BY <1>4 DEF CheckResource, CheckSchedule, Conclude, RequestTypeOK, Rejections
<1> QED
  BY <1>1, <1>2, <1>3, <1>4
  DEF Next, RequestNext, Handle, requestVars, vars, ClaimAcquired,
      ClaimCollides, ClaimTimesOut, Classify, VerifyEvents, PersistFails,
      ReadForCompletion, ReplaceRecord, ReplaceUnanswered, WriteTerminal,
      ReplaceLoses, Reconcile, Abandon

\* A definite answer is a result that is recorded, or the verdict that was
\* compared with the record.
LEMMA ReplyWrites ==
  ASSUME RequestTypeOK, [Next]_vars, NEW q \in Requests,
         reply'[q] \in Successes \cup Rejections
  PROVE  \/ reply'[q] = reply[q]
         \/ /\ Classify(q)
            /\ Fingerprint(idempotency[Key(q)].owner) = Fingerprint(q)
            /\ reply'[q] = idempotency[Key(q)].result
            /\ reply[q] = "none"
         \/ /\ ReadForCompletion(q) \/ Reconcile(q)
            /\ ~CompletionInvalid(q, idempotency[Key(q)])
            /\ idempotency[Key(q)].status # "PROCESSING"
            /\ reply'[q] = verdict[q]
            /\ reply[q] = "none"
         \/ /\ ReplaceRecord(q)
            /\ reply'[q] = verdict[q]
            /\ reply[q] = "none"
<1> USE DEF RequestTypeOK, Answer, GoTo
<1>1. ASSUME NEW p \in Requests, p # q,
             Handle(p) \/ ClaimTimesOut(p) \/ ReplaceUnanswered(p) \/ Abandon(p)
      PROVE  reply'[q] = reply[q]
  BY <1>1
  DEF Handle, ClaimAcquired, ClaimCollides, ClaimTimesOut, Classify, Recover,
      VerifyEvents, CheckResource, CheckSchedule, Conclude, Persisted,
      PersistFails, ReadForCompletion, ReplaceRecord, ReplaceUnanswered,
      WriteTerminal, ReplaceLoses, Reconcile,
      Abandon
<1>2. ASSUME Handle(q) \/ ClaimTimesOut(q) \/ ReplaceUnanswered(q) \/ Abandon(q)
      PROVE  reply[q] = "none"
  BY <1>2
  DEF Handle, ClaimAcquired, ClaimCollides, ClaimTimesOut, Classify, Recover,
      VerifyEvents, CheckResource, CheckSchedule, Persisted, PersistFails,
      ReadForCompletion, ReplaceRecord, ReplaceUnanswered, WriteTerminal,
      ReplaceLoses, Reconcile, Abandon
<1>3. ASSUME Classify(q), reply'[q] # reply[q]
      PROVE  /\ Fingerprint(idempotency[Key(q)].owner) = Fingerprint(q)
             /\ reply'[q] = idempotency[Key(q)].result
  BY <1>3 DEF Classify, Successes, Rejections
<1>4. ASSUME ReadForCompletion(q) \/ Reconcile(q), reply'[q] # reply[q]
      PROVE  /\ ~CompletionInvalid(q, idempotency[Key(q)])
             /\ idempotency[Key(q)].status # "PROCESSING"
             /\ reply'[q] = verdict[q]
  BY <1>4 DEF ReadForCompletion, Reconcile, Successes, Rejections
<1>5. ASSUME ReplaceRecord(q) PROVE reply'[q] = verdict[q]
  BY <1>5 DEF ReplaceRecord
<1>6. ASSUME \/ ClaimAcquired(q) \/ ClaimCollides(q) \/ ClaimTimesOut(q)
             \/ Recover(q) \/ VerifyEvents(q) \/ CheckResource(q)
             \/ CheckSchedule(q) \/ Persisted(q) \/ PersistFails(q)
             \/ ReplaceUnanswered(q) \/ ReplaceLoses(q) \/ Abandon(q)
      PROVE  reply'[q] = reply[q]
  BY <1>6
  DEF ClaimAcquired, ClaimCollides, ClaimTimesOut, Recover, VerifyEvents,
      CheckResource, CheckSchedule, Conclude, Persisted, PersistFails,
      ReplaceUnanswered, ReplaceLoses, Abandon, Successes, Rejections
<1>7. ASSUME UNCHANGED requestVars PROVE reply'[q] = reply[q]
  BY <1>7 DEF requestVars
<1> HIDE DEF RequestTypeOK, Answer, GoTo
<1> QED
  BY <1>1, <1>2, <1>3, <1>4, <1>5, <1>6, <1>7
  DEF Next, RequestNext, Handle, vars, requestVars

\* A request performs the operation step by step, from its claim on, and
\* replaces only a record it has read.
LEMMA PerformingSteps ==
  ASSUME RequestTypeOK, [Next]_vars, NEW q \in Requests,
         pc'[q] \in {"claim", "resource", "schedule", "persist", "replace"}
  PROVE  \/ pc'[q] = pc[q]
         \/ pc'[q] = "resource" /\ ClaimAcquired(q)
         \/ pc'[q] = "schedule" /\ CheckResource(q)
         \/ pc'[q] = "persist" /\ CheckSchedule(q)
         \/ pc'[q] = "replace" /\ ReadForCompletion(q)
<1> USE DEF RequestTypeOK, Answer, GoTo
<1>1. ASSUME NEW p \in Requests, p # q,
             Handle(p) \/ ClaimTimesOut(p) \/ ReplaceUnanswered(p) \/ Abandon(p)
      PROVE  pc'[q] = pc[q]
  BY <1>1
  DEF Handle, ClaimAcquired, ClaimCollides, ClaimTimesOut, Classify, Recover,
      VerifyEvents, CheckResource, CheckSchedule, Conclude, Persisted,
      PersistFails, ReadForCompletion, ReplaceRecord, ReplaceUnanswered,
      WriteTerminal, ReplaceLoses, Reconcile,
      Abandon
<1>2. /\ ClaimAcquired(q) => pc'[q] = "resource"
      /\ CheckResource(q) => pc'[q] \in {"complete", "schedule"}
      /\ CheckSchedule(q) => pc'[q] \in {"complete", "persist"}
  BY DEF ClaimAcquired, CheckResource, CheckSchedule, Conclude
<1>3. \/ ClaimCollides(q) \/ ClaimTimesOut(q) \/ Classify(q) \/ Recover(q)
      \/ VerifyEvents(q) \/ Persisted(q) \/ PersistFails(q)
      \/ ReplaceRecord(q) \/ ReplaceUnanswered(q) \/ ReplaceLoses(q)
      \/ Reconcile(q) \/ Abandon(q)
      => pc'[q] \notin {"claim", "resource", "schedule", "persist", "replace"}
  BY DEF ClaimCollides, ClaimTimesOut, Classify, Recover, VerifyEvents, Conclude,
         Persisted, PersistFails, ReplaceRecord, ReplaceUnanswered,
         WriteTerminal, ReplaceLoses, Reconcile,
         Abandon
<1>4. ReadForCompletion(q) => pc'[q] \in {"done", "replace"}
  BY DEF ReadForCompletion
<1> HIDE DEF RequestTypeOK, Answer, GoTo
<1> QED
  BY <1>1, <1>2, <1>3, <1>4 DEF Next, RequestNext, Handle, vars, requestVars

\* A transaction is opened by its request's schedule check and ends once.
LEMMA TxnWrites ==
  ASSUME StoreTypeOK, [Next]_vars, NEW q \in Requests
  PROVE  \/ txn'[q] = txn[q]
         \/ CheckSchedule(q) /\ txn'[q] = "open"
         \/ TxnCommits(q) /\ txn[q] = "open" /\ txn'[q] = "committed"
         \/ TxnAborts(q) /\ txn[q] = "open" /\ txn'[q] = "aborted"
<1>1. ASSUME NEW p \in Requests, CheckSchedule(p)
      PROVE  \/ txn'[q] = txn[q]
             \/ p = q /\ txn'[q] = "open"
  BY <1>1 DEF CheckSchedule, StoreTypeOK
<1>2. ASSUME NEW p \in Requests, TxnCommits(p)
      PROVE  \/ txn'[q] = txn[q]
             \/ p = q /\ txn[q] = "open" /\ txn'[q] = "committed"
  BY <1>2 DEF TxnCommits, StoreTypeOK
<1>3. ASSUME NEW p \in Requests, TxnAborts(p)
      PROVE  \/ txn'[q] = txn[q]
             \/ p = q /\ txn[q] = "open" /\ txn'[q] = "aborted"
  BY <1>3 DEF TxnAborts, StoreTypeOK
<1> QED
  BY <1>1, <1>2, <1>3
  DEF Next, RequestNext, Handle, StoreNext, vars, storeVars, ClaimAcquired,
      ClaimCollides, ClaimTimesOut, InsertRecord, Classify, Recover,
      VerifyEvents, CheckResource, Persisted, PersistFails, ReadForCompletion,
      ReplaceRecord, ReplaceUnanswered, WriteTerminal, ReplaceLoses, Reconcile,
      Abandon, ReservationAppears,
      EventAppears, RetentionEnds

\* A reservation is written by its own transaction alone.
LEMMA ReservationWrites ==
  ASSUME StoreTypeOK, [Next]_vars, NEW q \in Requests
  PROVE  \/ reservation'[q] = reservation[q]
         \/ /\ txn[q] = "committed" /\ ~Exists(q)
            /\ reservation'[q] = Stored(Created(q), 1)
<1>1. ASSUME NEW p \in Requests, ReservationAppears(p)
      PROVE  \/ reservation'[q] = reservation[q]
             \/ /\ txn[q] = "committed" /\ ~Exists(q)
                /\ reservation'[q] = Stored(Created(q), 1)
  BY <1>1 DEF ReservationAppears, StoreTypeOK
<1> QED
  BY <1>1
  DEF Next, RequestNext, Handle, StoreNext, vars, storeVars, ClaimAcquired,
      ClaimCollides, ClaimTimesOut, InsertRecord, Classify, Recover,
      VerifyEvents, CheckResource, CheckSchedule, Persisted, PersistFails,
      ReadForCompletion, ReplaceRecord, ReplaceUnanswered, WriteTerminal,
      ReplaceLoses, Reconcile, Abandon,
      TxnCommits, TxnAborts, EventAppears, RetentionEnds

-----------------------------------------------------------------------------
(* Successes are durable.                                                  *)

\* A terminal record is never rewritten; only its retention removes it: the
\* replace names, by its CAS, a record that was still PROCESSING.
THEOREM TerminalIsFinal == Spec => TerminalRecordsStay
<1>1. ASSUME Shape, [Next]_vars, NEW k \in Keys,
             idempotency[k].status \in {"SUCCEEDED", "FAILED_PERMANENT"}
      PROVE  idempotency'[k] \in {idempotency[k], NoRecord}
  <2> USE <1>1
  <2>1. idempotency[k] # NoRecord
    BY DEF NoRecord
  <2>2. ASSUME NEW q \in Requests, WriteTerminal(q)
        PROVE  found[q].status = "PROCESSING"
    BY <2>2 DEF WriteTerminal, Shape, WorkInPhase
  <2> QED BY <2>1, <2>2, RecordWrites DEF Shape, TypeOK
<1>2. Shape /\ [Next]_vars =>
        [\A k \in Keys :
           idempotency[k].status \in {"SUCCEEDED", "FAILED_PERMANENT"} =>
             idempotency'[k] \in {idempotency[k], NoRecord}]_vars
  BY <1>1
<1> QED BY <1>2, ShapeKept, PTL DEF Spec, TerminalRecordsStay

\* What the operation of owner, once committed, lets anybody say of it.
Performed(owner, result) ==
  txn[owner] = "committed" /\ result = CreationStatus(Created(owner))

\* Records, found or stored, are kept under their owner's key.
KeysMatch ==
  /\ \A k \in Keys : idempotency[k] # NoRecord => Key(idempotency[k].owner) = k
  /\ \A q \in Requests : found[q] # NoRecord => Key(found[q].owner) = Key(q)

\* A request performs the operation only under the record it inserted, and
\* opens one transaction.
OwnClaim ==
  \A q \in Requests :
    /\ pc[q] \in {"resource", "schedule", "persist"} => found[q] = Processing(q)
    /\ pc[q] \in {"claim", "resource", "schedule"} => txn[q] = "none"

\* What a reader sees of a reservation is what its transaction created.
VisibleIsCommitted ==
  \A q \in Requests :
    Exists(q) => txn[q] = "committed" /\ reservation[q].status = Created(q).status

\* A success a request is about to record was performed by the owner of the
\* record it works under.
VerdictGrounded ==
  \A q \in Requests :
    verdict[q] \in Successes =>
      found[q] # NoRecord /\ Performed(found[q].owner, verdict[q])

Grounded ==
  /\ Shape
  /\ KeysMatch
  /\ OwnClaim
  /\ VisibleIsCommitted
  /\ VerdictGrounded
  /\ SuccessIsDurable
  /\ PromisedReservationExists

\* A replace completes a PROCESSING record with a result.
LEMMA ReplacesItsClaim ==
  ASSUME RequestTypeOK, WorkInPhase, NEW q \in Requests, WriteTerminal(q)
  PROVE  /\ found[q] \in IdempotencyRecord /\ found[q] # NoRecord
         /\ found[q].status = "PROCESSING"
         /\ verdict[q] \in Successes \cup Rejections
BY RecordKinds DEF WriteTerminal, WorkInPhase, Working, RequestTypeOK

\* A committed transaction stays committed.
LEMMA CommittedStays ==
  ASSUME StoreTypeOK, OwnClaim, [Next]_vars,
         NEW q \in Requests, txn[q] = "committed"
  PROVE  txn'[q] = "committed"
BY TxnWrites DEF OwnClaim, CheckSchedule

\* The record a request inserts is the one it performs the operation under.
LEMMA OwnClaimStep ==
  ASSUME StoreTypeOK, RequestTypeOK, OwnClaim, [Next]_vars
  PROVE  OwnClaim'
<1>1. ASSUME NEW q \in Requests,
             pc'[q] \in {"resource", "schedule", "persist"}
      PROVE  found'[q] = Processing(q)
  <2>1. CASE ClaimAcquired(q)
    BY <2>1 DEF ClaimAcquired, RequestTypeOK
  <2>2. CASE CheckResource(q) \/ CheckSchedule(q)
    BY <2>2, FoundWrites
    DEF OwnClaim, CheckResource, CheckSchedule, ClaimAcquired, Classify,
        ReadForCompletion
  <2>3. CASE pc'[q] = pc[q] /\ ~ClaimAcquired(q)
    BY <1>1, <2>3, FoundWrites DEF OwnClaim, Classify, ReadForCompletion
  <2> QED BY <1>1, <2>1, <2>2, <2>3, PerformingSteps
<1>2. ASSUME NEW q \in Requests,
             pc'[q] \in {"claim", "resource", "schedule"}
      PROVE  txn'[q] = "none"
  <2>1. CASE ClaimAcquired(q) \/ CheckResource(q)
    BY <2>1
    DEF OwnClaim, ClaimAcquired, InsertRecord, CheckResource, storeVars
  <2>2. CASE CheckSchedule(q)
    BY <1>2, <2>2
    DEF CheckSchedule, Conclude, GoTo, RequestTypeOK
  <2>3. CASE pc'[q] = pc[q] /\ ~CheckSchedule(q)
    BY <1>2, <2>3, TxnWrites DEF OwnClaim
  <2> QED BY <1>2, <2>1, <2>2, <2>3, PerformingSteps
<1> QED BY <1>1, <1>2 DEF OwnClaim

\* Every success, stored, pending or answered, rests on a committed operation.
THEOREM GroundedKept == Spec => []Grounded
<1>1. Init => KeysMatch /\ OwnClaim /\ VisibleIsCommitted /\ VerdictGrounded
              /\ SuccessIsDurable /\ PromisedReservationExists
  BY ResultsApart
  DEF Init, StoreInit, RequestInit, KeysMatch, OwnClaim, VisibleIsCommitted,
      VerdictGrounded, SuccessIsDurable, PromisedReservationExists, NoRecord,
      NoReservation, Stored, Exists
<1>2. Grounded /\ Shape' /\ [Next]_vars => Grounded'
  <2> SUFFICES ASSUME Grounded, Shape', [Next]_vars
               PROVE  /\ KeysMatch' /\ OwnClaim' /\ VisibleIsCommitted'
                      /\ VerdictGrounded' /\ SuccessIsDurable'
                      /\ PromisedReservationExists'
    BY DEF Grounded
  <2>0. /\ StoreTypeOK /\ RequestTypeOK /\ WorkInPhase
        /\ KeysMatch /\ OwnClaim /\ VisibleIsCommitted /\ VerdictGrounded
        /\ SuccessIsDurable /\ PromisedReservationExists
        /\ StoreTypeOK' /\ RequestTypeOK'
    BY DEF Grounded, Shape, TypeOK
  <2>1. KeysMatch'
    <3>1. ASSUME NEW k \in Keys, idempotency'[k] # NoRecord
          PROVE  Key(idempotency'[k].owner) = k
      <4>1. ASSUME NEW q \in Requests, WriteTerminal(q)
            PROVE  /\ found[q] # NoRecord
                   /\ Terminal(found[q], verdict[q]).owner = found[q].owner
        BY <2>0, <4>1, ReplacesItsClaim, TerminalType
      <4> QED BY <2>0, <3>1, <4>1, RecordWrites, ProcessingType DEF KeysMatch
    <3>2. ASSUME NEW q \in Requests, found'[q] # NoRecord
          PROVE  Key(found'[q].owner) = Key(q)
      BY <2>0, <3>2, FoundWrites, ProcessingType DEF KeysMatch, Keys
    <3> QED BY <3>1, <3>2 DEF KeysMatch
  <2>2. OwnClaim'
    BY <2>0, OwnClaimStep
  <2>3. VisibleIsCommitted'
    <3>1. ASSUME NEW q \in Requests, Exists(q)'
          PROVE  txn'[q] = "committed" /\ reservation'[q].status = Created(q).status
      BY <2>0, <3>1, ReservationWrites, CommittedStays, CreatedType
      DEF VisibleIsCommitted, Exists
    <3> QED BY <3>1 DEF VisibleIsCommitted, Exists
  <2>4. VerdictGrounded'
    <3>1. ASSUME NEW q \in Requests, verdict'[q] \in Successes
          PROVE  /\ found'[q] # NoRecord
                 /\ Performed(found[q].owner, verdict[q])'
      <4>1. CASE Recover(q)
        <5>1. /\ found'[q] = found[q] /\ found[q] # NoRecord
              /\ found[q].owner \in Requests
          BY <2>0, <4>1, RecordKinds
          DEF Recover, WorkInPhase, Working, RequestTypeOK
        <5>2. /\ Exists(found[q].owner)
              /\ verdict'[q] = CreationStatus(reservation[found[q].owner])
          BY <2>0, <3>1, <4>1, VerdictWrites, ResultsApart
          DEF Recover, WorkInPhase, Persisted, CheckResource, CheckSchedule
        <5>3. /\ txn'[found[q].owner] = "committed"
              /\ verdict'[q] = CreationStatus(Created(found[q].owner))
          BY <2>0, <5>1, <5>2, CommittedStays DEF VisibleIsCommitted,
                                                  CreationStatus
        <5> QED BY <5>1, <5>3 DEF Performed
      <4>2. CASE Persisted(q)
        <5>1. /\ found'[q] = Processing(q)
              /\ verdict'[q] = CreationStatus(Created(q))
              /\ txn'[q] = "committed"
          BY <2>0, <4>2
          DEF Persisted, Conclude, OwnClaim, RequestTypeOK, storeVars
        <5> QED BY <5>1, ProcessingType DEF Performed
      <4>3. CASE verdict'[q] = verdict[q] /\ ~Recover(q) /\ ~Persisted(q)
        <5>1. /\ found[q] # NoRecord /\ found[q].owner \in Requests
              /\ Performed(found[q].owner, verdict[q])
          BY <2>0, <3>1, <4>3, RecordKinds DEF VerdictGrounded, RequestTypeOK
        <5>2. found'[q] # NoRecord /\ found'[q].owner = found[q].owner
          BY <2>0, <3>1, <4>3, <5>1, FoundWrites, ResultsApart
          DEF WorkInPhase, ClaimAcquired, Classify, CompletionInvalid
        <5> QED BY <2>0, <4>3, <5>1, <5>2, CommittedStays DEF Performed
      <4> QED BY <2>0, <3>1, <4>1, <4>2, <4>3, VerdictWrites, ResultsApart
    <3> QED BY <3>1 DEF VerdictGrounded
  <2>5. SuccessIsDurable'
    <3>1. ASSUME NEW k \in Keys, idempotency'[k].status = "SUCCEEDED"
          PROVE  /\ idempotency'[k].owner \in Requests
                 /\ txn'[idempotency'[k].owner] = "committed"
                 /\ idempotency'[k].result =
                      CreationStatus(Created(idempotency'[k].owner))
      <4>1. idempotency'[k] # NoRecord /\ idempotency'[k].owner \in Requests
        BY <2>0, <3>1, RecordKinds DEF StoreTypeOK, NoRecord
      <4>2. CASE idempotency'[k] = idempotency[k]
        BY <2>0, <3>1, <4>1, <4>2, CommittedStays DEF SuccessIsDurable
      <4>3. ASSUME NEW q \in Requests, WriteTerminal(q),
                   idempotency'[k] = Terminal(found[q], verdict[q])
            PROVE  /\ verdict[q] \in Successes
                   /\ txn'[idempotency'[k].owner] = "committed"
                   /\ idempotency'[k].result =
                        CreationStatus(Created(idempotency'[k].owner))
        <5>1. /\ idempotency'[k].owner = found[q].owner
              /\ idempotency'[k].result = verdict[q]
              /\ idempotency'[k] \in IdempotencyRecord
          BY <2>0, <4>3, ReplacesItsClaim, TerminalType
        <5>2. verdict[q] \in Successes
          BY <3>1, <5>1, RecordKinds
        <5>3. Performed(found[q].owner, verdict[q])
          BY <2>0, <5>2 DEF VerdictGrounded
        <5> QED BY <2>0, <4>1, <5>1, <5>2, <5>3, CommittedStays DEF Performed
      <4> QED BY <2>0, <3>1, <4>1, <4>2, <4>3, RecordWrites, ProcessingType
    <3> QED BY <3>1 DEF SuccessIsDurable
  <2>6. PromisedReservationExists'
    <3> SUFFICES ASSUME NEW q \in Requests, reply'[q] \in Successes
                 PROVE  \E p \in Requests :
                          /\ SameKey(p, q)
                          /\ txn'[p] = "committed"
                          /\ reply'[q] = CreationStatus(Created(p))
      BY DEF PromisedReservationExists
    <3>1. CASE reply'[q] = reply[q]
      BY <2>0, <3>1, CommittedStays DEF PromisedReservationExists
    <3>2. CASE Classify(q) /\ reply'[q] = idempotency[Key(q)].result
      <4>1. /\ idempotency[Key(q)].status = "SUCCEEDED"
            /\ idempotency[Key(q)].owner \in Requests
            /\ idempotency[Key(q)] # NoRecord
        BY <2>0, <3>2, RecordKinds DEF StoreTypeOK, Keys, NoRecord
      <4> QED BY <2>0, <3>2, <4>1, CommittedStays
              DEF SuccessIsDurable, KeysMatch, SameKey, Keys
    <3>3. CASE /\ ReadForCompletion(q) \/ Reconcile(q) \/ ReplaceRecord(q)
               /\ reply'[q] = verdict[q]
      <4>1. /\ found[q] # NoRecord /\ found[q].owner \in Requests
            /\ Performed(found[q].owner, verdict[q])
        BY <2>0, <3>3, RecordKinds DEF VerdictGrounded, RequestTypeOK
      <4> QED BY <2>0, <3>3, <4>1, CommittedStays DEF Performed, KeysMatch,
      SameKey
    <3> QED BY <2>0, <3>1, <3>2, <3>3, ReplyWrites
  <2> QED BY <2>1, <2>2, <2>3, <2>4, <2>5, <2>6
<1> QED BY <1>1, <1>2, ShapeKept, PTL DEF Spec, Grounded

\* A record that says SUCCEEDED stands for a committed transaction.
THEOREM SuccessDurable == Spec => []SuccessIsDurable
<1>1. Grounded => SuccessIsDurable
  BY DEF Grounded
<1> QED BY <1>1, GroundedKept, PTL

\* A client told CREATED has a committed reservation under its key.
THEOREM PromiseIsBacked == Spec => []PromisedReservationExists
<1>1. Grounded => PromisedReservationExists
  BY DEF Grounded
<1> QED BY <1>1, GroundedKept, PTL

-----------------------------------------------------------------------------
(* Abandoned claims.                                                       *)

\* Request q works under the record it inserted, which stands as inserted.
Tends(q) ==
  /\ idempotency[Key(q)] = Processing(q)
  /\ found[q] = Processing(q)
  /\ pc[q] \in {"resource", "schedule", "persist", "complete", "replace"}

\* As long as nothing has failed every PROCESSING record has its owner at work.
Tended ==
  /\ budget.faults <= Faults
  /\ budget.faults = Faults =>
       /\ \A q \in Requests : txn[q] # "aborted"
       /\ \A k \in Keys :
            idempotency[k].status = "PROCESSING" =>
              \E q \in Requests : Key(q) = k /\ Tends(q)

\* A step that spends a fault leaves less than there was, and none returns.
LEMMA FaultsOnlySpent ==
  ASSUME StoreTypeOK, [Next]_vars
  PROVE  /\ budget'.faults \in Int /\ budget'.faults <= budget.faults
         /\ \A q \in Requests :
              \/ ClaimTimesOut(q) \/ ReplaceUnanswered(q)
              \/ Abandon(q) \/ TxnAborts(q)
              => budget'.faults < budget.faults
<1>1. Fault => budget'.faults \in Int /\ budget'.faults < budget.faults
  BY DEF Fault, StoreTypeOK
<1>2. \A k \in Keys : RetentionEnds(k) => budget'.faults = budget.faults
  BY DEF RetentionEnds, StoreTypeOK
<1>3. \A q \in Requests :
        \/ ClaimTimesOut(q) \/ ReplaceUnanswered(q)
        \/ Abandon(q) \/ TxnAborts(q)
        => Fault
  BY DEF ClaimTimesOut, ReplaceUnanswered, Abandon, TxnAborts
<1>4. \A q \in Requests : Handle(q) => UNCHANGED budget
  BY DEF Handle, ClaimAcquired, ClaimCollides, Classify, Recover, VerifyEvents,
         CheckResource, CheckSchedule, Persisted, PersistFails,
         ReadForCompletion, ReplaceRecord, ReplaceUnanswered, WriteTerminal,
         ReplaceLoses, Reconcile, storeVars
<1>5. Fault \/ UNCHANGED budget \/ \E k \in Keys : RetentionEnds(k)
  BY <1>3, <1>4
  DEF Next, RequestNext, StoreNext, TxnCommits, ReservationAppears,
      EventAppears, vars, storeVars
<1>6. budget.faults \in Nat
  BY DEF StoreTypeOK
<1> QED BY <1>1, <1>2, <1>3, <1>5, <1>6

\* The owner of a record keeps working under it until the record is completed.
LEMMA OwnerKeepsTending ==
  ASSUME Shape, [Next]_vars, NEW q \in Requests, Tends(q),
         txn[q] # "aborted", budget'.faults = budget.faults,
         idempotency'[Key(q)] = idempotency[Key(q)]
  PROVE  Tends(q)'
<1>0. StoreTypeOK /\ RequestTypeOK /\ WorkInPhase
  BY DEF Shape, TypeOK
<1>1. ~ClaimTimesOut(q) /\ ~ReplaceUnanswered(q) /\ ~Abandon(q)
  BY <1>0, FaultsOnlySpent DEF StoreTypeOK
<1>2. ~ReplaceRecord(q)
  <2>1. ASSUME WriteTerminal(q) PROVE FALSE
    <3>1. Terminal(found[q], verdict[q]).result = verdict[q]
          /\ verdict[q] # "none"
      BY <1>0, <2>1, ReplacesItsClaim, TerminalType, ResultsApart
    <3> QED BY <1>0, <2>1, <3>1
            DEF WriteTerminal, Tends, StoreTypeOK, Keys, Processing
  <2> QED BY <2>1 DEF ReplaceRecord
<1>3. CASE CheckResource(q) \/ CheckSchedule(q) \/ Persisted(q)
  BY <1>0, <1>3
  DEF CheckResource, CheckSchedule, Persisted, Conclude, GoTo, Tends,
      RequestTypeOK
<1>4. CASE ReadForCompletion(q)
  <2>1. ~CompletionInvalid(q, idempotency[Key(q)])
    BY ProcessingType, CommandAssumption
    DEF Tends, CompletionInvalid, Processing, NoRecord
  <2> QED BY <1>0, <1>4, <2>1, ProcessingType
          DEF ReadForCompletion, GoTo, Tends, RequestTypeOK
<1>5. CASE ReplaceLoses(q) \/ PersistFails(q)
  BY <1>5, ProcessingType DEF ReplaceLoses, PersistFails, Tends
<1>6. ASSUME NEW p \in Requests, p # q,
             Handle(p) \/ ClaimTimesOut(p) \/ ReplaceUnanswered(p) \/ Abandon(p)
      PROVE  pc'[q] = pc[q] /\ found'[q] = found[q]
  BY <1>0, <1>6
  DEF Handle, ClaimAcquired, ClaimCollides, ClaimTimesOut, Classify, Recover,
      VerifyEvents, CheckResource, CheckSchedule, Conclude, Persisted,
      PersistFails, ReadForCompletion, ReplaceRecord, ReplaceUnanswered,
      WriteTerminal, ReplaceLoses, Reconcile,
      Abandon, GoTo, Answer, RequestTypeOK
<1>7. ~ClaimAcquired(q) /\ ~ClaimCollides(q) /\ ~Classify(q) /\ ~Recover(q)
      /\ ~VerifyEvents(q) /\ ~Reconcile(q)
  BY DEF Tends, ClaimAcquired, ClaimCollides, Classify, Recover, VerifyEvents,
         Reconcile
<1> QED
  BY <1>1, <1>2, <1>3, <1>4, <1>5, <1>6, <1>7
  DEF Tends, Next, RequestNext, Handle, vars, requestVars

\* A PROCESSING record nobody works under is the trace of a fault.
THEOREM AbandonedByFaultOnly == Spec => []AbandonedOnlyByFault
<1>1. Init => Tended
  BY BoundsAssumption DEF Init, StoreInit, Tended, NoRecord
<1>2. Shape /\ Tended /\ [Next]_vars => Tended'
  <2> SUFFICES ASSUME Shape, Tended, [Next]_vars PROVE Tended'
    OBVIOUS
  <2>0. /\ StoreTypeOK /\ RequestTypeOK /\ WorkInPhase
        /\ budget.faults \in Nat /\ Faults \in Nat
        /\ budget'.faults \in Int /\ budget'.faults <= budget.faults
    BY FaultsOnlySpent, BoundsAssumption DEF Shape, TypeOK, StoreTypeOK
  <2>1. CASE budget'.faults # budget.faults
    BY <2>0, <2>1 DEF Tended
  <2>2. CASE budget'.faults = budget.faults /\ budget.faults = Faults
    <3>1. ASSUME NEW q \in Requests PROVE txn'[q] # "aborted"
      BY <2>0, <2>2, TxnWrites, FaultsOnlySpent DEF Tended
    <3>2. ASSUME NEW k \in Keys, idempotency'[k].status = "PROCESSING"
          PROVE  \E q \in Requests : Key(q) = k /\ Tends(q)'
      <4>1. CASE idempotency'[k] = idempotency[k]
        BY <2>0, <2>2, <3>2, <4>1, OwnerKeepsTending DEF Tended
      <4>2. ASSUME NEW q \in Requests, k = Key(q), ClaimAcquired(q),
                   idempotency'[k] = Processing(q)
            PROVE  Tends(q)'
        BY <2>0, <4>2 DEF Tends, ClaimAcquired, GoTo, RequestTypeOK
      <4>3. ASSUME NEW q \in Requests, WriteTerminal(q)
            PROVE  Terminal(found[q], verdict[q]).status # "PROCESSING"
        BY DEF Terminal
      <4> QED BY <2>0, <2>2, <3>2, <4>1, <4>2, <4>3, RecordWrites,
                 FaultsOnlySpent DEF NoRecord
    <3> QED BY <2>0, <2>2, <3>1, <3>2 DEF Tended
  <2>3. CASE budget'.faults = budget.faults /\ budget.faults # Faults
    BY <2>3 DEF Tended
  <2> QED BY <2>1, <2>2, <2>3
<1>3. Shape /\ Tended => AbandonedOnlyByFault
  BY BoundsAssumption
  DEF Shape, TypeOK, StoreTypeOK, Tended, Tends, AbandonedOnlyByFault, Working
<1> QED BY <1>1, <1>2, <1>3, ShapeKept, PTL DEF Spec

-----------------------------------------------------------------------------
(* What the schedule check does guarantee, although it is made outside the  *)
(* transaction: overbooking takes a race.                                   *)

(* The schedule check.                                                     *)

\* What the schedule check of q counted against the units of the resource.
Counted(q) ==
  {p \in Requests :
     /\ Command[p].resource = Command[q].resource
     /\ \E v \in Nat : <<p, v>> \in checked[q]
     /\ Overlaps(Command[q].interval, Command[p].interval)}

\* Reservations stand as they were created.
AsCreated ==
  \A q \in Requests :
    Exists(q) => txn[q] = "committed" /\ reservation[q] = Stored(Created(q), 1)

\* A check saw only reservations that can still be read.
CheckedExist ==
  \A p, q \in Requests : \A v \in Nat : <<p, v>> \in checked[q] => Exists(p)

\* A transaction is opened only where the check left room.
Admitted ==
  \A q \in Requests :
    txn[q] # "none" => Cardinality(Counted(q)) < ResourceOf(q).totalUnits

\* OverbookingNeedsARace at any hour.
RaceAtAnyHour ==
  \A resource \in DOMAIN Resource, t \in Int :
    Overbooked(resource, t) =>
      \E a, b \in Occupants(resource, t) :
        a # b /\ ~SeenBy(a, b) /\ ~SeenBy(b, a)

Scheduled ==
  /\ Shape /\ OwnClaim
  /\ AsCreated /\ CheckedExist /\ Admitted /\ RaceAtAnyHour

\* A created reservation holds the interval asked for, in its first version.
LEMMA CreatedDocument ==
  ASSUME NEW q \in Requests
  PROVE  /\ Stored(Created(q), 1).interval = Command[q].interval
         /\ Stored(Created(q), 1).version = 1
         /\ Stored(Created(q), 1).status # "ABSENT"
BY DEF Stored, Created, CreateConfirmed, CreatePendingApproval

\* The check counts every confirmed reservation in its way.
LEMMA ConflictsAreCounted ==
  ASSUME IsFiniteSet(Requests), StoreTypeOK, AsCreated, NEW q \in Requests,
         CheckSchedule(q), txn'[q] = "open", txn[q] = "none"
  PROVE  Cardinality(Counted(q)') < ResourceOf(q).totalUnits
<1>1. ~ScheduleFull(q) /\ checked'[q] = Visible(Command[q].resource)
  BY DEF CheckSchedule, StoreTypeOK
<1>2. Counted(q)' = Conflicting(Command[q].resource, Command[q].interval)
  <2>1. ASSUME NEW p \in Requests,
               Command[p].resource = Command[q].resource
        PROVE  (\E v \in Nat : <<p, v>> \in checked'[q])
                 <=> BlocksSchedule(reservation[p].status)
    BY <1>1, <2>1
    DEF Visible, StoreTypeOK, ReservationDocument, NoReservation, Stored
  <2>2. ASSUME NEW p \in Requests, BlocksSchedule(reservation[p].status)
        PROVE  reservation[p].interval = Command[p].interval
    BY <2>2, CreatedDocument DEF AsCreated, Exists, BlocksSchedule
  <2> QED BY <2>1, <2>2 DEF Counted, Conflicting, HasReservationConflict
<1>3. Cardinality(Counted(q)') \in Nat /\ ResourceOf(q).totalUnits \in Nat
  <2>1. Counted(q)' \subseteq Requests
    BY DEF Counted
  <2> QED BY <2>1, FS_Subset, FS_CardinalityType, CommandAssumption,
             ResourceAssumption DEF ResourceOf
<1> QED BY <1>1, <1>2, <1>3 DEF ScheduleFull

\* Two intervals that cover the same hour overlap.
LEMMA SharedHourOverlaps ==
  ASSUME NEW a \in Interval, NEW b \in Interval, NEW t \in Int,
         Covers(a, t), Covers(b, t)
  PROVE  Overlaps(a, b)
BY DEF Interval, Covers, Overlaps

\* A reservation that appears overbooks its resource only if its check did not
\* see one of the others; and none of them can have seen it.
LEMMA AppearanceNeedsARace ==
  ASSUME IsFiniteSet(Requests), Scheduled, NEW q \in Requests,
         txn[q] = "committed", ~Exists(q),
         reservation' = [reservation EXCEPT ![q] = Stored(Created(q), 1)],
         UNCHANGED checked,
         NEW resource \in DOMAIN Resource, NEW t \in Int,
         Overbooked(resource, t)', ~Overbooked(resource, t)
  PROVE  /\ q \in Occupants(resource, t)'
         /\ \E a \in Occupants(resource, t)' :
              a # q /\ ~SeenBy(a, q)' /\ ~SeenBy(q, a)'
<1> DEFINE before == Occupants(resource, t)
           after == Occupants(resource, t)'
           units == Resource[resource].totalUnits
<1>0. StoreTypeOK /\ AsCreated /\ CheckedExist /\ Admitted
  BY DEF Scheduled, Shape, TypeOK
<1>1. \A p \in Requests \ {q} : reservation'[p] = reservation[p]
  BY <1>0 DEF StoreTypeOK
<1>2. /\ before \subseteq Requests /\ q \notin before
      /\ after \in {before, before \cup {q}}
  BY <1>1 DEF Occupants, Exists, BlocksSchedule
<1>3. /\ IsFiniteSet(before) /\ Cardinality(before) \in Nat
      /\ Cardinality(before \cup {q}) = Cardinality(before) + 1
  BY <1>2, FS_Subset, FS_CardinalityType, FS_AddElement
<1>4. units \in Nat /\ Cardinality(before) <= units /\ Cardinality(after) > units
  BY <1>3, ResourceAssumption DEF Overbooked
<1>5. after = before \cup {q} /\ Cardinality(before) >= units
  <2> HIDE DEF before, after, units
  <2>1. after # before
    BY <1>3, <1>4
  <2>2. after = before \cup {q}
    BY <1>2, <2>1
  <2> QED BY <1>3, <1>4, <2>2
<1>6. /\ Command[q].resource = resource
      /\ Covers(Command[q].interval, t)
  BY <1>0, <1>5, CreatedDocument DEF Occupants, StoreTypeOK
<1>7. PICK a \in before : ~SeenBy(a, q)
  <2> SUFFICES ASSUME \A a \in before : SeenBy(a, q) PROVE FALSE
    OBVIOUS
  <2>1. ASSUME NEW a \in before PROVE a \in Counted(q)
    <3>1. /\ Command[a].resource = resource
          /\ Covers(Command[a].interval, t)
          /\ reservation[a].version = 1
      BY <1>0, <2>1, CreatedDocument DEF Occupants, AsCreated, Exists,
                                         BlocksSchedule
    <3>2. Overlaps(Command[q].interval, Command[a].interval)
      BY <1>2, <1>6, <3>1, SharedHourOverlaps, CommandAssumption
    <3> QED BY <1>2, <1>6, <3>1, <3>2 DEF Counted, SeenBy
  <2>2. /\ Counted(q) \subseteq Requests
        /\ Cardinality(Counted(q)) < units
    BY <1>0, <1>6 DEF Counted, Admitted, ResourceOf
  <2>3. /\ Cardinality(Counted(q)) \in Nat
        /\ Cardinality(before) <= Cardinality(Counted(q))
    BY <2>1, <2>2, FS_Subset, FS_CardinalityType
  <2> QED BY <1>3, <1>4, <1>5, <2>2, <2>3
<1>8. ~SeenBy(a, q)' /\ ~SeenBy(q, a)' /\ a # q
  <2>1. a # q /\ reservation'[a] = reservation[a] /\ reservation'[q].version = 1
    BY <1>0, <1>1, <1>2, CreatedDocument DEF StoreTypeOK
  <2>2. <<q, 1>> \notin checked[a]
    BY <1>0, <1>2 DEF CheckedExist
  <2> QED BY <1>7, <2>1, <2>2 DEF SeenBy
<1> QED BY <1>5, <1>8

\* A resource is overbooked only by requests that raced.
THEOREM OverbookingTakesARace ==
  ASSUME IsFiniteSet(Requests) PROVE Spec => []OverbookingNeedsARace
<1>1. Init => AsCreated /\ CheckedExist /\ Admitted /\ RaceAtAnyHour
  <2>1. ASSUME Init, NEW resource \in DOMAIN Resource, NEW t \in Int
        PROVE  ~Overbooked(resource, t)
    <3>1. Occupants(resource, t) = {}
      BY <2>1
      DEF Init, StoreInit, Occupants, BlocksSchedule, NoReservation, Stored
    <3> QED BY <3>1, FS_EmptySet, ResourceAssumption DEF Overbooked
  <2> QED BY <2>1
          DEF Init, StoreInit, AsCreated, CheckedExist, Admitted, RaceAtAnyHour,
              Exists, NoReservation, Stored
<1>2. Scheduled /\ Shape' /\ OwnClaim' /\ [Next]_vars => Scheduled'
  <2> SUFFICES ASSUME Scheduled, [Next]_vars
               PROVE  AsCreated' /\ CheckedExist' /\ Admitted' /\ RaceAtAnyHour'
    BY DEF Scheduled
  <2>0. /\ StoreTypeOK /\ OwnClaim /\ AsCreated /\ CheckedExist /\ Admitted
        /\ RaceAtAnyHour
    BY DEF Scheduled, Shape, TypeOK
  \* A step is a schedule check or changes no history.
  <2>1. ASSUME NEW q \in Requests
        PROVE  \/ checked'[q] = checked[q]
               \/ /\ CheckSchedule(q)
                  /\ txn[q] = "none" /\ txn'[q] = "open"
                  /\ checked'[q] = Visible(Command[q].resource)
    <3>1. ASSUME NEW p \in Requests, CheckSchedule(p)
          PROVE  \/ checked'[q] = checked[q]
                 \/ /\ p = q /\ txn[q] = "none" /\ txn'[q] = "open"
                    /\ checked'[q] = Visible(Command[q].resource)
      BY <2>0, <3>1 DEF CheckSchedule, OwnClaim, StoreTypeOK
    <3> QED BY <3>1
            DEF Next, RequestNext, Handle, StoreNext, vars, storeVars,
                ClaimAcquired, ClaimCollides, ClaimTimesOut, InsertRecord,
                Classify, Recover, VerifyEvents, CheckResource, Persisted,
                PersistFails, ReadForCompletion, ReplaceRecord,
                ReplaceUnanswered, WriteTerminal, ReplaceLoses,
                Reconcile, Abandon, TxnCommits, TxnAborts, ReservationAppears,
                EventAppears, RetentionEnds
  <2>2. ASSUME NEW q \in Requests, Exists(q)
        PROVE  /\ reservation'[q] = reservation[q] /\ Exists(q)'
               /\ txn'[q] = "committed" /\ checked'[q] = checked[q]
    <3>1. reservation'[q] = reservation[q]
      BY <2>0, <2>2, ReservationWrites
    <3>2. txn[q] = "committed" /\ txn'[q] = "committed"
      BY <2>0, <2>2, CommittedStays DEF AsCreated
    <3> QED BY <2>1, <2>2, <3>1, <3>2 DEF Exists
  <2>3. AsCreated'
    <3>1. ASSUME NEW q \in Requests, Exists(q)'
          PROVE  txn'[q] = "committed" /\ reservation'[q] = Stored(Created(q), 1)
      BY <2>0, <2>2, <3>1, ReservationWrites, CommittedStays DEF AsCreated, Exists
    <3> QED BY <3>1 DEF AsCreated, Exists
  <2>4. CheckedExist'
    <3>1. ASSUME NEW p \in Requests, NEW q \in Requests, NEW v \in Nat,
                 <<p, v>> \in checked'[q]
          PROVE  Exists(p)
      BY <2>0, <2>1, <3>1 DEF CheckedExist, Visible, Exists, BlocksSchedule
    <3> QED BY <2>2, <3>1 DEF CheckedExist
  <2>5. Admitted'
    <3>1. ASSUME NEW q \in Requests, txn'[q] # "none"
          PROVE  Cardinality(Counted(q)') < ResourceOf(q).totalUnits
      <4>1. CASE checked'[q] = checked[q] /\ txn[q] # "none"
        BY <2>0, <4>1 DEF Admitted, Counted
      <4>2. CASE CheckSchedule(q)
        BY <2>0, <3>1, <4>2, ConflictsAreCounted
        DEF OwnClaim, CheckSchedule, StoreTypeOK
      <4> QED BY <2>0, <2>1, <3>1, <4>1, <4>2, TxnWrites
    <3> QED BY <3>1 DEF Admitted
  <2>6. RaceAtAnyHour'
    <3> SUFFICES ASSUME NEW resource \in DOMAIN Resource, NEW t \in Int,
                        Overbooked(resource, t)'
                 PROVE  \E a, b \in Occupants(resource, t)' :
                          a # b /\ ~SeenBy(a, b)' /\ ~SeenBy(b, a)'
      BY DEF RaceAtAnyHour
    <3>1. CASE Overbooked(resource, t)
      <4>1. PICK a, b \in Occupants(resource, t) :
              a # b /\ ~SeenBy(a, b) /\ ~SeenBy(b, a)
        BY <2>0, <3>1 DEF RaceAtAnyHour
      <4>2. a \in Requests /\ Exists(a) /\ b \in Requests /\ Exists(b)
        BY DEF Occupants, Exists, BlocksSchedule
      <4>3. a \in Occupants(resource, t)' /\ b \in Occupants(resource, t)'
        BY <2>2, <4>2 DEF Occupants
      <4> QED BY <2>2, <4>1, <4>2, <4>3 DEF SeenBy
    <3>2. CASE ~Overbooked(resource, t)
      <4>1. ASSUME UNCHANGED reservation PROVE FALSE
        BY <3>2, <4>1 DEF Overbooked, Occupants
      <4>2. PICK q \in Requests :
              ReservationAppears(q)
        BY <4>1
        DEF Next, RequestNext, Handle, StoreNext, vars, storeVars,
            ClaimAcquired, ClaimCollides, ClaimTimesOut, InsertRecord,
            Classify, Recover, VerifyEvents, CheckResource, CheckSchedule,
            Persisted, PersistFails, ReadForCompletion, ReplaceRecord,
            ReplaceUnanswered, WriteTerminal, ReplaceLoses, Reconcile, Abandon,
            TxnCommits, TxnAborts,
            EventAppears, RetentionEnds
      <4> QED BY <3>2, <4>2, AppearanceNeedsARace DEF ReservationAppears
    <3> QED BY <3>1, <3>2
  <2> QED BY <2>3, <2>4, <2>5, <2>6
<1>3. Scheduled => OverbookingNeedsARace
  <2> SUFFICES ASSUME Scheduled PROVE OverbookingNeedsARace
    OBVIOUS
  <2>1. Starts \subseteq Int
    BY CommandAssumption
    DEF Scheduled, Shape, TypeOK, StoreTypeOK, Starts, ReservationDocument,
        NoReservation, Stored, Interval
  <2> QED BY <2>1 DEF Scheduled, RaceAtAnyHour, OverbookingNeedsARace
<1>4. Grounded => Shape /\ OwnClaim
  BY DEF Grounded
<1> QED BY <1>1, <1>2, <1>3, <1>4, GroundedKept, PTL DEF Spec, Scheduled

=============================================================================
