-------------------------- MODULE CreateOnceProofs --------------------------
(* Theorems about CreateReservation where idempotency records outlive the   *)
(* requests that use them: a key has one operation and one outcome.         *)
EXTENDS CreateProofs

-----------------------------------------------------------------------------
(* The inductive invariant.                                                *)

\* The operation of a key is performed by the owner of its record alone, and
\* nobody completes that record before the owner has opened its transaction.
Owned ==
  \A q \in Requests :
    /\ pc[q] \in {"resource", "schedule"} => idempotency[Key(q)] = Processing(q)
    /\ pc[q] = "persist" \/ txn[q] # "none" =>
         /\ idempotency[Key(q)] # NoRecord
         /\ idempotency[Key(q)].owner = q

\* A rejection about to be recorded is the owner's, which opened no transaction.
RejectionGrounded ==
  \A q \in Requests :
    verdict[q] \in Rejections =>
      /\ idempotency[Key(q)] # NoRecord
      /\ idempotency[Key(q)].owner = q
      /\ txn[q] = "none"

\* A record is replaced for the payload it was claimed with.
ReplacedForItsPayload ==
  \A q \in Requests :
    pc[q] = "replace" => Fingerprint(found[q].owner) = Fingerprint(q)

\* A definite answer is the recorded result of the payload asked for.
AnswerRecorded ==
  \A q \in Requests :
    reply[q] \in Successes \cup Rejections =>
      /\ idempotency[Key(q)] # NoRecord
      /\ idempotency[Key(q)].result = reply[q]
      /\ Fingerprint(idempotency[Key(q)].owner) = Fingerprint(q)

Once ==
  /\ Grounded
  /\ budget.expiries = 0
  /\ Owned
  /\ RejectionGrounded
  /\ RejectionLeavesNothing
  /\ ReplacedForItsPayload
  /\ AnswerRecorded

\* Without expiry a record stays, its owner with it, and so does its result.
LEMMA RecordStays ==
  ASSUME Once, [Next]_vars, NEW k \in Keys, idempotency[k] # NoRecord
  PROVE  /\ idempotency'[k] # NoRecord
         /\ idempotency'[k].owner = idempotency[k].owner
         /\ idempotency[k].result # "none" =>
              idempotency'[k].result = idempotency[k].result
         /\ idempotency'[k] = idempotency[k]
              \/ \E q \in Requests :
                   /\ k = Key(q) /\ WriteTerminal(q)
                   /\ idempotency[k] = found[q]
                   /\ idempotency'[k] = Terminal(found[q], verdict[q])
<1> USE DEF Once, Grounded, Shape, TypeOK
<1>1. ASSUME NEW q \in Requests, WriteTerminal(q)
      PROVE  /\ Terminal(found[q], verdict[q]) # NoRecord
             /\ Terminal(found[q], verdict[q]).owner = found[q].owner
             /\ found[q].result = "none"
  <2>1. /\ found[q] \in IdempotencyRecord /\ found[q].status = "PROCESSING"
        /\ verdict[q] \in Successes \cup Rejections
    BY <1>1, ReplacesItsClaim
  <2>2. Terminal(found[q], verdict[q]).owner = found[q].owner
    BY <2>1, TerminalType
  <2>3. found[q].result = "none" /\ found[q].owner \in Requests
    BY <2>1 DEF IdempotencyRecord
  <2> QED BY <2>2, <2>3, CommandAssumption DEF NoRecord
<1> QED BY <1>1, RecordWrites DEF NoRecord

\* Under one key the operation is performed once and decided once, and every
\* definite answer is that decision.
THEOREM OnceKept == ASSUME Expiries = 0 PROVE Spec => []Once
<1>1. Init => /\ budget.expiries = 0 /\ Owned /\ RejectionGrounded
              /\ RejectionLeavesNothing /\ ReplacedForItsPayload /\ AnswerRecorded
  BY ResultsApart
  DEF Init, StoreInit, RequestInit, Owned, RejectionGrounded, Keys,
      RejectionLeavesNothing, ReplacedForItsPayload, AnswerRecorded, NoRecord
<1>2. Once /\ Grounded' /\ [Next]_vars => Once'
  <2> SUFFICES ASSUME Once, Grounded', [Next]_vars
               PROVE  /\ budget'.expiries = 0 /\ Owned' /\ RejectionGrounded'
                      /\ RejectionLeavesNothing' /\ ReplacedForItsPayload'
                      /\ AnswerRecorded'
    BY DEF Once
  <2>0. /\ StoreTypeOK /\ RequestTypeOK /\ WorkInPhase
        /\ KeysMatch /\ OwnClaim /\ VerdictGrounded /\ SuccessIsDurable
        /\ budget.expiries = 0 /\ Owned /\ RejectionGrounded
        /\ RejectionLeavesNothing /\ ReplacedForItsPayload /\ AnswerRecorded
        /\ StoreTypeOK' /\ RequestTypeOK' /\ WorkInPhase' /\ OwnClaim'
    BY DEF Once, Grounded, Shape, TypeOK
  <2>1. budget'.expiries = 0
    BY <2>0
    DEF Next, RequestNext, Handle, StoreNext, vars, storeVars, StoreTypeOK,
        Fault, ClaimAcquired, ClaimCollides, ClaimTimesOut, Classify, Recover,
        VerifyEvents, CheckResource, CheckSchedule, Persisted, PersistFails,
        ReadForCompletion, ReplaceRecord, ReplaceUnanswered, WriteTerminal,
        ReplaceLoses, Reconcile, Abandon,
        TxnCommits, TxnAborts, ReservationAppears, EventAppears, RetentionEnds
  <2>2. Owned'
    <3>1. ASSUME NEW q \in Requests, pc'[q] \in {"resource", "schedule"}
          PROVE  idempotency'[Key(q)] = Processing(q)
      <4>1. CASE ClaimAcquired(q)
        BY <2>0, <4>1 DEF ClaimAcquired, InsertRecord, StoreTypeOK, Keys
      <4>2. CASE CheckResource(q)
        BY <2>0, <4>2 DEF CheckResource, Owned, storeVars
      <4>3. CASE pc'[q] = pc[q]
        <5>1. /\ idempotency[Key(q)] = Processing(q) /\ Key(q) \in Keys
              /\ txn[q] = "none" /\ verdict[q] = "none"
          BY <2>0, <3>1, <4>3 DEF Owned, OwnClaim, WorkInPhase, Keys
        <5>2. ASSUME NEW p \in Requests, WriteTerminal(p), Key(p) = Key(q),
                     found[p] = Processing(q)
              PROVE  FALSE
          <6>1. verdict[p] \in Successes \cup Rejections
            BY <2>0, <5>2, ReplacesItsClaim
          <6>2. verdict[p] \notin Successes
            BY <2>0, <5>1, <5>2, ProcessingType DEF VerdictGrounded, Performed
          <6>3. verdict[p] \in Rejections => p = q
            BY <2>0, <5>1, <5>2, ProcessingType DEF RejectionGrounded
          <6> QED BY <2>0, <3>1, <4>3, <5>2, <6>1, <6>2, <6>3 DEF WriteTerminal
        <5> QED BY <5>1, <5>2, RecordStays, ProcessingType
      <4> QED BY <2>0, <3>1, <4>1, <4>2, <4>3, PerformingSteps
    <3>2. ASSUME NEW q \in Requests, pc'[q] = "persist" \/ txn'[q] # "none"
          PROVE  /\ idempotency'[Key(q)] # NoRecord
                 /\ idempotency'[Key(q)].owner = q
      <4>1. idempotency[Key(q)] # NoRecord /\ idempotency[Key(q)].owner = q
        <5>1. CASE pc[q] = "persist" \/ txn[q] # "none"
          BY <2>0, <5>1 DEF Owned
        <5>2. CASE CheckSchedule(q)
          BY <2>0, <5>2, ProcessingType DEF CheckSchedule, Owned
        <5> QED BY <2>0, <3>2, <5>1, <5>2, PerformingSteps, TxnWrites
      <4> QED BY <4>1, RecordStays DEF Keys
    <3> QED BY <3>1, <3>2 DEF Owned
  <2>3. RejectionGrounded'
    <3> SUFFICES ASSUME NEW q \in Requests, verdict'[q] \in Rejections
                 PROVE  /\ idempotency'[Key(q)] # NoRecord
                        /\ idempotency'[Key(q)].owner = q
                        /\ txn'[q] = "none"
      BY DEF RejectionGrounded
    <3>1. /\ idempotency[Key(q)] # NoRecord /\ idempotency[Key(q)].owner = q
          /\ txn[q] = "none"
      <4>1. CASE verdict'[q] = verdict[q]
        BY <2>0, <4>1 DEF RejectionGrounded
      <4>2. CASE CheckResource(q) \/ CheckSchedule(q)
        BY <2>0, <4>2, ProcessingType
        DEF CheckResource, CheckSchedule, Owned, OwnClaim
      <4> QED BY <2>0, <4>1, <4>2, VerdictWrites, CreationIsSuccess, ResultsApart
    <3>2. txn'[q] = "none"
      <4>1. ASSUME CheckSchedule(q), txn'[q] # txn[q]
            PROVE  verdict'[q] = "none"
        BY <2>0, <4>1 DEF CheckSchedule, WorkInPhase, RequestTypeOK, StoreTypeOK
      <4> QED BY <2>0, <3>1, <4>1, TxnWrites, ResultsApart
    <3> QED BY <3>1, <3>2, RecordStays DEF Keys
  <2>4. RejectionLeavesNothing'
    <3> SUFFICES ASSUME NEW q \in Requests,
                        idempotency'[Key(q)].status = "FAILED_PERMANENT",
                        txn'[q] \notin {"none", "aborted"}
                 PROVE  FALSE
      BY DEF RejectionLeavesNothing
    <3>1. txn[q] # "none" \/ CheckSchedule(q)
      BY <2>0, TxnWrites
    <3>2. /\ idempotency[Key(q)] # NoRecord /\ idempotency[Key(q)].owner = q
          /\ idempotency[Key(q)].status # "FAILED_PERMANENT"
      <4>1. CASE CheckSchedule(q)
        BY <2>0, <4>1, ProcessingType DEF CheckSchedule, Owned
      <4>2. CASE txn[q] # "none" /\ ~CheckSchedule(q)
        BY <2>0, <4>2, TxnWrites DEF Owned, RejectionLeavesNothing
      <4> QED BY <3>1, <4>1, <4>2
    <3>3. PICK p \in Requests :
            /\ Key(q) = Key(p) /\ WriteTerminal(p)
            /\ idempotency'[Key(q)] = Terminal(found[p], verdict[p])
      BY <3>2, RecordStays DEF Keys
    <3>4. verdict[p] \in Rejections
      <4>1. /\ Terminal(found[p], verdict[p]) \in IdempotencyRecord
            /\ Terminal(found[p], verdict[p]).result = verdict[p]
        BY <2>0, <3>3, ReplacesItsClaim, TerminalType
      <4> QED BY <3>3, <4>1, RecordKinds
    <3>5. p = q /\ txn[q] = "none"
      BY <2>0, <3>2, <3>3, <3>4 DEF RejectionGrounded
    <3> QED BY <2>0, <3>1, <3>3, <3>5 DEF WriteTerminal, CheckSchedule
  <2>5. ReplacedForItsPayload'
    <3> SUFFICES ASSUME NEW q \in Requests, pc'[q] = "replace"
                 PROVE  Fingerprint(found'[q].owner) = Fingerprint(q)
      BY DEF ReplacedForItsPayload
    <3>1. CASE ReadForCompletion(q)
      BY <2>0, <3>1
      DEF ReadForCompletion, CompletionInvalid, RequestTypeOK, Answer
    <3>2. CASE pc'[q] = pc[q] /\ ~ReadForCompletion(q)
      BY <2>0, <3>2, FoundWrites DEF ReplacedForItsPayload, ClaimAcquired,
                                     Classify
    <3> QED BY <2>0, <3>1, <3>2, PerformingSteps
  <2>6. AnswerRecorded'
    <3> SUFFICES ASSUME NEW q \in Requests,
    reply'[q] \in Successes \cup Rejections
                 PROVE  /\ idempotency'[Key(q)] # NoRecord
                        /\ idempotency'[Key(q)].result = reply'[q]
                        /\ Fingerprint(idempotency'[Key(q)].owner) = Fingerprint(q)
      BY DEF AnswerRecorded
    <3> DEFINE record == idempotency[Key(q)]
    <3>1. CASE WriteTerminal(q) /\ reply'[q] = verdict[q]
      <4>1. /\ idempotency'[Key(q)] = Terminal(found[q], verdict[q])
            /\ Fingerprint(found[q].owner) = Fingerprint(q)
        BY <2>0, <3>1 DEF WriteTerminal, StoreTypeOK, Keys, ReplacedForItsPayload
      <4>2. /\ Terminal(found[q], verdict[q]).owner = found[q].owner
            /\ Terminal(found[q], verdict[q]).result = verdict[q]
        BY <2>0, <3>1, ReplacesItsClaim, TerminalType
      <4> QED BY <3>1, <4>1, <4>2, ResultsApart DEF NoRecord
    <3>2. CASE ~(WriteTerminal(q) /\ reply'[q] = verdict[q])
      <4>1. /\ record # NoRecord
            /\ record.result = reply'[q]
            /\ Fingerprint(record.owner) = Fingerprint(q)
        BY <2>0, <3>2, ReplyWrites, ResultsApart
        DEF AnswerRecorded, CompletionInvalid, NoRecord, ReplaceRecord
      <4> QED BY <4>1, RecordStays, ResultsApart DEF Keys
    <3> QED BY <3>1, <3>2
  <2> QED BY <2>1, <2>2, <2>3, <2>4, <2>5, <2>6
<1> QED BY <1>1, <1>2, GroundedKept, PTL DEF Spec, Once

-----------------------------------------------------------------------------
(* What clients are promised.                                              *)

\* However many requests carry a key, at most one of them creates anything.
THEOREM OneReservation == ASSUME Expiries = 0 PROVE Spec => []OneReservationPerKey
<1>1. Once => OneReservationPerKey
  BY DEF Once, Owned, OneReservationPerKey, SameKey
<1> QED BY <1>1, OnceKept, PTL

\* A recorded rejection leaves nothing behind, now or later.
THEOREM RejectionIsClean ==
  ASSUME Expiries = 0 PROVE Spec => []RejectionLeavesNothing
<1>1. Once => RejectionLeavesNothing
  BY DEF Once
<1> QED BY <1>1, OnceKept, PTL

\* All definite answers under one key are the same.
THEOREM OneAnswer == ASSUME Expiries = 0 PROVE Spec => []RepliesAgree
<1>1. Once => RepliesAgree
  BY DEF Once, AnswerRecorded, RepliesAgree, SameKey
<1> QED BY <1>1, OnceKept, PTL

\* A key stands for one payload.
THEOREM OnePayload == ASSUME Expiries = 0 PROVE Spec => []PayloadsKeptApart
<1>1. Once => PayloadsKeptApart
  BY DEF Once, AnswerRecorded, PayloadsKeptApart, SameKey, Fingerprint
<1> QED BY <1>1, OnceKept, PTL

-----------------------------------------------------------------------------
(* Creation implements IdempotentCommand.                                  *)

Done == {q \in Requests : txn[q] = "committed"}
Outcome == [k \in Keys |-> idempotency[k].result]

\* A commit is the only performance under its key, before any outcome.
LEMMA CommitPerforms ==
  ASSUME Once, NEW q \in Requests, TxnCommits(q), UNCHANGED requestVars
  PROVE  Promise!Perform(q)
<1>0. /\ StoreTypeOK /\ KeysMatch /\ SuccessIsDurable /\ Owned
      /\ RejectionLeavesNothing
  BY DEF Once, Grounded, Shape, TypeOK
<1>1. /\ txn[q] = "open" /\ Key(q) \in Keys
      /\ idempotency[Key(q)].owner = q
      /\ idempotency[Key(q)] \in IdempotencyRecord \cup {NoRecord}
  BY <1>0 DEF TxnCommits, Owned, StoreTypeOK, Keys
<1>2. Outcome[Key(q)] = "none"
  <2>1. idempotency[Key(q)].status \notin {"SUCCEEDED", "FAILED_PERMANENT"}
    BY <1>0, <1>1 DEF SuccessIsDurable, RejectionLeavesNothing
  <2> QED BY <1>1, <2>1, RecordKinds DEF Outcome
<1>3. \A p \in Done : Key(p) # Key(q)
  BY <1>0, <1>1 DEF Done, Owned
<1>4. /\ Done' = Done \cup {q}
      /\ UNCHANGED <<Outcome, reply>>
  BY <1>0 DEF Done, Outcome, TxnCommits, StoreTypeOK, requestVars
<1> QED BY <1>2, <1>3, <1>4 DEF Promise!Perform, Done, Outcome

\* A replace decides the outcome of its key, as its operation went, whether or
\* not its client hears of it.
LEMMA ReplaceDecides ==
  ASSUME Once, NEW q \in Requests, ReplaceRecord(q) \/ ReplaceUnanswered(q),
         NEW result, result = verdict[q]
  PROVE  result \in Promise!Definite /\ Promise!Decide(q, result)
<1>0. /\ StoreTypeOK /\ RequestTypeOK /\ WorkInPhase /\ KeysMatch
      /\ VerdictGrounded /\ Owned /\ RejectionGrounded
  BY DEF Once, Grounded, Shape, TypeOK
<1>0a. WriteTerminal(q)
  BY DEF ReplaceRecord, ReplaceUnanswered
<1>1. /\ found[q] \in IdempotencyRecord /\ found[q].status = "PROCESSING"
      /\ found[q].result = "none" /\ found[q].owner \in Requests
      /\ found[q] # NoRecord
      /\ verdict[q] \in Successes \cup Rejections
  BY <1>0, <1>0a, ReplacesItsClaim DEF IdempotencyRecord
<1>2. Key(q) \in Keys /\ Outcome[Key(q)] = "none" /\ reply[q] = "none"
  BY <1>0, <1>1, <1>0a DEF WriteTerminal, Outcome, Keys, RequestTypeOK
<1>3. verdict[q] \in Successes <=> \E p \in Done : Key(p) = Key(q)
  <2>1. ASSUME verdict[q] \in Successes
        PROVE  found[q].owner \in Done /\ Key(found[q].owner) = Key(q)
    BY <1>0, <1>1, <2>1 DEF VerdictGrounded, Performed, KeysMatch, Done
  <2>2. ASSUME verdict[q] \in Rejections, NEW p \in Done, Key(p) = Key(q)
        PROVE  FALSE
    BY <1>0, <2>2 DEF RejectionGrounded, Owned, Done
  <2> QED BY <1>1, <2>1, <2>2
<1>4. /\ Outcome' = [Outcome EXCEPT ![Key(q)] = verdict[q]]
      /\ UNCHANGED Done
  <2>1. Terminal(found[q], verdict[q]).result = verdict[q]
    BY <1>1, TerminalType
  <2> QED BY <1>0, <1>0a, <2>1 DEF WriteTerminal, Outcome, Done, StoreTypeOK
<1>5. \E heard \in {verdict[q], "ERROR"} : reply' = [reply EXCEPT ![q] = heard]
  BY DEF ReplaceRecord, ReplaceUnanswered, Answer
<1>6. Promise!Decide(q, result)
  BY <1>2, <1>3, <1>4, <1>5 DEF Promise!Decide, Outcome, Done
<1> QED BY <1>1, <1>6 DEF Promise!Definite

\* One request at a time is answered, once.
LEMMA OneIsAnswered ==
  ASSUME RequestTypeOK, RequestTypeOK', [Next]_vars
  PROVE  \/ UNCHANGED reply
         \/ \E q \in Requests, result \in Replies \ {"none"} :
              reply[q] = "none" /\ reply' = [reply EXCEPT ![q] = result]
<1>1. ASSUME NEW q \in Requests, NEW result, pc[q] # "done", Answer(q, result)
      PROVE  /\ result \in Replies \ {"none"} /\ reply[q] = "none"
             /\ reply' = [reply EXCEPT ![q] = result]
  BY <1>1 DEF Answer, RequestTypeOK
<1>2. ASSUME NEW q \in Requests,
             Handle(q) \/ ClaimTimesOut(q) \/ ReplaceUnanswered(q) \/ Abandon(q)
      PROVE  \/ UNCHANGED reply
             \/ pc[q] # "done" /\ \E result : Answer(q, result)
  <2>1. CASE \/ ClaimAcquired(q) \/ ClaimCollides(q) \/ ClaimTimesOut(q)
             \/ CheckResource(q) \/ CheckSchedule(q) \/ Persisted(q)
    BY <2>1
    DEF ClaimAcquired, ClaimCollides, ClaimTimesOut, CheckResource,
        CheckSchedule, Persisted, Conclude, GoTo
  <2>2. CASE Classify(q) \/ Recover(q) \/ VerifyEvents(q)
    BY <2>2 DEF Classify, Recover, VerifyEvents, GoTo
  <2>3. CASE \/ PersistFails(q) \/ ReplaceRecord(q) \/ ReplaceUnanswered(q)
             \/ Abandon(q)
    BY <2>3
    DEF PersistFails, ReplaceRecord, ReplaceUnanswered, WriteTerminal, Abandon
  <2>4. CASE ReadForCompletion(q) \/ ReplaceLoses(q) \/ Reconcile(q)
    BY <2>4 DEF ReadForCompletion, ReplaceLoses, Reconcile, GoTo
  <2> QED BY <1>2, <2>1, <2>2, <2>3, <2>4 DEF Handle
<1> QED
  BY <1>1, <1>2 DEF Next, RequestNext, requestVars, vars

\* Any other step leaves performances and outcomes alone, and answers nobody,
\* or somebody with the outcome or with nothing definite.
LEMMA AnswersFollow ==
  ASSUME Once, Once', [Next]_vars,
         \A q \in Requests :
           ~TxnCommits(q) /\ ~ReplaceRecord(q) /\ ~ReplaceUnanswered(q)
  PROVE  \/ UNCHANGED Promise!vars
         \/ \E q \in Requests : Promise!AnswerDecided(q) \/ Promise!AnswerIndefinite(q)
<1>0. /\ StoreTypeOK /\ RequestTypeOK /\ OwnClaim /\ budget.expiries = 0
      /\ AnswerRecorded' /\ RequestTypeOK'
  BY DEF Once, Grounded, Shape, TypeOK
<1>1. UNCHANGED Done
  <2>1. ASSUME NEW q \in Requests
        PROVE  txn'[q] = "committed" <=> txn[q] = "committed"
    BY <1>0, TxnWrites, CommittedStays
  <2> QED BY <2>1 DEF Done
<1>2. UNCHANGED Outcome
  <2>1. ASSUME NEW k \in Keys
        PROVE  idempotency'[k].result = idempotency[k].result
    <3>1. /\ NoRecord.result = "none"
          /\ \A q \in Requests : Processing(q).result = "none"
      BY DEF NoRecord, Processing
    <3> QED BY <1>0, <3>1, RecordWrites
  <2> QED BY <2>1 DEF Outcome
<1>3. CASE UNCHANGED reply
  BY <1>1, <1>2, <1>3 DEF Promise!vars, Done, Outcome
<1>4. ASSUME NEW q \in Requests, NEW result \in Replies \ {"none"},
             reply[q] = "none", reply' = [reply EXCEPT ![q] = result]
      PROVE  Promise!AnswerDecided(q) \/ Promise!AnswerIndefinite(q)
  <2>1. reply'[q] = result /\ Key(q) \in Keys
    BY <1>0, <1>4 DEF RequestTypeOK, Keys
  <2>2. CASE result \in Successes \cup Rejections
    <3>1. Outcome[Key(q)] = result
      BY <1>0, <1>2, <2>1, <2>2 DEF AnswerRecorded, Outcome
    <3> QED BY <1>1, <1>2, <1>4, <2>2, <3>1
            DEF Promise!AnswerDecided, Promise!Definite, Done, Outcome
  <2>3. CASE result \notin Successes \cup Rejections
    <3>1. result \in Promise!Indefinite
      BY <1>4, <2>3 DEF Replies, Promise!Indefinite
    <3> QED BY <1>1, <1>2, <1>4, <3>1 DEF Promise!AnswerIndefinite, Done, Outcome
  <2> QED BY <2>2, <2>3
<1> QED BY <1>0, <1>3, <1>4, OneIsAnswered

\* Creation keeps the promise of an idempotent command: every step performs,
\* decides or answers as IdempotentCommand allows, or is none of its business.
THEOREM CreationKeepsPromise ==
  ASSUME Expiries = 0 PROVE Spec => ImplementsPromise
<1>1. Init => Promise!Init
  BY DEF Init, StoreInit, RequestInit, Promise!Init, Promise!Keys, Keys, NoRecord
<1>2. Once /\ Once' /\ [Next]_vars => [Promise!Next]_(Promise!vars)
  <2> SUFFICES ASSUME Once, Once', [Next]_vars
               PROVE  [Promise!Next]_(Promise!vars)
    OBVIOUS
  <2>1. ASSUME NEW q \in Requests, TxnCommits(q), UNCHANGED requestVars
        PROVE  Promise!Next
    BY <2>1, CommitPerforms DEF Promise!Next
  <2>2. ASSUME NEW q \in Requests, ReplaceRecord(q) \/ ReplaceUnanswered(q)
        PROVE  Promise!Next
    <3>1. PICK result : result = verdict[q]
      OBVIOUS
    <3> QED BY <2>2, <3>1, ReplaceDecides DEF Promise!Next
  <2>3. ASSUME NEW q \in Requests, TxnCommits(q)
        PROVE  UNCHANGED requestVars
    <3>0. StoreTypeOK
      BY DEF Once, Grounded, Shape, TypeOK
    <3>1. ASSUME NEW p \in Requests,
             Handle(p) \/ ClaimTimesOut(p) \/ ReplaceUnanswered(p) \/ Abandon(p)
          PROVE  txn'[q] \in {txn[q], "open"}
      BY <3>0, <3>1
      DEF Handle, ClaimAcquired, ClaimCollides, ClaimTimesOut, InsertRecord,
          Classify, Recover, VerifyEvents, CheckResource, CheckSchedule,
          Persisted, PersistFails, ReadForCompletion, ReplaceRecord,
          ReplaceUnanswered, WriteTerminal, ReplaceLoses, Reconcile, Abandon,
          storeVars, StoreTypeOK
    <3> QED BY <2>3, <3>0, <3>1
            DEF Next, RequestNext, TxnCommits, vars, requestVars, storeVars,
                StoreTypeOK
  <2>4. CASE \A q \in Requests :
               ~TxnCommits(q) /\ ~ReplaceRecord(q) /\ ~ReplaceUnanswered(q)
    BY <2>4, AnswersFollow DEF Promise!Next
  <2> QED BY <2>1, <2>2, <2>3, <2>4
<1> QED BY <1>1, <1>2, OnceKept, PTL DEF Spec, ImplementsPromise, Promise!Spec

=============================================================================
