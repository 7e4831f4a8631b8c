---------------------------- MODULE OutboxProofs ----------------------------
(* Theorems about Outbox, for any records, publishers and fault budgets.    *)
EXTENDS Outbox, TLAPS

-----------------------------------------------------------------------------
(* Facts about documents and claims.                                       *)

\* A candidate of a batch names a stored document.
LEMMA BatchType ==
  ASSUME TypeOK, NEW p \in Publishers, NEW c \in batch[p]
  PROVE  /\ c.event \in Events /\ c.token \in Nat
         /\ record[c.event] \in Record
BY DEF TypeOK, Candidate

\* So does the claim of a publisher that holds one.
LEMMA HeldType ==
  ASSUME TypeOK, NEW p \in Publishers, phase[p] \in Holding
  PROVE  /\ held[p].event \in Events /\ held[p].token \in Nat
         /\ record[held[p].event] \in Record
BY DEF TypeOK, Candidate

\* What the store writes is a document.
LEMMA WrittenType ==
  ASSUME TypeOK, NEW e \in Events, NEW status \in Statuses
  PROVE  /\ Written(e, status) \in Record
         /\ Claimed(e) \in Record
BY DEF TypeOK, Record, Statuses, Written, Claimed

-----------------------------------------------------------------------------

Shape == TypeOK /\ SendingInPhase

\* Every step of the relay, of the store and of the broker leaves documents,
\* claims and counters of the declared shape, and the producer has a message
\* exactly while its publisher waits for it.
THEOREM ShapeKept == Spec => []Shape
<1>1. Init => Shape
  BY BudgetAssumption
  DEF Init, Shape, TypeOK, SendingInPhase, NoRecord, NoClaim, Record, Statuses,
      Phases, Holding, Budget
<1>2. Shape /\ [Next]_vars => Shape'
  <2> SUFFICES ASSUME TypeOK, SendingInPhase, [Next]_vars PROVE Shape'
    BY DEF Shape
  <2> USE DEF Shape, SendingInPhase, relayVars, brokerVars, Phases, Holding
  <2>1. ASSUME NEW e \in Events, Commit(Reservation[e]) PROVE Shape'
    <3>1. \A f \in Events : Written(f, "PENDING") \in Record
      BY WrittenType DEF Statuses
    <3> QED BY <2>1, <3>1 DEF Commit, TypeOK
  <2>2. ASSUME NEW p \in Publishers, FindPending(p) PROVE Shape'
    <3>1. ASSUME NEW e \in OldestPending
          PROVE  [event |-> e, token |-> record[e].cas] \in Candidate
      BY DEF OldestPending, Pending, TypeOK, Candidate, Record
    <3> QED BY <2>2, <3>1 DEF FindPending, TypeOK
  <2>3. ASSUME NEW p \in Publishers, ClaimAcquired(p) PROVE Shape'
    <3>1. PICK c \in batch[p] : ClaimAcquired(p)!(c)
      BY <2>3 DEF ClaimAcquired
    <3>2. Claimed(c.event) \in Record
      BY BatchType, WrittenType DEF Statuses
    <3>3. [event |-> c.event, token |-> c.token + 1] \in Candidate
      BY BatchType DEF Candidate
    <3> QED BY <3>1, <3>2, <3>3, BatchType DEF TypeOK, IsNext
  <2>4. ASSUME NEW p \in Publishers, ClaimLost(p) PROVE Shape'
    BY <2>4 DEF ClaimLost, IsNext, Proceed, TypeOK
  <2>5. ASSUME NEW p \in Publishers, ClaimFails(p) PROVE Shape'
    <3>1. PICK c \in batch[p] : ClaimFails(p)!(c)
      BY <2>5 DEF ClaimFails
    <3>2. c.event \in Events /\ Claimed(c.event) \in Record
      BY BatchType, WrittenType DEF Statuses
    <3>3. record' \in [Events -> Record]
      BY <3>1, <3>2 DEF TypeOK
    <3> QED BY <3>1, <3>3 DEF TypeOK, IsNext, Proceed, StoreFault, Budget
  <2>6. ASSUME NEW p \in Publishers, Enqueue(p) PROVE Shape'
    BY <2>6 DEF Enqueue, TypeOK
  <2>7. ASSUME NEW p \in Publishers, EnqueueFails(p) PROVE Shape'
    BY <2>7 DEF EnqueueFails, KafkaFault, TypeOK, Budget
  <2>8. ASSUME NEW p \in Publishers, Acknowledged(p) PROVE Shape'
    BY <2>8, HeldType DEF Acknowledged, TypeOK
  <2>9. ASSUME NEW p \in Publishers, DeliveryFails(p) PROVE Shape'
    BY <2>9, HeldType DEF DeliveryFails, KafkaFault, GivenUp, LeftOnTheWire,
                            TypeOK, Budget
  <2>10. ASSUME NEW p \in Publishers, NEW s \in {"PENDING", "PUBLISHED"},
                phase[p] \in {"releasing", "marking"},
                Finish(p, s) \/ FinishFails(p, s)
         PROVE  Shape'
    <3>1. held[p].event \in Events /\ Written(held[p].event, s) \in Record
      BY <2>10, HeldType, WrittenType DEF Statuses
    <3>2. record' \in [Events -> Record]
      BY <2>10, <3>1 DEF Finish, FinishFails, TypeOK
    <3> QED BY <2>10, <3>2
            DEF Finish, FinishFails, Proceed, StoreFault, TypeOK, Budget
  <2>11. ASSUME NEW p \in Publishers, Crash(p) PROVE Shape'
    BY <2>11, HeldType DEF Crash, GivenUp, LeftOnTheWire, Proceed, TypeOK, Budget
  <2>0. ASSUME NEW p \in Publishers, ProducerResends(p) PROVE Shape'
    BY <2>0, HeldType DEF ProducerResends, LeftOnTheWire, TypeOK, Budget
  <2>12. ASSUME NEW p \in Publishers, BrokerStores(p) PROVE Shape'
    BY <2>12, HeldType DEF BrokerStores, TypeOK
  <2>13. ASSUME NEW e \in Events, BrokerStoresLate(e)
         PROVE  Shape'
    BY <2>13 DEF BrokerStoresLate, TypeOK
  <2>14. CASE UNCHANGED vars
    BY <2>14 DEF vars, TypeOK
  <2> QED
    BY <2>0, <2>1, <2>2, <2>3, <2>4, <2>5, <2>6, <2>7, <2>8, <2>9, <2>10, <2>11,
       <2>12, <2>13, <2>14
    DEF Next, Cycle, Fault, ReleaseForRetry, ReleaseFails, MarkPublished, MarkFails
<1> QED
  BY <1>1, <1>2, PTL DEF Spec

\* Type correctness of the relay, the records and the producers.
THEOREM TypeCorrect == Spec => []TypeOK
<1>1. Shape => TypeOK
  BY DEF Shape
<1> QED BY <1>1, ShapeKept, PTL

-----------------------------------------------------------------------------

Claims == ClaimsCurrent /\ ExclusiveClaim

\* Whoever holds a claim is the last writer of its PUBLISHING record, so nobody
\* else can be granted it: claim() wants the CAS of a PENDING one.
THEOREM ClaimsKept == Spec => []Claims
<1>1. Init => Claims
  BY DEF Init, Claims, ClaimsCurrent, ExclusiveClaim, Holders, Holding
<1>2. Shape /\ Claims /\ [Next]_vars => Claims'
  <2> SUFFICES ASSUME Shape, Claims, [Next]_vars PROVE Claims'
    OBVIOUS
  <2> TypeOK /\ SendingInPhase
    BY DEF Shape
  <2> USE DEF Claims, ClaimsCurrent, ExclusiveClaim, Holders, Current,
              relayVars, brokerVars, Holding
  <2>1. ASSUME NEW e \in Events, Commit(Reservation[e]) PROVE Claims'
    BY <2>1, HeldType DEF Commit
  <2>2. ASSUME NEW p \in Publishers, FindPending(p) PROVE Claims'
    BY <2>2 DEF FindPending, TypeOK
  <2>3. ASSUME NEW p \in Publishers, ClaimAcquired(p) PROVE Claims'
    <3>1. PICK c \in batch[p] : ClaimAcquired(p)!(c)
      BY <2>3 DEF ClaimAcquired
    <3>2. \A q \in Publishers :
            phase[q] \in Holding => q # p /\ held[q].event # c.event
      BY <3>1 DEF Claimable, IsNext
    <3>3. /\ held'[p] = [event |-> c.event, token |-> c.token + 1]
          /\ record'[c.event] = Claimed(c.event)
          /\ record[c.event].cas = c.token
      BY <3>1, BatchType DEF TypeOK, Claimable
    <3>4. Current(held[p])'
      BY <3>3 DEF Claimed
    <3>5. \A q \in Publishers : q # p =>
            held'[q] = held[q] /\ phase'[q] = phase[q]
      BY <3>1 DEF TypeOK
    <3>6. \A e \in Events : e # c.event => record'[e] = record[e]
      BY <3>1 DEF TypeOK
    <3> QED BY <3>2, <3>3, <3>4, <3>5, <3>6, HeldType
  <2>4. ASSUME NEW p \in Publishers, ClaimLost(p) PROVE Claims'
    BY <2>4 DEF ClaimLost, IsNext, Proceed, TypeOK
  <2>5. ASSUME NEW p \in Publishers, ClaimFails(p) PROVE Claims'
    <3>1. PICK c \in batch[p] : ClaimFails(p)!(c)
      BY <2>5 DEF ClaimFails
    <3>2. \A q \in Publishers :
            phase[q] \in Holding => record'[held[q].event] = record[held[q].event]
      BY <3>1, HeldType DEF Claimable, TypeOK
    <3> QED BY <3>1, <3>2 DEF Proceed, TypeOK, IsNext
  <2>6. ASSUME NEW p \in Publishers, Enqueue(p) PROVE Claims'
    BY <2>6 DEF Enqueue, TypeOK
  <2>7. ASSUME NEW p \in Publishers, EnqueueFails(p) PROVE Claims'
    BY <2>7 DEF EnqueueFails, TypeOK
  <2>8. ASSUME NEW p \in Publishers, Acknowledged(p) PROVE Claims'
    BY <2>8 DEF Acknowledged, TypeOK
  <2>9. ASSUME NEW p \in Publishers, DeliveryFails(p) PROVE Claims'
    BY <2>9 DEF DeliveryFails, TypeOK
  <2>10. ASSUME NEW p \in Publishers, NEW s \in {"PENDING", "PUBLISHED"},
                phase[p] \in {"releasing", "marking"},
                Finish(p, s) \/ FinishFails(p, s)
         PROVE  Claims'
    <3>1. \A q \in Publishers :
            q # p /\ phase[q] \in Holding =>
              record'[held[q].event] = record[held[q].event]
      BY <2>10, HeldType DEF Finish, FinishFails, TypeOK
    <3>2. /\ phase'[p] \notin Holding
          /\ \A q \in Publishers : q # p =>
               held'[q] = held[q] /\ phase'[q] = phase[q]
      BY <2>10 DEF Finish, FinishFails, Proceed, TypeOK
    <3> QED BY <3>1, <3>2
  <2>11. ASSUME NEW p \in Publishers, Crash(p) PROVE Claims'
    BY <2>11 DEF Crash, Proceed, TypeOK
  <2>0. ASSUME NEW p \in Publishers, ProducerResends(p) PROVE Claims'
    BY <2>0 DEF ProducerResends
  <2>12. ASSUME NEW p \in Publishers, BrokerStores(p) PROVE Claims'
    BY <2>12 DEF BrokerStores
  <2>13. ASSUME NEW e \in Events, BrokerStoresLate(e)
         PROVE  Claims'
    BY <2>13 DEF BrokerStoresLate
  <2>14. CASE UNCHANGED vars
    BY <2>14 DEF vars
  <2> QED
    BY <2>0, <2>1, <2>2, <2>3, <2>4, <2>5, <2>6, <2>7, <2>8, <2>9, <2>10, <2>11,
       <2>12, <2>13, <2>14
    DEF Next, Cycle, Fault, ReleaseForRetry, ReleaseFails, MarkPublished, MarkFails
<1> QED
  BY <1>1, <1>2, ShapeKept, PTL DEF Spec

\* A record is never worked on by two publishers, of one process or of several.
THEOREM ClaimIsExclusive == Spec => []ExclusiveClaim
<1>1. Claims => ExclusiveClaim
  BY DEF Claims
<1> QED BY <1>1, ClaimsKept, PTL

-----------------------------------------------------------------------------

Known == DeliveryKnown /\ PublishedWasDelivered

\* A publisher that has been acknowledged, or is about to be, knows the topic to
\* have its event.
THEOREM KnownKept == Spec => []Known
<1>1. Init => Known
  BY DEF Init, Known, DeliveryKnown, PublishedWasDelivered, NoRecord
<1>2. Shape /\ Claims /\ Known /\ [Next]_vars => Known'
  <2> SUFFICES ASSUME Shape, Claims, Known, [Next]_vars PROVE Known'
    OBVIOUS
  <2> TypeOK /\ SendingInPhase
    BY DEF Shape
  <2> USE DEF Known, DeliveryKnown, PublishedWasDelivered, SendingInPhase,
              relayVars, brokerVars, Holding
  <2>1. ASSUME NEW e \in Events, Commit(Reservation[e])
        PROVE  Known'
    BY <2>1 DEF Commit, Written, TypeOK
  <2>2. ASSUME NEW p \in Publishers, FindPending(p)
        PROVE  Known'
    BY <2>2 DEF FindPending, TypeOK
  <2>3. ASSUME NEW p \in Publishers, ClaimAcquired(p)
        PROVE  Known'
    <3>1. PICK c \in batch[p] : ClaimAcquired(p)!(c)
      BY <2>3 DEF ClaimAcquired
    <3> QED BY <3>1, BatchType DEF IsNext, Claimed, TypeOK
  <2>4. ASSUME NEW p \in Publishers, ClaimLost(p)
        PROVE  Known'
    BY <2>4 DEF ClaimLost, IsNext, Proceed, TypeOK
  <2>5. ASSUME NEW p \in Publishers, ClaimFails(p)
        PROVE  Known'
    <3>1. PICK c \in batch[p] : ClaimFails(p)!(c)
      BY <2>5 DEF ClaimFails
    <3> QED BY <3>1, BatchType DEF IsNext, Claimed, Proceed, TypeOK
  <2>6. ASSUME NEW p \in Publishers, Enqueue(p)
        PROVE  Known'
    BY <2>6 DEF Enqueue, TypeOK
  <2>7. ASSUME NEW p \in Publishers, EnqueueFails(p)
        PROVE  Known'
    BY <2>7 DEF EnqueueFails, TypeOK
  <2>8. ASSUME NEW p \in Publishers, Acknowledged(p)
        PROVE  Known'
    BY <2>8 DEF Acknowledged, TypeOK
  <2>9. ASSUME NEW p \in Publishers, DeliveryFails(p)
        PROVE  Known'
    BY <2>9 DEF DeliveryFails, GivenUp, TypeOK
  <2>10. ASSUME NEW p \in Publishers, ReleaseForRetry(p) \/ ReleaseFails(p)
         PROVE  Known'
    BY <2>10, HeldType DEF ReleaseForRetry, ReleaseFails, Finish, FinishFails, Proceed,
           Written, TypeOK
  <2>11. ASSUME NEW p \in Publishers, MarkPublished(p) \/ MarkFails(p)
         PROVE  Known'
    BY <2>11, HeldType DEF MarkPublished, MarkFails, Finish, FinishFails, Proceed,
           Written, TypeOK
  <2>12. ASSUME NEW p \in Publishers, Crash(p)
         PROVE  Known'
    BY <2>12 DEF Crash, GivenUp, Proceed, TypeOK
  <2>0. ASSUME NEW p \in Publishers, ProducerResends(p)
        PROVE  Known'
    <3>1. phase[p] = "awaiting" /\ sending'[p] = "queued"
      BY <2>0 DEF ProducerResends, TypeOK
    <3>2. \A q \in Publishers \ {p} : sending'[q] = sending[q]
      BY <2>0 DEF ProducerResends, TypeOK
    <3>3. UNCHANGED <<record, relayVars, delivered>>
      BY <2>0 DEF ProducerResends
    <3> QED BY <3>1, <3>2, <3>3
  <2>13. ASSUME NEW p \in Publishers, BrokerStores(p)
         PROVE  Known'
    BY <2>13, HeldType DEF BrokerStores, TypeOK
  <2>14. ASSUME NEW e \in Events, BrokerStoresLate(e)
         PROVE  Known'
    <3>1. \A f \in Events : delivered[f] > 0 => delivered'[f] > 0
      BY <2>14 DEF BrokerStoresLate, TypeOK
    <3>2. UNCHANGED <<record, relayVars, sending>>
      BY <2>14 DEF BrokerStoresLate
    <3>3. \A p \in Publishers :
            phase[p] = "marking" \/ sending[p] = "stored" =>
              held[p].event \in Events
      BY HeldType
    <3> QED BY <3>1, <3>2, <3>3
  <2>15. CASE UNCHANGED vars
    BY <2>15 DEF vars
  <2> QED
    BY <2>0, <2>1, <2>2, <2>3, <2>4, <2>5, <2>6, <2>7, <2>8, <2>9, <2>10, <2>11,
       <2>12, <2>13, <2>14, <2>15
    DEF Next, Cycle, Fault
<1> QED
  BY <1>1, <1>2, ShapeKept, ClaimsKept, PTL DEF Spec

\* No event is written off unsent: a record becomes PUBLISHED only at the hand
\* of a publisher whose message the broker has stored and acknowledged.
THEOREM PublishedIsDelivered == Spec => []PublishedWasDelivered
<1>1. Known => PublishedWasDelivered
  BY DEF Known
<1> QED BY <1>1, KnownKept, PTL

-----------------------------------------------------------------------------
(* What the relay owes the topic: no claim is dropped without a fault,      *)
(* every copy is counted, nothing is sent after its acknowledgement, and    *)
(* the promise of EventDelivery is kept.                                    *)

Stranding == BudgetsSpent /\ StrandedOnlyByFault

\* A record stays PUBLISHING with nobody at work on it only after a crash or a
\* failed Couchbase call.
THEOREM StrandingKept == Spec => []Stranding
<1>1. Init => Stranding
  BY BudgetAssumption DEF Init, Stranding, BudgetsSpent, StrandedOnlyByFault, NoRecord
<1>2. Shape /\ Claims /\ Stranding /\ [Next]_vars => Stranding'
  <2> SUFFICES ASSUME Shape, Claims, Stranding, [Next]_vars PROVE Stranding'
    OBVIOUS
  <2> TypeOK /\ ClaimsCurrent
    BY DEF Shape, Claims
  <2> USE DEF Stranding, BudgetsSpent, StrandedOnlyByFault, Holders, Holding,
              relayVars, brokerVars
  <2>1. ASSUME NEW e \in Events, Commit(Reservation[e]) PROVE Stranding'
    BY <2>1 DEF Commit, Written, TypeOK
  <2>2. ASSUME NEW p \in Publishers, FindPending(p) PROVE Stranding'
    BY <2>2 DEF FindPending, TypeOK
  <2>3. ASSUME NEW p \in Publishers, ClaimAcquired(p) PROVE Stranding'
    <3>1. PICK c \in batch[p] : ClaimAcquired(p)!(c)
      BY <2>3 DEF ClaimAcquired
    <3>2. p \in Holders(c.event)'
      BY <3>1 DEF TypeOK
    <3>3. \A e \in Events \ {c.event} :
            record'[e] = record[e] /\ Holders(e) \subseteq Holders(e)'
      BY <3>1 DEF TypeOK, IsNext
    <3> QED BY <3>1, <3>2, <3>3
  <2>4. ASSUME NEW p \in Publishers, ClaimLost(p) PROVE Stranding'
    BY <2>4 DEF ClaimLost, IsNext, Proceed, TypeOK
  <2>5. ASSUME NEW p \in Publishers, StoreFault PROVE Stranding'
    BY <2>5, BudgetAssumption DEF StoreFault, TypeOK, Budget
  <2>6. ASSUME NEW p \in Publishers, Enqueue(p) PROVE Stranding'
    BY <2>6 DEF Enqueue, TypeOK
  <2>7. ASSUME NEW p \in Publishers, EnqueueFails(p) PROVE Stranding'
    BY <2>7 DEF EnqueueFails, KafkaFault, TypeOK, Budget
  <2>8. ASSUME NEW p \in Publishers, Acknowledged(p) PROVE Stranding'
    BY <2>8 DEF Acknowledged, TypeOK
  <2>9. ASSUME NEW p \in Publishers, DeliveryFails(p) PROVE Stranding'
    BY <2>9 DEF DeliveryFails, KafkaFault, TypeOK, Budget
  <2>10. ASSUME NEW p \in Publishers, NEW s \in {"PENDING", "PUBLISHED"},
                phase[p] \in {"releasing", "marking"}, Finish(p, s)
         PROVE  Stranding'
    <3>1. Current(held[p])
      BY <2>10 DEF ClaimsCurrent
    <3>2. record'[held[p].event].status # "PUBLISHING"
      BY <2>10, <3>1, HeldType DEF Finish, Written, TypeOK
    <3>3. \A e \in Events \ {held[p].event} :
            record'[e] = record[e] /\ Holders(e) \subseteq Holders(e)'
      BY <2>10 DEF Finish, Proceed, TypeOK
    <3> QED BY <2>10, <3>2, <3>3 DEF Finish
  <2>11. ASSUME NEW p \in Publishers, Crash(p) PROVE Stranding'
    BY <2>11, BudgetAssumption DEF Crash, TypeOK, Budget
  <2>0. ASSUME NEW p \in Publishers, ProducerResends(p) PROVE Stranding'
    BY <2>0 DEF ProducerResends, TypeOK, Budget
  <2>12. ASSUME NEW p \in Publishers, BrokerStores(p) PROVE Stranding'
    BY <2>12 DEF BrokerStores
  <2>13. ASSUME NEW e \in Events, BrokerStoresLate(e)
         PROVE  Stranding'
    BY <2>13 DEF BrokerStoresLate
  <2>14. CASE UNCHANGED vars
    BY <2>14 DEF vars
  <2> QED
    BY <2>0, <2>1, <2>2, <2>3, <2>4, <2>5, <2>6, <2>7, <2>8, <2>9, <2>10, <2>11,
       <2>12, <2>13, <2>14
    DEF Next, Cycle, Fault, ClaimFails, ReleaseForRetry, ReleaseFails,
        MarkPublished, MarkFails, FinishFails
<1> QED BY <1>1, <1>2, ShapeKept, ClaimsKept, PTL DEF Spec

\* The cycle itself never drops a claim: every stranded record has a fault to
\* thank for it.
THEOREM StrandedByFaultOnly == Spec => []StrandedOnlyByFault
<1>1. Stranding => StrandedOnlyByFault
  BY DEF Stranding
<1> QED BY <1>1, StrandingKept, PTL

-----------------------------------------------------------------------------

\* Once acknowledged, an event is in the hands of the publisher that marks it,
\* or nobody's, and never PENDING again.
THEOREM AckedKept == Spec => []AckedIsFinal
<1>1. Init => AckedIsFinal
  BY DEF Init, AckedIsFinal
<1>2. Shape /\ Claims /\ AckedIsFinal /\ [Next]_vars => AckedIsFinal'
  <2> SUFFICES ASSUME Shape, Claims, AckedIsFinal, [Next]_vars PROVE AckedIsFinal'
    OBVIOUS
  <2> TypeOK /\ ClaimsCurrent /\ ExclusiveClaim
    BY DEF Shape, Claims
  <2> USE DEF AckedIsFinal, Holders, Holding, relayVars, brokerVars
  <2>1. ASSUME NEW e \in Events, Commit(Reservation[e]) PROVE AckedIsFinal'
    BY <2>1 DEF Commit, Written, TypeOK
  <2>2. ASSUME NEW p \in Publishers, FindPending(p) PROVE AckedIsFinal'
    BY <2>2 DEF FindPending, TypeOK
  <2>3. ASSUME NEW p \in Publishers, ClaimAcquired(p) PROVE AckedIsFinal'
    <3>1. PICK c \in batch[p] : ClaimAcquired(p)!(c)
      BY <2>3 DEF ClaimAcquired
    <3>2. c.event \notin acked
      BY <3>1 DEF Claimable
    <3> QED BY <3>1, <3>2, BatchType DEF IsNext, TypeOK
  <2>4. ASSUME NEW p \in Publishers, ClaimLost(p) PROVE AckedIsFinal'
    BY <2>4 DEF ClaimLost, IsNext, Proceed, TypeOK
  <2>5. ASSUME NEW p \in Publishers, ClaimFails(p) PROVE AckedIsFinal'
    <3>1. PICK c \in batch[p] : ClaimFails(p)!(c)
      BY <2>5 DEF ClaimFails
    <3>2. \A e \in acked : record'[e] = record[e]
      BY <3>1, BatchType DEF Claimable, TypeOK
    <3> QED BY <3>1, <3>2 DEF Proceed, TypeOK, IsNext
  <2>6. ASSUME NEW p \in Publishers, Enqueue(p) PROVE AckedIsFinal'
    BY <2>6 DEF Enqueue, TypeOK
  <2>7. ASSUME NEW p \in Publishers, EnqueueFails(p) PROVE AckedIsFinal'
    BY <2>7 DEF EnqueueFails, TypeOK
  <2>8. ASSUME NEW p \in Publishers, Acknowledged(p) PROVE AckedIsFinal'
    <3>1. record[held[p].event].status = "PUBLISHING"
      BY <2>8 DEF Acknowledged, ClaimsCurrent, Current
    <3>2. \A q \in Holders(held[p].event) : q = p
      BY <2>8, HeldType DEF Acknowledged, ExclusiveClaim
    <3> QED BY <2>8, <3>1, <3>2 DEF Acknowledged, TypeOK
  <2>9. ASSUME NEW p \in Publishers, DeliveryFails(p) PROVE AckedIsFinal'
    BY <2>9 DEF DeliveryFails, TypeOK
  <2>10. ASSUME NEW p \in Publishers, ReleaseForRetry(p) \/ ReleaseFails(p)
         PROVE  AckedIsFinal'
    <3>1. held[p].event \notin acked
      BY <2>10, HeldType DEF ReleaseForRetry, ReleaseFails
    <3> QED BY <2>10, <3>1, HeldType
        DEF ReleaseForRetry, ReleaseFails, Finish, FinishFails, Proceed, TypeOK
  <2>11. ASSUME NEW p \in Publishers, MarkPublished(p) \/ MarkFails(p)
         PROVE  AckedIsFinal'
    BY <2>11, HeldType
    DEF MarkPublished, MarkFails, Finish, FinishFails, Proceed, Written, TypeOK
  <2>12. ASSUME NEW p \in Publishers, Crash(p) PROVE AckedIsFinal'
    BY <2>12 DEF Crash, Proceed, TypeOK
  <2>0. ASSUME NEW p \in Publishers, ProducerResends(p) PROVE AckedIsFinal'
    BY <2>0 DEF ProducerResends
  <2>13. ASSUME NEW p \in Publishers, BrokerStores(p) PROVE AckedIsFinal'
    BY <2>13 DEF BrokerStores
  <2>14. ASSUME NEW e \in Events, BrokerStoresLate(e)
         PROVE  AckedIsFinal'
    BY <2>14 DEF BrokerStoresLate
  <2>15. CASE UNCHANGED vars
    BY <2>15 DEF vars
  <2> QED
    BY <2>0, <2>1, <2>2, <2>3, <2>4, <2>5, <2>6, <2>7, <2>8, <2>9, <2>10, <2>11,
       <2>12, <2>13, <2>14, <2>15
    DEF Next, Cycle, Fault
<1> QED BY <1>1, <1>2, ShapeKept, ClaimsKept, PTL DEF Spec

\* The relay never sends again what the broker has acknowledged, whatever
\* becomes of mark_published(): a second publication is always of an event whose
\* first one ended badly or in doubt.
THEOREM AckIsTheEnd == Spec => NoResendAfterAck
<1> DEFINE Resent == \A p \in Publishers :
             sending[p] = "none" /\ sending'[p] = "queued" =>
               held[p].event \notin acked
<1>1. Shape /\ AckedIsFinal /\ [Next]_vars => [Resent]_vars
  <2> SUFFICES ASSUME Shape, AckedIsFinal, [Next]_vars,
                      NEW q \in Publishers,
                      sending[q] = "none", sending'[q] = "queued"
               PROVE  held[q].event \notin acked
    OBVIOUS
  <2> TypeOK
    BY DEF Shape
  <2>1. ASSUME NEW p \in Publishers, Enqueue(p)
        PROVE  held[q].event \notin acked
    <3>1. q = p
      BY <2>1 DEF Enqueue, TypeOK
    <3> QED BY <2>1, <3>1, HeldType DEF Enqueue, AckedIsFinal, Holders, Holding
  <2>2. ASSUME NEW p \in Publishers,
               \/ Cycle(p) /\ ~Enqueue(p)
               \/ Fault(p) \/ ProducerResends(p) \/ BrokerStores(p)
        PROVE  FALSE
    BY <2>2
    DEF Cycle, Fault, FindPending, ClaimAcquired, ClaimLost, ClaimFails, EnqueueFails,
        Acknowledged, DeliveryFails, GivenUp, ReleaseForRetry, ReleaseFails,
        MarkPublished, MarkFails, Finish, FinishFails, Crash, ProducerResends,
        BrokerStores, brokerVars, TypeOK
  <2>3. ASSUME NEW e \in Events,
               Commit(Reservation[e]) \/ BrokerStoresLate(e)
        PROVE  FALSE
    BY <2>3 DEF Commit, BrokerStoresLate, brokerVars
  <2>4. CASE UNCHANGED vars
    BY <2>4 DEF vars, brokerVars
  <2> QED BY <2>1, <2>2, <2>3, <2>4 DEF Next
<1> QED BY <1>1, ShapeKept, AckedKept, PTL DEF Spec, NoResendAfterAck

-----------------------------------------------------------------------------

\* attempt_count and the producers' own retries cover the copies of an event,
\* with the one a claim may still bring about.
THEOREM CopiesKept == Spec => []CopiesBounded
<1>1. Init => CopiesBounded
  BY DEF Init, CopiesBounded, CopyToCome, Holders, Holding, NoRecord
<1>2. Shape /\ Claims /\ CopiesBounded /\ [Next]_vars => CopiesBounded'
  <2> SUFFICES ASSUME Shape, Claims, CopiesBounded, [Next]_vars PROVE CopiesBounded'
    OBVIOUS
  <2> TypeOK /\ SendingInPhase /\ ClaimsCurrent /\ ExclusiveClaim
    BY DEF Shape, Claims
  <2> DEFINE Sent(e) == delivered[e] + late[e]
             Tries(e) == record[e].attempts + resent[e]
  <2>1. \A e \in Events : /\ Sent(e) \in Nat /\ Tries(e) \in Nat
                          /\ record[e].attempts \in Nat /\ resent[e] \in Nat
    BY DEF TypeOK, Record
  <2>1a. \A e \in Events :
           Sent(e) + (IF CopyToCome(e) THEN 1 ELSE 0) <= Tries(e)
    BY DEF CopiesBounded
  \* Nothing but the claim of e changes what may come of e, or its attempts.
  <2>2. ASSUME UNCHANGED <<late, delivered, resent>>,
               \A e \in Events : record'[e].attempts = record[e].attempts,
               \A e \in Events : record'[e].status = "ABSENT" => record[e].status = "ABSENT",
               \A e \in Events : CopyToCome(e)' => CopyToCome(e)
        PROVE  CopiesBounded'
    BY <2>1, <2>2 DEF CopiesBounded
  <2> USE DEF Holders, Holding, relayVars, brokerVars
  <2>3. ASSUME NEW e \in Events, Commit(Reservation[e]) PROVE CopiesBounded'
    BY <2>2, <2>3 DEF Commit, Written, CopyToCome, TypeOK
  <2>4. ASSUME NEW p \in Publishers, FindPending(p) PROVE CopiesBounded'
    BY <2>2, <2>4 DEF FindPending, CopyToCome, TypeOK
  <2>5. ASSUME NEW p \in Publishers, ClaimAcquired(p) PROVE CopiesBounded'
    <3>1. PICK c \in batch[p] : ClaimAcquired(p)!(c)
      BY <2>5 DEF ClaimAcquired
    <3>2. ~CopyToCome(c.event)
      BY <3>1 DEF CopyToCome, Claimable, ClaimsCurrent, Current
    <3>3. /\ record'[c.event].attempts = record[c.event].attempts + 1
          /\ record'[c.event].status = "PUBLISHING"
      BY <3>1, BatchType DEF Claimed, TypeOK
    <3>4. \A e \in Events \ {c.event} :
            record'[e] = record[e] /\ (CopyToCome(e)' => CopyToCome(e))
      BY <3>1 DEF CopyToCome, IsNext, TypeOK
    <3>5. UNCHANGED <<late, delivered, resent>>
      BY <3>1
    <3> QED BY <2>1, <3>2, <3>3, <3>4, <3>5 DEF CopiesBounded
  <2>6. ASSUME NEW p \in Publishers, ClaimLost(p) PROVE CopiesBounded'
    BY <2>2, <2>6 DEF ClaimLost, IsNext, Proceed, CopyToCome, TypeOK
  <2>7. ASSUME NEW p \in Publishers, ClaimFails(p) PROVE CopiesBounded'
    <3>1. PICK c \in batch[p] : ClaimFails(p)!(c)
      BY <2>7 DEF ClaimFails
    <3>2. \A e \in Events :
            /\ record'[e].attempts \in {record[e].attempts, record[e].attempts + 1}
            /\ record'[e].status = "ABSENT" => record'[e] = record[e]
      BY <3>1, BatchType DEF Claimed, TypeOK
    <3>3. \A e \in Events : CopyToCome(e)' => CopyToCome(e)
      BY <3>1 DEF CopyToCome, IsNext, Proceed, TypeOK
    <3>4. UNCHANGED <<late, delivered, resent>>
      BY <3>1
    <3> QED BY <2>1, <3>2, <3>3, <3>4 DEF CopiesBounded
  <2>8. ASSUME NEW p \in Publishers, Enqueue(p) PROVE CopiesBounded'
    BY <2>2, <2>8 DEF Enqueue, CopyToCome, TypeOK
  <2>9. ASSUME NEW p \in Publishers, EnqueueFails(p) PROVE CopiesBounded'
    BY <2>2, <2>9 DEF EnqueueFails, CopyToCome, TypeOK
  <2>10. ASSUME NEW p \in Publishers, Acknowledged(p) PROVE CopiesBounded'
    BY <2>2, <2>10 DEF Acknowledged, CopyToCome, TypeOK
  \* Giving up moves the copy to come to the late ones.
  <2>11. ASSUME NEW p \in Publishers, GivenUp(p), UNCHANGED <<record, delivered, resent>>,
                phase'[p] \notin {"publishing", "awaiting"},
                \A q \in Publishers \ {p} :
                  phase'[q] = phase[q] /\ held'[q] = held[q],
                phase[p] = "awaiting" => held[p].event \in Events,
                phase'[p] \in Holding => held'[p] = held[p]
         PROVE  CopiesBounded'
    <3>1. sending'[p] = "none" /\ \A q \in Publishers \ {p} : sending'[q] = sending[q]
      BY <2>11 DEF GivenUp, TypeOK
    <3>2. \A e \in Events : CopyToCome(e)' => CopyToCome(e)
      BY <2>11, <3>1 DEF CopyToCome
    <3>3. CASE sending[p] # "queued"
      BY <2>2, <2>11, <3>2, <3>3 DEF GivenUp, LeftOnTheWire
    <3>4. CASE sending[p] = "queued"
      <4>1. phase[p] = "awaiting"
        BY <3>4 DEF SendingInPhase
      <4>2. PICK e \in Events : e = held[p].event
        BY <2>11, <4>1
      <4>3. CopyToCome(e) /\ ~CopyToCome(e)'
        BY <2>11, <3>1, <3>4, <4>1, <4>2 DEF CopyToCome, ExclusiveClaim
      <4>4. late'[e] = late[e] + 1 /\ \A f \in Events \ {e} : late'[f] = late[f]
        BY <2>11, <3>4, <4>2 DEF GivenUp, LeftOnTheWire, TypeOK
      <4>5. Sent(e) + 1 <= Tries(e)
        BY <2>1, <4>3 DEF CopiesBounded
      <4>6. Sent(e)' = Sent(e) + 1
        BY <2>11, <4>4 DEF TypeOK
      <4>7. \A f \in Events \ {e} : Sent(f)' = Sent(f)
        BY <2>11, <4>4
      <4> HIDE DEF Sent
      <4>8. \A f \in Events \ {e} :
              Sent(f)' + (IF CopyToCome(f)' THEN 1 ELSE 0) <= Tries(f)
        BY <2>1, <2>1a, <3>2, <4>7
      <4>9. Sent(e)' + (IF CopyToCome(e)' THEN 1 ELSE 0) <= Tries(e)
        BY <2>1, <4>3, <4>5, <4>6
      <4> USE DEF Sent
      <4> QED BY <2>11, <4>8, <4>9 DEF CopiesBounded
    <3> QED BY <3>3, <3>4
  <2>12. ASSUME NEW p \in Publishers, DeliveryFails(p) PROVE CopiesBounded'
    BY <2>11, <2>12, HeldType DEF DeliveryFails, TypeOK
  <2>13. ASSUME NEW p \in Publishers, NEW s \in {"PENDING", "PUBLISHED"},
                phase[p] \in {"releasing", "marking"},
                Finish(p, s) \/ FinishFails(p, s)
         PROVE  CopiesBounded'
    BY <2>2, <2>13, HeldType
    DEF Finish, FinishFails, Proceed, Written, CopyToCome, TypeOK
  <2>14. ASSUME NEW p \in Publishers, Crash(p) PROVE CopiesBounded'
    BY <2>11, <2>14, HeldType DEF Crash, Proceed, TypeOK
  \* What a producer sends again is one more copy to come, and is counted.
  <2>0. ASSUME NEW p \in Publishers, ProducerResends(p) PROVE CopiesBounded'
    <3>1. phase[p] = "awaiting"
      BY <2>0 DEF ProducerResends, SendingInPhase
    <3>2. PICK e \in Events : e = held[p].event
      BY <3>1, HeldType
    <3>3. /\ \A f \in Events \ {e} :
               /\ late'[f] = late[f] /\ resent'[f] = resent[f]
               /\ CopyToCome(f)' => CopyToCome(f)
          /\ UNCHANGED <<record, delivered>>
      BY <2>0, <3>2 DEF ProducerResends, LeftOnTheWire, CopyToCome, TypeOK
    <3>4. resent'[e] = resent[e] + 1
      BY <2>0, <3>2 DEF ProducerResends, TypeOK
    <3>5. record[e].status # "ABSENT"
      BY <3>1, <3>2 DEF ClaimsCurrent, Current
    <3>6. Tries(e)' = Tries(e) + 1
      BY <2>1, <3>3, <3>4
    <3>7. Sent(e)' + (IF CopyToCome(e)' THEN 1 ELSE 0) <= Tries(e)'
      <4>1. CASE sending[p] = "queued"
        <5>1. CopyToCome(e)
          BY <3>1, <3>2, <4>1 DEF CopyToCome
        <5>2. late'[e] = late[e] + 1
          BY <2>0, <3>2, <4>1 DEF ProducerResends, LeftOnTheWire, TypeOK
        <5>3. Sent(e)' = Sent(e) + 1
          BY <3>3, <5>2 DEF TypeOK
        <5> HIDE DEF Sent, Tries
        <5> QED BY <2>1, <2>1a, <3>6, <5>1, <5>3
      <4>2. CASE sending[p] # "queued"
        <5>1. Sent(e)' = Sent(e)
          BY <2>0, <3>3, <4>2 DEF ProducerResends, LeftOnTheWire
        <5>2. Sent(e) <= Tries(e)
          <6> HIDE DEF Sent, Tries
          <6> QED BY <2>1, <2>1a
        <5> HIDE DEF Sent, Tries
        <5> QED BY <2>1, <3>6, <5>1, <5>2
      <4> QED BY <4>1, <4>2
    <3>8. \A f \in Events \ {e} :
            Sent(f)' + (IF CopyToCome(f)' THEN 1 ELSE 0) <= Tries(f)'
      <4>1. \A f \in Events \ {e} : Sent(f)' = Sent(f) /\ Tries(f)' = Tries(f)
        BY <3>3
      <4> HIDE DEF Sent, Tries
      <4> QED BY <2>1, <2>1a, <3>3, <4>1
    <3>9. \A f \in Events \ {e} :
            record'[f].status = "ABSENT" => record'[f].attempts + resent'[f] = 0
      BY <3>3 DEF CopiesBounded
    <3> QED BY <3>3, <3>5, <3>7, <3>8, <3>9 DEF CopiesBounded
  <2>15. ASSUME NEW p \in Publishers, BrokerStores(p) PROVE CopiesBounded'
    <3>1. phase[p] = "awaiting" /\ sending[p] = "queued"
      BY <2>15 DEF BrokerStores, SendingInPhase
    <3>2. PICK e \in Events : e = held[p].event
      BY <3>1, HeldType
    <3>3. CopyToCome(e) /\ ~CopyToCome(e)'
      BY <2>15, <3>1, <3>2 DEF BrokerStores, CopyToCome, ExclusiveClaim, TypeOK
    <3>4. \A f \in Events \ {e} :
            delivered'[f] = delivered[f] /\ (CopyToCome(f)' => CopyToCome(f))
      BY <2>15, <3>2 DEF BrokerStores, CopyToCome, TypeOK
    <3>5. delivered'[e] = delivered[e] + 1
      BY <2>15, <3>2 DEF BrokerStores, TypeOK
    <3>6. UNCHANGED <<record, late, resent>>
      BY <2>15 DEF BrokerStores
    <3>7. Sent(e) + 1 <= Tries(e)
      BY <2>1, <3>3 DEF CopiesBounded
    <3>8. Sent(e)' = Sent(e) + 1
      BY <3>5, <3>6 DEF TypeOK
    <3>9. \A f \in Events \ {e} : Sent(f)' = Sent(f)
      BY <3>4, <3>6
    <3> HIDE DEF Sent
    <3>10. \A f \in Events \ {e} :
             Sent(f)' + (IF CopyToCome(f)' THEN 1 ELSE 0) <= Tries(f)
      BY <2>1, <2>1a, <3>4, <3>9
    <3>11. Sent(e)' + (IF CopyToCome(e)' THEN 1 ELSE 0) <= Tries(e)
      BY <2>1, <3>3, <3>7, <3>8
    <3> USE DEF Sent
    <3> QED BY <3>6, <3>10, <3>11 DEF CopiesBounded
  <2>16. ASSUME NEW e \in Events, BrokerStoresLate(e)
         PROVE  CopiesBounded'
    <3>1. \A f \in Events : Sent(f)' <= Sent(f)
      BY <2>16 DEF BrokerStoresLate, TypeOK
    <3>2. \A f \in Events : Sent(f)' \in Nat
      BY <2>16 DEF BrokerStoresLate, TypeOK
    <3>3. \A f \in Events : CopyToCome(f)' <=> CopyToCome(f)
      BY <2>16 DEF BrokerStoresLate, CopyToCome
    <3>4. UNCHANGED <<record, resent>>
      BY <2>16 DEF BrokerStoresLate
    <3> QED BY <2>1, <3>1, <3>2, <3>3, <3>4 DEF CopiesBounded
  <2>17. CASE UNCHANGED vars
    BY <2>2, <2>17 DEF vars, CopyToCome
  <2> QED
    BY <2>0, <2>3, <2>4, <2>5, <2>6, <2>7, <2>8, <2>9, <2>10, <2>12, <2>13, <2>14,
       <2>15, <2>16, <2>17
    DEF Next, Cycle, Fault, ReleaseForRetry, ReleaseFails, MarkPublished, MarkFails
<1> QED BY <1>1, <1>2, ShapeKept, ClaimsKept, PTL DEF Spec

\* A consumer never gets more copies of an event than attempt_count and the
\* producers' own retries account for.
THEOREM CopiesAreCounted == Spec => []CopiesCounted
<1>1. Shape /\ CopiesBounded => CopiesCounted
  <2> SUFFICES ASSUME TypeOK, CopiesBounded, NEW e \in Events
               PROVE  delivered[e] + late[e] <= record[e].attempts + resent[e]
    BY DEF Shape, CopiesCounted
  <2>1. delivered[e] + late[e] \in Nat /\ record[e].attempts + resent[e] \in Nat
    BY DEF TypeOK, Record
  <2> QED BY <2>1 DEF CopiesBounded
<1> QED BY <1>1, ShapeKept, CopiesKept, PTL

-----------------------------------------------------------------------------

\* The relay keeps the promise of the transactional outbox: the events of one
\* command appear together, only committed ones are delivered, and only
\* delivered ones are written off.
THEOREM RelayDelivers == Spec => ImplementsDelivery
<1> DEFINE committedNow == {e \in Events : record[e].status # "ABSENT"}
           deliveredNow == {e \in Events : delivered[e] > 0}
           settledNow == {e \in Events : record[e].status = "PUBLISHED"}
<1>1. Init => Delivery!Init
  BY DEF Init, Delivery!Init, NoRecord
<1>2. Shape /\ Claims /\ Known /\ CopiesBounded /\ [Next]_vars
        => [Delivery!Next]_(Delivery!vars)
  <2> SUFFICES ASSUME Shape, Claims, Known, CopiesBounded, [Next]_vars
               PROVE  [Delivery!Next]_(Delivery!vars)
    OBVIOUS
  <2> TypeOK /\ SendingInPhase /\ ClaimsCurrent /\ DeliveryKnown
    BY DEF Shape, Claims, Known
  <2> USE DEF relayVars, brokerVars, Holding
  \* Steps that only move records between PENDING and PUBLISHING are stutters.
  <2>1. ASSUME UNCHANGED delivered,
               \A e \in Events :
                 /\ record'[e].status = "ABSENT" <=> record[e].status = "ABSENT"
                 /\ record'[e].status = "PUBLISHED" <=> record[e].status = "PUBLISHED"
        PROVE  UNCHANGED Delivery!vars
    BY <2>1 DEF Delivery!vars
  <2>2. ASSUME NEW e \in Events, Commit(Reservation[e]) PROVE Delivery!Next
    <3> DEFINE mine == {f \in Events : Reservation[f] = Reservation[e]}
    <3>1. mine \cap committedNow = {} /\ committedNow' = committedNow \cup mine
      BY <2>2 DEF Commit, Written
    <3>2. UNCHANGED <<deliveredNow, settledNow>>
      BY <2>2 DEF Commit, Written
    <3> QED BY <3>1, <3>2 DEF Delivery!Next, Delivery!Commit
  <2>3. ASSUME NEW p \in Publishers,
               \/ FindPending(p) \/ ClaimLost(p) \/ Enqueue(p) \/ EnqueueFails(p)
               \/ Acknowledged(p) \/ DeliveryFails(p) \/ Crash(p) \/ ProducerResends(p)
        PROVE  UNCHANGED Delivery!vars
    BY <2>1, <2>3
    DEF FindPending, ClaimLost, Enqueue, EnqueueFails, Acknowledged, DeliveryFails, Crash,
        ProducerResends
  <2>4. ASSUME NEW p \in Publishers, ClaimAcquired(p) \/ ClaimFails(p)
        PROVE  UNCHANGED Delivery!vars
    <3>1. PICK c \in batch[p] :
            /\ UNCHANGED delivered
            /\ \/ UNCHANGED record
               \/ /\ Claimable(c)
                  /\ record' = [record EXCEPT ![c.event] = Claimed(c.event)]
      BY <2>4 DEF ClaimAcquired, ClaimFails
    <3> QED BY <2>1, <3>1, BatchType DEF Claimable, Claimed, TypeOK
  <2>5. ASSUME NEW p \in Publishers, ReleaseForRetry(p) \/ ReleaseFails(p)
        PROVE  UNCHANGED Delivery!vars
    BY <2>1, <2>5, HeldType
    DEF ReleaseForRetry, ReleaseFails, Finish, FinishFails, Current, Written, TypeOK
  <2>6. ASSUME NEW p \in Publishers, MarkPublished(p) \/ MarkFails(p)
        PROVE  [Delivery!Next]_(Delivery!vars)
    <3>1. phase[p] = "marking" /\ held[p].event \in Events
      BY <2>6, HeldType DEF MarkPublished, MarkFails
    <3>2. CASE UNCHANGED record
      BY <2>1, <2>6, <3>2 DEF MarkPublished, MarkFails, Finish, FinishFails
    <3>3. CASE /\ Current(held[p])
               /\ record' = [record EXCEPT ![held[p].event] =
                               Written(held[p].event, "PUBLISHED")]
      <4>1. held[p].event \in deliveredNow
        BY <3>1 DEF DeliveryKnown
      <4>2. settledNow' = settledNow \cup {held[p].event}
        BY <3>1, <3>3 DEF Written, TypeOK
      <4>3. UNCHANGED <<committedNow, deliveredNow>>
        BY <2>6, <3>1, <3>3
        DEF MarkPublished, MarkFails, Finish, FinishFails, Current, Written, TypeOK
      <4> QED BY <3>1, <4>1, <4>2, <4>3 DEF Delivery!Next, Delivery!Settle
    <3> QED BY <2>6, <3>2, <3>3 DEF MarkPublished, MarkFails, Finish, FinishFails
  \* Whatever reaches the topic belongs to a committed record.
  <2>7. ASSUME NEW e \in committedNow,
               delivered' = [delivered EXCEPT ![e] = @ + 1], UNCHANGED record
        PROVE  Delivery!Next
    <3>1. deliveredNow' = deliveredNow \cup {e}
      BY <2>7 DEF TypeOK
    <3>2. UNCHANGED <<committedNow, settledNow>>
      BY <2>7
    <3> QED BY <2>7, <3>1, <3>2 DEF Delivery!Next, Delivery!Deliver
  <2>8. ASSUME NEW p \in Publishers, BrokerStores(p) PROVE Delivery!Next
    <3>1. held[p].event \in committedNow
      BY <2>8, HeldType DEF BrokerStores, SendingInPhase, ClaimsCurrent, Current
    <3> QED BY <2>7, <2>8, <3>1 DEF BrokerStores
  <2>9. ASSUME NEW e \in Events, BrokerStoresLate(e) PROVE Delivery!Next
    <3>1. delivered[e] \in Nat /\ late[e] \in Nat /\ late[e] > 0
      BY <2>9 DEF BrokerStoresLate, TypeOK
    <3>2. e \in committedNow
      BY <3>1 DEF CopiesBounded
    <3> QED BY <2>7, <2>9, <3>2 DEF BrokerStoresLate
  <2>10. CASE UNCHANGED vars
    BY <2>1, <2>10 DEF vars
  <2> QED
    BY <2>2, <2>3, <2>4, <2>5, <2>6, <2>8, <2>9, <2>10 DEF Next, Cycle, Fault
<1> QED
  BY <1>1, <1>2, ShapeKept, ClaimsKept, KnownKept, CopiesKept, PTL
  DEF Spec, ImplementsDelivery, Delivery!Spec

=============================================================================
