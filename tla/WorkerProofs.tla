---------------------------- MODULE WorkerProofs ----------------------------
(* Theorems about RelayWorker, for any processes, environments, events and  *)
(* fault budgets.                                                           *)
EXTENDS RelayWorker, OutboxProofs

-----------------------------------------------------------------------------
(* The processes run the relay.                                            *)

\* Starting, stopping and dying are steps of the relay or none of its business.
LEMMA RelayStep == [WorkerNext]_workerVars => [Next]_vars
<1> SUFFICES ASSUME [WorkerNext]_workerVars PROVE [Next]_vars
  OBVIOUS
<1>1. CASE Elsewhere
  BY <1>1 DEF Elsewhere, Next
<1>2. ASSUME NEW p \in Publishers, Loop(p) PROVE [Next]_vars
  <2>1. CASE CycleBegins(p)
    BY <2>1 DEF CycleBegins, Next, Cycle
  <2>2. CASE InCycle(p)
    BY <2>2 DEF InCycle, Next, Cycle, Fault
  <2>3. CASE CycleIsEmpty(p)
    BY <2>3 DEF CycleIsEmpty
  <2> QED
    BY <1>2, <2>1, <2>2, <2>3
    DEF Loop, ThreadBegins, CycleEnds, WaitEnds, ThreadEnds, MovesOnly
<1>3. ASSUME NEW p \in Publishers, Dies(p) PROVE [Next]_vars
  BY <1>3 DEF Dies, Next, Fault
<1>4. ASSUME NEW p \in Publishers,
             Boot(p) \/ BootFails(p) \/ Restart(p) \/ Stop(p) \/ Joined(p)
      PROVE  UNCHANGED vars
  BY <1>4 DEF Boot, BootFails, Restart, Stop, Joined
<1> QED BY <1>1, <1>2, <1>3, <1>4 DEF WorkerNext, workerVars

\* The relay as its processes run it is the relay of Outbox, so that everything
\* proved of Outbox holds of processes that start, stop, die and come back.
THEOREM ProcessesRunTheRelay == WorkerSpec => ImplementsRelay
<1>1. WorkerInit => Init
  BY DEF WorkerInit
<1> QED BY <1>1, RelayStep, PTL DEF WorkerSpec, ImplementsRelay, Spec

\* Two processes never work on the same record, however they come and go.
THEOREM ProcessesClaimExclusively == WorkerSpec => []ExclusiveClaim
BY ProcessesRunTheRelay, ClaimIsExclusive, PTL DEF ImplementsRelay

-----------------------------------------------------------------------------
(* The life of a process.                                                  *)

\* A step of the cycle of p is in the phase of p only.
LEMMA OwnPhase ==
  ASSUME TypeOK, NEW p \in Publishers, CycleBegins(p) \/ InCycle(p) \/ Crash(p)
  PROVE  \A q \in Publishers : q # p => phase'[q] = phase[q]
<1>1. CASE CycleBegins(p)
  BY <1>1 DEF CycleBegins, FindPending, TypeOK
<1>2. CASE Crash(p)
  BY <1>2 DEF Crash, Proceed, TypeOK
<1>3. CASE InCycle(p)
  <2>1. CASE ClaimAcquired(p) \/ ClaimLost(p) \/ ClaimFails(p)
    BY <2>1 DEF ClaimAcquired, ClaimLost, ClaimFails, Proceed, TypeOK
  <2>2. CASE Enqueue(p) \/ EnqueueFails(p) \/ Acknowledged(p) \/ DeliveryFails(p)
    BY <2>2 DEF Enqueue, EnqueueFails, Acknowledged, DeliveryFails, TypeOK
  <2>3. CASE ReleaseForRetry(p) \/ ReleaseFails(p) \/ MarkPublished(p) \/ MarkFails(p)
    BY <2>3 DEF ReleaseForRetry, ReleaseFails, MarkPublished, MarkFails, Finish,
                FinishFails, Proceed, TypeOK
  <2> QED BY <1>3, <2>1, <2>2, <2>3 DEF InCycle
<1> QED BY <1>1, <1>2, <1>3

\* A thread belongs to a process that has not come to rest; only inside
\* run_once() is a publisher busy; and as long as main() has not called stop(),
\* the thread is there exactly when Kafka is enabled, and has not ended.
Attached ==
  \A p \in Publishers :
    /\ main[p] \in {"down", "stopped", "failed"} => thread[p] = "none"
    /\ thread[p] # "cycling" => phase[p] = "idle"
    /\ main[p] = "serving" => config[p].kafka = (thread[p] # "none")
    /\ main[p] = "serving" => thread[p] # "ended"

\* Kafka is enabled or it is not, in every configuration main() can load.
LEMMA LoadedFlag ==
  ASSUME NEW env
  PROVE  Loaded(env).kafka \in BOOLEAN
BY DEF Loaded, Enabled

\* The loop and main() leave the fields of a process in their types.
LEMMA WorkerTypeStep ==
  ASSUME WorkerTypeOK, [WorkerNext]_workerVars
  PROVE  WorkerTypeOK'
<1> USE DEF WorkerTypeOK, Mains, Threads
<1>1. CASE Elsewhere
  BY <1>1 DEF Elsewhere, lifeVars
<1>2. ASSUME NEW p \in Publishers, Loop(p) PROVE WorkerTypeOK'
  <2>1. CASE InCycle(p)
    BY <2>1 DEF InCycle, lifeVars
  <2>2. CASE CycleBegins(p) \/ CycleIsEmpty(p)
    BY <2>2 DEF CycleBegins, CycleIsEmpty, Moves
  <2>3. CASE ThreadBegins(p) \/ CycleEnds(p) \/ WaitEnds(p) \/ ThreadEnds(p)
    BY <2>3 DEF ThreadBegins, CycleEnds, WaitEnds, ThreadEnds, MovesOnly, Moves
  <2> QED BY <1>2, <2>1, <2>2, <2>3 DEF Loop
<1>3. ASSUME NEW p \in Publishers, Boot(p) PROVE WorkerTypeOK'
  BY <1>3 DEF Boot
<1>4. ASSUME NEW p \in Publishers,
             BootFails(p) \/ Restart(p) \/ Stop(p) \/ Joined(p) \/ Dies(p)
      PROVE  WorkerTypeOK'
  BY <1>4 DEF BootFails, Restart, Stop, Joined, Dies
<1>5. CASE UNCHANGED workerVars
  BY <1>5 DEF workerVars, lifeVars
<1> QED BY <1>1, <1>2, <1>3, <1>4, <1>5 DEF WorkerNext

\* Every step of main(), of the loop and of the relay keeps a thread attached
\* to its process and a busy publisher to its thread.
LEMMA AttachedStep ==
  ASSUME Shape, WorkerTypeOK, Attached, [WorkerNext]_workerVars
  PROVE  Attached'
<1> TypeOK
  BY DEF Shape
<1> USE DEF Attached, WorkerTypeOK
<1>1. CASE Elsewhere
  <2>1. UNCHANGED <<phase, lifeVars>>
    BY <1>1 DEF Elsewhere, Commit, ProducerResends, BrokerStores,
                BrokerStoresLate, relayVars
  <2> QED BY <2>1 DEF lifeVars
<1>2. ASSUME NEW p \in Publishers, Loop(p) PROVE Attached'
  <2>1. CASE InCycle(p)
    <3>1. thread[p] = "cycling" /\ UNCHANGED lifeVars
      BY <2>1 DEF InCycle
    <3> QED BY <3>1, <2>1, OwnPhase DEF lifeVars
  <2>2. CASE CycleBegins(p)
    BY <2>2, OwnPhase DEF CycleBegins, Moves
  <2>3. CASE CycleIsEmpty(p)
    BY <2>3 DEF CycleIsEmpty, Moves, vars, relayVars
  <2>4. CASE ThreadBegins(p) \/ WaitEnds(p)
    BY <2>4 DEF ThreadBegins, WaitEnds, MovesOnly, Moves, vars, relayVars
  <2>5. CASE CycleEnds(p) \/ ThreadEnds(p)
    BY <2>5 DEF CycleEnds, ThreadEnds, StopRequested, MovesOnly, Moves, vars,
                relayVars
  <2> QED BY <1>2, <2>1, <2>2, <2>3, <2>4, <2>5 DEF Loop
<1>3. ASSUME NEW p \in Publishers, Boot(p) PROVE Attached'
  BY <1>3, LoadedFlag DEF Boot, vars, relayVars
<1>4. ASSUME NEW p \in Publishers,
             BootFails(p) \/ Restart(p) \/ Stop(p) \/ Joined(p)
      PROVE  Attached'
  BY <1>4 DEF BootFails, Restart, Stop, Joined, vars, relayVars
<1>5. ASSUME NEW p \in Publishers, Dies(p) PROVE Attached'
  <2>1. phase'[p] = "idle"
    BY <1>5 DEF Dies, Crash, Proceed, TypeOK, vars, relayVars
  <2>2. \A q \in Publishers : q # p => phase'[q] = phase[q]
    BY <1>5, OwnPhase DEF Dies, vars, relayVars
  <2> QED BY <1>5, <2>1, <2>2 DEF Dies
<1>6. CASE UNCHANGED workerVars
  BY <1>6 DEF workerVars, lifeVars, vars, relayVars
<1> QED BY <1>1, <1>2, <1>3, <1>4, <1>5, <1>6 DEF WorkerNext

\* A running process has its thread, a process at rest has none, and nobody
\* but a thread inside run_once() works on a batch.
THEOREM ThreadsStayAttached == WorkerSpec => [](Shape /\ WorkerTypeOK /\ Attached)
<1>1. WorkerInit => WorkerTypeOK /\ Attached
  BY QueryAssumption
  DEF WorkerInit, Init, WorkerTypeOK, Attached, Mains, Threads
<1>2. WorkerSpec => []Shape
  BY ProcessesRunTheRelay, ShapeKept, PTL DEF ImplementsRelay
<1>3. Shape /\ WorkerTypeOK /\ Attached /\ [WorkerNext]_workerVars
        => (WorkerTypeOK /\ Attached)'
  BY WorkerTypeStep, AttachedStep
<1> QED BY <1>1, <1>2, <1>3, PTL DEF WorkerSpec

\* A process that has stopped in order, failed or died holds no claim and waits
\* for no message: stop() joins a thread that finishes its batch.
THEOREM NothingHalfDone == WorkerSpec => []QuietWhenStopped
<1>1. Shape /\ Attached => QuietWhenStopped
  BY DEF Shape, SendingInPhase, TypeOK, Attached, QuietWhenStopped
<1> QED BY <1>1, ThreadsStayAttached, PTL

\* No fault of a cycle makes a serving process unready: the loop outlives all
\* that a cycle throws.
THEOREM CyclesKeepReady == WorkerSpec => []ServingStaysReady
<1>1. WorkerTypeOK /\ Attached => ServingStaysReady
  BY DEF WorkerTypeOK, Threads, Attached, ServingStaysReady, Ready, Component,
         Probes, IsRunning
<1> QED BY <1>1, ThreadsStayAttached, PTL

-----------------------------------------------------------------------------
(* The acknowledgement timeout.                                            *)

\* A configuration that loads has an acknowledgement timeout of at least one
\* millisecond and at most the delivery timeout.
LEMMA TimeoutsOrdered ==
  ASSUME NEW env \in Environment, Loads(env), ProducerAccepts(Loaded(env))
  PROVE  Loaded(env).acknowledgement_timeout \in 1 .. kMaxInt
<1> DEFINE ack == Value(env, "KAFKA_ACK_TIMEOUT").number
           delivery == Value(env, "KAFKA_DELIVERY_TIMEOUT").number
<1>1. ack \in Nat /\ delivery \in Nat
  BY DEF Environment, Variables, Value, Default, Required, Number, Word, unset
<1>2. ack > 0 /\ ack <= delivery
  BY DEF Loads, Positive, ParsesAsPositive, KafkaSettingsAgree
<1>3. delivery <= kMaxInt
  BY DEF ProducerAccepts, Loaded
<1>4. Loaded(env).acknowledgement_timeout = ack
  BY DEF Loaded
<1> HIDE DEF ack, delivery
<1> QED BY <1>1, <1>2, <1>3, <1>4, IntAssumption

\* The two casts of the acknowledgement timeout to int are safe in every
\* process that serves, whatever the environment it was started in.
THEOREM TimeoutCastSafe == WorkerSpec => []TimeoutFitsInt
<1>1. WorkerInit => TimeoutFitsInt
  BY DEF WorkerInit, TimeoutFitsInt
<1>2. WorkerTypeOK /\ TimeoutFitsInt /\ [WorkerNext]_workerVars => TimeoutFitsInt'
  <2> SUFFICES ASSUME WorkerTypeOK, TimeoutFitsInt, [WorkerNext]_workerVars
               PROVE  TimeoutFitsInt'
    OBVIOUS
  <2> USE DEF TimeoutFitsInt, WorkerTypeOK
  <2>1. CASE Elsewhere \/ UNCHANGED workerVars
    BY <2>1 DEF Elsewhere, workerVars, lifeVars
  <2>2. ASSUME NEW p \in Publishers, Loop(p) PROVE TimeoutFitsInt'
    BY <2>2 DEF Loop, InCycle, CycleBegins, CycleIsEmpty, ThreadBegins, CycleEnds,
                WaitEnds, ThreadEnds, MovesOnly, Moves, lifeVars
  <2>3. ASSUME NEW p \in Publishers, Boot(p) PROVE TimeoutFitsInt'
    <3>1. PICK env \in Environments :
            /\ Loads(env)
            /\ Loaded(env).kafka => ProducerAccepts(Loaded(env))
            /\ config' = [config EXCEPT ![p] = Loaded(env)]
      BY <2>3 DEF Boot
    <3>2. Loaded(env).kafka =>
            Loaded(env).acknowledgement_timeout \in 1 .. kMaxInt
      BY <3>1, TimeoutsOrdered, EnvironmentsAssumption
    <3> QED BY <2>3, <3>1, <3>2 DEF Boot
  <2>4. ASSUME NEW p \in Publishers,
               BootFails(p) \/ Restart(p) \/ Stop(p) \/ Joined(p) \/ Dies(p)
        PROVE  TimeoutFitsInt'
    BY <2>4 DEF BootFails, Restart, Stop, Joined, Dies
  <2> QED BY <2>1, <2>2, <2>3, <2>4 DEF WorkerNext
<1> QED BY <1>1, <1>2, ThreadsStayAttached, PTL DEF WorkerSpec

=============================================================================
