----------------------------- MODULE RelayWorker -----------------------------
(***************************************************************************)
(* The process around a publisher: main() from the configuration to the    *)
(* exit, and OutboxPublisherWorker, the thread whose loop runs one publish *)
(* cycle per interval until it is told to stop.  The steps of a cycle are  *)
(* those of Outbox; here they are taken only by a thread that is inside    *)
(* run_once().                                                             *)
(***************************************************************************)
EXTENDS Outbox, Configuration

CONSTANTS
  Environments,  \* environments a process may be started in
  QueryFaults,   \* bound: pending queries that fail
  Unreadable     \* events whose document outbox_document_from_json() refuses,
                 \* such as those another release of the program has written

ASSUME EnvironmentsAssumption == Environments \subseteq Environment
ASSUME UnreadableAssumption == Unreadable \subseteq Events
ASSUME QueryAssumption == QueryFaults \in Nat

VARIABLES
  main,          \* main[p]: how far main() has come
  thread,        \* thread[p]: how far the worker's thread has come
  config,        \* config[p]: the configuration main() has loaded
  queries        \* failures of the pending query left

lifeVars == <<main, thread, config, queries>>
workerVars == <<vars, lifeVars>>

Mains == {"down", "serving", "stopping", "stopped", "failed"}
Threads == {"none", "started", "top", "cycling", "waiting", "ended"}

\* Nothing has been loaded.
NoConfig ==
  [kafka |-> FALSE, redis |-> FALSE, acknowledgement_timeout |-> 0,
   delivery_timeout |-> 0, batch_size |-> 0, poll_interval |-> 0]

WorkerTypeOK ==
  /\ main \in [Publishers -> Mains]
  /\ thread \in [Publishers -> Threads]
  /\ config \in [Publishers -> {NoConfig} \cup {Loaded(env) : env \in Environments}]
  /\ queries \in Nat

WorkerInit ==
  /\ Init
  /\ main = [p \in Publishers |-> "down"]
  /\ thread = [p \in Publishers |-> "none"]
  /\ config = [p \in Publishers |-> NoConfig]
  /\ queries = QueryFaults

\* The stop token of the thread: stop() requests it and then joins.
StopRequested(p) == main[p] = "stopping"

\* is_running(): the flag the thread sets when it begins and clears at its end.
IsRunning(p) == thread[p] \in {"top", "cycling", "waiting"}

-----------------------------------------------------------------------------
(* main().                                                                 *)

\* rd_kafka_conf_set() takes no message.timeout.ms beyond an int.
ProducerAccepts(c) == c.delivery_timeout <= kMaxInt

\* The constructor of the worker throws on a value it could not run with.
WorkerAccepts(c) == c.batch_size # 0 /\ c.poll_interval > 0

\* Configuration, connections, repositories, routes, worker, HTTP loop.  With
\* Kafka disabled there is no producer, no publisher and no worker.
Boot(p) ==
  /\ main[p] \in {"down", "stopped"}
  /\ \E env \in Environments :
       LET c == Loaded(env) IN
       /\ Loads(env)
       /\ c.kafka => ProducerAccepts(c) /\ WorkerAccepts(c)
       /\ config' = [config EXCEPT ![p] = c]
       /\ thread' = [thread EXCEPT ![p] = IF c.kafka THEN "started" ELSE "none"]
  /\ main' = [main EXCEPT ![p] = "serving"]
  /\ UNCHANGED <<vars, queries>>

\* Whatever main() throws before it serves ends the process.
BootFails(p) ==
  /\ main[p] \in {"down", "stopped"}
  /\ \E env \in Environments :
       LET c == Loaded(env) IN
       Loads(env) => c.kafka /\ ~(ProducerAccepts(c) /\ WorkerAccepts(c))
  /\ main' = [main EXCEPT ![p] = "failed"]
  /\ config' = [config EXCEPT ![p] = NoConfig]
  /\ UNCHANGED <<vars, thread, queries>>

Restart(p) ==
  /\ main[p] = "failed"
  /\ main' = [main EXCEPT ![p] = "down"]
  /\ UNCHANGED <<vars, thread, config, queries>>

\* Mutant: stop() asks the thread to stop and does not join it.
StopDetached(p) ==
  /\ main[p] = "serving"
  /\ main' = [main EXCEPT ![p] = "stopped"]
  /\ thread' = [thread EXCEPT ![p] = "none"]
  /\ UNCHANGED <<vars, config, queries>>

\* run() of the HTTP loop returns, and main() stops the worker.
Stop(p) ==
  /\ main[p] = "serving"
  /\ main' = [main EXCEPT ![p] = IF thread[p] = "none" THEN "stopped" ELSE "stopping"]
  /\ UNCHANGED <<vars, thread, config, queries>>

\* join() returns; the producer and the connection go with main().
Joined(p) ==
  /\ main[p] = "stopping"
  /\ thread[p] = "ended"
  /\ main' = [main EXCEPT ![p] = "stopped"]
  /\ thread' = [thread EXCEPT ![p] = "none"]
  /\ UNCHANGED <<vars, config, queries>>

\* The process dies wherever it is, its thread with it.
Dies(p) ==
  /\ main[p] \in {"serving", "stopping"}
  /\ \/ Crash(p)
     \/ phase[p] = "idle" /\ UNCHANGED vars
  /\ main' = [main EXCEPT ![p] = "down"]
  /\ thread' = [thread EXCEPT ![p] = "none"]
  /\ config' = [config EXCEPT ![p] = NoConfig]
  /\ UNCHANGED queries

-----------------------------------------------------------------------------
(* OutboxPublisherWorker::run().                                           *)

Moves(p, from, to) ==
  /\ thread[p] = from
  /\ thread' = [thread EXCEPT ![p] = to]
  /\ UNCHANGED <<main, config>>

\* A move that does nothing to the records.
MovesOnly(p, from, to) == Moves(p, from, to) /\ UNCHANGED <<vars, queries>>

ThreadBegins(p) == MovesOnly(p, "started", "top")

\* find_pending() reads every document of its window or throws.
WindowReadable == OldestPending \cap Unreadable = {}

CycleBegins(p) ==
  /\ ~StopRequested(p)
  /\ Moves(p, "top", "cycling")
  /\ WindowReadable
  /\ FindPending(p)
  /\ UNCHANGED queries

\* Mutant: the query runs outside the try block.
CycleIsEmptyOrFatal(p) ==
  /\ ~StopRequested(p)
  /\ Moves(p, "top", IF OldestPending = {} THEN "cycling" ELSE "ended")
  /\ \/ (OldestPending = {} \/ ~WindowReadable) /\ UNCHANGED queries
     \/ queries > 0 /\ queries' = queries - 1
  /\ UNCHANGED vars

\* There is nothing to do, or the cycle throws before it has done anything:
\* a document cannot be read, or the query fails.
CycleIsEmpty(p) ==
  /\ ~StopRequested(p)
  /\ Moves(p, "top", "cycling")
  /\ \/ (OldestPending = {} \/ ~WindowReadable) /\ UNCHANGED queries
     \/ queries > 0 /\ queries' = queries - 1
  /\ UNCHANGED vars

\* Mutant: the batch is dropped, wherever it is, when the thread is to stop.
InCycleHeedsStop(p) ==
  /\ thread[p] = "cycling"
  /\ \/ ClaimAcquired(p) \/ ClaimLost(p) \/ ClaimFails(p)
     \/ Enqueue(p) \/ EnqueueFails(p) \/ Acknowledged(p) \/ DeliveryFails(p)
     \/ ReleaseForRetry(p) \/ ReleaseFails(p) \/ MarkPublished(p) \/ MarkFails(p)
     \/ /\ StopRequested(p) /\ phase[p] # "idle"
        /\ Proceed(p, {}) /\ GivenUp(p)
        /\ UNCHANGED <<record, delivered, acked, resent, budget>>
  /\ UNCHANGED lifeVars

\* run_once() knows nothing of the stop token: a batch is finished.
InCycle(p) ==
  /\ thread[p] = "cycling"
  /\ \/ ClaimAcquired(p) \/ ClaimLost(p) \/ ClaimFails(p)
     \/ Enqueue(p) \/ EnqueueFails(p) \/ Acknowledged(p) \/ DeliveryFails(p)
     \/ ReleaseForRetry(p) \/ ReleaseFails(p) \/ MarkPublished(p) \/ MarkFails(p)
  /\ UNCHANGED lifeVars

\* Mutant: an exception of the cycle leaves the loop.
CycleThrowsOut(p) ==
  /\ phase[p] = "idle"
  /\ MovesOnly(p, "cycling",
               IF StopRequested(p) \/ ~WindowReadable THEN "ended" ELSE "waiting")

\* The loop catches all that a cycle throws, and looks at the token.
CycleEnds(p) ==
  /\ phase[p] = "idle"
  /\ MovesOnly(p, "cycling", IF StopRequested(p) THEN "ended" ELSE "waiting")

\* Mutant: the wait heeds the interval of a thread that is not to stop.
WaitDeafToStop(p) == ~StopRequested(p) /\ MovesOnly(p, "waiting", "top")

\* wait_for() returns: the interval is over, or the token was stopped.
WaitEnds(p) == MovesOnly(p, "waiting", "top")

ThreadEnds(p) == StopRequested(p) /\ MovesOnly(p, "top", "ended")

-----------------------------------------------------------------------------
Loop(p) ==
  \/ ThreadBegins(p) \/ CycleBegins(p) \/ CycleIsEmpty(p) \/ InCycle(p)
  \/ CycleEnds(p) \/ WaitEnds(p) \/ ThreadEnds(p)

\* The creations, the producers' own threads and the broker: they do not know of
\* the worker.
Elsewhere ==
  /\ \/ \E e \in Events :
          Commit(Reservation[e]) \/ BrokerStoresLate(e)
     \/ \E p \in Publishers : ProducerResends(p) \/ BrokerStores(p)
  /\ UNCHANGED lifeVars

WorkerNext ==
  \/ Elsewhere
  \/ \E p \in Publishers :
       \/ Loop(p)
       \/ Boot(p) \/ BootFails(p) \/ Restart(p) \/ Stop(p) \/ Joined(p) \/ Dies(p)

WorkerSpec == WorkerInit /\ [][WorkerNext]_workerVars

\* The scheduler runs a thread that can run, join() returns when there is
\* nothing left to wait for, and the broker stores what it is sent.
WorkerFairSpec ==
  /\ WorkerSpec
  /\ \A p \in Publishers :
       /\ WF_workerVars(Loop(p))
       /\ WF_workerVars(Joined(p))
       /\ WF_workerVars(BrokerStores(p) /\ UNCHANGED lifeVars)

-----------------------------------------------------------------------------
(* Readiness.                                                              *)

\* evaluate(): a dependency that has no probe is not asked.
Component(probed, up) ==
  IF ~probed THEN "disabled" ELSE IF up THEN "up" ELSE "down"

\* The probes main() gives the service.
Probes(c) ==
  [couchbase |-> TRUE, redis |-> c.redis, kafka |-> c.kafka, worker |-> c.kafka]

\* ReadinessService::check(), given what Couchbase, Redis and Kafka answer.
Ready(p, couchbase, redis, kafka) ==
  LET probes == Probes(config[p]) IN
  /\ Component(probes.couchbase, couchbase) = "up"
  /\ Component(probes.redis, redis) # "down"
  /\ Component(probes.kafka, kafka) # "down"
  /\ Component(probes.worker, IsRunning(p)) # "down"

-----------------------------------------------------------------------------
(* Properties.                                                             *)

\* A process that serves is ready as long as its dependencies are, whatever its
\* cycles ran into: no fault of a cycle takes the worker down.
ServingStaysReady ==
  \A p \in Publishers :
    main[p] = "serving" /\ thread[p] # "started" => Ready(p, TRUE, TRUE, TRUE)

\* A process that has stopped in order has left nothing half done: it holds no
\* claim, and its producer has no message it still waits for.
QuietWhenStopped ==
  \A p \in Publishers :
    main[p] \in {"stopped", "failed", "down"} =>
      phase[p] = "idle" /\ sending[p] = "none"

\* The acknowledgement timeout of a running producer fits the int it is cast to
\* (KafkaOutboxMessageProducer::is_ready and its destructor).
TimeoutFitsInt ==
  \A p \in Publishers :
    main[p] = "serving" /\ config[p].kafka =>
      config[p].acknowledgement_timeout \in 1 .. kMaxInt

\* The relay as its processes run it is the relay of Outbox: starting, stopping
\* and restarting them adds nothing to what it may do.
ImplementsRelay == Spec

\* stop() returns, whether the thread was asleep or in the middle of a batch.
StopEnds ==
  \A p \in Publishers : main[p] = "stopping" ~> main[p] # "stopping"

\* As long as some process goes on serving, a readable event is published, or
\* a fault strands it, or a document that cannot be read is in its way: no
\* other process's coming and going, and no cycle that fails, holds it up.
Blocked == ~WindowReadable
OnlyUnreadableBlocks ==
  (\E p \in Publishers : <>[](main[p] = "serving" /\ config[p].kafka)) =>
    \A e \in Events \ Unreadable :
      record[e].status = "PENDING" ~>
        \/ record[e].status = "PUBLISHED"
        \/ record[e].status = "PUBLISHING" /\ Holders(e) = {}
        \/ Blocked

=============================================================================
