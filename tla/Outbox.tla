------------------------------- MODULE Outbox -------------------------------
(***************************************************************************)
(* The outbox records in Couchbase and the publishers that relay them to   *)
(* Kafka: CouchbaseOutboxRepository, OutboxPublisher::run_cycle and        *)
(* KafkaOutboxMessageProducer.  Every server process runs one publisher    *)
(* with one producer of its own, so several publishers share the records.  *)
(*                                                                         *)
(* A step is one round trip to Couchbase or to the broker.  A record's CAS *)
(* is a counter that every write increments: the code only ever compares   *)
(* CAS values for equality.                                                *)
(***************************************************************************)
EXTENDS Naturals, FiniteSets

CONSTANTS
  Events,        \* outbox records; the number is the record's place in the
                 \* (occurredAt, eventId) order of the pending query
  Reservation,   \* Reservation[e]: the reservation e belongs to
  Publishers,    \* server processes
  BatchSize,     \* records one cycle asks the pending query for
  Crashes,       \* bound: process crashes
  StoreFaults,   \* bound: Couchbase calls that end in a RepositoryError
  KafkaFaults,   \* bound: publications that end in a MessagePublishError
  Resends        \* bound: messages that a producer sends again by itself

ASSUME EventsAssumption == Events \subseteq Nat \ {0}
ASSUME BatchAssumption == BatchSize \in Nat \ {0}
ASSUME BudgetAssumption ==
  /\ Crashes \in Nat /\ StoreFaults \in Nat
  /\ KafkaFaults \in Nat /\ Resends \in Nat

VARIABLES
  record,        \* record[e]: the stored outbox document
  phase,         \* phase[p]: where publisher p is in its cycle
  batch,         \* batch[p]: candidates of the cycle not yet tried
  held,          \* held[p]: the claim p works on
  sending,       \* sending[p]: the producer's view of the message p waits for
  late,          \* late[e]: requests with e given up on that may still arrive
  delivered,     \* delivered[e]: copies of e in the topic
  acked,         \* history: events whose publication was acknowledged
  resent,        \* resent[e]: times a producer has sent e again by itself
  budget         \* faults left

relayVars == <<phase, batch, held>>
brokerVars == <<sending, late, delivered, acked, resent>>
vars == <<record, relayVars, brokerVars, budget>>

Statuses == {"ABSENT", "PENDING", "PUBLISHING", "PUBLISHED"}
Record == [status : Statuses, cas : Nat, attempts : Nat]
NoRecord == [status |-> "ABSENT", cas |-> 0, attempts |-> 0]

\* A claim names a record and the CAS value the publisher last saw on it.
Candidate == [event : Events, token : Nat]
NoClaim == [event |-> 0, token |-> 0]

Holding == {"publishing", "awaiting", "releasing", "marking"}
Phases == {"idle", "claiming"} \cup Holding
Budget == [crash : Nat, store : Nat, kafka : Nat, resend : Nat]

TypeOK ==
  /\ record \in [Events -> Record]
  /\ phase \in [Publishers -> Phases]
  /\ batch \in [Publishers -> SUBSET Candidate]
  /\ held \in [Publishers -> Candidate \cup {NoClaim}]
  /\ \A p \in Publishers : phase[p] \in Holding => held[p] \in Candidate
  /\ sending \in [Publishers -> {"none", "queued", "stored"}]
  /\ late \in [Events -> Nat]
  /\ delivered \in [Events -> Nat]
  /\ acked \subseteq Events
  /\ resent \in [Events -> Nat]
  /\ budget \in Budget

Init ==
  /\ record = [e \in Events |-> NoRecord]
  /\ phase = [p \in Publishers |-> "idle"]
  /\ batch = [p \in Publishers |-> {}]
  /\ held = [p \in Publishers |-> NoClaim]
  /\ sending = [p \in Publishers |-> "none"]
  /\ late = [e \in Events |-> 0]
  /\ delivered = [e \in Events |-> 0]
  /\ acked = {}
  /\ resent = [e \in Events |-> 0]
  /\ budget = [crash |-> Crashes, store |-> StoreFaults, kafka |-> KafkaFaults,
               resend |-> Resends]

-----------------------------------------------------------------------------
(* The store.                                                              *)

Pending == {e \in Events : record[e].status = "PENDING"}

\* Mutant: the query leaves out what has been tried before.
OldestPendingUntried ==
  LET untried == {e \in Pending : record[e].attempts = 0} IN
  {e \in untried : Cardinality({f \in untried : f < e}) < BatchSize}

\* ORDER BY occurredAt, eventId LIMIT BatchSize.
OldestPending ==
  {e \in Pending : Cardinality({f \in Pending : f < e}) < BatchSize}

\* What a CAS-guarded replace leaves in the collection.
Written(e, status) ==
  [status |-> status, cas |-> record[e].cas + 1, attempts |-> record[e].attempts]

\* Mutant: claim() leaves attempt_count alone.
ClaimedUncounted(e) == Written(e, "PUBLISHING")

\* The document that claim() writes also counts the attempt.
Claimed(e) ==
  [status |-> "PUBLISHING", cas |-> record[e].cas + 1,
   attempts |-> record[e].attempts + 1]

\* Mutant: claim() upserts, and checks neither CAS nor status.
ClaimableByAnyone(c) == TRUE

Claimable(c) ==
  /\ record[c.event].cas = c.token
  /\ record[c.event].status = "PENDING"

\* mutate_publishing() accepts a claim whose token is current.
Current(c) ==
  /\ record[c.event].cas = c.token
  /\ record[c.event].status = "PUBLISHING"

StoreFault ==
  /\ budget.store > 0
  /\ budget' = [budget EXCEPT !.store = @ - 1]

\* The creation transaction inserts the events of one reservation together.
Commit(r) ==
  LET mine == {e \in Events : Reservation[e] = r} IN
  /\ mine # {}
  /\ \A e \in mine : record[e].status = "ABSENT"
  /\ record' = [e \in Events |->
                  IF e \in mine THEN Written(e, "PENDING") ELSE record[e]]
  /\ UNCHANGED <<relayVars, brokerVars, budget>>

-----------------------------------------------------------------------------
(* The publish cycle.                                                      *)

\* The cycle goes on with the rest of its batch, or ends.
Proceed(p, rest) ==
  /\ held' = [held EXCEPT ![p] = NoClaim]
  /\ batch' = [batch EXCEPT ![p] = rest]
  /\ phase' = [phase EXCEPT ![p] = IF rest = {} THEN "idle" ELSE "claiming"]

FindPending(p) ==
  /\ phase[p] = "idle"
  /\ OldestPending # {}
  /\ batch' = [batch EXCEPT ![p] =
                 {[event |-> e, token |-> record[e].cas] : e \in OldestPending}]
  /\ phase' = [phase EXCEPT ![p] = "claiming"]
  /\ UNCHANGED <<record, held, brokerVars, budget>>

\* The cycle takes its candidates in the order of the query.
IsNext(p, c) ==
  /\ phase[p] = "claiming"
  /\ c \in batch[p]
  /\ \A d \in batch[p] : c.event <= d.event

ClaimAcquired(p) ==
  \E c \in batch[p] :
    /\ IsNext(p, c)
    /\ Claimable(c)
    /\ record' = [record EXCEPT ![c.event] = Claimed(c.event)]
    /\ held' = [held EXCEPT ![p] = [event |-> c.event, token |-> c.token + 1]]
    /\ phase' = [phase EXCEPT ![p] = "publishing"]
    /\ batch' = [batch EXCEPT ![p] = @ \ {c}]
    /\ UNCHANGED <<brokerVars, budget>>

\* Mutant: a lost claim falls through to the publication.
ClaimLostButPublished(p) ==
  \E c \in batch[p] :
    /\ IsNext(p, c)
    /\ ~Claimable(c)
    /\ phase' = [phase EXCEPT ![p] = "publishing"]
    /\ batch' = [batch EXCEPT ![p] = @ \ {c}]
    /\ UNCHANGED <<record, held, brokerVars, budget>>

ClaimLost(p) ==
  \E c \in batch[p] :
    /\ IsNext(p, c)
    /\ ~Claimable(c)
    /\ Proceed(p, batch[p] \ {c})
    /\ UNCHANGED <<record, brokerVars, budget>>

\* A RepositoryError from claim() ends the whole cycle.  After a timeout the
\* replace may have reached the collection all the same.
ClaimFails(p) ==
  \E c \in batch[p] :
    /\ IsNext(p, c)
    /\ StoreFault
    /\ \/ UNCHANGED record
       \/ /\ Claimable(c)
          /\ record' = [record EXCEPT ![c.event] = Claimed(c.event)]
    /\ Proceed(p, {})
    /\ UNCHANGED brokerVars

\* publish(): rd_kafka_producev accepts the record, or refuses it.
Enqueue(p) ==
  /\ phase[p] = "publishing"
  /\ sending' = [sending EXCEPT ![p] = "queued"]
  /\ phase' = [phase EXCEPT ![p] = "awaiting"]
  /\ UNCHANGED <<record, batch, held, late, delivered, acked, resent, budget>>

KafkaFault ==
  /\ budget.kafka > 0
  /\ budget' = [budget EXCEPT !.kafka = @ - 1]

EnqueueFails(p) ==
  /\ phase[p] = "publishing"
  /\ KafkaFault
  /\ phase' = [phase EXCEPT ![p] = "releasing"]
  /\ UNCHANGED <<record, batch, held, brokerVars>>

\* Mutant: publish() returns as soon as the record is queued.
AcknowledgedOnQueue(p) ==
  /\ phase[p] = "awaiting"
  /\ sending' = [sending EXCEPT ![p] = "none"]
  /\ acked' = acked \cup {held[p].event}
  /\ phase' = [phase EXCEPT ![p] = "marking"]
  /\ UNCHANGED <<record, batch, held, late, delivered, resent, budget>>

\* publish() returns: the delivery report arrived and carries no error.
Acknowledged(p) ==
  /\ phase[p] = "awaiting"
  /\ sending[p] = "stored"
  /\ sending' = [sending EXCEPT ![p] = "none"]
  /\ acked' = acked \cup {held[p].event}
  /\ phase' = [phase EXCEPT ![p] = "marking"]
  /\ UNCHANGED <<record, batch, held, late, delivered, resent, budget>>

\* Whoever stops waiting for a request cannot recall it from the wire.
LeftOnTheWire(p) ==
  late' = IF sending[p] = "queued"
            THEN [late EXCEPT ![held[p].event] = @ + 1] ELSE late

GivenUp(p) ==
  /\ LeftOnTheWire(p)
  /\ sending' = [sending EXCEPT ![p] = "none"]

\* publish() throws: an error report, or no report before the deadline.
DeliveryFails(p) ==
  /\ phase[p] = "awaiting"
  /\ KafkaFault
  /\ GivenUp(p)
  /\ phase' = [phase EXCEPT ![p] = "releasing"]
  /\ UNCHANGED <<record, batch, held, delivered, acked, resent>>

\* release_for_retry() and mark_published(): one CAS-guarded replace, and a
\* RepositoryError (a stale token, or a call that failed before or after it
\* took effect) is counted and forgotten.
Finish(p, status) ==
  LET e == held[p].event IN
  /\ record' = IF Current(held[p])
                 THEN [record EXCEPT ![e] = Written(e, status)] ELSE record
  /\ Proceed(p, batch[p])
  /\ UNCHANGED <<brokerVars, budget>>

FinishFails(p, status) ==
  LET e == held[p].event IN
  /\ StoreFault
  /\ \/ UNCHANGED record
     \/ /\ Current(held[p])
        /\ record' = [record EXCEPT ![e] = Written(e, status)]
  /\ Proceed(p, batch[p])
  /\ UNCHANGED brokerVars

\* Mutant: a failed publication is counted, its claim never released.
ReleaseForgotten(p) ==
  /\ phase[p] = "releasing"
  /\ Proceed(p, batch[p])
  /\ UNCHANGED <<record, brokerVars, budget>>

\* Mutant: a failed mark_published() is answered with release_for_retry().
MarkFailsThenReleases(p) == phase[p] = "marking" /\ FinishFails(p, "PENDING")

ReleaseForRetry(p) == phase[p] = "releasing" /\ Finish(p, "PENDING")
ReleaseFails(p) == phase[p] = "releasing" /\ FinishFails(p, "PENDING")
MarkPublished(p) == phase[p] = "marking" /\ Finish(p, "PUBLISHED")
MarkFails(p) == phase[p] = "marking" /\ FinishFails(p, "PUBLISHED")

\* The process dies and comes back with an empty publisher.
Crash(p) ==
  /\ budget.crash > 0
  /\ phase[p] # "idle"
  /\ budget' = [budget EXCEPT !.crash = @ - 1]
  /\ GivenUp(p)
  /\ Proceed(p, {})
  /\ UNCHANGED <<record, delivered, acked, resent>>

-----------------------------------------------------------------------------
(* The producer's own retries, and the broker.                             *)

\* librdkafka sends a message again, within one publish(), when a request fails
\* or goes unanswered.  Nothing sets enable.idempotence, so the broker takes
\* the message for a new one, whether or not it has stored the first.  A
\* producer goes on with a message its publisher has given up on; what that
\* adds to the wire is no more than it could have added while it was awaited.
ProducerResends(p) ==
  LET e == held[p].event IN
  /\ sending[p] # "none"
  /\ budget.resend > 0
  /\ budget' = [budget EXCEPT !.resend = @ - 1]
  /\ resent' = [resent EXCEPT ![e] = @ + 1]
  /\ LeftOnTheWire(p)
  /\ sending' = [sending EXCEPT ![p] = "queued"]
  /\ UNCHANGED <<record, relayVars, delivered, acked>>

BrokerStores(p) ==
  /\ sending[p] = "queued"
  /\ sending' = [sending EXCEPT ![p] = "stored"]
  /\ delivered' = [delivered EXCEPT ![held[p].event] = @ + 1]
  /\ UNCHANGED <<record, relayVars, late, acked, resent, budget>>

\* Nothing obliges it to: a request that is lost stays late for ever.
BrokerStoresLate(e) ==
  /\ late[e] > 0
  /\ late' = [late EXCEPT ![e] = @ - 1]
  /\ delivered' = [delivered EXCEPT ![e] = @ + 1]
  /\ UNCHANGED <<record, relayVars, sending, acked, resent, budget>>

-----------------------------------------------------------------------------
\* Steps a running publisher takes when nothing fails.
Cycle(p) ==
  \/ FindPending(p) \/ ClaimAcquired(p) \/ ClaimLost(p)
  \/ Enqueue(p) \/ Acknowledged(p)
  \/ ReleaseForRetry(p) \/ MarkPublished(p)

Fault(p) ==
  \/ ClaimFails(p) \/ EnqueueFails(p) \/ DeliveryFails(p)
  \/ ReleaseFails(p) \/ MarkFails(p) \/ Crash(p)

Next ==
  \/ \E e \in Events : Commit(Reservation[e])
  \/ \E p \in Publishers : Cycle(p) \/ Fault(p) \/ ProducerResends(p) \/ BrokerStores(p)
  \/ \E e \in Events : BrokerStoresLate(e)

Spec == Init /\ [][Next]_vars

\* The worker's loop runs for as long as its process does, and the broker
\* stores what it is sent; faults owe nobody anything.
FairSpec ==
  /\ Spec
  /\ \A p \in Publishers : WF_vars(Cycle(p)) /\ WF_vars(BrokerStores(p))

-----------------------------------------------------------------------------
(* Properties.                                                             *)

Holders(e) == {p \in Publishers : phase[p] \in Holding /\ held[p].event = e}

\* Two publishers never work on the same record at once: claim() is the only
\* door, and the CAS makes it admit one.
ExclusiveClaim ==
  \A e \in Events, p, q \in Publishers :
    p \in Holders(e) /\ q \in Holders(e) => p = q

\* A record leaves the relay as PUBLISHED only when the topic has the event.
PublishedWasDelivered ==
  \A e \in Events : record[e].status = "PUBLISHED" => delivered[e] > 0

\* Every copy a consumer may ever see, in the topic or still on the wire, comes
\* of an attempt that attempt_count has counted or of a retry of the producer's
\* own.  attempt_count alone is no bound: the producer is not the idempotent one
\* of docs/07-event-driven-design.md:219.
CopiesCounted ==
  \A e \in Events : delivered[e] + late[e] <= record[e].attempts + resent[e]

\* A PUBLISHING record that no publisher is working on is always the trace of
\* a crash or of a failed Couchbase call: the cycle itself drops no claim.
StrandedOnlyByFault ==
  \A e \in Events :
    record[e].status = "PUBLISHING" /\ Holders(e) = {} =>
      budget.crash < Crashes \/ budget.store < StoreFaults

\* Once the broker has acknowledged an event, the relay never sends it again,
\* even when the write that should record this fails: duplicates come only
\* from publications whose outcome was unknown or bad, and from what the
\* producer does within one publication.
NoResendAfterAck ==
  [][\A p \in Publishers :
       sending[p] = "none" /\ sending'[p] = "queued" =>
         held[p].event \notin acked]_vars

\* Every committed event is eventually published, or a fault has stranded it
\* (README.md:45, "a relay publishes to Kafka at-least-once").
PublishedOrStranded ==
  \A e \in Events :
    record[e].status = "PENDING" ~>
      \/ record[e].status = "PUBLISHED"
      \/ record[e].status = "PUBLISHING" /\ Holders(e) = {}

\* Every committed event is eventually published.
EventuallyPublished ==
  \A e \in Events :
    record[e].status = "PENDING" ~> record[e].status = "PUBLISHED"

\* The topic never shows an event of a reservation before an earlier one
\* (docs/07-event-driven-design.md:150).
OrderPerReservation ==
  \A e, f \in Events :
    e < f /\ Reservation[e] = Reservation[f] /\ delivered[f] > 0 =>
      delivered[e] > 0

-----------------------------------------------------------------------------
(* Why the safety properties hold: an inductive invariant, by parts.       *)

\* A holder's claim is the last write to its record.
ClaimsCurrent ==
  \A p \in Publishers :
    phase[p] \in Holding => Current(held[p])

\* The producer has a message exactly while its publisher waits for one.
SendingInPhase ==
  \A p \in Publishers : sending[p] # "none" <=> phase[p] = "awaiting"

\* What a publisher knows of the topic is so.
DeliveryKnown ==
  \A p \in Publishers :
    phase[p] = "marking" \/ sending[p] = "stored" => delivered[held[p].event] > 0

\* A claim whose message the broker may yet store has a copy to come.
CopyToCome(e) ==
  \E p \in Holders(e) : phase[p] = "publishing" \/ sending[p] = "queued"

CopiesBounded ==
  \A e \in Events :
    /\ delivered[e] + late[e] + (IF CopyToCome(e) THEN 1 ELSE 0)
         <= record[e].attempts + resent[e]
    /\ record[e].status = "ABSENT" => record[e].attempts + resent[e] = 0

\* An acknowledged event is on its way to PUBLISHED, or stuck short of it.
AckedIsFinal ==
  \A e \in acked :
    /\ record[e].status \in {"PUBLISHING", "PUBLISHED"}
    /\ \A p \in Holders(e) : phase[p] = "marking"

BudgetsSpent ==
  /\ budget.crash <= Crashes
  /\ budget.store <= StoreFaults

IInv ==
  /\ ClaimsCurrent
  /\ ExclusiveClaim
  /\ DeliveryKnown
  /\ PublishedWasDelivered
  /\ CopiesBounded
  /\ AckedIsFinal
  /\ BudgetsSpent
  /\ StrandedOnlyByFault

-----------------------------------------------------------------------------
(* The promise the relay implements.                                       *)

Delivery == INSTANCE EventDelivery WITH
  committed <- {e \in Events : record[e].status # "ABSENT"},
  delivered <- {e \in Events : delivered[e] > 0},
  settled <- {e \in Events : record[e].status = "PUBLISHED"}

\* The relay implements the promise: events of a command appear together, only
\* committed events are delivered, only delivered events are settled.
ImplementsDelivery == Delivery!Spec

=============================================================================
