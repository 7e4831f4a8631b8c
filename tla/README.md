# Haven, modelled

TLA+ specifications of Haven, a multi-tenant reservation backend in C++: creating
a reservation under an idempotency key, deciding on it, relaying its events to
Kafka, the process and thread that do so, and the accounts, sessions, catalog and
cache around them. TLC checks small instances; TLAPS proves theorems for every
value of the constants. Paths are relative to the repository; code lives under
`src/`, `include/` and `apps/`.

## The system

One or more server processes (`apps/server/main.cpp`) serve HTTP from thread
pools, share a Couchbase cluster, optionally a Redis, and a Kafka topic. All
durable state is in Couchbase. Processes know nothing of each other.

| Component | State | Operations | Hard because |
| --- | --- | --- | --- |
| Reservation aggregate and policies (`src/domain`) | status, version, interval, approval/rejection/cancellation info, unreleased domain events | create (confirmed or pending), approve, reject, cancel, extend, expire, complete; duration and conflict policies | half-open intervals; terminal states; events live in memory only |
| Creation (`create_reservation_handler.cpp`, `couchbase_idempotency_repository.cpp`, `couchbase_reservation_creation_store.cpp`, `..._creation_event_store.cpp`) | idempotency records, reservation and outbox documents | claim, replay, recover, check, persist in a transaction, record the outcome | several round trips without a lock; retries while the first attempt runs or after it died; ambiguous timeouts; retention |
| Decisions (`approve_`, `reject_`, `cancel_`, `extend_reservation_handler.cpp`) | reservation documents | load, judge, ask for conflicts, replace under CAS | check-then-act over several documents; races of decisions; a 500 after a write that took effect |
| Listings (`list_pending_`, `list_decided_approvals_handler.cpp`, ...) | none | two queries, filtered once more | must agree with the decisions |
| Outbox relay (`outbox_publisher.cpp`, `couchbase_outbox_repository.cpp`, `kafka_outbox_message_producer.cpp`) | outbox documents, one batch and one claim per process, messages in the producer | find pending, claim, publish, release, mark published | several relays; crashes between steps; reports that come late or never; a producer that sends a record again by itself |
| Outbox worker (`outbox_publisher_worker.cpp`) | thread, stop token, running flag | start, stop with a join, one cycle per interval | stop against a running cycle; a cycle that throws |
| Bootstrap (`configuration.cpp`, `main.cpp`) | configuration | load, construct, serve, stop | order of construction and destruction; values cast to narrower types |
| Readiness (`readiness.cpp`) | none | probe Couchbase, Redis, Kafka, worker | a component that is disabled is not probed |
| Resource catalog (`src/application/resources`, `couchbase_resource_repository.cpp`) | resource documents with a version | create, import, update, remove, list, search, show | update is load, change, upsert without CAS; imports fail in the middle |
| Resource cache (`cached_resource_query_repository.cpp`, Redis) | cached details with a TTL | look, fetch, fill | nothing erases an entry on an update; a fill can race an update |
| Sessions (`couchbase_authentication_service.cpp`) | credentials, sessions with expiry | sign up, log in, authenticate, log out | two writes without a transaction; swallowed errors |
| Controllers (`src/presentation`) | none | order of checks, roles, status mapping | what a client may conclude from a status |
| Documents (mappers and validators) | none | domain <-> JSON | must accept whatever they may write, or one document makes every listing and every poll fail |
| Metrics, logging, tracing | observation | - | - |

How they interact: a controller authenticates the caller's session, builds a
command (fresh reservation and event ids, the client's key) and calls a handler.
The creation handler claims the idempotency record, reads the resource, asks the
reservations for conflicts, runs a transaction that inserts the reservation and
its two events, and completes the record. The decision handlers load a
reservation with its CAS and replace it under that CAS. The worker of every
process polls the outbox documents, claims one by one with a CAS replace,
publishes and writes back.

What makes each part correct:

* creation: at most one reservation per key, the same answer to every attempt,
  a success only for what is durable, a rejection only for what never happens;
* decisions: none is lost, none taken back, a refusal changed nothing, listings
  agree; confirmed reservations do not exceed the units of a resource, or only by
  commands that raced;
* relay: one worker per record, nothing written off unsent, every copy
  accounted for by an attempt or by a retry of the producer's own, everything sent
  in the end;
* worker and process: no fault of a cycle ends the worker, a stop ends it and
  leaves nothing half done, one process's fate does not hold up another's events;
* accounts and sessions: one account per address, whose owner gets in even after
  a sign-up that failed half-way; sessions end;
* catalog and cache: an answered change is undone only by a race, a cached copy is
  stale for a bounded time, an import says what it made;
* documents: what the program writes it reads back.

## Modules

| Module | Models |
| --- | --- |
| `TimeIntervals` | `TimeInterval`: half-open intervals |
| `ReservationAggregate` | the aggregate's creation and transitions, the policies |
| `ReservationStore` | the collections, the creation transaction, retention; the vocabulary of overbooking |
| `CreateReservation` | `handle_core` and the idempotency repository, a step per round trip |
| `IdempotentCommand` | abstract: what an idempotency key promises |
| `DecideReservation` | approve, reject, cancel and extend handlers with `update()` |
| `Documents` | reservation, outbox and idempotency documents: written, validated, read back; pure operators |
| `ReservationSystem` | creation and decisions on one store, the approver's listings, the statuses callers get; extends `Documents` and `Endpoints` |
| `Outbox` | outbox documents, publishers, producers, broker, crashes |
| `EventDelivery` | abstract: what the transactional outbox promises |
| `Configuration` | which environments load and what they load to |
| `RelayWorker` | main(), the worker's thread and readiness, around the steps of `Outbox` |
| `Endpoints` | the controllers as tables: order of checks, roles, status per outcome |
| `Identity` | accounts and sessions, and a request's way through a controller |
| `Catalog` | resources, imports, listings, cache; extends `Identity` |
| `MCCreate`, `MCReservations`, `MCOutbox`, `MCWorker`, `MCAdmin` | instances for TLC |
| `OutboxProofs` | theorems about the relay |
| `WorkerProofs` | theorems about processes and their workers |
| `CreateProofs`, `CreateOnceProofs` | theorems about creation, and about creation under records that outlive their requests |
| `DocumentProofs` | theorems about the documents: what is written reads back |
| `SystemProofs` | theorems about creation and decisions together |
| `IdentityProofs`, `CatalogProofs` | theorems about accounts and sessions, and about resources, cache and imports |

Definitions that a comment calls "Mutant" are what the code might have been; no
action uses them.

Correspondence of state and code:

* A Couchbase document is a function value, its CAS a counter (`record[e].cas`,
  `reservation[q].cas`); for idempotency records the value itself stands for the
  CAS, because no two writes leave equal ones. The code only compares CAS values
  for equality.
* Every creation request generates its own reservation id and event ids, so
  `ReservationStore` names the reservation and its documents after the request,
  and an idempotency record names the request whose ids it holds (`owner`). The
  409 of an insert that meets a document of its own id is therefore out of reach.
* `pc[q]`, `step[d]` and `at[q]` name the next round trip of a request. Everything
  between two round trips is one step; everything else can happen between two.
* `get` and CAS-guarded `replace` of `claim()`, `mark_published()` and
  `release_for_retry()` are one step in `Outbox`: the replace carries the CAS the
  caller already had, so the read in between decides nothing.
* A committed transaction becomes visible document by document
  (`ReservationAppears`, `EventAppears`): Couchbase unstages them one at a time,
  and the recovery and schedule queries are plain reads. The transaction's commit
  point is `TxnCommits`.
* A process that dies, and a call that fails, are the same thing to a request:
  `Abandon` and `GiveUp` stop it where it stands. Where a failed write may have
  taken effect, the step has both outcomes (`ClaimTimesOut`, `ReplaceUnanswered`,
  `UpdateUnanswered`, `ClaimFails`, `FinishFails`, and the `...Fails` actions of
  `Identity` and `Catalog`; a creation transaction goes on without its request).
  `ReplaceUnanswered` records an outcome whose client hears an error:
  `IdempotentCommand!Decide` lets the client of a decision hear it or not, and
  obliges every later attempt to the outcome all the same.
* `producer_` of librdkafka is `sending[p]`, the request its publisher waits for,
  and `late[e]`, the requests on the wire that nobody waits for. The code leaves
  `enable.idempotence` off (`kafka_outbox_message_producer.cpp:46`), so
  `ProducerResends` may put a message on the wire once more whether or not the
  broker has stored it, and each request may be stored. A producer goes on with a
  message its publisher has given up on, until `message.timeout.ms`; the model
  lets it resend only before, which loses nothing, since a request put on the wire
  early may arrive at any time. A request may also never arrive: nothing is fair
  to `BrokerStoresLate`.
* Fingerprints are the whole payload (SHA-256 is taken as injective), and so are
  password hashes and tokens; purposes, names and timestamps are left out, since
  nothing but equality is asked of them.
* Commands come from the constants `Command`, `Decision` and `Calls`; `entitled`
  says whether the caller passes the owner check of cancel and extend.
* The resource of a reservation command does not change while the command runs:
  `Catalog` and `ReservationSystem` are not composed (see the end).
* `Documents` writes each document as the mappers do, field by field where a
  validator looks, and reads it as `..._from_json` and the validators do.
* `main[p]` is how far main() has come, `thread[p]` how far the worker's thread
  has. A cycle is several steps of `Outbox`, taken only while `thread[p]` is
  "cycling"; `StopRequested` is the stop token, `IsRunning` the atomic flag.
* `checked` and `looked` are history variables of the schedule checks, `acked` of
  the acknowledgements, `resent` of the producer's own retries, `begun` and `lineage` of which requests overlap and which
  writers a stored resource builds on; no guard reads them.

## Runs

Every cfg of the reservation side and of the catalog says `CHECK_DEADLOCK FALSE`,
since a finite set of requests comes to an end; the relay's and the worker's too,
since they idle when everything is published or stranded and nothing is left to
start.

| Run | Instance | Shows |
| --- | --- | --- |
| `MCOutbox` | 2 publishers, 2 events of one reservation, batches of 1; one crash, one failed store call, two failed publications, one resend by the producer | claims are exclusive (`ExclusiveClaim`), nothing is written off unsent, `attempt_count` and the producer's own retries bound the copies, nothing is sent after its acknowledgement, records are stranded by faults only, what is not stranded is published, `EventDelivery` is implemented |
| `MCOutboxStranded` (violation) | 1 publisher, 1 crash | a claim is never reclaimed |
| `MCOutboxOrder` (violation) | 1 publisher, 1 failed publication | a later event overtakes an earlier one of its reservation |
| `MCWorker` | 2 processes, 7 environments, 2 events of which one cannot be read, one fault of each kind and one resend | a serving process stays ready and a stop ends, in order and in the end; the acknowledgement timeout fits its int; the processes implement `Outbox`; only an unreadable document holds up a readable event |
| `MCCreate` | a request, its retry, a rival for the slot, the key reused for something else; one fault | one reservation per key, agreeing replies, `IdempotentCommand` implemented, also where an outcome stands whose client heard an error, every claim resolved unless a fault took the claimant |
| `MCExpiry` | a request, its retry and a rival on two units; two faults, one expiry | what stays true when records expire under running requests |
| `MCDecide` | two overlapping requests that need approval, an approval of each and a rejection of one; two faults | the version accounts for the decisions, answers and decisions stand, the listings agree with them, every document reads back; overbooking takes a race |
| `MCRoom` | two adjacent requests; an extension, one beyond the policy and one that would move the start; a cancellation, a stranger's cancellation | an extension never overlaps what it could see |
| `MCAdmin` | three requests in each of fifteen mixes of calls, one resource, a clock of three instants, one fault | `OneAccountPerAddress`, `OwnerGetsIn`, `SessionsEnd`, `LostUpdateNeedsARace`, `StalenessBounded`, `ImportsAreListed` |
| `MCOverbooked` (violation) | two requests for one slot | both are confirmed |
| `MCRetryConflict` (violation) | a request, its retry, an approval, one fault | the retry is told it conflicts |
| `MCMissingEvent` (violation) | an approval | its event is not in the outbox |

Bounds. Faults and expiries are budgets in the guards (`Crashes`, `StoreFaults`,
`KafkaFaults`, `Resends`, `QueryFaults`, `Faults`, `Expiries`): one of each kind already
reaches every error path at every step, a second fault in `MCExpiry` lets a retry
fail after its original did, and in `MCDecide` two decisions in doubt meet. Two publishers are enough for any race on a CAS
(the third loses like the second); batches of one out of two events make the limit
of the query bite, and two failed publications keep an event out of it twice; the
rest of a batch after a failure is in `MCWorker` and `MCOutboxOrder`, whose batches
are of two. One resend already gives an attempt more copies than one. Three requests on one key and its rival give an original,
a retry that recovers it, and a competitor that sees it committed or not. In
`MCAdmin` three requests are what the deepest scenarios take (a read that fills the
cache, an update, a read that finds the entry; a sign-up that fails half-way, a
second one, a login); the clock (`MaxTime`) passes both `Ttl` and `Lifetime`.
`kMaxInt` stands for the largest int; the environments of `MCWorker` lie on both
sides of every check that main() makes of a number.

`NothingUnreadable` looks not only at the documents there are but at every content
a reservation of the instance could come to have, all statuses and versions, and
at what every transition would write next.

Under expiry `OneReservationPerKey`, `RejectionLeavesNothing` and `RepliesAgree`
do not hold, by design: a key whose retention has passed is free again. They are
checked with `Expiries = 0`.

Overbooking. The code counts, then inserts: `NeverOverbooked` fails
(`MCOverbooked`). What the code does guarantee is `OverbookingNeedsARace`: among
the reservations that overfill an hour there are two neither of which was
confirmed, as it now stands, when the other was checked. Sequential commands
never overbook, whatever happened before.

Updates of resources. The upsert of `update_resource_handler.cpp` compares no
version, so an answered change can be undone; `LostUpdateNeedsARace` says that it
then takes a writer whose request overlapped the change. `StalenessBounded`: a read
after an answered change may show the copy from before, if a read that had begun
earlier cached it less than the time to live ago.

Fairness. `Outbox!FairSpec`: the worker calls `run_once` for as long as its
process lives, so `Cycle` is weakly fair, and a broker that is up stores what it
is sent. `RelayWorker!WorkerFairSpec` asks less and models more: a thread that can
run does (`Loop`), join() returns when the thread has ended, the broker stores;
that cycles recur follows from the loop, its catch and the wait. The producer
sends a message again only so often before `message.timeout.ms`: `Resends` bounds
it. Nothing obliges a
process to start or to stay, so `OnlyUnreadableBlocks` assumes some process that
serves for good. `CreateReservation!FairSpec`: a request thread runs on, and
Couchbase finishes the transactions it was given. Faults are never fair. Claims are
not reclaimed, so without `StrandedOnlyByFault` liveness would say little; the two
go together.

## Findings

* Records left PUBLISHING are never reclaimed (`couchbase_outbox_repository.cpp:76`,
  `:118`), against ADR-008 ("An expired claim may be reclaimed.") and the
  at-least-once of README.md.
* A failed publication is overtaken by the reservation's next event
  (`outbox_publisher.cpp:125`), against docs/07.
* Two creations, or a creation and an approval, can overlap
  (`create_reservation_handler.cpp:271`), against README.md:42 and :169.
* A retry after a crash is answered IDEMPOTENCY_CONFLICT once the reservation was
  approved, extended or cancelled (`create_reservation_handler.cpp:178`), against
  docs/08 (guarantee 3, CT-008).
* Events of approvals, rejections, cancellations and extensions never reach the
  outbox (`approve_reservation_handler.cpp:45`), against docs/08 (CT-009) and
  README.md:44.

Observed while modelling, modelled as they are, without a run of their own:

* `find_pending` throws for the whole window when one document does not parse, so
  that one document blocks every event behind it; ADR-008:874 wants to "Avoid one
  poison event blocking the entire batch". `OnlyUnreadableBlocks` names this as the
  one thing that blocks, `NothingUnreadable` says the program writes no such
  document.
* A resource update does not erase the cached entry, against the invalidation of
  docs/09-caching.md:165 and ADR-006:408: `StalenessBounded` is what is left.
* docs/07-event-driven-design.md:219 asks for an "Idempotent producer enabled where
  supported"; `kafka_outbox_message_producer.cpp:46` sets `acks` and
  `message.timeout.ms` and leaves `enable.idempotence` at its default, off.
  librdkafka may then store one publication several times: `delivered[e] + late[e]
  <= record[e].attempts` fails as soon as `Resends` is not 0, and `CopiesCounted`
  is what is left, with the producer's own retries counted beside the attempts.
* `serialize_cached_resource` leaves out the units and the address of a resource
  (`Recorded`); the one route that reads through the cache shows neither.
* A log-out is answered 204 even when the session's removal failed; `SessionsEnd`
  has the exception.
* A CAS conflict of an approval, rejection or cancellation is answered 500, as is a
  decision whose write took effect and whose answer was lost; hence the two sides
  of `DecisionsAccount`.
* A PUT of a resource without `status` or `totalUnits` resets them to active and one
  unit; `has_conflict_excluding` asks for any conflict and not for the units left.
* docs/11-observability.md:245 calls Redis optional for readiness; a process that
  has it enabled is not ready without it (`readiness.cpp:43`).
* extend, expire and complete have no route; expire and complete have no caller.

## Proofs

Every invariant and every action property that the passing runs check, and the
three refinements, are theorems; the runs show them on small instances, the
theorems for every value of the constants.

`OutboxProofs` proves every safety property of the relay, for any events, publishers, batch size and budgets, from the assumptions
`EventsAssumption`, `BatchAssumption` and `BudgetAssumption` of `Outbox`. The
inductive invariant is built in layers, each a theorem used by the next:

1. `Shape`: types, and that the producer has a message exactly while its
   publisher waits (`ShapeKept`, `TypeCorrect`).
2. `Claims`: a holder's token is its record's CAS and the record is PUBLISHING.
   Exclusivity is not inductive without it: a claim needs a PENDING record, which
   no holder's record is (`ClaimsKept`, `ClaimIsExclusive`).
3. `Known`: a publisher that is marking, or whose message is stored, has its event
   in the topic (`KnownKept`, `PublishedIsDelivered`).
4. `Stranding` (`StrandedByFaultOnly`), `AckedIsFinal` (`AckIsTheEnd`), and
   `CopiesBounded`, which counts the copy a live claim may still bring about
   (`CopiesAreCounted`): a claim pays for its first request with an attempt, and
   every further request for itself with `resent`.
5. `RelayDelivers`: the refinement of `EventDelivery`, step by step.

`WorkerProofs` proves that processes which boot, stop, die and restart implement
`Outbox` (`ProcessesRunTheRelay`), so that the theorems above hold of them
(`ProcessesClaimExclusively` is one). Its own invariant is `Attached`: a thread
belongs to a process that has not come to rest, a publisher is busy only inside
run_once(), and while main() serves, the thread is there exactly when Kafka is
enabled. From it and the `Shape` of the relay follow `NothingHalfDone` and
`CyclesKeepReady`. `TimeoutCastSafe` rests on `EnvironmentsAssumption` and
`IntAssumption` alone: the configuration orders the two timeouts, and librdkafka
refuses the larger one beyond an int.

`CreateProofs` starts with who writes what (`RecordWrites`, `FoundWrites`,
`VerdictWrites`, `ReplyWrites`, `TxnWrites`, ...): each variable of a request or
record is written by two or three of the sixteen actions, and the later proofs cite
those lemmas instead of going through `Next` again. Then, for any requests,
resources, expiries and faults, from `CommandAssumption`, `ResourceAssumption` and
`BoundsAssumption`:

1. `Shape`: types, and that a request holds a record while it works and a verdict
   while it records one (`TypeCorrect`).
2. `TerminalIsFinal`: a replace names a PROCESSING record by its CAS.
3. `Grounded`: a success that is stored, pending or answered was performed by the
   owner of the record it stands under. `SuccessIsDurable` is not inductive by
   itself: a request may carry a success it recovered from another one's
   reservation, so the invariant follows the verdict from `Recover` or `Persisted`
   to the record (`SuccessDurable`, `PromiseIsBacked`).
4. `Tended`: as long as nothing has failed, the owner of a PROCESSING record is
   still at work under it (`AbandonedByFaultOnly`).

`CreateOnceProofs` assumes `Expiries = 0`, that is, records which outlive the
requests that use them; without it the properties are false, since a key whose
record is gone is claimed anew. Its invariant `Once` adds to `Grounded` that only
the owner of a key's record performs (`Owned`), that a rejection is the owner's and
comes with no transaction (`RejectionGrounded`), and that every definite answer is
the recorded result of the same payload (`AnswerRecorded`). From it follow
`OneReservation`, `RejectionIsClean`, `OneAnswer`, `OnePayload`, and
`CreationKeepsPromise`: a commit maps to `Perform`, a replace to `Decide`, whether
its request hears of it (`ReplaceRecord`) or not (`ReplaceUnanswered`), and every
other step answers with the outcome, answers nothing definite, or is a stutter.

`CreateProofs` also proves, for a finite set of creation requests, that
overbooking takes a race (`OverbookingTakesARace`). The invariant is stated at every hour, not only where a
reservation starts, because a reservation that appears brings a new start; its step
is `AppearanceNeedsARace`: nobody can have seen what only now appears, and if the
newcomer had seen all the others its check would have counted them, for intervals
that cover one hour overlap.

`SystemProofs` is about creations and decisions on one store, with
`DecisionAssumption` added. `SystemShape` holds types and that a CAS names one
value: a command whose loaded CAS is the stored one holds the stored document
(`CopyCurrent`). On it rests `WrittenBack`: what a decision writes is the transition
of what is stored, so that `DecisionEffect` and `DocumentMoves` say all that a step
can do to a reservation. Then:

1. `DecisionsAreFinal`, an action property, from `DocumentMoves`.
2. `AnswersAreHeld`: an answered decision's mark on the status is one that only a
   cancellation may change, and none may change a rejection or cancellation.
3. `DecisionsAccounted`, for finitely many decisions: the version lies between the
   number of decisions answered OK and the number of those answered OK or with an
   error (`Accounted`), and no error reaches the caller as a
   refusal (`DoubtIsNoRefusal`).
4. `ListingsAgree`: a decided reservation bears the mark of a decision that was
   not refused (`Marked`).

`SystemOverbookingTakesARace` carries `OverbookingNeedsARace` over to the
composition, for a finite set of requests. Stated as it is checked it is not inductive: a
cancellation takes from those who occupy an hour, perhaps the very two that raced.
`Orderly` says it of every crowd, that is, of any of the occupants of an hour that
together exceed the units (`RaceInEveryCrowd`), and keeps what the commands under way
know: what an approval or extension saw and nobody has changed does not overlap what
it wants (`RoomChecked`), and what a creation saw leaves it room (`StillAdmitted`).

`DocumentProofs` proves of the pure operators of `Documents` that whatever can be
written reads back: every reservation and every transition and event that may come
next (`ReservationsAreReadable`), every idempotency record (`RecordsReadBack`). An
object with optional members is taken apart by two lemmas, `WithMembers` and
`OptionalMember`; the prover's SMT translation has no empty string, so the steps
about `NonEmpty` go to Zenon. `EverythingIsReadable` then needs one fact of the
reachable states, for finitely many decisions: the contents there can be are those
that `PossibleContents` spans. The version is bounded because `DecisionsAccount` is
an invariant, the interval because nobody moves its start and its end is one that a
request or a decision asked for (`Planned`).

`IdentityProofs` is about accounts and sessions, with the whole catalog running
beside them, for any requests, mixes of calls, accounts of staff, lifetimes and
fault budgets. Its assumptions say what the constants stand for: requests and
staff have names apart, and apart from the markers of a missing token
(`TokensAssumption`), a mix gives every request a call
(`CallsAssumption`), a lifetime and the bounds are numbers (`TimesAssumption`,
`FaultsAssumption`). The layers are

1. `Shape`: types, which step is of which route (`Routed`), and that a request has
   an answer exactly when it is done and is known to precede another only then
   (`Histories`). `Frozen` follows: what a request has been told never changes.
2. `IdentityMoves`, `CatalogMoves`, `IdentityWrites`: what a step does to its own
   request, that it does nothing to the others, and what it may write. The later
   proofs cite these instead of the thirty-odd actions.
3. `Accounts`: a credential is one that a sign-up inserted, which has not been told
   that it failed for the address's sake (`Founded`), and sign-ups and logins were
   told what the credential says (`SignUpKnows`, `LogInKnows`). `OwnerGetsIn` is not
   inductive by itself: it speaks of answers only, and a founder that failed
   half-way is remembered nowhere but in the credential. `OneAccount` and
   `OwnerIsAdmitted` follow.
4. `SessionsKnown`: a session expires a lifetime after the answer that gave it out
   (`Opened`), a log-out took its session away or failed (`Revoked`), and who was let
   in presented a session that had not ended when it was received
   (`AdmittedInTime`). `SessionsDoEnd` follows.

`CatalogProofs` adds `TtlAssumption` and `KeysAssumption` (a key drawn at random is
none in the catalog) and proves

1. `CatalogShape`: types, that a request about to save or fill holds a copy, and
   that no entry lives longer than the time to live from now
   (`CatalogTypeCorrect`).
2. `Lineages`, the invariant behind both `LostUpdatesAreRaces` and
   `ReadsAreStaleWithinBounds`. A change that was answered is in the lineage of the
   document or one of the writers there overlaps it (`ChangeKept`); so that an upsert
   keeps this, a copy on its way has the same of every change answered before its
   request came (`CopyCurrent`, `BuildsOn`), and an entry of every change answered
   before its filler came (`EntryCurrent`). The case that makes it hold: a writer
   which lacks an answered change was received before that answer, so the two
   overlap.
3. `Imports`: an import has inserted at least as many of its rows as it has counted
   imported, and only good ones that it has counted (`ImportCounted`); a listing
   that comes after its answer sees them all (`ListedInFull`). `ImportsAreInListings`
   follows; that a row is inserted once needs the cardinality of finite sets.

Each of these invariants was checked by TLC on the instances of the runs before it
was proved.

Only model-checked: liveness (`PublishedOrStranded`, `ClaimsResolve`, `StopEnds`,
`OnlyUnreadableBlocks`), since neither fairness nor ENABLED is within the prover's
reach. The runs that expect a violation are counterexamples, which TLC alone can
find.

## Not modelled

* Metrics, logging and tracing: observation only.
* The composition of creation and relay in one module: the events a creation inserts
  are the records a relay publishes. `Outbox!Commit` takes all events of a
  reservation at once, as the transaction does.
* The composition of the catalog and the reservations: a resource that becomes
  inactive, or gets fewer units, under a creation. The resource of a command is a
  constant there.
* `find_all`, `find_by_creator`, the single read of a reservation and the calendar
  change no state; `Endpoints` has the rows of those that have a route.
* JSON wording, HTTP framing, timestamps (`http_timestamp.cpp`; beyond the year 2262
  the nanoseconds overflow), hashing, and the external systems beyond what the code
  relies on.
