-------------------------- MODULE ReservationStore --------------------------
(***************************************************************************)
(* The Couchbase collections behind the reservation commands: reservation  *)
(* documents, outbox documents, idempotency records, and the transaction   *)
(* that creates a reservation with its two events.                         *)
(*                                                                         *)
(* Every creation request generates a fresh reservation id and fresh event *)
(* ids, so the model names the reservation, and its documents, after the   *)
(* request.  A committed transaction makes its documents visible to plain  *)
(* reads one at a time.                                                    *)
(***************************************************************************)
EXTENDS ReservationAggregate, FiniteSets

CONSTANTS
  Requests,      \* creation requests
  Command,       \* Command[q]: key (tenant, creator, operation, client key),
                 \* resource, interval, kind, authorized
  Resource,      \* Resource[r]: state, requiresApproval, totalUnits
  Expiries,      \* bound: idempotency records that outlive their retention
  Faults         \* bound: calls or processes that fail, commands that give up

ASSUME CommandAssumption ==
  /\ "none" \notin Requests
  /\ \A q \in Requests :
       /\ Command[q].interval \in Interval
       /\ Command[q].resource \in DOMAIN Resource
ASSUME ResourceAssumption ==
  \A r \in DOMAIN Resource :
    /\ Resource[r].state \in {"active", "inactive", "absent"}
    /\ Resource[r].requiresApproval \in BOOLEAN
    /\ Resource[r].totalUnits \in Nat \ {0}
ASSUME BoundsAssumption == Expiries \in Nat /\ Faults \in Nat

VARIABLES
  reservation,   \* reservation[q]: the document, absent until it is visible
  outbox,        \* outbox[q]: types of the visible events of reservation q
  txn,           \* txn[q]: the creation transaction of request q
  idempotency,   \* idempotency[k]: the record of key k
  checked,       \* history: what the last schedule check that admitted an
                 \* interval of q saw, as <<id, version>> of CONFIRMED ones
  budget         \* expiries and faults left

storeVars == <<reservation, outbox, txn, idempotency, checked, budget>>

Key(q) == Command[q].key
Keys == {Key(q) : q \in Requests}
ResourceOf(q) == Resource[Command[q].resource]

\* Mutant: the digest leaves the payload out.
FingerprintOfKey(q) == Key(q)

\* The digest covers the whole payload of the command.
Fingerprint(q) == Command[q]

\* What request q creates, if it creates anything.
Created(q) ==
  IF ResourceOf(q).requiresApproval
    THEN CreatePendingApproval(Command[q].interval)
    ELSE CreateConfirmed(Command[q].interval)

CreationStatus(r) ==
  IF r.status = "CONFIRMED" THEN "CREATED_CONFIRMED"
                            ELSE "CREATED_PENDING_APPROVAL"

Successes == {"CREATED_CONFIRMED", "CREATED_PENDING_APPROVAL"}
Rejections ==
  {"RESOURCE_NOT_FOUND", "RESOURCE_INACTIVE", "POLICY_REJECTED",
   "SCHEDULE_CONFLICT"}

NoRecord == [status |-> "NONE", owner |-> "none", result |-> "none"]
Processing(q) == [status |-> "PROCESSING", owner |-> q, result |-> "none"]

\* A record's identity stands for its CAS: no two writes leave equal records.
IdempotencyRecord ==
  [status : {"PROCESSING"}, owner : Requests, result : {"none"}]
  \cup [status : {"SUCCEEDED"}, owner : Requests, result : Successes]
  \cup [status : {"FAILED_PERMANENT"}, owner : Requests, result : Rejections]

\* A stored reservation carries the CAS of its last write.
Stored(r, cas) ==
  [status |-> r.status, version |-> r.version, interval |-> r.interval,
   approved |-> r.approved, cas |-> cas]
NoReservation ==
  Stored([status |-> "ABSENT", version |-> 0,
          interval |-> [start |-> 0, end |-> 1], approved |-> FALSE], 0)
ReservationDocument ==
  [status : Status, version : Nat \ {0}, interval : Interval,
   approved : BOOLEAN, cas : Nat \ {0}]

EventTypes ==
  {"ReservationCreated", "ReservationConfirmed", "ReservationApprovalRequested"}

StoreTypeOK ==
  /\ reservation \in [Requests -> ReservationDocument \cup {NoReservation}]
  /\ outbox \in [Requests -> SUBSET EventTypes]
  /\ txn \in [Requests -> {"none", "open", "committed", "aborted"}]
  /\ idempotency \in [Keys -> IdempotencyRecord \cup {NoRecord}]
  /\ checked \in [Requests -> SUBSET (Requests \X Nat)]
  /\ budget \in [expiries : Nat, faults : Nat]

StoreInit ==
  /\ reservation = [q \in Requests |-> NoReservation]
  /\ outbox = [q \in Requests |-> {}]
  /\ txn = [q \in Requests |-> "none"]
  /\ idempotency = [k \in Keys |-> NoRecord]
  /\ checked = [q \in Requests |-> {}]
  /\ budget = [expiries |-> Expiries, faults |-> Faults]

Fault ==
  /\ budget.faults > 0
  /\ budget' = [budget EXCEPT !.faults = @ - 1]

-----------------------------------------------------------------------------
(* Queries.                                                                *)

Exists(q) == reservation[q].status # "ABSENT"

\* The CONFIRMED reservations of a resource that overlap an interval.
Conflicting(resource, interval) ==
  {q \in Requests :
     Command[q].resource = resource /\
     HasReservationConflict(interval, reservation[q])}

\* What a schedule check of the resource can see, for the history.
Visible(resource) ==
  {<<q, reservation[q].version>> :
     q \in {p \in Requests :
              Command[p].resource = resource /\
              BlocksSchedule(reservation[p].status)}}

\* contains_all() over the events of a creation.
ContainsAll(q, events) == events \subseteq outbox[q]

-----------------------------------------------------------------------------
(* The creation transaction, once its request has opened it.               *)

TxnCommits(q) ==
  /\ txn[q] = "open"
  /\ txn' = [txn EXCEPT ![q] = "committed"]
  /\ UNCHANGED <<reservation, outbox, idempotency, checked, budget>>

TxnAborts(q) ==
  /\ txn[q] = "open"
  /\ Fault
  /\ txn' = [txn EXCEPT ![q] = "aborted"]
  /\ UNCHANGED <<reservation, outbox, idempotency, checked>>

ReservationAppears(q) ==
  /\ txn[q] = "committed"
  /\ ~Exists(q)
  /\ reservation' = [reservation EXCEPT ![q] = Stored(Created(q), 1)]
  /\ UNCHANGED <<outbox, txn, idempotency, checked, budget>>

EventAppears(q) ==
  /\ txn[q] = "committed"
  /\ \E event \in CreationEvents(Created(q).status) \ outbox[q] :
       outbox' = [outbox EXCEPT ![q] = @ \cup {event}]
  /\ UNCHANGED <<reservation, txn, idempotency, checked, budget>>

\* Couchbase drops a record whose retention has passed.
RetentionEnds(k) ==
  /\ idempotency[k] # NoRecord
  /\ budget.expiries > 0
  /\ idempotency' = [idempotency EXCEPT ![k] = NoRecord]
  /\ budget' = [budget EXCEPT !.expiries = @ - 1]
  /\ UNCHANGED <<reservation, outbox, txn, checked>>

StoreNext ==
  \/ \E q \in Requests :
       TxnCommits(q) \/ TxnAborts(q) \/ ReservationAppears(q) \/ EventAppears(q)
  \/ \E k \in Keys : RetentionEnds(k)

-----------------------------------------------------------------------------
(* Properties of the schedule, whoever works on the store.                 *)

\* The CONFIRMED reservations of a resource that cover an hour.
Occupants(resource, t) ==
  {q \in Requests :
     /\ Command[q].resource = resource
     /\ BlocksSchedule(reservation[q].status)
     /\ Covers(reservation[q].interval, t)}

\* An interval that is overbooked is overbooked where one of them starts.
Starts == {reservation[q].interval.start : q \in Requests}

Overbooked(resource, t) ==
  Cardinality(Occupants(resource, t)) > Resource[resource].totalUnits

\* Never more confirmed reservations at one time than the resource has units
\* (README.md:42, :169).
NeverOverbooked ==
  \A resource \in DOMAIN Resource, t \in Starts : ~Overbooked(resource, t)

\* a was confirmed, as it now stands, when the interval of b was checked.
SeenBy(a, b) == <<a, reservation[a].version>> \in checked[b]

\* A resource is overbooked only by commands that raced: two of the occupants
\* were both checked before the other one's confirmation could be read.
OverbookingNeedsARace ==
  \A resource \in DOMAIN Resource, t \in Starts :
    Overbooked(resource, t) =>
      \E a, b \in Occupants(resource, t) :
        a # b /\ ~SeenBy(a, b) /\ ~SeenBy(b, a)

=============================================================================
