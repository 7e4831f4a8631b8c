----------------------------- MODULE Documents -----------------------------
(***************************************************************************)
(* The documents the program keeps of reservations, of their events and of *)
(* idempotent operations, as JSON objects: functions from the names of the *)
(* members that are there to their values.  A writer turns what the domain *)
(* knows into an object, a reader validates an object and turns it back,   *)
(* and one that does not validate makes the read throw.  Identifiers are   *)
(* strings that may be empty; a time is an hour, which its text of fixed   *)
(* width keeps in order.                                                   *)
(*                                                                         *)
(* An aggregate here is the whole one: beside status, version and interval *)
(* the three optional infos, each a set of at most one element.            *)
(***************************************************************************)
EXTENDS ReservationAggregate

Schema == 1

\* require_non_empty(), required_string() over several members.
NonEmpty(object, names) ==
  \A name \in names : name \in DOMAIN object /\ object[name] # ""

\* A member that is written only when there is something to write.
Optional(name, values) ==
  [member \in {name : value \in values} |-> CHOOSE value \in values : TRUE]

\* An object with more members; those it has already stay.
With(object, members) ==
  [name \in DOMAIN object \cup DOMAIN members |->
     IF name \in DOMAIN object THEN object[name] ELSE members[name]]

\* A member that is read as nothing when it is missing.
Found(object, name) ==
  IF name \in DOMAIN object THEN {object[name]} ELSE {}

IntervalValid(start, end) == start < end

-----------------------------------------------------------------------------
(* The aggregate with its infos.                                           *)

ApprovalInfo(user, at) == [approvedBy |-> user, approvedAt |-> at]

\* The reason is left out when there is none.
RejectionInfo(user, at, reason) ==
  With([rejectedBy |-> user, rejectedAt |-> at], Optional("reason", reason))

CancellationInfo(user, at, reason) ==
  With([cancelledBy |-> user, cancelledAt |-> at], Optional("reason", reason))

\* The whole aggregate behind a reservation of the store: an info is set by
\* the transition it tells of, and is never cleared.
Whole(r, reason) ==
  [status |-> r.status, version |-> r.version, interval |-> r.interval,
   approval |-> IF r.approved THEN {ApprovalInfo("user", 0)} ELSE {},
   rejection |-> IF r.status = "REJECTED"
                   THEN {RejectionInfo("user", 0, reason)} ELSE {},
   cancellation |-> IF r.status = "CANCELLED"
                      THEN {CancellationInfo("user", 0, reason)} ELSE {}]

-----------------------------------------------------------------------------
(* The reservation document.                                               *)

ToReservationDocument(a) ==
  With([documentType |-> "reservation", schemaVersion |-> Schema,
        reservationId |-> "reservation", organizationId |-> "organization",
        resourceId |-> "resource", createdBy |-> "user", purpose |-> "",
        kind |-> "STANDARD", startTime |-> a.interval.start,
        endTime |-> a.interval.end, status |-> a.status, version |-> a.version],
       With(Optional("approval", a.approval),
            With(Optional("rejection", a.rejection),
                 Optional("cancellation", a.cancellation))))

\* validate_reservation_document(): nothing relates the infos to the status.
ReservationDocumentValid(d) ==
  /\ d.documentType = "reservation"
  /\ d.schemaVersion = Schema
  /\ NonEmpty(d, {"reservationId", "organizationId", "resourceId", "createdBy",
                  "status", "kind"})
  /\ d.status \in Status
  /\ IntervalValid(d.startTime, d.endTime)
  /\ d.version > 0
  /\ "approval" \in DOMAIN d => NonEmpty(d.approval, {"approvedBy"})
  /\ "rejection" \in DOMAIN d => NonEmpty(d.rejection, {"rejectedBy"})
  /\ "cancellation" \in DOMAIN d => NonEmpty(d.cancellation, {"cancelledBy"})

\* to_domain_reservation(): rehydrate() records no event.
ToDomainReservation(d) ==
  [status |-> d.status, version |-> d.version,
   interval |-> [start |-> d.startTime, end |-> d.endTime],
   approval |-> Found(d, "approval"), rejection |-> Found(d, "rejection"),
   cancellation |-> Found(d, "cancellation")]

ReservationReadsBack(a) ==
  LET d == ToReservationDocument(a) IN
  ReservationDocumentValid(d) /\ ToDomainReservation(d) = a

-----------------------------------------------------------------------------
(* The events: type and payload.                                           *)

Event(type, payload) == [eventType |-> type, payload |-> payload]

IntervalPayload(i) == [startTime |-> i.start, endTime |-> i.end]

ReservationCreatedEvent(a) ==
  Event("ReservationCreated",
        With(IntervalPayload(a.interval),
             [resourceId |-> "resource", createdBy |-> "user",
              kind |-> "STANDARD", initialStatus |-> a.status]))

\* Nobody confirms a reservation that needed no approval.
ReservationConfirmedEvent(a, confirmedBy) ==
  Event("ReservationConfirmed",
        With(With(IntervalPayload(a.interval), [resourceId |-> "resource"]),
             Optional("confirmedBy", confirmedBy)))

ReservationApprovalRequestedEvent(a) ==
  Event("ReservationApprovalRequested",
        With(IntervalPayload(a.interval),
             [resourceId |-> "resource", requestedBy |-> "user",
              kind |-> "STANDARD"]))

ReservationRejectedEvent(user) ==
  Event("ReservationRejected", [resourceId |-> "resource", rejectedBy |-> user])

ReservationCancelledEvent(user, previous, reason) ==
  Event("ReservationCancelled",
        With([resourceId |-> "resource", cancelledBy |-> user,
              previousStatus |-> previous], Optional("reason", reason)))

ReservationExtendedEvent(user, previous, extended) ==
  Event("ReservationExtended",
        [resourceId |-> "resource", extendedBy |-> user,
         previousStartTime |-> previous.start, previousEndTime |-> previous.end,
         extendedStartTime |-> extended.start, extendedEndTime |-> extended.end])

ReservationExpiredEvent(previous) ==
  Event("ReservationExpired",
        [resourceId |-> "resource", previousStatus |-> previous])

ReservationCompletedEvent(a) ==
  Event("ReservationCompleted",
        With(IntervalPayload(a.interval), [resourceId |-> "resource"]))

-----------------------------------------------------------------------------
(* The validators of the payloads, one per type of event.                  *)

LiveStatus == {"CONFIRMED", "PENDING_APPROVAL"}

PayloadInterval(p) ==
  /\ {"startTime", "endTime"} \subseteq DOMAIN p
  /\ IntervalValid(p.startTime, p.endTime)

CreatedPayloadValid(p) ==
  /\ NonEmpty(p, {"resourceId", "createdBy", "kind", "initialStatus"})
  /\ PayloadInterval(p)
  /\ p.initialStatus \in LiveStatus

ConfirmedPayloadValid(p) ==
  /\ NonEmpty(p, {"resourceId"})
  /\ PayloadInterval(p)
  /\ "confirmedBy" \in DOMAIN p => NonEmpty(p, {"confirmedBy"})

ApprovalRequestedPayloadValid(p) ==
  NonEmpty(p, {"resourceId", "requestedBy", "kind"}) /\ PayloadInterval(p)

RejectedPayloadValid(p) == NonEmpty(p, {"resourceId", "rejectedBy"})

\* Mutant: only a confirmed reservation is expected to be cancelled.
CancelledWasConfirmed(p) ==
  /\ NonEmpty(p, {"resourceId", "cancelledBy", "previousStatus"})
  /\ p.previousStatus = "CONFIRMED"

CancelledPayloadValid(p) ==
  /\ NonEmpty(p, {"resourceId", "cancelledBy", "previousStatus"})
  /\ p.previousStatus \in LiveStatus

ExtendedPayloadValid(p) ==
  /\ NonEmpty(p, {"resourceId", "extendedBy"})
  /\ IntervalValid(p.previousStartTime, p.previousEndTime)
  /\ IntervalValid(p.extendedStartTime, p.extendedEndTime)
  /\ p.previousStartTime = p.extendedStartTime
  /\ p.previousEndTime < p.extendedEndTime

ExpiredPayloadValid(p) ==
  /\ NonEmpty(p, {"resourceId", "previousStatus"})
  /\ p.previousStatus \in LiveStatus

CompletedPayloadValid(p) == NonEmpty(p, {"resourceId"}) /\ PayloadInterval(p)

PayloadValid(type, p) ==
  \/ type = "ReservationCreated" /\ CreatedPayloadValid(p)
  \/ type = "ReservationConfirmed" /\ ConfirmedPayloadValid(p)
  \/ type = "ReservationApprovalRequested" /\ ApprovalRequestedPayloadValid(p)
  \/ type = "ReservationRejected" /\ RejectedPayloadValid(p)
  \/ type = "ReservationCancelled" /\ CancelledPayloadValid(p)
  \/ type = "ReservationExtended" /\ ExtendedPayloadValid(p)
  \/ type = "ReservationExpired" /\ ExpiredPayloadValid(p)
  \/ type = "ReservationCompleted" /\ CompletedPayloadValid(p)

-----------------------------------------------------------------------------
(* The outbox document.                                                    *)

OutboxStatus == {"PENDING", "PUBLISHING", "PUBLISHED"}

\* map_event(): a new document is pending.
ToOutboxDocument(event) ==
  [documentType |-> "outbox", schemaVersion |-> Schema, eventId |-> "event",
   organizationId |-> "organization", aggregateId |-> "reservation",
   aggregateType |-> "Reservation", eventType |-> event.eventType,
   status |-> "PENDING", attemptCount |-> 0, payload |-> event.payload]

\* The members outbox_document_from_json() asks for, and what it checks.
OutboxDocumentValid(d) ==
  /\ d.documentType = "outbox"
  /\ NonEmpty(d, {"eventId", "organizationId", "aggregateId"})
  /\ d.attemptCount >= 0
  /\ d.status \in OutboxStatus
  /\ d.schemaVersion = Schema
  /\ d.aggregateType = "Reservation"
  /\ PayloadValid(d.eventType, d.payload)
  /\ d.status = "PUBLISHED" <=> "publishedAt" \in DOMAIN d

\* to_outbox_message(): the envelope a consumer gets.
ToOutboxMessage(d) ==
  [eventType |-> d.eventType, payload |-> d.payload,
   aggregateId |-> d.aggregateId, schemaVersion |-> d.schemaVersion]

\* The relay can read the event it is to send, and sends what happened.
EventReadsBack(event) ==
  LET d == ToOutboxDocument(event)
      message == ToOutboxMessage(d) IN
  /\ OutboxDocumentValid(d)
  /\ Event(message.eventType, message.payload) = event

-----------------------------------------------------------------------------
(* What the aggregate offers next: a reservation and the event that tells   *)
(* of it.  update() writes the reservation alone; expire() and complete()   *)
(* have no caller yet.                                                      *)

Outcome(r, event) == [after |-> r, event |-> event]

If(condition, outcome) == IF condition THEN {outcome} ELSE {}

Outcomes(r, reason) ==
  LET extended == Extend(r, r.interval.end + 1) IN
  If(CanApprove(r),
     Outcome(Approve(r), ReservationConfirmedEvent(Approve(r), {"user"})))
  \cup If(CanReject(r), Outcome(Reject(r), ReservationRejectedEvent("user")))
  \cup If(CanCancel(r),
          Outcome(Cancel(r), ReservationCancelledEvent("user", r.status, reason)))
  \cup If(CanExtend(r, extended.interval.end),
          Outcome(extended,
                  ReservationExtendedEvent("user", r.interval, extended.interval)))
  \cup If(CanExpire(r), Outcome(Expire(r), ReservationExpiredEvent(r.status)))
  \cup If(CanComplete(r), Outcome(Complete(r), ReservationCompletedEvent(r)))

\* The document and the event of a creation, by the type of the event.
CreationEvent(r, type) ==
  CASE type = "ReservationCreated" -> ReservationCreatedEvent(r)
    [] type = "ReservationConfirmed" -> ReservationConfirmedEvent(r, {})
    [] type = "ReservationApprovalRequested" ->
         ReservationApprovalRequestedEvent(r)

\* A reservation reads back, and so does whatever can become of it.
Readable(r) ==
  \A reason \in {{}, {"why"}} :
    /\ ReservationReadsBack(Whole(r, reason))
    /\ \A o \in Outcomes(r, reason) :
         ReservationReadsBack(Whole(o.after, reason)) /\ EventReadsBack(o.event)

-----------------------------------------------------------------------------
(* The document of an idempotent operation.                                *)

SuccessFields ==
  {"organizationId", "reservationId", "resourceId", "creatorId",
   "intervalStart", "intervalEnd", "purpose", "reservationStatus",
   "reservationKind", "initialVersion", "createdAt"}

RejectionResults ==
  {"RESOURCE_NOT_FOUND", "RESOURCE_INACTIVE", "SCHEDULE_CONFLICT",
   "POLICY_REJECTED"}

StatusAfter(result) ==
  IF result = "CREATED_CONFIRMED" THEN "CONFIRMED" ELSE "PENDING_APPROVAL"

\* CreateReservationResultSnapshot: what a success carries, a rejection not.
ToResultDocument(record, interval) ==
  IF record.result \in RejectionResults
    THEN [creationStatus |-> record.result]
    ELSE [creationStatus |-> record.result, organizationId |-> "organization",
          reservationId |-> record.owner, resourceId |-> "resource",
          creatorId |-> "user", intervalStart |-> interval.start,
          intervalEnd |-> interval.end, purpose |-> "",
          reservationStatus |-> StatusAfter(record.result),
          reservationKind |-> "STANDARD", initialVersion |-> 1,
          createdAt |-> record.owner]

\* The generated identifiers and the time are those of the record's owner.
ToIdempotencyDocument(record, interval) ==
  With([documentType |-> "idempotency", schemaVersion |-> Schema,
        organizationId |-> "organization", creatorId |-> "user",
        operation |-> "CREATE_RESERVATION", status |-> record.status,
        reservationId |-> record.owner, createdAt |-> record.owner],
       Optional("result", IF record.result = "none" THEN {}
                          ELSE {ToResultDocument(record, interval)}))

\* A success tells of the reservation the record reserved the name of.
SuccessValid(d, result) ==
  /\ result.creationStatus \in {"CREATED_CONFIRMED", "CREATED_PENDING_APPROVAL"}
  /\ SuccessFields \subseteq DOMAIN result
  /\ result.organizationId = d.organizationId
  /\ result.reservationId = d.reservationId
  /\ result.creatorId = d.creatorId
  /\ result.initialVersion # 0
  /\ result.reservationStatus \in Status
  /\ IntervalValid(result.intervalStart, result.intervalEnd)
  /\ result.createdAt = d.createdAt

RejectionValid(result) ==
  /\ result.creationStatus \in RejectionResults
  /\ SuccessFields \cap DOMAIN result = {}

IdempotencyDocumentValid(d) ==
  /\ d.documentType = "idempotency"
  /\ d.schemaVersion = Schema
  /\ NonEmpty(d, {"organizationId", "creatorId", "operation"})
  /\ d.status = "PROCESSING" <=> "result" \notin DOMAIN d
  /\ d.status = "SUCCEEDED" => SuccessValid(d, d.result)
  /\ d.status = "FAILED_PERMANENT" => RejectionValid(d.result)

\* What CreateReservationResultSnapshot::successful() insists on as well.
SnapshotValid(result) ==
  "reservationId" \in DOMAIN result =>
    result.reservationStatus = StatusAfter(result.creationStatus)

\* to_idempotency_record(): a result that names no reservation is a rejection.
ToIdempotencyRecord(d) ==
  [status |-> d.status, owner |-> d.reservationId,
   result |-> IF "result" \in DOMAIN d THEN d.result.creationStatus ELSE "none"]

RecordReadsBack(record, interval) ==
  LET d == ToIdempotencyDocument(record, interval) IN
  /\ IdempotencyDocumentValid(d)
  /\ "result" \in DOMAIN d => SnapshotValid(d.result)
  /\ ToIdempotencyRecord(d) = record

=============================================================================
