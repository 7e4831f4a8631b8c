--------------------------- MODULE DocumentProofs ---------------------------
(* What the program writes of reservations, events and idempotent           *)
(* operations it can read: lemmas about the operators of Documents.         *)
EXTENDS Documents, TLAPS

-----------------------------------------------------------------------------
(* Objects.                                                                *)

\* An object with more members has them all.
LEMMA WithMembers ==
  ASSUME NEW f, NEW g
  PROVE  /\ DOMAIN With(f, g) = DOMAIN f \cup DOMAIN g
         /\ \A x \in DOMAIN f : With(f, g)[x] = f[x]
         /\ \A x \in DOMAIN g \ DOMAIN f : With(f, g)[x] = g[x]
BY DEF With

\* A member that was there stays.
LEMMA WithKeeps ==
  ASSUME NEW f, NEW g, NEW x \in DOMAIN f
  PROVE  x \in DOMAIN With(f, g) /\ With(f, g)[x] = f[x]
BY DEF With

\* An optional member is read back as it was, or as nothing.
LEMMA OptionalMember ==
  ASSUME NEW name
  PROVE  /\ DOMAIN Optional(name, {}) = {}
         /\ \A v : /\ DOMAIN Optional(name, {v}) = {name}
                   /\ Optional(name, {v})[name] = v
<1>1. \A v : (CHOOSE value \in {v} : TRUE) = v
  OBVIOUS
<1> QED
  BY <1>1 DEF Optional

\* What an info or a reason is: there or not.
AtMostOne(values) == values = {} \/ \E v : values = {v}

\* Reading a member: of the object that has it, or of the other one.
LEMMA FoundWith ==
  ASSUME NEW f, NEW g, NEW name
  PROVE  /\ name \in DOMAIN f => Found(With(f, g), name) = Found(f, name)
         /\ name \notin DOMAIN f => Found(With(f, g), name) = Found(g, name)
<1> DEFINE w == With(f, g)
<1>1. /\ DOMAIN w = DOMAIN f \cup DOMAIN g
      /\ \A x \in DOMAIN f : w[x] = f[x]
      /\ \A x \in DOMAIN g \ DOMAIN f : w[x] = g[x]
  BY WithMembers
<1> HIDE DEF w
<1>2. Found(w, name) = Found(With(f, g), name)
  BY DEF w
<1>3. CASE name \in DOMAIN f
  <2>1. name \in DOMAIN w /\ w[name] = f[name]
    BY <1>1, <1>3
  <2> QED
    BY <1>2, <1>3, <2>1 DEF Found
<1>4. CASE name \notin DOMAIN f
  <2>1. name \in DOMAIN w <=> name \in DOMAIN g
    BY <1>1, <1>4
  <2>2. name \in DOMAIN g => w[name] = g[name]
    BY <1>1, <1>4
  <2> QED
    BY <1>2, <1>4, <2>1, <2>2 DEF Found
<1> QED
  BY <1>3, <1>4

\* What is written when it is there is found when it was there.
LEMMA FoundOptional ==
  ASSUME NEW name, NEW values, AtMostOne(values)
  PROVE  /\ Found(Optional(name, values), name) = values
         /\ DOMAIN Optional(name, values) \subseteq {name}
<1>1. CASE values = {}
  BY <1>1, OptionalMember DEF Found
<1>2. CASE \E v : values = {v}
  <2>1. PICK v : values = {v}
    BY <1>2
  <2>2. /\ DOMAIN Optional(name, values) = {name}
        /\ Optional(name, values)[name] = v
    BY <2>1, OptionalMember
  <2> QED
    BY <2>1, <2>2 DEF Found
<1> QED
  BY <1>1, <1>2 DEF AtMostOne

-----------------------------------------------------------------------------
(* Reservations.                                                           *)

\* The infos of an aggregate, as a document has them.
Infos(a) ==
  With(Optional("approval", a.approval),
       With(Optional("rejection", a.rejection),
            Optional("cancellation", a.cancellation)))

\* The infos of a reservation are found again.
LEMMA InfosFound ==
  ASSUME NEW a, AtMostOne(a.approval), AtMostOne(a.rejection), AtMostOne(a.cancellation)
  PROVE  /\ Found(Infos(a), "approval") = a.approval
         /\ Found(Infos(a), "rejection") = a.rejection
         /\ Found(Infos(a), "cancellation") = a.cancellation
<1> DEFINE first == Optional("approval", a.approval)
           second == Optional("rejection", a.rejection)
           third == Optional("cancellation", a.cancellation)
<1>1. /\ Found(first, "approval") = a.approval
      /\ DOMAIN first \subseteq {"approval"}
  BY FoundOptional
<1>2. /\ Found(second, "rejection") = a.rejection
      /\ DOMAIN second \subseteq {"rejection"}
  BY FoundOptional
<1>3. /\ Found(third, "cancellation") = a.cancellation
      /\ DOMAIN third \subseteq {"cancellation"}
  BY FoundOptional
<1>4. Infos(a) = With(first, With(second, third))
  BY DEF Infos
<1> HIDE DEF first, second, third
<1>5. /\ Found(With(second, third), "rejection") = a.rejection
      /\ Found(With(second, third), "cancellation") = a.cancellation
      /\ DOMAIN With(second, third) \subseteq {"rejection", "cancellation"}
  <2>1. "rejection" \in DOMAIN second \/ Found(second, "rejection") = Found(third, "rejection")
    BY <1>2, <1>3 DEF Found
  <2>2. Found(With(second, third), "rejection") = Found(second, "rejection")
    BY <2>1, FoundWith
  <2>3. Found(With(second, third), "cancellation") = Found(third, "cancellation")
    BY <1>2, FoundWith
  <2>4. DOMAIN With(second, third) = DOMAIN second \cup DOMAIN third
    BY WithMembers
  <2> QED
    BY <2>2, <2>3, <2>4, <1>2, <1>3
<1>6. "approval" \in DOMAIN first \/ Found(With(second, third), "approval") = Found(first, "approval")
  BY <1>1, <1>5 DEF Found
<1> QED
  BY <1>1, <1>4, <1>5, <1>6, FoundWith

\* The members of a reservation document.
LEMMA ReservationMembers ==
  ASSUME NEW a
  PROVE  LET d == ToReservationDocument(a) IN
         /\ d.documentType = "reservation" /\ d.schemaVersion = Schema
         /\ \A name \in {"reservationId", "organizationId", "resourceId", "createdBy",
                         "status", "kind"} : name \in DOMAIN d
         /\ d.reservationId = "reservation" /\ d.organizationId = "organization"
         /\ d.resourceId = "resource" /\ d.createdBy = "user" /\ d.kind = "STANDARD"
         /\ d.startTime = a.interval.start /\ d.endTime = a.interval.end
         /\ d.status = a.status /\ d.version = a.version
         /\ Found(d, "approval") = Found(Infos(a), "approval")
         /\ Found(d, "rejection") = Found(Infos(a), "rejection")
         /\ Found(d, "cancellation") = Found(Infos(a), "cancellation")
<1> DEFINE base ==
             [documentType |-> "reservation", schemaVersion |-> Schema,
              reservationId |-> "reservation", organizationId |-> "organization",
              resourceId |-> "resource", createdBy |-> "user", purpose |-> "",
              kind |-> "STANDARD", startTime |-> a.interval.start,
              endTime |-> a.interval.end, status |-> a.status, version |-> a.version]
           d == With(base, Infos(a))
<1>1. ToReservationDocument(a) = d
  BY DEF ToReservationDocument, Infos
<1>2. DOMAIN base = {"documentType", "schemaVersion", "reservationId", "organizationId",
                     "resourceId", "createdBy", "purpose", "kind", "startTime",
                     "endTime", "status", "version"}
  OBVIOUS
<1>3. \A name \in DOMAIN base : name \in DOMAIN d /\ d[name] = base[name]
  <2> HIDE DEF base
  <2> QED
    BY WithMembers
<1>4. /\ Found(d, "approval") = Found(Infos(a), "approval")
      /\ Found(d, "rejection") = Found(Infos(a), "rejection")
      /\ Found(d, "cancellation") = Found(Infos(a), "cancellation")
  <2> HIDE DEF base
  <2> QED
    BY <1>2, FoundWith
<1> HIDE DEF d
<1> QED
  BY <1>1, <1>2, <1>3, <1>4

\* What the program can know of a reservation that exists.
Contents ==
  [status : Status, version : Nat \ {0}, interval : Interval, approved : BOOLEAN]

\* A whole aggregate that is complete reads back.
LEMMA AggregateReadsBack ==
  ASSUME NEW status \in Status, NEW version \in Nat \ {0}, NEW interval \in Interval,
         NEW approval, NEW rejection, NEW cancellation,
         AtMostOne(approval), AtMostOne(rejection), AtMostOne(cancellation),
         \A info \in approval : NonEmpty(info, {"approvedBy"}),
         \A info \in rejection : NonEmpty(info, {"rejectedBy"}),
         \A info \in cancellation : NonEmpty(info, {"cancelledBy"})
  PROVE  ReservationReadsBack(
           [status |-> status, version |-> version, interval |-> interval,
            approval |-> approval, rejection |-> rejection,
            cancellation |-> cancellation])
<1> DEFINE a == [status |-> status, version |-> version, interval |-> interval,
                 approval |-> approval, rejection |-> rejection,
                 cancellation |-> cancellation]
           d == ToReservationDocument(a)
<1>1. /\ a.approval = approval /\ a.rejection = rejection
      /\ a.cancellation = cancellation /\ a.status = status
      /\ a.version = version /\ a.interval = interval
  OBVIOUS
<1>2. /\ d.documentType = "reservation" /\ d.schemaVersion = Schema
      /\ \A name \in {"reservationId", "organizationId", "resourceId", "createdBy",
                      "status", "kind"} : name \in DOMAIN d
      /\ d.reservationId = "reservation" /\ d.organizationId = "organization"
      /\ d.resourceId = "resource" /\ d.createdBy = "user" /\ d.kind = "STANDARD"
      /\ d.startTime = interval.start /\ d.endTime = interval.end
      /\ d.status = status /\ d.version = version
  <2> HIDE DEF a
  <2> QED
    BY <1>1, ReservationMembers
<1>3. /\ Found(d, "approval") = approval
      /\ Found(d, "rejection") = rejection
      /\ Found(d, "cancellation") = cancellation
  <2> HIDE DEF a
  <2> QED
    BY <1>1, ReservationMembers, InfosFound
<1> HIDE DEF d
<1>4. /\ interval = [start |-> interval.start, end |-> interval.end]
      /\ interval.start < interval.end /\ version > 0
  BY DEF Interval
<1>5. NonEmpty(d, {"reservationId", "organizationId", "resourceId", "createdBy",
                   "status", "kind"})
  <2>1. status # ""
    BY Zenon DEF Status
  <2>2. /\ d["reservationId"] # "" /\ d["organizationId"] # "" /\ d["resourceId"] # ""
        /\ d["createdBy"] # "" /\ d["kind"] # "" /\ d["status"] # ""
    BY <1>2, <2>1, Zenon
  <2> QED
    BY <1>2, <2>2, Zenon DEF NonEmpty
<1>6. /\ "approval" \in DOMAIN d => NonEmpty(d.approval, {"approvedBy"})
      /\ "rejection" \in DOMAIN d => NonEmpty(d.rejection, {"rejectedBy"})
      /\ "cancellation" \in DOMAIN d => NonEmpty(d.cancellation, {"cancelledBy"})
  <2>1. /\ "approval" \in DOMAIN d => d.approval \in approval
        /\ "rejection" \in DOMAIN d => d.rejection \in rejection
        /\ "cancellation" \in DOMAIN d => d.cancellation \in cancellation
    BY <1>3 DEF Found
  <2> QED
    BY <2>1
<1>7. ReservationDocumentValid(d)
  BY <1>2, <1>4, <1>5, <1>6 DEF ReservationDocumentValid, IntervalValid
<1>8. ToDomainReservation(d) = a
  BY <1>2, <1>3, <1>4 DEF ToDomainReservation
<1> QED
  BY <1>7, <1>8 DEF ReservationReadsBack, d

\* So does a reservation of the store, with or without a reason.
LEMMA WholeReadsBack ==
  ASSUME NEW r, r.status \in Status, r.version \in Nat \ {0}, r.interval \in Interval,
         NEW reason, AtMostOne(reason)
  PROVE  ReservationReadsBack(Whole(r, reason))
<1> DEFINE approval == IF r.approved THEN {ApprovalInfo("user", 0)} ELSE {}
           rejection == IF r.status = "REJECTED"
                          THEN {RejectionInfo("user", 0, reason)} ELSE {}
           cancellation == IF r.status = "CANCELLED"
                             THEN {CancellationInfo("user", 0, reason)} ELSE {}
<1>1. /\ NonEmpty(ApprovalInfo("user", 0), {"approvedBy"})
      /\ NonEmpty(RejectionInfo("user", 0, reason), {"rejectedBy"})
      /\ NonEmpty(CancellationInfo("user", 0, reason), {"cancelledBy"})
  <2>1. NonEmpty(ApprovalInfo("user", 0), {"approvedBy"})
    <3>1. /\ "approvedBy" \in DOMAIN ApprovalInfo("user", 0)
          /\ ApprovalInfo("user", 0)["approvedBy"] = "user"
      BY DEF ApprovalInfo
    <3> QED
      BY <3>1, Zenon DEF NonEmpty
  <2>2. NonEmpty(RejectionInfo("user", 0, reason), {"rejectedBy"})
    <3> DEFINE by == [rejectedBy |-> "user", rejectedAt |-> 0]
    <3>1. "rejectedBy" \in DOMAIN by /\ by["rejectedBy"] = "user"
      OBVIOUS
    <3> HIDE DEF by
    <3>2. /\ "rejectedBy" \in DOMAIN With(by, Optional("reason", reason))
          /\ With(by, Optional("reason", reason))["rejectedBy"] = "user"
      BY <3>1, WithKeeps
    <3>3. RejectionInfo("user", 0, reason) = With(by, Optional("reason", reason))
      BY DEF RejectionInfo, by
    <3> QED
      BY <3>2, <3>3, Zenon DEF NonEmpty
  <2>3. NonEmpty(CancellationInfo("user", 0, reason), {"cancelledBy"})
    <3> DEFINE by == [cancelledBy |-> "user", cancelledAt |-> 0]
    <3>1. "cancelledBy" \in DOMAIN by /\ by["cancelledBy"] = "user"
      OBVIOUS
    <3> HIDE DEF by
    <3>2. /\ "cancelledBy" \in DOMAIN With(by, Optional("reason", reason))
          /\ With(by, Optional("reason", reason))["cancelledBy"] = "user"
      BY <3>1, WithKeeps
    <3>3. CancellationInfo("user", 0, reason) = With(by, Optional("reason", reason))
      BY DEF CancellationInfo, by
    <3> QED
      BY <3>2, <3>3, Zenon DEF NonEmpty
  <2> QED
    BY <2>1, <2>2, <2>3
<1>2. /\ AtMostOne(approval) /\ AtMostOne(rejection) /\ AtMostOne(cancellation)
      /\ \A info \in approval : NonEmpty(info, {"approvedBy"})
      /\ \A info \in rejection : NonEmpty(info, {"rejectedBy"})
      /\ \A info \in cancellation : NonEmpty(info, {"cancelledBy"})
  BY <1>1 DEF AtMostOne
<1>3. Whole(r, reason) =
        [status |-> r.status, version |-> r.version, interval |-> r.interval,
         approval |-> approval, rejection |-> rejection, cancellation |-> cancellation]
  BY DEF Whole
<1> HIDE DEF approval, rejection, cancellation
<1> QED
  BY <1>2, <1>3, AggregateReadsBack

-----------------------------------------------------------------------------
(* Events.                                                                 *)

\* An event is read back whenever its payload is valid.
LEMMA EventIsReadBack ==
  ASSUME NEW type, NEW payload, PayloadValid(type, payload)
  PROVE  EventReadsBack(Event(type, payload))
<1> DEFINE d == ToOutboxDocument(Event(type, payload))
<1>1. /\ d.documentType = "outbox" /\ d.schemaVersion = Schema /\ d.attemptCount = 0
      /\ d.aggregateType = "Reservation" /\ d.status = "PENDING"
      /\ d.eventType = type /\ d.payload = payload
      /\ "publishedAt" \notin DOMAIN d
      /\ NonEmpty(d, {"eventId", "organizationId", "aggregateId"})
  BY DEF ToOutboxDocument, Event, NonEmpty
<1> HIDE DEF d
<1>2. OutboxDocumentValid(d)
  BY <1>1 DEF OutboxDocumentValid, OutboxStatus
<1>3. Event(d.eventType, d.payload) = Event(type, payload)
  BY <1>1
<1> QED
  BY <1>2, <1>3 DEF EventReadsBack, ToOutboxMessage, d

\* The transitions of the aggregate keep it a reservation.
LEMMA TransitionsStay ==
  ASSUME NEW r \in Contents
  PROVE  /\ Approve(r) \in Contents /\ Reject(r) \in Contents /\ Cancel(r) \in Contents
         /\ Expire(r) \in Contents /\ Complete(r) \in Contents
         /\ Extend(r, r.interval.end + 1) \in Contents
<1>1. /\ r = [status |-> r.status, version |-> r.version, interval |-> r.interval,
              approved |-> r.approved]
      /\ r.version + 1 \in Nat \ {0} /\ r.approved \in BOOLEAN
      /\ r.interval \in Interval
  BY DEF Contents
<1>2. \A status \in Status : Moved(r, status) \in Contents
  BY <1>1 DEF Moved, Contents
<1>3. Approve(r) \in Contents
  BY <1>1, <1>2 DEF Approve, Contents, Status
<1>4. [r.interval EXCEPT !.end = r.interval.end + 1] \in Interval
  BY <1>1 DEF Interval
<1>5. Extend(r, r.interval.end + 1) \in Contents
  BY <1>1, <1>4 DEF Extend, Contents
<1> QED
  BY <1>2, <1>3, <1>5 DEF Reject, Cancel, Expire, Complete, Status

\* The payload of an event that tells of an interval.
LEMMA IntervalMembers ==
  ASSUME NEW i \in Interval, NEW more,
         DOMAIN more \cap {"startTime", "endTime"} = {}
  PROVE  LET p == With(IntervalPayload(i), more) IN
         /\ PayloadInterval(p)
         /\ \A x \in DOMAIN more : x \in DOMAIN p /\ p[x] = more[x]
<1> DEFINE p == With(IntervalPayload(i), more)
<1>1. /\ DOMAIN IntervalPayload(i) = {"startTime", "endTime"}
      /\ IntervalPayload(i)["startTime"] = i.start
      /\ IntervalPayload(i)["endTime"] = i.end
  BY DEF IntervalPayload
<1>2. /\ "startTime" \in DOMAIN p /\ p["startTime"] = i.start
      /\ "endTime" \in DOMAIN p /\ p["endTime"] = i.end
  BY <1>1, WithKeeps
<1>3. ASSUME NEW x \in DOMAIN more PROVE x \in DOMAIN p /\ p[x] = more[x]
  <2>1. x \notin DOMAIN IntervalPayload(i)
    BY <1>1
  <2> QED
    BY <2>1 DEF With
<1> HIDE DEF p
<1>4. PayloadInterval(p)
  BY <1>2 DEF PayloadInterval, IntervalValid, Interval
<1> QED
  BY <1>3, <1>4 DEF p

\* The event of a confirmation, by somebody or by nobody.
LEMMA ConfirmationReadsBack ==
  ASSUME NEW a, a.interval \in Interval, NEW by \in {{}, {"user"}}
  PROVE  EventReadsBack(ReservationConfirmedEvent(a, by))
<1> DEFINE base == With(IntervalPayload(a.interval), [resourceId |-> "resource"])
           p == With(base, Optional("confirmedBy", by))
<1>1. /\ DOMAIN [resourceId |-> "resource"] = {"resourceId"}
      /\ [resourceId |-> "resource"]["resourceId"] = "resource"
  OBVIOUS
<1>2. /\ PayloadInterval(base)
      /\ "resourceId" \in DOMAIN base /\ base["resourceId"] = "resource"
  BY <1>1, IntervalMembers
<1>3. DOMAIN base = {"startTime", "endTime", "resourceId"}
  <2>1. DOMAIN IntervalPayload(a.interval) = {"startTime", "endTime"}
    BY DEF IntervalPayload
  <2>2. DOMAIN base = {"startTime", "endTime"} \cup {"resourceId"}
    BY <1>1, <2>1 DEF With
  <2> QED
    BY <2>2
<1> HIDE DEF base
<1>4. /\ \A x \in DOMAIN base : x \in DOMAIN p /\ p[x] = base[x]
      /\ "confirmedBy" \in DOMAIN p => p["confirmedBy"] = "user"
  <2>1. \A x \in DOMAIN Optional("confirmedBy", by) :
          Optional("confirmedBy", by)[x] = "user"
    BY OptionalMember DEF Optional
  <2>2. \A x \in DOMAIN base : x \in DOMAIN p /\ p[x] = base[x]
    BY WithKeeps
  <2>3. "confirmedBy" \in DOMAIN p =>
          /\ "confirmedBy" \in DOMAIN Optional("confirmedBy", by)
          /\ p["confirmedBy"] = Optional("confirmedBy", by)["confirmedBy"]
    BY <1>3 DEF With
  <2> QED
    BY <2>1, <2>2, <2>3
<1> HIDE DEF p
<1>5. PayloadInterval(p)
  BY <1>2, <1>4 DEF PayloadInterval, IntervalValid
<1>6. /\ NonEmpty(p, {"resourceId"})
      /\ "confirmedBy" \in DOMAIN p => NonEmpty(p, {"confirmedBy"})
  <2>1. "resourceId" \in DOMAIN p /\ p["resourceId"] = "resource"
    BY <1>2, <1>4
  <2> QED
    BY <1>4, <2>1, Zenon DEF NonEmpty
<1>7. PayloadValid("ReservationConfirmed", p)
  BY <1>5, <1>6 DEF PayloadValid, ConfirmedPayloadValid
<1> QED
  BY <1>7, EventIsReadBack DEF ReservationConfirmedEvent, p, base

\* The other two events of a creation.
LEMMA CreationsReadBack ==
  ASSUME NEW a, a.interval \in Interval
  PROVE  /\ a.status \in LiveStatus => EventReadsBack(ReservationCreatedEvent(a))
         /\ EventReadsBack(ReservationApprovalRequestedEvent(a))
<1>1. ASSUME a.status \in LiveStatus PROVE EventReadsBack(ReservationCreatedEvent(a))
  <2> DEFINE more == [resourceId |-> "resource", createdBy |-> "user",
                      kind |-> "STANDARD", initialStatus |-> a.status]
             p == With(IntervalPayload(a.interval), more)
  <2>1. DOMAIN more = {"resourceId", "createdBy", "kind", "initialStatus"}
    OBVIOUS
  <2>2. /\ more["resourceId"] = "resource" /\ more["createdBy"] = "user"
        /\ more["kind"] = "STANDARD" /\ more["initialStatus"] = a.status
    OBVIOUS
  <2> HIDE DEF more
  <2>3. PayloadInterval(p) /\ \A x \in DOMAIN more : x \in DOMAIN p /\ p[x] = more[x]
    BY <2>1, IntervalMembers
  <2> HIDE DEF p
  <2>4. /\ {"resourceId", "createdBy", "kind", "initialStatus"} \subseteq DOMAIN p
        /\ p["resourceId"] = "resource" /\ p["createdBy"] = "user"
        /\ p["kind"] = "STANDARD" /\ p["initialStatus"] = a.status
    BY <2>1, <2>2, <2>3
  <2>5. NonEmpty(p, {"resourceId", "createdBy", "kind", "initialStatus"})
    <3>1. a.status # ""
      BY <1>1, Zenon DEF LiveStatus
    <3> QED
      BY <2>4, <3>1, Zenon DEF NonEmpty
  <2>6. PayloadValid("ReservationCreated", p)
    BY <1>1, <2>3, <2>4, <2>5 DEF PayloadValid, CreatedPayloadValid
  <2> QED
    BY <2>6, EventIsReadBack DEF ReservationCreatedEvent, p, more
<1>2. EventReadsBack(ReservationApprovalRequestedEvent(a))
  <2> DEFINE more == [resourceId |-> "resource", requestedBy |-> "user",
                      kind |-> "STANDARD"]
             p == With(IntervalPayload(a.interval), more)
  <2>1. DOMAIN more = {"resourceId", "requestedBy", "kind"}
    OBVIOUS
  <2>2. /\ more["resourceId"] = "resource" /\ more["requestedBy"] = "user"
        /\ more["kind"] = "STANDARD"
    OBVIOUS
  <2> HIDE DEF more
  <2>3. PayloadInterval(p) /\ \A x \in DOMAIN more : x \in DOMAIN p /\ p[x] = more[x]
    BY <2>1, IntervalMembers
  <2> HIDE DEF p
  <2>4. /\ {"resourceId", "requestedBy", "kind"} \subseteq DOMAIN p
        /\ p["resourceId"] = "resource" /\ p["requestedBy"] = "user"
        /\ p["kind"] = "STANDARD"
    BY <2>1, <2>2, <2>3
  <2>5. NonEmpty(p, {"resourceId", "requestedBy", "kind"})
    BY <2>4, Zenon DEF NonEmpty
  <2>6. PayloadValid("ReservationApprovalRequested", p)
    BY <2>3, <2>5 DEF PayloadValid, ApprovalRequestedPayloadValid
  <2> QED
    BY <2>6, EventIsReadBack DEF ReservationApprovalRequestedEvent, p, more
<1> QED
  BY <1>1, <1>2

\* The event of a rejection, of a cancellation and of an expiry.
LEMMA EndingsReadBack ==
  ASSUME NEW previous \in LiveStatus, NEW reason
  PROVE  /\ EventReadsBack(ReservationRejectedEvent("user"))
         /\ EventReadsBack(ReservationCancelledEvent("user", previous, reason))
         /\ EventReadsBack(ReservationExpiredEvent(previous))
<1>0. previous # ""
  BY Zenon DEF LiveStatus
<1>1. EventReadsBack(ReservationRejectedEvent("user"))
  <2> DEFINE p == [resourceId |-> "resource", rejectedBy |-> "user"]
  <2>1. /\ {"resourceId", "rejectedBy"} \subseteq DOMAIN p
        /\ p["resourceId"] = "resource" /\ p["rejectedBy"] = "user"
    OBVIOUS
  <2> HIDE DEF p
  <2>2. NonEmpty(p, {"resourceId", "rejectedBy"})
    BY <2>1, Zenon DEF NonEmpty
  <2>3. PayloadValid("ReservationRejected", p)
    BY <2>2 DEF PayloadValid, RejectedPayloadValid
  <2> QED
    BY <2>3, EventIsReadBack DEF ReservationRejectedEvent, p
<1>2. EventReadsBack(ReservationCancelledEvent("user", previous, reason))
  <2> DEFINE base == [resourceId |-> "resource", cancelledBy |-> "user",
                      previousStatus |-> previous]
             p == With(base, Optional("reason", reason))
  <2>1. /\ DOMAIN base = {"resourceId", "cancelledBy", "previousStatus"}
        /\ base["resourceId"] = "resource" /\ base["cancelledBy"] = "user"
        /\ base["previousStatus"] = previous
    OBVIOUS
  <2> HIDE DEF base
  <2>2. \A x \in DOMAIN base : x \in DOMAIN p /\ p[x] = base[x]
    BY WithKeeps
  <2> HIDE DEF p
  <2>3. /\ {"resourceId", "cancelledBy", "previousStatus"} \subseteq DOMAIN p
        /\ p["resourceId"] = "resource" /\ p["cancelledBy"] = "user"
        /\ p["previousStatus"] = previous
    BY <2>1, <2>2
  <2>4. NonEmpty(p, {"resourceId", "cancelledBy", "previousStatus"})
    BY <1>0, <2>3, Zenon DEF NonEmpty
  <2>5. PayloadValid("ReservationCancelled", p)
    BY <2>3, <2>4 DEF PayloadValid, CancelledPayloadValid
  <2> QED
    BY <2>5, EventIsReadBack DEF ReservationCancelledEvent, p, base
<1>3. EventReadsBack(ReservationExpiredEvent(previous))
  <2> DEFINE p == [resourceId |-> "resource", previousStatus |-> previous]
  <2>1. /\ {"resourceId", "previousStatus"} \subseteq DOMAIN p
        /\ p["resourceId"] = "resource" /\ p["previousStatus"] = previous
    OBVIOUS
  <2> HIDE DEF p
  <2>2. NonEmpty(p, {"resourceId", "previousStatus"})
    BY <1>0, <2>1, Zenon DEF NonEmpty
  <2>3. PayloadValid("ReservationExpired", p)
    BY <2>1, <2>2 DEF PayloadValid, ExpiredPayloadValid
  <2> QED
    BY <2>3, EventIsReadBack DEF ReservationExpiredEvent, p
<1> QED
  BY <1>1, <1>2, <1>3

\* The event of an extension.
LEMMA ExtensionReadsBack ==
  ASSUME NEW i \in Interval, NEW j \in Interval, i.start = j.start, i.end < j.end
  PROVE  EventReadsBack(ReservationExtendedEvent("user", i, j))
<1> DEFINE p == [resourceId |-> "resource", extendedBy |-> "user",
                 previousStartTime |-> i.start, previousEndTime |-> i.end,
                 extendedStartTime |-> j.start, extendedEndTime |-> j.end]
<1>1. /\ {"resourceId", "extendedBy"} \subseteq DOMAIN p
      /\ p["resourceId"] = "resource" /\ p["extendedBy"] = "user"
      /\ p.previousStartTime = i.start /\ p.previousEndTime = i.end
      /\ p.extendedStartTime = j.start /\ p.extendedEndTime = j.end
  OBVIOUS
<1> HIDE DEF p
<1>2. NonEmpty(p, {"resourceId", "extendedBy"})
  BY <1>1, Zenon DEF NonEmpty
<1>3. i.start < i.end /\ j.start < j.end
  BY DEF Interval
<1>4. PayloadValid("ReservationExtended", p)
  BY <1>1, <1>2, <1>3 DEF PayloadValid, ExtendedPayloadValid, IntervalValid
<1> QED
  BY <1>4, EventIsReadBack DEF ReservationExtendedEvent, p

\* The event of a completion.
LEMMA CompletionReadsBack ==
  ASSUME NEW a, a.interval \in Interval
  PROVE  EventReadsBack(ReservationCompletedEvent(a))
<1> DEFINE more == [resourceId |-> "resource"]
           p == With(IntervalPayload(a.interval), more)
<1>1. DOMAIN more = {"resourceId"} /\ more["resourceId"] = "resource"
  OBVIOUS
<1> HIDE DEF more
<1>2. PayloadInterval(p) /\ "resourceId" \in DOMAIN p /\ p["resourceId"] = "resource"
  BY <1>1, IntervalMembers
<1> HIDE DEF p
<1>3. NonEmpty(p, {"resourceId"})
  BY <1>2, Zenon DEF NonEmpty
<1>4. PayloadValid("ReservationCompleted", p)
  BY <1>2, <1>3 DEF PayloadValid, CompletedPayloadValid
<1> QED
  BY <1>4, EventIsReadBack DEF ReservationCompletedEvent, p, more

-----------------------------------------------------------------------------
(* Everything that can become of a reservation.                            *)

\* Every reservation reads back, and so does whatever becomes of it next.
THEOREM ReservationsAreReadable ==
  ASSUME NEW r \in Contents
  PROVE  Readable(r)
<1> SUFFICES ASSUME NEW reason \in {{}, {"why"}}
             PROVE  /\ ReservationReadsBack(Whole(r, reason))
                    /\ \A o \in Outcomes(r, reason) :
                         /\ ReservationReadsBack(Whole(o.after, reason))
                         /\ EventReadsBack(o.event)
  BY DEF Readable
<1>1. ASSUME NEW c \in Contents PROVE ReservationReadsBack(Whole(c, reason))
  <2>1. /\ c.status \in Status /\ c.version \in Nat \ {0} /\ c.interval \in Interval
        /\ AtMostOne(reason)
    BY <1>1 DEF Contents, AtMostOne
  <2> QED
    BY <2>1, WholeReadsBack
<1> DEFINE extended == Extend(r, r.interval.end + 1)
           Kept(o) == /\ o.after \in Contents
                      /\ EventReadsBack(o.event)
<1>2. /\ r.interval \in Interval /\ r.interval.end \in Int
      /\ ~IsTerminal(r.status) => r.status \in LiveStatus
  BY DEF Contents, Interval, IsTerminal, LiveStatus
<1>3. Kept(Outcome(Approve(r), ReservationConfirmedEvent(Approve(r), {"user"})))
  <2>1. Approve(r) \in Contents /\ Approve(r).interval \in Interval
    BY TransitionsStay DEF Contents
  <2> QED
    BY <2>1, ConfirmationReadsBack DEF Outcome
<1>4. CanReject(r) => Kept(Outcome(Reject(r), ReservationRejectedEvent("user")))
  BY TransitionsStay, EndingsReadBack DEF Outcome, LiveStatus
<1>5. CanCancel(r) =>
        Kept(Outcome(Cancel(r), ReservationCancelledEvent("user", r.status, reason)))
  BY <1>2, TransitionsStay, EndingsReadBack DEF Outcome, CanCancel
<1>6. Kept(Outcome(extended,
                   ReservationExtendedEvent("user", r.interval, extended.interval)))
  <2>1. extended \in Contents /\ extended.interval \in Interval
    BY TransitionsStay DEF Contents
  <2>2. /\ extended.interval.start = r.interval.start
        /\ extended.interval.end = r.interval.end + 1
    BY <1>2 DEF Extend, Contents, Interval
  <2>3. r.interval.end < extended.interval.end
    BY <1>2, <2>2
  <2> HIDE DEF extended
  <2> QED
    BY <1>2, <2>1, <2>2, <2>3, ExtensionReadsBack DEF Outcome
<1>7. CanExpire(r) => Kept(Outcome(Expire(r), ReservationExpiredEvent(r.status)))
  BY <1>2, TransitionsStay, EndingsReadBack DEF Outcome, CanExpire
<1>8. Kept(Outcome(Complete(r), ReservationCompletedEvent(r)))
  <2>1. EventReadsBack(ReservationCompletedEvent(r))
    BY <1>2, CompletionReadsBack
  <2> QED
    BY <2>1, TransitionsStay DEF Outcome
<1>9. ASSUME NEW o \in Outcomes(r, reason) PROVE Kept(o)
  <2> HIDE DEF Kept
  <2> QED
    BY <1>3, <1>4, <1>5, <1>6, <1>7, <1>8 DEF Outcomes, If
<1> QED
  BY <1>1, <1>9

-----------------------------------------------------------------------------
(* Idempotency records.                                                    *)

\* A record under way, a success or a rejection is read back.
THEOREM RecordsReadBack ==
  ASSUME NEW owner, NEW interval \in Interval, NEW status, NEW result,
         \/ status = "PROCESSING" /\ result = "none"
         \/ /\ status = "SUCCEEDED"
            /\ result \in {"CREATED_CONFIRMED", "CREATED_PENDING_APPROVAL"}
         \/ status = "FAILED_PERMANENT" /\ result \in RejectionResults
  PROVE  RecordReadsBack([status |-> status, owner |-> owner, result |-> result], interval)
<1> DEFINE record == [status |-> status, owner |-> owner, result |-> result]
           base == [documentType |-> "idempotency", schemaVersion |-> Schema,
                    organizationId |-> "organization", creatorId |-> "user",
                    operation |-> "CREATE_RESERVATION", status |-> status,
                    reservationId |-> owner, createdAt |-> owner]
           told == ToResultDocument(record, interval)
           d == With(base, Optional("result", IF result = "none" THEN {} ELSE {told}))
<1>1. record.status = status /\ record.owner = owner /\ record.result = result
  OBVIOUS
<1>2. ToIdempotencyDocument(record, interval) = d
  BY <1>1 DEF ToIdempotencyDocument
<1>3. /\ DOMAIN base = {"documentType", "schemaVersion", "organizationId", "creatorId",
                        "operation", "status", "reservationId", "createdAt"}
      /\ base["documentType"] = "idempotency" /\ base["schemaVersion"] = Schema
      /\ base["organizationId"] = "organization" /\ base["creatorId"] = "user"
      /\ base["operation"] = "CREATE_RESERVATION" /\ base["status"] = status
      /\ base["reservationId"] = owner /\ base["createdAt"] = owner
  OBVIOUS
<1>4. /\ result \in RejectionResults =>
           DOMAIN told = {"creationStatus"} /\ told.creationStatus = result
      /\ result \notin RejectionResults =>
           /\ DOMAIN told = {"creationStatus"} \cup SuccessFields
           /\ told.creationStatus = result /\ told.organizationId = "organization"
           /\ told.reservationId = owner /\ told.creatorId = "user"
           /\ told.intervalStart = interval.start /\ told.intervalEnd = interval.end
           /\ told.reservationStatus = StatusAfter(result)
           /\ told.initialVersion = 1 /\ told.createdAt = owner
  BY <1>1 DEF ToResultDocument, SuccessFields
<1> HIDE DEF base, told, record
<1>5. /\ \A x \in DOMAIN base : x \in DOMAIN d /\ d[x] = base[x]
      /\ "result" \in DOMAIN d <=> result # "none"
      /\ result # "none" => d["result"] = told
  <2>1. \A x \in DOMAIN base : x \in DOMAIN d /\ d[x] = base[x]
    BY WithKeeps
  <2>2. CASE result = "none"
    BY <1>3, <2>1, <2>2, OptionalMember DEF With
  <2>3. CASE result # "none"
    <3>1. /\ DOMAIN Optional("result", {told}) = {"result"}
          /\ Optional("result", {told})["result"] = told
      BY OptionalMember
    <3> QED
      BY <1>3, <2>1, <2>3, <3>1 DEF With
  <2> QED
    BY <2>2, <2>3
<1> HIDE DEF d
<1>6. /\ d.documentType = "idempotency" /\ d.schemaVersion = Schema
      /\ d.organizationId = "organization" /\ d.creatorId = "user"
      /\ d.status = status /\ d.reservationId = owner /\ d.createdAt = owner
  BY <1>3, <1>5
<1>7. NonEmpty(d, {"organizationId", "creatorId", "operation"})
  <2>1. /\ {"organizationId", "creatorId", "operation"} \subseteq DOMAIN d
        /\ d["organizationId"] = "organization" /\ d["creatorId"] = "user"
        /\ d["operation"] = "CREATE_RESERVATION"
    BY <1>3, <1>5
  <2> QED
    BY <2>1, Zenon DEF NonEmpty
<1>8. /\ status = "PROCESSING" <=> result = "none"
      /\ status = "SUCCEEDED" => result # "none" /\ result \notin RejectionResults
      /\ status = "FAILED_PERMANENT" => result \in RejectionResults
  BY DEF RejectionResults
<1>9. ASSUME status = "SUCCEEDED" PROVE SuccessValid(d, d.result) /\ SnapshotValid(d.result)
  <2>1. interval.start < interval.end /\ StatusAfter(result) \in Status
    BY DEF Interval, StatusAfter, Status
  <2> QED
    BY <1>4, <1>5, <1>6, <1>8, <1>9, <2>1
    DEF SuccessValid, SnapshotValid, IntervalValid
<1>10. ASSUME status = "FAILED_PERMANENT"
       PROVE  RejectionValid(d.result) /\ SnapshotValid(d.result)
  BY <1>4, <1>5, <1>8, <1>10 DEF RejectionValid, SnapshotValid, SuccessFields
<1>11. IdempotencyDocumentValid(d)
  BY <1>5, <1>6, <1>7, <1>8, <1>9, <1>10 DEF IdempotencyDocumentValid
<1>12. ToIdempotencyRecord(d) = record
  <2>1. (IF "result" \in DOMAIN d THEN d.result.creationStatus ELSE "none") = result
    BY <1>4, <1>5
  <2> QED
    BY <1>6, <2>1 DEF ToIdempotencyRecord, record
<1>13. "result" \in DOMAIN d => SnapshotValid(d.result)
  BY <1>5, <1>8, <1>9, <1>10
<1> QED
  BY <1>2, <1>11, <1>12, <1>13 DEF RecordReadsBack, record

=============================================================================
