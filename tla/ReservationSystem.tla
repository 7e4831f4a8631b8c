-------------------------- MODULE ReservationSystem --------------------------
(***************************************************************************)
(* The reservation commands together: requests that create reservations    *)
(* and commands that decide them, on one set of collections.               *)
(***************************************************************************)
EXTENDS CreateReservation, DecideReservation, Endpoints, Documents

systemVars == <<storeVars, requestVars, decisionVars>>

SystemTypeOK == TypeOK /\ DecisionTypeOK

SystemInit == Init /\ DecisionInit

SystemNext ==
  \/ Next /\ UNCHANGED decisionVars
  \/ DecisionNext /\ UNCHANGED requestVars

SystemSpec == SystemInit /\ [][SystemNext]_systemVars

-----------------------------------------------------------------------------
(* What callers see of it.                                                 *)

\* The route of a decision; no route leads to the extend handler.
DecisionEndpoint ==
  [approve |-> ApproveEndpoint, reject |-> RejectEndpoint,
   cancel |-> AdminCancelEndpoint]

\* The statuses with which a decision's answer can reach its caller.
StatusesOf(d) ==
  LET endpoint == DecisionEndpoint[Op(d)] IN
  IF answer[d] \in DOMAIN endpoint.on THEN {endpoint.on[answer[d]]}
                                      ELSE endpoint.errors

\* The caller has been told that the request was at fault: a 4xx, or what the
\* extend handler returns instead of throwing.
Refused(d) ==
  /\ answer[d] \notin {"none", "OK"}
  /\ IF Op(d) \in DOMAIN DecisionEndpoint
       THEN \A status \in StatusesOf(d) : status \in 400..499
       ELSE answer[d] \notin {"ERROR", "CONCURRENCY_CONFLICT"}

\* find_pending_approvals(), which the list handler filters once more.
PendingApprovals ==
  {q \in Requests : reservation[q].status = "PENDING_APPROVAL"}

\* Mutant: only approvals are decisions.
IsApproved(r) == r.status = "CONFIRMED" /\ r.approved

IsDecided(r) ==
  \/ r.status = "REJECTED"
  \/ r.status = "CONFIRMED" /\ r.approved

\* find_decided_approvals(): rejected, or confirmed by somebody.
DecidedApprovals == {q \in Requests : IsDecided(reservation[q])}

\* Of what reservations may come to be, what cannot be read, now or after the
\* next transition.
Content(q) ==
  [status |-> reservation[q].status, version |-> reservation[q].version,
   interval |-> reservation[q].interval, approved |-> reservation[q].approved]

Ends == {Command[q].interval.end : q \in Requests} \cup {Decision[d].end : d \in Decisions}

PossibleContents ==
  [status : Status, version : 1..(Cardinality(Decisions) + 1),
   interval : {i \in [start : {Command[q].interval.start : q \in Requests}, end : Ends] :
                 i.start < i.end},
   approved : BOOLEAN]

UnreadableContents == UNION {If(~Readable(r), r) : r \in PossibleContents}

UnreadableEvents ==
  {told \in Requests \X EventTypes :
     ~EventReadsBack(CreationEvent(Created(told[1]), told[2]))}

UnreadableRecords ==
  {record \in IdempotencyRecord :
     ~RecordReadsBack(record, Command[record.owner].interval)}

-----------------------------------------------------------------------------
(* Properties.                                                             *)

\* Every decision that was answered OK is in the document: none has been
\* overwritten by another that did not know of it
\* (docs/08-concurrency.md, guarantee 2).
NoLostUpdate ==
  \A q \in Requests :
    Exists(q) =>
      reservation[q].version - 1 >=
        Cardinality({d \in Decisions : Target(d) = q /\ answer[d] = "OK"})

\* The other way round: whatever has become of a reservation, somebody did it
\* whose request has not been refused.  A client that is told a 4xx can trust
\* that its request changed nothing; one that is told a 500 cannot.
RefusalsChangeNothing ==
  \A q \in Requests :
    Exists(q) =>
      reservation[q].version - 1 <=
        Cardinality({d \in Decisions : Target(d) = q /\ ~Refused(d)})

\* The version of a reservation accounts for the decisions on it.
DecisionsAccount == NoLostUpdate /\ RefusalsChangeNothing

\* What was decided stays decided: a cancelled or rejected reservation never
\* changes, an approved one never falls back, and an interval never shrinks.
DecisionsStand ==
  [][\A q \in Requests :
       Exists(q) =>
         /\ IsTerminal(reservation[q].status) => reservation'[q] = reservation[q]
         /\ reservation[q].approved => reservation'[q].approved
         /\ reservation'[q].interval.start = reservation[q].interval.start
         /\ reservation'[q].interval.end >= reservation[q].interval.end]_systemVars

\* An OK is not taken back: a reservation whose rejection or cancellation was
\* answered OK is rejected or cancelled for good, and one whose approval or
\* extension was answered OK is confirmed unless somebody cancelled it.
AnswersHold ==
  \A d \in Decisions :
    answer[d] = "OK" =>
      LET status == reservation[Target(d)].status IN
      CASE Op(d) = "reject" -> status = "REJECTED"
        [] Op(d) = "cancel" -> status = "CANCELLED"
        [] OTHER -> status \in {"CONFIRMED", "CANCELLED"}

\* The approver's listings and the decisions agree: what has been approved or
\* rejected is in the history of decisions unless it was cancelled since, what
\* is in the history somebody decided, and what is listed as pending nobody
\* has decided yet.
ListingsShowDecisions ==
  /\ \A d \in Decisions :
       Op(d) \in {"approve", "reject"} /\ answer[d] = "OK" =>
         \/ Target(d) \in DecidedApprovals
         \/ reservation[Target(d)].status = "CANCELLED"
  /\ \A q \in DecidedApprovals :
       \E d \in Decisions :
         Target(d) = q /\ Op(d) \in {"approve", "reject"} /\ ~Refused(d)
  /\ \A q \in PendingApprovals, d \in Decisions :
       Target(d) = q => answer[d] # "OK"

\* Whatever the program has written it can read again, as what it wrote, and
\* that stays so whichever transition comes next: no document of its own makes
\* a listing, a command or the relay's poll fail.
NothingUnreadable ==
  /\ \A q \in Requests :
       Exists(q) =>
         Content(q) \in PossibleContents /\ Content(q) \notin UnreadableContents
  /\ \A q \in Requests : \A type \in outbox[q] : <<q, type>> \notin UnreadableEvents
  /\ \A k \in Keys : idempotency[k] \notin UnreadableRecords

\* A retry with the same key and payload is never told that it conflicts
\* (docs/08-concurrency.md:36, CT-008).
RetryNeverConflicts ==
  \A p, q \in Requests :
    SameKey(p, q) /\ Fingerprint(p) = Fingerprint(q) /\ reply[p] # "none" =>
      reply[q] # "IDEMPOTENCY_CONFLICT"

\* Every committed transition has its event in the outbox
\* (docs/08-concurrency.md, CT-009).
EveryTransitionHasEvent ==
  \A q \in Requests :
    reservation[q].approved => "ReservationConfirmed" \in outbox[q]

=============================================================================
