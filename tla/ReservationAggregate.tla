------------------------ MODULE ReservationAggregate ------------------------
(***************************************************************************)
(* The Reservation aggregate and the policies that judge one, as pure      *)
(* operators.  Of a reservation the model keeps what can change: status,   *)
(* version, interval, and whether it carries approval_info.                *)
(***************************************************************************)
EXTENDS TimeIntervals

Status ==
  {"PENDING_APPROVAL", "CONFIRMED", "CANCELLED", "REJECTED", "EXPIRED",
   "COMPLETED"}

IsTerminal(status) == status \notin {"PENDING_APPROVAL", "CONFIRMED"}

BlocksSchedule(status) == status = "CONFIRMED"

HasReservationConflict(requested, r) ==
  BlocksSchedule(r.status) /\ Overlaps(requested, r.interval)

kMaximumStandardDuration == 12
kMaximumMaintenanceDuration == 24

\* ReservationPolicy::evaluate() finds a violation.
PolicyViolated(interval, kind, authorized) ==
  \/ /\ kind = "MAINTENANCE"
     /\ ~authorized \/ Duration(interval) > kMaximumMaintenanceDuration
  \/ kind # "MAINTENANCE" /\ Duration(interval) > kMaximumStandardDuration

-----------------------------------------------------------------------------
(* Creation and transitions; a transition is applied only where its guard   *)
(* holds, elsewhere the aggregate throws std::logic_error.                  *)

CreateConfirmed(interval) ==
  [status |-> "CONFIRMED", version |-> 1, interval |-> interval,
   approved |-> FALSE]

CreatePendingApproval(interval) ==
  [CreateConfirmed(interval) EXCEPT !.status = "PENDING_APPROVAL"]

\* The two events a creation records, in causal order.
CreationEvents(status) ==
  {"ReservationCreated",
   IF status = "CONFIRMED" THEN "ReservationConfirmed"
                           ELSE "ReservationApprovalRequested"}

Moved(r, status) == [r EXCEPT !.status = status, !.version = @ + 1]

CanApprove(r) == r.status = "PENDING_APPROVAL"
Approve(r) == [Moved(r, "CONFIRMED") EXCEPT !.approved = TRUE]

CanReject(r) == r.status = "PENDING_APPROVAL"
Reject(r) == Moved(r, "REJECTED")

CanCancel(r) == ~IsTerminal(r.status)
Cancel(r) == Moved(r, "CANCELLED")

CanExtend(r, end) == r.status = "CONFIRMED" /\ end > r.interval.end
Extend(r, end) == [r EXCEPT !.interval.end = end, !.version = @ + 1]

CanExpire(r) == ~IsTerminal(r.status)
Expire(r) == Moved(r, "EXPIRED")

CanComplete(r) == r.status = "CONFIRMED"
Complete(r) == Moved(r, "COMPLETED")

=============================================================================
