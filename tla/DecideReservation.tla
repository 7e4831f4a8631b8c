-------------------------- MODULE DecideReservation --------------------------
(***************************************************************************)
(* The commands on an existing reservation: the approve, reject, cancel    *)
(* and extend handlers.  Each loads the reservation with its CAS, judges   *)
(* it, for approve and extend asks for conflicts, and writes back under    *)
(* the CAS it loaded.  The domain events of these transitions stay in the  *)
(* aggregate: update() stores the reservation only.                        *)
(***************************************************************************)
EXTENDS ReservationStore

CONSTANTS
  Decisions,     \* commands on reservations
  Decision       \* Decision[d]: op, target, for "extend" the interval wanted,
                 \* and whether the caller created the target (or is let bypass it)

Ops == {"approve", "reject", "cancel", "extend"}

ASSUME DecisionAssumption ==
  \A d \in Decisions :
    /\ Decision[d].op \in Ops
    /\ Decision[d].target \in Requests
    /\ Decision[d].start \in Int /\ Decision[d].end \in Int
    /\ Decision[d].entitled \in BOOLEAN

VARIABLES
  step,          \* step[d]: the round trip command d makes next
  copy,          \* copy[d]: the reservation d loaded, with its CAS
  looked,        \* history: what d's conflict query could see
  answer         \* answer[d]: what the caller got

decisionVars == <<step, copy, looked, answer>>

Answers ==
  {"none", "OK", "RESERVATION_NOT_FOUND", "CALLER_NOT_AUTHORIZED",
   "INVALID_STATE", "POLICY_REJECTED", "SCHEDULE_CONFLICT",
   "CONCURRENCY_CONFLICT", "ERROR"}

DecisionTypeOK ==
  /\ step \in [Decisions -> {"load", "conflict", "update", "done"}]
  /\ copy \in [Decisions -> ReservationDocument \cup {NoReservation}]
  /\ looked \in [Decisions -> SUBSET (Requests \X Nat)]
  /\ answer \in [Decisions -> Answers]
  /\ \A d \in Decisions : step[d] = "done" <=> answer[d] # "none"

DecisionInit ==
  /\ step = [d \in Decisions |-> "load"]
  /\ copy = [d \in Decisions |-> NoReservation]
  /\ looked = [d \in Decisions |-> {}]
  /\ answer = [d \in Decisions |-> "none"]

-----------------------------------------------------------------------------

Op(d) == Decision[d].op
Target(d) == Decision[d].target

\* Mutant: the command ends and its caller hears nothing.
FinishedSilently(d, result) ==
  /\ step' = [step EXCEPT ![d] = "done"]
  /\ UNCHANGED answer

Finished(d, result) ==
  /\ step' = [step EXCEPT ![d] = "done"]
  /\ answer' = [answer EXCEPT ![d] = result]

\* An extension keeps the start and moves the end; the policy takes the caller
\* as authorized for maintenance.
ExtensionRefused(d, r) ==
  LET extended == [start |-> Decision[d].start, end |-> Decision[d].end] IN
  \/ Decision[d].start # r.interval.start
  \/ Decision[d].end <= r.interval.end
  \/ PolicyViolated(extended, Command[Target(d)].kind, TRUE)

\* What the handler makes of the reservation it has loaded.
Refusal(d, r) ==
  IF r.status = "ABSENT" THEN "RESERVATION_NOT_FOUND"
  ELSE IF Op(d) \in {"cancel", "extend"} /\ ~Decision[d].entitled
    THEN "CALLER_NOT_AUTHORIZED"
  ELSE CASE Op(d) = "approve" -> IF CanApprove(r) THEN "none" ELSE "INVALID_STATE"
         [] Op(d) = "reject" -> IF CanReject(r) THEN "none" ELSE "INVALID_STATE"
         [] Op(d) = "cancel" -> IF CanCancel(r) THEN "none" ELSE "INVALID_STATE"
         [] Op(d) = "extend" ->
              IF r.status # "CONFIRMED" THEN "INVALID_STATE"
              ELSE IF ExtensionRefused(d, r) THEN "POLICY_REJECTED" ELSE "none"

Load(d) ==
  LET r == reservation[Target(d)] IN
  /\ step[d] = "load"
  /\ copy' = [copy EXCEPT ![d] = r]
  /\ IF Refusal(d, r) # "none"
       THEN Finished(d, Refusal(d, r))
       ELSE /\ step' = [step EXCEPT ![d] =
                          IF Op(d) \in {"approve", "extend"} THEN "conflict"
                                                             ELSE "update"]
            /\ UNCHANGED answer
  /\ UNCHANGED <<storeVars, looked>>

\* Mutant: an extension is checked in the interval it already has.
WantedBefore(d) == copy[d].interval

\* The interval the reservation is to have.
Wanted(d) ==
  IF Op(d) = "extend" THEN [start |-> Decision[d].start, end |-> Decision[d].end]
                      ELSE copy[d].interval

\* Mutant: nothing conflicts.
FindsNoConflict(d) == FALSE

\* has_conflict_excluding(): any overlap counts, whatever the total units.
FindsConflict(d) ==
  Conflicting(Command[Target(d)].resource, Wanted(d)) \ {Target(d)} # {}

CheckConflict(d) ==
  /\ step[d] = "conflict"
  /\ looked' = [looked EXCEPT ![d] = Visible(Command[Target(d)].resource)]
  /\ IF FindsConflict(d)
       THEN Finished(d, "SCHEDULE_CONFLICT")
       ELSE step' = [step EXCEPT ![d] = "update"] /\ UNCHANGED answer
  /\ UNCHANGED <<storeVars, copy>>

Decided(d) ==
  CASE Op(d) = "approve" -> Approve(copy[d])
    [] Op(d) = "reject" -> Reject(copy[d])
    [] Op(d) = "cancel" -> Cancel(copy[d])
    [] Op(d) = "extend" -> Extend(copy[d], Decision[d].end)

\* Mutant: update() upserts.
WriteBackWithoutCas(d) ==
  LET q == Target(d) IN
  /\ step[d] = "update"
  /\ reservation' =
       [reservation EXCEPT ![q] = Stored(Decided(d), reservation[q].cas + 1)]
  /\ checked' = IF Op(d) \in {"approve", "extend"}
                  THEN [checked EXCEPT ![q] = looked[d]] ELSE checked
  /\ UNCHANGED <<outbox, txn, idempotency, copy, looked>>

\* update(): a replace under the loaded CAS.
WriteBack(d) ==
  LET q == Target(d) IN
  /\ step[d] = "update"
  /\ reservation[q].cas = copy[d].cas
  /\ reservation' =
       [reservation EXCEPT ![q] = Stored(Decided(d), reservation[q].cas + 1)]
  /\ checked' = IF Op(d) \in {"approve", "extend"}
                  THEN [checked EXCEPT ![q] = looked[d]] ELSE checked
  /\ UNCHANGED <<outbox, txn, idempotency, copy, looked>>

UpdateStored(d) == WriteBack(d) /\ Finished(d, "OK") /\ UNCHANGED budget

UpdateRejected(d) ==
  /\ step[d] = "update"
  /\ reservation[Target(d)].cas # copy[d].cas
  /\ Finished(d, "CONCURRENCY_CONFLICT")
  /\ UNCHANGED <<storeVars, copy, looked>>

\* The write takes effect, and the caller does not learn of it.
UpdateUnanswered(d) == WriteBack(d) /\ Fault /\ Finished(d, "ERROR")

\* The process dies, or a call fails.
GiveUp(d) ==
  /\ step[d] # "done"
  /\ Fault
  /\ Finished(d, "ERROR")
  /\ UNCHANGED <<reservation, outbox, txn, idempotency, checked, copy, looked>>

Decide(d) == Load(d) \/ CheckConflict(d) \/ UpdateStored(d) \/ UpdateRejected(d)

DecisionNext ==
  \E d \in Decisions : Decide(d) \/ UpdateUnanswered(d) \/ GiveUp(d)

=============================================================================
