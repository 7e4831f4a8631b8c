--------------------------- MODULE MCReservations ---------------------------
(* Instances of ReservationSystem for TLC.                                  *)
EXTENDS ReservationSystem

MCCommand(key, resource, start, end) ==
  [key |-> key, resource |-> resource, interval |-> [start |-> start, end |-> end],
   kind |-> "STANDARD", authorized |-> FALSE]

MCDecision(op, target, end) ==
  [op |-> op, target |-> target, start |-> 0, end |-> end, entitled |-> TRUE]

MCResource ==
  [room |-> [state |-> "active", requiresApproval |-> FALSE, totalUnits |-> 1],
   lab  |-> [state |-> "active", requiresApproval |-> TRUE,  totalUnits |-> 1]]

\* Overlapping requests for a resource that needs approval, an approval of each,
\* and a rejection of the first.
LabRequests == {"q1", "q2"}
LabCommand ==
  [q \in LabRequests |->
     IF q = "q1" THEN MCCommand(q, "lab", 0, 1) ELSE MCCommand(q, "lab", 0, 2)]
LabDecisions == {"d1", "d2", "d3"}
LabDecision ==
  [d \in LabDecisions |->
     CASE d = "d1" -> MCDecision("approve", "q1", 0)
       [] d = "d2" -> MCDecision("approve", "q2", 0)
       [] d = "d3" -> MCDecision("reject", "q1", 0)]

\* A room next to its extension: a new request for the hour that an extension
\* reaches into, an extension beyond the policy, a cancellation, a stranger's
\* cancellation, and an extension that would move the start.
RoomRequests == {"q1", "q2"}
RoomCommand ==
  [q \in RoomRequests |->
     IF q = "q1" THEN MCCommand(q, "room", 0, 1) ELSE MCCommand(q, "room", 1, 2)]
RoomDecisions == {"d1", "d2", "d3", "d4", "d5"}
RoomDecision ==
  [d \in RoomDecisions |->
     CASE d = "d1" -> MCDecision("extend", "q1", 2)
       [] d = "d2" -> MCDecision("extend", "q1", 13)
       [] d = "d3" -> MCDecision("cancel", "q1", 0)
       [] d = "d4" -> [MCDecision("cancel", "q2", 0) EXCEPT !.entitled = FALSE]
       [] d = "d5" -> MCDecision("extend", "q2", 3)]

\* Two requests for one room at one time.
RaceRequests == {"q1", "q2"}
RaceCommand == [q \in RaceRequests |-> MCCommand(q, "room", 0, 2)]
NoDecisions == {}
NoDecision == [d \in {} |-> MCDecision("cancel", "q1", 0)]

\* A request, its retry, and an approval in between.
AgainRequests == {"q1", "q2"}
AgainCommand == [q \in AgainRequests |-> MCCommand("k", "lab", 0, 2)]
AgainDecisions == {"d1"}
AgainDecision == [d \in AgainDecisions |-> MCDecision("approve", "q1", 0)]

=============================================================================
