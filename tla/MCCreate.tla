------------------------------ MODULE MCCreate ------------------------------
(* Instances of CreateReservation for TLC.                                  *)
EXTENDS CreateReservation

MCCommand(key, resource, start, end) ==
  [key |-> key, resource |-> resource, interval |-> [start |-> start, end |-> end],
   kind |-> "STANDARD", authorized |-> FALSE]

MCResource ==
  [room  |-> [state |-> "active", requiresApproval |-> FALSE, totalUnits |-> 1],
   desks |-> [state |-> "active", requiresApproval |-> FALSE, totalUnits |-> 2],
   lab   |-> [state |-> "active", requiresApproval |-> TRUE,  totalUnits |-> 1],
   shut  |-> [state |-> "inactive", requiresApproval |-> FALSE, totalUnits |-> 1],
   gone  |-> [state |-> "absent", requiresApproval |-> FALSE, totalUnits |-> 1]]

\* A request for a room and its retry, a rival for the slot under a key of its
\* own, and the first key used again for something else, which is refused.
RivalRequests == {"q1", "q2", "q3", "q4"}
RivalCommand ==
  [q \in RivalRequests |->
     CASE q = "q3" -> MCCommand("k2", "room", 1, 2)
       [] q = "q4" -> MCCommand("k", "shut", 0, 2)
       [] OTHER -> MCCommand("k", "room", 0, 2)]

\* A request and its retry, and a rival, for the two desks.
DeskRequests == {"q1", "q2", "q3"}
DeskCommand ==
  [q \in DeskRequests |->
     IF q = "q3" THEN MCCommand("k2", "desks", 1, 3)
                 ELSE MCCommand("k", "desks", 0, 2)]

=============================================================================
