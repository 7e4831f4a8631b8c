------------------------------ MODULE MCOutbox ------------------------------
(* Instances of Outbox for TLC: the two creation events of one reservation, *)
(* relayed by one server process or by two.                                 *)
EXTENDS Outbox

PairEvents == 1 .. 2
PairReservation == [e \in PairEvents |-> "r1"]

=============================================================================
