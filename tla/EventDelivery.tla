---------------------------- MODULE EventDelivery ----------------------------
(***************************************************************************)
(* What the transactional outbox promises, with nothing said about how:    *)
(* the events of one command become durable together, only durable events  *)
(* reach the broker, and an event is written off as published only after   *)
(* the broker has it.  Nothing is ever withdrawn.                          *)
(***************************************************************************)

CONSTANT Events                  \* identities of outbox records

VARIABLES
  committed,                     \* events whose command has committed
  delivered,                     \* events the broker has at least one copy of
  settled                        \* events the relay will never send again

vars == <<committed, delivered, settled>>

Init ==
  /\ committed = {}
  /\ delivered = {}
  /\ settled = {}

Commit(S) ==
  /\ S \cap committed = {}
  /\ committed' = committed \cup S
  /\ UNCHANGED <<delivered, settled>>

Deliver(e) ==
  /\ e \in committed
  /\ delivered' = delivered \cup {e}
  /\ UNCHANGED <<committed, settled>>

Settle(e) ==
  /\ e \in delivered
  /\ settled' = settled \cup {e}
  /\ UNCHANGED <<committed, delivered>>

Next ==
  \/ \E S \in SUBSET Events : Commit(S)
  \/ \E e \in Events : Deliver(e) \/ Settle(e)

Spec == Init /\ [][Next]_vars

=============================================================================
