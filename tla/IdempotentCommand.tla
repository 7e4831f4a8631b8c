-------------------------- MODULE IdempotentCommand --------------------------
(***************************************************************************)
(* What an idempotency key promises the clients of a command, with nothing *)
(* said about records, claims or transactions: under one key the command   *)
(* is performed at most once, its outcome is decided once, a success is    *)
(* decided only after the command was performed and a rejection only if it *)
(* never is, and every definite answer is the decided outcome.             *)
(***************************************************************************)
CONSTANTS
  Requests,      \* attempts of clients
  KeyOf,         \* KeyOf[q]: the key of attempt q
  Successes, Rejections

VARIABLES
  performed,     \* attempts whose effect is durable
  outcome,       \* outcome[k]: "none" until decided
  answer         \* answer[q]: "none" until the client is answered

vars == <<performed, outcome, answer>>

Keys == {KeyOf[q] : q \in Requests}
Definite == Successes \cup Rejections
Indefinite == {"IDEMPOTENCY_IN_PROGRESS", "IDEMPOTENCY_CONFLICT", "ERROR"}

Init ==
  /\ performed = {}
  /\ outcome = [k \in Keys |-> "none"]
  /\ answer = [q \in Requests |-> "none"]

\* The effect of the only attempt that will ever have one.
Perform(q) ==
  /\ outcome[KeyOf[q]] = "none"
  /\ \A p \in performed : KeyOf[p] # KeyOf[q]
  /\ performed' = performed \cup {q}
  /\ UNCHANGED <<outcome, answer>>

\* An attempt decides the outcome of its key.  Its client is answered with it,
\* or with an error when the answer is lost on the way.
Decide(q, result) ==
  /\ outcome[KeyOf[q]] = "none"
  /\ answer[q] = "none"
  /\ result \in Successes <=> \E p \in performed : KeyOf[p] = KeyOf[q]
  /\ outcome' = [outcome EXCEPT ![KeyOf[q]] = result]
  /\ \E heard \in {result, "ERROR"} : answer' = [answer EXCEPT ![q] = heard]
  /\ UNCHANGED performed

AnswerDecided(q) ==
  /\ answer[q] = "none"
  /\ outcome[KeyOf[q]] \in Definite
  /\ answer' = [answer EXCEPT ![q] = outcome[KeyOf[q]]]
  /\ UNCHANGED <<performed, outcome>>

AnswerIndefinite(q) ==
  /\ answer[q] = "none"
  /\ \E result \in Indefinite : answer' = [answer EXCEPT ![q] = result]
  /\ UNCHANGED <<performed, outcome>>

Next ==
  \E q \in Requests :
    \/ Perform(q)
    \/ \E result \in Definite : Decide(q, result)
    \/ AnswerDecided(q)
    \/ AnswerIndefinite(q)

Spec == Init /\ [][Next]_vars

=============================================================================
