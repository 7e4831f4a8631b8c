---------------------------- MODULE SystemProofs ----------------------------
(* Theorems about the reservation commands together, for any requests,      *)
(* decisions, resources and fault budgets.                                  *)
EXTENDS ReservationSystem, CreateProofs, DocumentProofs, FiniteSetTheorems

-----------------------------------------------------------------------------
(* Type correctness.                                                       *)

\* A command goes on only with a reservation that exists and that it may
\* decide; while the CAS has not moved, its copy is the document.
CopyCurrent ==
  \A d \in Decisions :
    step[d] \in {"conflict", "update"} =>
      LET r == reservation[Target(d)] IN
      /\ copy[d] \in ReservationDocument
      /\ Refusal(d, copy[d]) = "none"
      /\ r \in ReservationDocument
      /\ copy[d].cas <= r.cas
      /\ copy[d].cas = r.cas => copy[d] = r

SystemShape == Shape /\ DecisionTypeOK /\ CopyCurrent

\* A stored reservation exists, and nothing else does.
LEMMA StoredOrAbsent ==
  ASSUME StoreTypeOK, NEW q \in Requests
  PROVE  /\ Exists(q) <=> reservation[q] \in ReservationDocument
         /\ ~Exists(q) <=> reservation[q] = NoReservation
BY DEF StoreTypeOK, Exists, ReservationDocument, NoReservation, Stored, Status

\* What each decision makes of a reservation it may decide.
LEMMA DecisionEffect ==
  ASSUME NEW d \in Decisions, copy[d] \in ReservationDocument,
         Refusal(d, copy[d]) = "none"
  PROVE  LET r == copy[d]
             new == Stored(Decided(d), r.cas + 1) IN
         /\ new \in ReservationDocument
         /\ new.version = r.version + 1
         /\ new.cas = r.cas + 1
         /\ ~IsTerminal(r.status)
         /\ new.approved <=> r.approved \/ Op(d) = "approve"
         /\ new.interval.start = r.interval.start
         /\ new.interval.end >= r.interval.end
         /\ Op(d) # "extend" => new.interval = r.interval
         /\ Op(d) = "approve" =>
              r.status = "PENDING_APPROVAL" /\ new.status = "CONFIRMED"
         /\ Op(d) = "reject" =>
              r.status = "PENDING_APPROVAL" /\ new.status = "REJECTED"
         /\ Op(d) = "cancel" => new.status = "CANCELLED"
         /\ Op(d) = "extend" =>
              /\ r.status = "CONFIRMED" /\ new.status = "CONFIRMED"
              /\ new.interval =
                   [start |-> Decision[d].start, end |-> Decision[d].end]
<1> DEFINE r == copy[d]
<1>1. /\ r.status \in Status /\ r.version \in Nat \ {0} /\ r.cas \in Nat \ {0}
      /\ r.interval \in Interval /\ r.approved \in BOOLEAN
      /\ r.status # "ABSENT"
  BY DEF ReservationDocument, Status
<1>2. Op(d) \in Ops /\ Decision[d].end \in Int
  BY DecisionAssumption DEF Op
<1>3. CASE Op(d) = "approve"
  <2>1. r.status = "PENDING_APPROVAL" /\ Decided(d) = Approve(r)
    BY <1>1, <1>3 DEF Refusal, CanApprove, Decided
  <2> QED BY <1>1, <1>3, <2>1
          DEF Approve, Moved, Stored, ReservationDocument, Status, IsTerminal,
              Interval
<1>4. CASE Op(d) = "reject"
  <2>1. r.status = "PENDING_APPROVAL" /\ Decided(d) = Reject(r)
    BY <1>1, <1>4 DEF Refusal, CanReject, Decided
  <2> QED BY <1>1, <1>4, <2>1
          DEF Reject, Moved, Stored, ReservationDocument, Status, IsTerminal,
              Interval
<1>5. CASE Op(d) = "cancel"
  <2>1. ~IsTerminal(r.status) /\ Decided(d) = Cancel(r)
    BY <1>1, <1>5 DEF Refusal, CanCancel, Decided
  <2> QED BY <1>1, <1>5, <2>1
          DEF Cancel, Moved, Stored, ReservationDocument, Status, Interval
<1>6. CASE Op(d) = "extend"
  <2>1. /\ r.status = "CONFIRMED" /\ ~ExtensionRefused(d, r)
        /\ Decided(d) = Extend(r, Decision[d].end)
    BY <1>1, <1>6 DEF Refusal, Decided
  <2>2. /\ r.interval.start \in Int /\ r.interval.end \in Int
        /\ r.interval.start < r.interval.end
        /\ r.interval = [start |-> r.interval.start, end |-> r.interval.end]
        /\ Decision[d].end > r.interval.end
        /\ Decision[d].start = r.interval.start
    <3>1. /\ ~(Decision[d].end <= r.interval.end)
          /\ Decision[d].start = r.interval.start
      BY <2>1 DEF ExtensionRefused
    <3> QED BY <1>1, <1>2, <3>1 DEF Interval
  <2> DEFINE longer == [r.interval EXCEPT !.end = Decision[d].end]
  <2>3. /\ longer \in Interval /\ longer.start = r.interval.start
        /\ longer.end = Decision[d].end
        /\ longer = [start |-> Decision[d].start, end |-> Decision[d].end]
    BY <1>1, <1>2, <2>2 DEF Interval
  <2>4. Decided(d) = [status |-> "CONFIRMED", version |-> r.version + 1,
                      interval |-> longer, approved |-> r.approved,
                      cas |-> r.cas]
    BY <1>1, <2>1 DEF Extend, ReservationDocument
  <2> HIDE DEF longer
  <2>5. Stored(Decided(d), r.cas + 1) =
          [status |-> "CONFIRMED", version |-> r.version + 1,
           interval |-> longer, approved |-> r.approved, cas |-> r.cas + 1]
    BY <2>4 DEF Stored
  <2> QED BY <1>1, <1>2, <1>6, <2>1, <2>2, <2>3, <2>5
          DEF ReservationDocument, Status, IsTerminal, longer
<1> QED BY <1>2, <1>3, <1>4, <1>5, <1>6 DEF Ops

\* A decision that is written back decides the document as it stands.
LEMMA WrittenBack ==
  ASSUME SystemShape, NEW d \in Decisions, WriteBack(d)
  PROVE  /\ Target(d) \in Requests
         /\ reservation[Target(d)] = copy[d]
         /\ copy[d] \in ReservationDocument
         /\ Refusal(d, copy[d]) = "none"
         /\ reservation' = [reservation EXCEPT ![Target(d)] =
                              Stored(Decided(d), copy[d].cas + 1)]
BY DecisionAssumption DEF SystemShape, CopyCurrent, WriteBack, Target

\* The steps of the system.
LEMMA SystemSteps ==
  ASSUME [SystemNext]_systemVars
  PROVE  \/ [Next]_vars /\ UNCHANGED decisionVars
         \/ \E d \in Decisions :
              /\ UNCHANGED requestVars
              /\ \/ Load(d) \/ CheckConflict(d) \/ UpdateRejected(d) \/ GiveUp(d)
                 \/ UpdateStored(d) \/ UpdateUnanswered(d)
BY DEF SystemNext, DecisionNext, Decide, systemVars, vars

\* A reservation appears once, and from then on only decisions write it.
LEMMA DocumentWrites ==
  ASSUME SystemShape, [SystemNext]_systemVars, NEW q \in Requests
  PROVE  \/ reservation'[q] = reservation[q]
         \/ /\ ~Exists(q) /\ txn[q] = "committed"
            /\ reservation'[q] = Stored(Created(q), 1)
         \/ \E d \in Decisions :
              /\ Target(d) = q
              /\ UpdateStored(d) \/ UpdateUnanswered(d)
              /\ reservation[q] = copy[d]
              /\ reservation'[q] = Stored(Decided(d), copy[d].cas + 1)
<1>0. StoreTypeOK
  BY DEF SystemShape, Shape, TypeOK
<1>1. ASSUME NEW d \in Decisions, UpdateStored(d) \/ UpdateUnanswered(d)
      PROVE  \/ reservation'[q] = reservation[q]
             \/ /\ Target(d) = q
                /\ reservation[q] = copy[d]
                /\ reservation'[q] = Stored(Decided(d), copy[d].cas + 1)
  BY <1>0, <1>1, WrittenBack DEF UpdateStored, UpdateUnanswered, StoreTypeOK
<1>2. ASSUME NEW d \in Decisions,
             Load(d) \/ CheckConflict(d) \/ UpdateRejected(d) \/ GiveUp(d)
      PROVE  reservation' = reservation
  BY <1>2 DEF Load, CheckConflict, UpdateRejected, GiveUp, storeVars
<1> QED BY <1>0, <1>1, <1>2, SystemSteps, ReservationWrites

\* A command goes on with what it has loaded.
LEMMA CommandProceeds ==
  ASSUME DecisionTypeOK, [SystemNext]_systemVars, NEW d \in Decisions,
         step'[d] \in {"conflict", "update"}
  PROVE  \/ step[d] \in {"conflict", "update"} /\ copy'[d] = copy[d]
         \/ /\ Load(d)
            /\ copy'[d] = reservation[Target(d)]
            /\ Refusal(d, copy'[d]) = "none"
<1> USE DEF DecisionTypeOK, Finished
<1>1. ASSUME NEW c \in Decisions, Load(c)
      PROVE  \/ step'[d] = step[d] /\ copy'[d] = copy[d]
             \/ /\ c = d
                /\ copy'[d] = reservation[Target(d)]
                /\ Refusal(d, copy'[d]) = "none"
  BY <1>1 DEF Load
<1>2. ASSUME NEW c \in Decisions, CheckConflict(c)
      PROVE  copy'[d] = copy[d] /\ step[d] \in {"conflict", "update"}
  BY <1>2 DEF CheckConflict
<1>3. ASSUME NEW c \in Decisions,
             \/ UpdateRejected(c) \/ GiveUp(c)
             \/ UpdateStored(c) \/ UpdateUnanswered(c)
      PROVE  copy'[d] = copy[d] /\ step'[d] = step[d]
  BY <1>3 DEF UpdateRejected, GiveUp, UpdateStored, UpdateUnanswered, WriteBack
<1> HIDE DEF DecisionTypeOK, Finished
<1> QED BY <1>1, <1>2, <1>3, SystemSteps DEF decisionVars

\* Types and copies survive every step.
LEMMA SystemShapeStep ==
  ASSUME SystemShape, [SystemNext]_systemVars
  PROVE  SystemShape'
<1>0. /\ Shape /\ StoreTypeOK /\ RequestTypeOK /\ WorkInPhase
      /\ DecisionTypeOK /\ CopyCurrent
  BY DEF SystemShape, Shape, TypeOK
<1>1. ASSUME NEW d \in Decisions PROVE Target(d) \in Requests
  BY DecisionAssumption DEF Target
<1>2. Shape'
  <2>1. CASE [Next]_vars
    BY <1>0, <2>1, ShapeStep
  <2>2. ASSUME NEW d \in Decisions, UNCHANGED requestVars,
               Load(d) \/ CheckConflict(d) \/ UpdateRejected(d) \/ GiveUp(d)
        PROVE  StoreTypeOK'
    BY <1>0, <2>2
    DEF Load, CheckConflict, UpdateRejected, GiveUp, Fault, storeVars, StoreTypeOK
  <2>3. ASSUME NEW d \in Decisions, UpdateStored(d) \/ UpdateUnanswered(d)
        PROVE  StoreTypeOK'
    <3>1. WriteBack(d) /\ (UNCHANGED budget \/ Fault)
      BY <2>3 DEF UpdateStored, UpdateUnanswered
    <3>2. /\ Target(d) \in Requests
          /\ reservation' = [reservation EXCEPT ![Target(d)] =
                               Stored(Decided(d), copy[d].cas + 1)]
          /\ Stored(Decided(d), copy[d].cas + 1) \in ReservationDocument
      BY <3>1, WrittenBack, DecisionEffect
    <3>3. /\ reservation' \in [Requests -> ReservationDocument \cup {NoReservation}]
          /\ budget' \in [expiries : Nat, faults : Nat]
      BY <1>0, <3>1, <3>2 DEF StoreTypeOK, Fault
    <3>4. checked' \in [Requests -> SUBSET (Requests \X Nat)]
      BY <1>0, <3>1 DEF WriteBack, StoreTypeOK, DecisionTypeOK
    <3> QED BY <1>0, <3>1, <3>3, <3>4 DEF WriteBack, StoreTypeOK
  <2>4. ASSUME UNCHANGED requestVars
        PROVE  RequestTypeOK' /\ WorkInPhase'
    BY <1>0, <2>4 DEF requestVars, RequestTypeOK, WorkInPhase, Working
  <2> QED BY <2>1, <2>2, <2>3, <2>4, SystemSteps DEF Shape, TypeOK
<1>3. DecisionTypeOK'
  <2> USE DEF DecisionTypeOK, Finished, Answers
  <2>1. ASSUME NEW d \in Decisions, Load(d) PROVE DecisionTypeOK'
    <3>1. reservation[Target(d)] \in ReservationDocument \cup {NoReservation}
      BY <1>0, <1>1 DEF StoreTypeOK
    <3>2. Refusal(d, reservation[Target(d)]) \in Answers
      BY DecisionAssumption DEF Refusal, Op, Ops
    <3> QED BY <1>0, <2>1, <3>1, <3>2 DEF Load
  <2>2. ASSUME NEW d \in Decisions, CheckConflict(d) PROVE DecisionTypeOK'
    <3>1. Visible(Command[Target(d)].resource) \subseteq Requests \X Nat
      BY <1>0 DEF Visible, StoreTypeOK, ReservationDocument, NoReservation, Stored
    <3> QED BY <1>0, <2>2, <3>1 DEF CheckConflict
  <2>3. ASSUME NEW d \in Decisions,
               \/ UpdateRejected(d) \/ GiveUp(d)
               \/ UpdateStored(d) \/ UpdateUnanswered(d)
        PROVE  DecisionTypeOK'
    BY <1>0, <2>3
    DEF UpdateRejected, GiveUp, UpdateStored, UpdateUnanswered, WriteBack
  <2>4. CASE UNCHANGED decisionVars
    BY <1>0, <2>4 DEF decisionVars
  <2> HIDE DEF DecisionTypeOK, Finished, Answers
  <2> QED BY <2>1, <2>2, <2>3, <2>4, SystemSteps
<1>4. CopyCurrent'
  <2> SUFFICES ASSUME NEW d \in Decisions, step'[d] \in {"conflict", "update"}
               PROVE  LET r == reservation'[Target(d)] IN
                      /\ copy'[d] \in ReservationDocument
                      /\ Refusal(d, copy'[d]) = "none"
                      /\ r \in ReservationDocument
                      /\ copy'[d].cas <= r.cas
                      /\ copy'[d].cas = r.cas => copy'[d] = r
    BY DEF CopyCurrent, Refusal
  <2>1. CASE Load(d) /\ copy'[d] = reservation[Target(d)]
             /\ Refusal(d, copy'[d]) = "none"
    <3>1. Exists(Target(d))
      BY <2>1 DEF Refusal, Exists
    <3>2. reservation'[Target(d)] = reservation[Target(d)]
      BY <2>1 DEF Load, storeVars
    <3> QED BY <1>0, <1>1, <2>1, <3>1, <3>2, StoredOrAbsent
            DEF ReservationDocument
  <2>2. CASE step[d] \in {"conflict", "update"} /\ copy'[d] = copy[d]
    <3>1. LET r == reservation[Target(d)] IN
          /\ copy[d] \in ReservationDocument
          /\ Refusal(d, copy[d]) = "none"
          /\ r \in ReservationDocument
          /\ copy[d].cas <= r.cas
          /\ copy[d].cas = r.cas => copy[d] = r
      BY <1>0, <2>2 DEF CopyCurrent
    <3>2. CASE reservation'[Target(d)] = reservation[Target(d)]
      BY <2>2, <3>1, <3>2
    <3>3. ASSUME NEW c \in Decisions,
                 UpdateStored(c) \/ UpdateUnanswered(c),
                 Target(c) = Target(d),
                 reservation'[Target(d)] = Stored(Decided(c), copy[c].cas + 1)
          PROVE  /\ reservation'[Target(d)] \in ReservationDocument
                 /\ reservation'[Target(d)].cas = reservation[Target(d)].cas + 1
      <4>1. WriteBack(c)
        BY <3>3 DEF UpdateStored, UpdateUnanswered
      <4>2. /\ reservation[Target(d)] = copy[c]
            /\ copy[c] \in ReservationDocument /\ Refusal(c, copy[c]) = "none"
        BY <3>3, <4>1, WrittenBack
      <4> QED BY <3>3, <4>2, DecisionEffect
    <3>4. Exists(Target(d))
      BY <1>0, <1>1, <3>1, StoredOrAbsent
    <3>5. copy[d].cas \in Nat /\ reservation[Target(d)].cas \in Nat
      BY <3>1 DEF ReservationDocument
    <3> QED BY <1>1, <2>2, <3>1, <3>2, <3>3, <3>4, <3>5, DocumentWrites
  <2> QED BY <1>0, <2>1, <2>2, CommandProceeds
<1> QED BY <1>2, <1>3, <1>4 DEF SystemShape

\* No command is under way and nothing is stored at first.
LEMMA SystemShapeInit == SystemInit => SystemShape
<1>1. Init => Shape
  BY BoundsAssumption
  DEF Init, StoreInit, RequestInit, Shape, TypeOK, StoreTypeOK,
      RequestTypeOK, WorkInPhase, Working, Steps, Replies
<1>2. DecisionInit => DecisionTypeOK /\ CopyCurrent
  BY DEF DecisionInit, DecisionTypeOK, CopyCurrent, Answers
<1> QED BY <1>1, <1>2 DEF SystemInit, SystemShape

\* Everything is of its type, and commands decide what they have loaded.
THEOREM SystemShapeKept == SystemSpec => []SystemShape
<1>1. SystemInit => SystemShape
  BY SystemShapeInit
<1>2. SystemShape /\ [SystemNext]_systemVars => SystemShape'
  BY SystemShapeStep
<1> QED BY <1>1, <1>2, PTL DEF SystemSpec

\* Type correctness of the reservation commands and their collections.
THEOREM SystemTypeCorrect == SystemSpec => []SystemTypeOK
<1>1. SystemShape => SystemTypeOK
  BY DEF SystemShape, Shape, SystemTypeOK
<1> QED BY <1>1, SystemShapeKept, PTL

-----------------------------------------------------------------------------
(* What was decided and answered.                                          *)

\* A document that exists stays, unless a decision moves it on.
LEMMA DocumentMoves ==
  ASSUME SystemShape, [SystemNext]_systemVars, NEW q \in Requests, Exists(q)
  PROVE  \/ reservation'[q] = reservation[q]
         \/ \E d \in Decisions :
              LET r == reservation[q]
                  new == reservation'[q] IN
              /\ Target(d) = q
              /\ UpdateStored(d) \/ UpdateUnanswered(d)
              /\ new \in ReservationDocument
              /\ new.version = r.version + 1
              /\ ~IsTerminal(r.status)
              /\ new.approved <=> r.approved \/ Op(d) = "approve"
              /\ new.interval.start = r.interval.start
              /\ new.interval.end >= r.interval.end
              /\ Op(d) # "extend" => new.interval = r.interval
              /\ Op(d) = "approve" =>
                   r.status = "PENDING_APPROVAL" /\ new.status = "CONFIRMED"
              /\ Op(d) = "reject" =>
                   r.status = "PENDING_APPROVAL" /\ new.status = "REJECTED"
              /\ Op(d) = "cancel" => new.status = "CANCELLED"
              /\ Op(d) = "extend" =>
                   /\ r.status = "CONFIRMED" /\ new.status = "CONFIRMED"
                   /\ new.interval =
                        [start |-> Decision[d].start, end |-> Decision[d].end]
<1>1. ASSUME NEW d \in Decisions, Target(d) = q,
             UpdateStored(d) \/ UpdateUnanswered(d)
      PROVE  copy[d] \in ReservationDocument /\ Refusal(d, copy[d]) = "none"
  BY <1>1, WrittenBack DEF UpdateStored, UpdateUnanswered
<1> QED BY <1>1, DocumentWrites, DecisionEffect

\* A terminal reservation never changes, an approved one stays approved, and an
\* interval never shrinks, whatever decisions race on it.
THEOREM DecisionsAreFinal == SystemSpec => DecisionsStand
<1>1. ASSUME SystemShape, [SystemNext]_systemVars, NEW q \in Requests, Exists(q)
      PROVE  /\ IsTerminal(reservation[q].status) =>
                  reservation'[q] = reservation[q]
             /\ reservation[q].approved => reservation'[q].approved
             /\ reservation'[q].interval.start = reservation[q].interval.start
             /\ reservation'[q].interval.end >= reservation[q].interval.end
  <2>1. reservation[q].interval.end \in Int
    BY <1>1, StoredOrAbsent
    DEF SystemShape, Shape, TypeOK, ReservationDocument, Interval
  <2>2. CASE reservation'[q] = reservation[q]
    BY <2>1, <2>2
  <2>3. CASE reservation'[q] # reservation[q]
    BY <1>1, <2>3, DocumentMoves
  <2> QED BY <2>2, <2>3
<1>2. SystemShape /\ [SystemNext]_systemVars =>
        [\A q \in Requests :
           Exists(q) =>
             /\ IsTerminal(reservation[q].status) =>
                  reservation'[q] = reservation[q]
             /\ reservation[q].approved => reservation'[q].approved
             /\ reservation'[q].interval.start = reservation[q].interval.start
             /\ reservation'[q].interval.end >= reservation[q].interval.end]_systemVars
  BY <1>1
<1> QED BY <1>2, SystemShapeKept, PTL DEF SystemSpec, DecisionsStand

\* A caller is answered once, and told OK only as its decision is stored.
LEMMA AnswerWrites ==
  ASSUME DecisionTypeOK, [SystemNext]_systemVars, NEW d \in Decisions
  PROVE  \/ answer'[d] = answer[d] /\ ~UpdateStored(d) /\ ~UpdateUnanswered(d)
         \/ /\ answer[d] = "none"
            /\ answer'[d] = "OK" => UpdateStored(d)
            /\ UpdateStored(d) \/ UpdateUnanswered(d) =>
                 answer'[d] \in {"OK", "ERROR"}
<1> USE DEF DecisionTypeOK, Finished
<1>1. ASSUME NEW c \in Decisions, Load(c)
      PROVE  \/ answer'[d] = answer[d]
             \/ c = d /\ answer[d] = "none" /\ answer'[d] # "OK"
  <2>1. Refusal(c, reservation[Target(c)]) # "OK"
    BY DecisionAssumption DEF Refusal, Op, Ops
  <2> QED BY <1>1, <2>1 DEF Load
<1>2. ASSUME NEW c \in Decisions,
CheckConflict(c) \/ UpdateRejected(c) \/ GiveUp(c)
      PROVE  \/ answer'[d] = answer[d]
             \/ c = d /\ answer[d] = "none" /\ answer'[d] # "OK"
  BY <1>2 DEF CheckConflict, UpdateRejected, GiveUp
<1>3. ASSUME NEW c \in Decisions, UpdateStored(c) \/ UpdateUnanswered(c)
      PROVE  /\ answer'[c] \in {"OK", "ERROR"} /\ answer[c] = "none"
             /\ answer'[c] = "OK" => UpdateStored(c)
             /\ c # d => answer'[d] = answer[d]
  BY <1>3 DEF UpdateStored, UpdateUnanswered, WriteBack
<1>4. UNCHANGED decisionVars => answer'[d] = answer[d]
  BY DEF decisionVars
<1> HIDE DEF DecisionTypeOK, Finished
<1> QED BY <1>1, <1>2, <1>3, <1>4, SystemSteps

\* An OK is never taken back.
THEOREM AnswersAreHeld == SystemSpec => []AnswersHold
<1> DEFINE Held(d) ==
      LET status == reservation[Target(d)].status IN
      /\ Op(d) = "reject" => status = "REJECTED"
      /\ Op(d) = "cancel" => status = "CANCELLED"
      /\ Op(d) \in {"approve", "extend"} => status \in {"CONFIRMED", "CANCELLED"}
    Inv == \A d \in Decisions : answer[d] = "OK" => Held(d)
<1>0. \A d \in Decisions : Op(d) \in Ops /\ Target(d) \in Requests
  BY DecisionAssumption DEF Op, Target
<1>1. SystemInit => Inv
  BY DEF SystemInit, DecisionInit
<1>2. ASSUME SystemShape, Inv, [SystemNext]_systemVars PROVE Inv'
  <2> SUFFICES ASSUME NEW d \in Decisions, answer'[d] = "OK" PROVE Held(d)'
    OBVIOUS
  <2>1. CASE answer[d] = "OK"
    <3>1. Held(d)
      BY <1>2, <2>1
    <3>2. Exists(Target(d))
      BY <1>0, <3>1 DEF Exists, Ops
    <3>3. CASE reservation'[Target(d)] = reservation[Target(d)]
      BY <3>1, <3>3 DEF Op, Target
    <3>4. CASE reservation'[Target(d)] # reservation[Target(d)]
      <4>1. PICK c \in Decisions :
              LET before == reservation[Target(d)].status
                  after == reservation'[Target(d)].status IN
              /\ ~IsTerminal(before)
              /\ Op(c) = "approve" => before = "PENDING_APPROVAL"
              /\ Op(c) = "reject" => before = "PENDING_APPROVAL"
              /\ Op(c) = "cancel" => after = "CANCELLED"
              /\ Op(c) = "extend" => after = "CONFIRMED"
        BY <1>0, <1>2, <3>2, <3>4, DocumentMoves
      <4>2. Op(d) \in Ops /\ Op(c) \in Ops
        BY <1>0
      <4>3. Op(d) \in {"approve", "extend"}
            /\ reservation'[Target(d)].status \in {"CONFIRMED", "CANCELLED"}
        BY <3>1, <4>1, <4>2 DEF IsTerminal, Ops
      <4> QED BY <4>3 DEF Op, Target
    <3> QED BY <3>3, <3>4
  <2>2. CASE UpdateStored(d)
    <3>1. WriteBack(d)
      BY <2>2 DEF UpdateStored
    <3>2. /\ reservation'[Target(d)] = Stored(Decided(d), copy[d].cas + 1)
          /\ copy[d] \in ReservationDocument /\ Refusal(d, copy[d]) = "none"
      BY <1>0, <1>2, <3>1, WrittenBack
      DEF SystemShape, Shape, TypeOK, StoreTypeOK
    <3> QED BY <3>2, DecisionEffect DEF Op, Target
  <2> QED BY <1>2, <2>1, <2>2, AnswerWrites DEF SystemShape
<1>3. Inv => AnswersHold
  BY <1>0 DEF AnswersHold, Ops
<1> QED BY <1>1, <1>2, <1>3, SystemShapeKept, PTL DEF SystemSpec

-----------------------------------------------------------------------------
(* The version of a reservation counts the decisions on it.                *)

OnRecord(q) == {d \in Decisions : Target(d) = q /\ answer[d] = "OK"}

\* Commands that may be in the document: answered OK, or with an error that may
\* hide a write.
MayHave(q) == {d \in Decisions : Target(d) = q /\ answer[d] \in {"OK", "ERROR"}}

Accounted ==
  \A q \in Requests :
    /\ Exists(q) =>
         /\ Cardinality(OnRecord(q)) <= reservation[q].version - 1
         /\ reservation[q].version - 1 <= Cardinality(MayHave(q))
    /\ ~Exists(q) => OnRecord(q) = {}

\* Finitely many decisions can be counted, before a step and after it.
LEMMA DecisionSets ==
  ASSUME IsFiniteSet(Decisions), NEW q
  PROVE  /\ IsFiniteSet(OnRecord(q)) /\ Cardinality(OnRecord(q)) \in Nat
         /\ IsFiniteSet(MayHave(q)) /\ Cardinality(MayHave(q)) \in Nat
         /\ IsFiniteSet(OnRecord(q)') /\ Cardinality(OnRecord(q)') \in Nat
         /\ IsFiniteSet(MayHave(q)') /\ Cardinality(MayHave(q)') \in Nat
<1>1. /\ OnRecord(q) \subseteq Decisions /\ MayHave(q) \subseteq Decisions
      /\ OnRecord(q)' \subseteq Decisions /\ MayHave(q)' \subseteq Decisions
  BY DEF OnRecord, MayHave
<1> QED BY <1>1, FS_Subset, FS_CardinalityType

\* No answer of a decision that may have been written is a refusal.
LEMMA DoubtIsNoRefusal ==
  ASSUME NEW d \in Decisions, answer[d] \in {"OK", "ERROR"}
  PROVE  ~Refused(d)
<1>1. CASE answer[d] = "OK"
  BY <1>1 DEF Refused
<1>2. CASE answer[d] = "ERROR" /\ Op(d) \notin DOMAIN DecisionEndpoint
  BY <1>2 DEF Refused
<1>3. CASE answer[d] = "ERROR" /\ Op(d) \in DOMAIN DecisionEndpoint
  <2>1. StatusesOf(d) = {500}
    <3>1. Op(d) \in {"approve", "reject", "cancel"}
      BY <1>3 DEF DecisionEndpoint
    <3>2. CASE Op(d) = "approve"
      BY <1>3, <3>2 DEF StatusesOf, DecisionEndpoint, ApproveEndpoint
    <3>3. CASE Op(d) = "reject"
      BY <1>3, <3>3 DEF StatusesOf, DecisionEndpoint, RejectEndpoint
    <3>4. CASE Op(d) = "cancel"
      BY <1>3, <3>4 DEF StatusesOf, DecisionEndpoint, AdminCancelEndpoint
    <3> QED BY <3>1, <3>2, <3>3, <3>4
  <2> QED BY <1>3, <2>1 DEF Refused
<1> QED BY <1>1, <1>2, <1>3

\* Every decision answered OK is in the document, and nothing is in it that a
\* caller was told not to have done.
THEOREM DecisionsAccounted ==
  ASSUME IsFiniteSet(Decisions) PROVE SystemSpec => []DecisionsAccount
<1>1. SystemInit => Accounted
  <2>1. ASSUME SystemInit, NEW q \in Requests
        PROVE  ~Exists(q) /\ OnRecord(q) = {}
    BY <2>1
    DEF SystemInit, Init, StoreInit, DecisionInit, Exists, NoReservation,
        Stored, OnRecord
  <2> QED BY <2>1 DEF Accounted
<1>2. ASSUME SystemShape, Accounted, [SystemNext]_systemVars PROVE Accounted'
  <2> SUFFICES ASSUME NEW q \in Requests
               PROVE  /\ Exists(q)' =>
                           /\ Cardinality(OnRecord(q)') <= reservation'[q].version - 1
                           /\ reservation'[q].version - 1 <= Cardinality(MayHave(q)')
                      /\ ~Exists(q)' => OnRecord(q)' = {}
    BY DEF Accounted, Exists
  <2>0. /\ DecisionTypeOK /\ StoreTypeOK
        /\ \A d \in Decisions : Target(d) \in Requests
    BY <1>2, DecisionAssumption DEF SystemShape, Shape, TypeOK, Target
  <2> DEFINE Writes(d) == UpdateStored(d) \/ UpdateUnanswered(d)
  \* A decision is written back: the version goes up with one answer.
  <2>1. CASE \E d \in Decisions : Target(d) = q /\ Writes(d)
    <3>1. PICK d \in Decisions : Target(d) = q /\ Writes(d)
      BY <2>1
    <3>2. WriteBack(d)
      BY <3>1 DEF UpdateStored, UpdateUnanswered
    <3>3. /\ reservation[q] = copy[d]
          /\ copy[d] \in ReservationDocument /\ Refusal(d, copy[d]) = "none"
          /\ reservation'[q] = Stored(Decided(d), copy[d].cas + 1)
      BY <1>2, <2>0, <3>1, <3>2, WrittenBack DEF StoreTypeOK
    <3>4. /\ Exists(q) /\ reservation'[q] \in ReservationDocument /\ Exists(q)'
          /\ reservation'[q].version = reservation[q].version + 1
          /\ reservation[q].version \in Nat
      <4>1. reservation'[q] \in ReservationDocument
            /\ reservation'[q].version = reservation[q].version + 1
        BY <3>3, DecisionEffect
      <4> QED BY <3>3, <4>1 DEF ReservationDocument, Status, Exists
    <3>5. /\ answer[d] = "none" /\ answer'[d] \in {"OK", "ERROR"}
          /\ \A c \in Decisions \ {d} : answer'[c] = answer[c]
      BY <2>0, <3>1
      DEF UpdateStored, UpdateUnanswered, Finished, DecisionTypeOK, WriteBack
    <3>6. /\ OnRecord(q)' \subseteq OnRecord(q) \cup {d}
          /\ MayHave(q)' = MayHave(q) \cup {d} /\ d \notin MayHave(q)
          /\ d \notin OnRecord(q)
      BY <3>1, <3>5 DEF OnRecord, MayHave, Target
    <3>7. /\ Cardinality(OnRecord(q)') <= Cardinality(OnRecord(q)) + 1
          /\ Cardinality(MayHave(q)') = Cardinality(MayHave(q)) + 1
      <4>1. /\ Cardinality(OnRecord(q) \cup {d}) = Cardinality(OnRecord(q)) + 1
            /\ Cardinality(MayHave(q) \cup {d}) = Cardinality(MayHave(q)) + 1
            /\ IsFiniteSet(OnRecord(q) \cup {d})
        BY <3>6, DecisionSets, FS_AddElement
      <4> QED BY <3>6, <4>1, FS_Subset
    <3> QED BY <1>2, <3>4, <3>7, DecisionSets DEF Accounted
  \* Nothing is: no answer tells of a new one.
  <2>2. CASE \A d \in Decisions : Target(d) = q => ~Writes(d)
    <3>1. /\ OnRecord(q)' = OnRecord(q) /\ MayHave(q) \subseteq MayHave(q)'
      <4>1. ASSUME NEW d \in Decisions, Target(d) = q
            PROVE  /\ answer'[d] = "OK" <=> answer[d] = "OK"
                   /\ answer[d] \in {"OK", "ERROR"} => answer'[d] = answer[d]
        BY <1>2, <2>0, <2>2, <4>1, AnswerWrites
      <4> QED BY <4>1 DEF OnRecord, MayHave, Target
    <3>2. Cardinality(MayHave(q)) <= Cardinality(MayHave(q)')
      BY <3>1, DecisionSets, FS_Subset
    <3>3. CASE reservation'[q] = reservation[q]
      <4>1. Exists(q)' <=> Exists(q)
        BY <3>3 DEF Exists
      <4>2. Exists(q) => reservation[q].version \in Nat
        BY <2>0, StoredOrAbsent DEF ReservationDocument
      <4> QED BY <1>2, <3>1, <3>2, <3>3, <4>1, <4>2, DecisionSets DEF Accounted
    <3>4. CASE ~Exists(q) /\ reservation'[q] = Stored(Created(q), 1)
      <4>1. reservation'[q].version = 1 /\ Exists(q)'
        BY <3>4
        DEF Stored, Created, CreateConfirmed, CreatePendingApproval, Exists
      <4>2. Cardinality(OnRecord(q)') = 0
        BY <1>2, <3>1, <3>4, FS_EmptySet DEF Accounted
      <4> QED BY <4>1, <4>2, DecisionSets
    <3> QED BY <1>2, <2>2, <3>3, <3>4, DocumentWrites
  <2> QED BY <2>1, <2>2
<1>3. ASSUME SystemShape, Accounted PROVE DecisionsAccount
  <2>1. ASSUME NEW q \in Requests, Exists(q)
        PROVE  /\ reservation[q].version - 1 >= Cardinality(OnRecord(q))
               /\ reservation[q].version - 1 <=
                    Cardinality({d \in Decisions : Target(d) = q /\ ~Refused(d)})
    <3> DEFINE counted == {d \in Decisions : Target(d) = q /\ ~Refused(d)}
    <3>1. MayHave(q) \subseteq counted /\ counted \subseteq Decisions
      BY DoubtIsNoRefusal DEF MayHave
    <3>2. /\ Cardinality(MayHave(q)) <= Cardinality(counted)
          /\ Cardinality(counted) \in Nat
      BY <3>1, FS_Subset, FS_CardinalityType
    <3>3. reservation[q].version \in Nat
      BY <1>3, <2>1, StoredOrAbsent
      DEF SystemShape, Shape, TypeOK, ReservationDocument
    <3> HIDE DEF counted
    <3>4. reservation[q].version - 1 <= Cardinality(counted)
      BY <1>3, <2>1, <3>2, <3>3, DecisionSets DEF Accounted
    <3> QED BY <1>3, <2>1, <3>3, <3>4, DecisionSets DEF Accounted, counted
  <2> QED BY <2>1
          DEF DecisionsAccount, NoLostUpdate, RefusalsChangeNothing, OnRecord
<1> QED BY <1>1, <1>2, <1>3, SystemShapeKept, PTL DEF SystemSpec

\* Approvals leave their mark, and the marks of approvals and rejections are
\* left by commands whose callers may take them for done.
Marked ==
  /\ \A d \in Decisions :
       Op(d) = "approve" /\ answer[d] = "OK" =>
         Exists(Target(d)) /\ reservation[Target(d)].approved
  /\ \A q \in Requests :
       /\ reservation[q].approved => \E d \in MayHave(q) : Op(d) = "approve"
       /\ reservation[q].status = "REJECTED" =>
            \E d \in MayHave(q) : Op(d) = "reject"

\* Approvers' listings and decisions agree.
THEOREM ListingsAgree == SystemSpec => []ListingsShowDecisions
<1>0. \A d \in Decisions : Op(d) \in Ops /\ Target(d) \in Requests
  BY DecisionAssumption DEF Op, Target
<1>1. SystemInit => Marked
  BY DEF SystemInit, Init, StoreInit, DecisionInit, NoReservation, Stored, Marked
<1>2. ASSUME SystemShape, Marked, [SystemNext]_systemVars PROVE Marked'
  <2>0. DecisionTypeOK /\ StoreTypeOK
    BY <1>2 DEF SystemShape, Shape, TypeOK
  <2>1. ASSUME NEW d \in Decisions, UpdateStored(d) \/ UpdateUnanswered(d)
        PROVE  /\ Exists(Target(d)) /\ Exists(Target(d))'
               /\ Op(d) = "approve" => reservation'[Target(d)].approved
               /\ d \in MayHave(Target(d))'
    <3>1. WriteBack(d)
      BY <2>1 DEF UpdateStored, UpdateUnanswered
    <3>2. /\ reservation[Target(d)] = copy[d]
          /\ copy[d] \in ReservationDocument /\ Refusal(d, copy[d]) = "none"
          /\ reservation'[Target(d)] = Stored(Decided(d), copy[d].cas + 1)
      BY <1>0, <1>2, <2>0, <3>1, WrittenBack DEF StoreTypeOK
    <3>3. /\ reservation'[Target(d)] \in ReservationDocument
          /\ Op(d) = "approve" => reservation'[Target(d)].approved
      BY <3>2, DecisionEffect
    <3>4. answer'[d] \in {"OK", "ERROR"}
      BY <2>0, <2>1
      DEF UpdateStored, UpdateUnanswered, Finished, DecisionTypeOK
    <3> QED BY <3>2, <3>3, <3>4
            DEF ReservationDocument, Status, Exists, MayHave, Target
  <2>2. ASSUME NEW d \in Decisions, Op(d) = "approve", answer'[d] = "OK"
        PROVE  Exists(Target(d))' /\ reservation'[Target(d)].approved
    <3>1. CASE UpdateStored(d)
      BY <2>1, <2>2, <3>1
    <3>2. CASE answer[d] = "OK"
      <4>1. Exists(Target(d)) /\ reservation[Target(d)].approved
        BY <1>2, <2>2, <3>2 DEF Marked
      <4>2. CASE reservation'[Target(d)] = reservation[Target(d)]
        BY <4>1, <4>2 DEF Exists
      <4>3. ASSUME NEW c \in Decisions, Target(c) = Target(d),
                   UpdateStored(c) \/ UpdateUnanswered(c)
            PROVE  Exists(Target(d))'
        BY <2>1, <4>3 DEF Exists
      <4>4. CASE reservation'[Target(d)] # reservation[Target(d)]
        BY <1>0, <1>2, <4>1, <4>3, <4>4, DocumentMoves
      <4> QED BY <4>2, <4>4
    <3> QED BY <1>2, <2>0, <2>2, <3>1, <3>2, AnswerWrites
  <2>3. ASSUME NEW q \in Requests
        PROVE  /\ reservation'[q].approved =>
                    \E d \in MayHave(q)' : Op(d) = "approve"
               /\ reservation'[q].status = "REJECTED" =>
                    \E d \in MayHave(q)' : Op(d) = "reject"
    <3>1. MayHave(q) \subseteq MayHave(q)'
      BY <1>2, <2>0, AnswerWrites DEF MayHave, Target
    <3>2. CASE reservation'[q] = reservation[q]
      BY <1>2, <3>1, <3>2 DEF Marked
    <3>3. CASE reservation'[q] = Stored(Created(q), 1)
      BY <3>3
      DEF Stored, Created, CreateConfirmed, CreatePendingApproval
    <3>4. CASE Exists(q) /\ reservation'[q] # reservation[q]
      <4>1. PICK d \in Decisions :
              /\ Target(d) = q
              /\ UpdateStored(d) \/ UpdateUnanswered(d)
              /\ reservation'[q].approved <=>
                   reservation[q].approved \/ Op(d) = "approve"
              /\ Op(d) = "approve" => reservation'[q].status = "CONFIRMED"
              /\ Op(d) = "cancel" => reservation'[q].status = "CANCELLED"
              /\ Op(d) = "extend" => reservation'[q].status = "CONFIRMED"
        BY <1>2, <3>4, DocumentMoves
      <4>2. d \in MayHave(q)'
        BY <2>1, <4>1
      <4>3. reservation'[q].status = "REJECTED" => Op(d) = "reject"
        BY <1>0, <4>1 DEF Ops
      <4> QED BY <1>2, <3>1, <4>1, <4>2, <4>3 DEF Marked
    <3> QED BY <1>2, <2>1, <3>2, <3>3, <3>4, DocumentWrites
  <2> QED BY <2>2, <2>3 DEF Marked, Exists, Op, Target
<1>3. ASSUME Marked, AnswersHold PROVE ListingsShowDecisions
  <2>1. ASSUME NEW d \in Decisions, Op(d) \in {"approve", "reject"},
               answer[d] = "OK"
        PROVE  \/ Target(d) \in DecidedApprovals
               \/ reservation[Target(d)].status = "CANCELLED"
    BY <1>0, <1>3, <2>1 DEF Marked, AnswersHold, DecidedApprovals, IsDecided
  <2>2. ASSUME NEW q \in DecidedApprovals
        PROVE  \E d \in Decisions :
                 Target(d) = q /\ Op(d) \in {"approve", "reject"} /\ ~Refused(d)
    <3>1. \E d \in MayHave(q) : Op(d) \in {"approve", "reject"}
      BY <1>3, <2>2 DEF Marked, DecidedApprovals, IsDecided
    <3> QED BY <3>1, DoubtIsNoRefusal DEF MayHave
  <2>3. ASSUME NEW q \in PendingApprovals, NEW d \in Decisions, Target(d) = q
        PROVE  answer[d] # "OK"
    BY <1>0, <1>3, <2>3 DEF AnswersHold, PendingApprovals, Ops
  <2> QED BY <2>1, <2>2, <2>3 DEF ListingsShowDecisions
<1> QED BY <1>1, <1>2, <1>3, SystemShapeKept, AnswersAreHeld, PTL DEF SystemSpec

-----------------------------------------------------------------------------
(* Overbooking takes a race, also with decisions: approvals and extensions  *)
(* look for conflicts once, before they write, and cancellations free what  *)
(* they leave.                                                              *)
(*                                                                          *)
(* What the checks of the schedule know.                                    *)

Histories == {checked[q] : q \in Requests} \cup {looked[d] : d \in Decisions}

\* A check saw only documents that exist, in a version they have had.
PastVersions ==
  \A seen \in Histories, p \in Requests : \A v \in Nat :
    <<p, v>> \in seen => Exists(p) /\ v <= reservation[p].version

\* p stands as it was seen.
StandsAsSeen(p, seen) == <<p, reservation[p].version>> \in seen

\* What stands as an approval or an extension saw it is not in its way.
RoomChecked ==
  \A d \in Decisions :
    step[d] = "update" /\ Op(d) \in {"approve", "extend"} =>
      \A p \in Requests \ {Target(d)} :
        /\ Command[p].resource = Command[Target(d)].resource
        /\ StandsAsSeen(p, looked[d])
        => ~Overlaps(Wanted(d), reservation[p].interval)

\* What stands as the creation of q saw it, in the way of q.
InTheWay(q) ==
  {p \in Requests :
     /\ Command[p].resource = Command[q].resource
     /\ StandsAsSeen(p, checked[q])
     /\ Overlaps(Command[q].interval, reservation[p].interval)}

\* A creation that has been admitted still has room among what it saw.
StillAdmitted ==
  \A q \in Requests :
    txn[q] # "none" /\ ~Exists(q) =>
      Cardinality(InTheWay(q)) < ResourceOf(q).totalUnits

Backed == \A q \in Requests : Exists(q) => txn[q] = "committed"

\* Among any reservations that together exceed the units, two have raced.
RaceInEveryCrowd ==
  \A resource \in DOMAIN Resource, t \in Int :
    \A crowd \in SUBSET Occupants(resource, t) :
      Cardinality(crowd) > Resource[resource].totalUnits =>
        \E a, b \in crowd : a # b /\ ~SeenBy(a, b) /\ ~SeenBy(b, a)

Ready == SystemShape /\ OwnClaim /\ Backed /\ PastVersions

Orderly == Ready /\ RoomChecked /\ StillAdmitted /\ RaceInEveryCrowd

-----------------------------------------------------------------------------
(* Who writes what.                                                        *)

\* Versions of a reservation go up, and tell its states apart.
LEMMA VersionsRise ==
  ASSUME SystemShape, [SystemNext]_systemVars, NEW q \in Requests, Exists(q)
  PROVE  /\ Exists(q)'
         /\ reservation[q].version \in Nat /\ reservation'[q].version \in Nat
         /\ reservation[q].version <= reservation'[q].version
         /\ reservation'[q].version = reservation[q].version =>
              reservation'[q] = reservation[q]
<1>1. reservation[q] \in ReservationDocument
  BY StoredOrAbsent DEF SystemShape, Shape, TypeOK
<1>2. reservation'[q] \in ReservationDocument
      /\ \/ reservation'[q] = reservation[q]
         \/ reservation'[q].version = reservation[q].version + 1
  BY <1>1, DocumentMoves
<1> QED BY <1>1, <1>2 DEF Exists, ReservationDocument, Status

\* What will stand as it was seen has not moved.
LEMMA SeenHasNotMoved ==
  ASSUME SystemShape, PastVersions, [SystemNext]_systemVars,
         NEW seen \in Histories, NEW p \in Requests,
         <<p, reservation'[p].version>> \in seen
  PROVE  Exists(p) /\ reservation'[p] = reservation[p]
<1>1. SystemShape'
  BY SystemShapeStep
<1>2. reservation'[p].version \in Nat
  BY <1>1
  DEF SystemShape, Shape, TypeOK, StoreTypeOK, ReservationDocument,
      NoReservation, Stored
<1>3. Exists(p) /\ reservation'[p].version <= reservation[p].version
  BY <1>2 DEF PastVersions
<1> QED BY <1>3, VersionsRise

\* A check of the schedule is kept by its creation or its decision.
LEMMA CheckedWrites ==
  ASSUME SystemShape, OwnClaim, [SystemNext]_systemVars, NEW q \in Requests
  PROVE  \/ checked'[q] = checked[q]
         \/ /\ CheckSchedule(q)
            /\ txn[q] = "none" /\ txn'[q] = "open"
            /\ checked'[q] = Visible(Command[q].resource)
            /\ reservation' = reservation
         \/ \E d \in Decisions :
              /\ Target(d) = q
              /\ UpdateStored(d) \/ UpdateUnanswered(d)
              /\ checked'[q] = looked[d]
<1>0. StoreTypeOK
  BY DEF SystemShape, Shape, TypeOK
<1>1. ASSUME NEW p \in Requests, CheckSchedule(p)
      PROVE  \/ checked'[q] = checked[q]
             \/ /\ p = q
                /\ txn[q] = "none" /\ txn'[q] = "open"
                /\ checked'[q] = Visible(Command[q].resource)
                /\ reservation' = reservation
  BY <1>0, <1>1 DEF CheckSchedule, OwnClaim, StoreTypeOK
<1>2. CASE [Next]_vars
  BY <1>1, <1>2
  DEF Next, RequestNext, Handle, StoreNext, vars, storeVars, ClaimAcquired,
      ClaimCollides, ClaimTimesOut, InsertRecord, Classify, Recover,
      VerifyEvents, CheckResource, Persisted, PersistFails, ReadForCompletion,
      ReplaceRecord, ReplaceUnanswered, WriteTerminal, ReplaceLoses, Reconcile,
      Abandon, TxnCommits, TxnAborts,
      ReservationAppears, EventAppears, RetentionEnds
<1>3. ASSUME NEW d \in Decisions,
             Load(d) \/ CheckConflict(d) \/ UpdateRejected(d) \/ GiveUp(d)
      PROVE  checked' = checked
  BY <1>3 DEF Load, CheckConflict, UpdateRejected, GiveUp, storeVars
<1>4. ASSUME NEW d \in Decisions, UpdateStored(d) \/ UpdateUnanswered(d)
      PROVE  \/ checked'[q] = checked[q]
             \/ Target(d) = q /\ checked'[q] = looked[d]
  <2>1. WriteBack(d)
    BY <1>4 DEF UpdateStored, UpdateUnanswered
  <2> QED BY <1>0, <2>1 DEF WriteBack, StoreTypeOK
<1> QED BY <1>2, <1>3, <1>4, SystemSteps

\* Approvals and extensions keep what their conflict query could see.
LEMMA LookedWrites ==
  ASSUME DecisionTypeOK, [SystemNext]_systemVars, NEW d \in Decisions
  PROVE  \/ looked'[d] = looked[d]
         \/ /\ CheckConflict(d)
            /\ looked'[d] = Visible(Command[Target(d)].resource)
            /\ reservation' = reservation
<1>1. ASSUME NEW c \in Decisions, CheckConflict(c)
      PROVE  \/ looked'[d] = looked[d]
             \/ /\ c = d
                /\ looked'[d] = Visible(Command[Target(d)].resource)
                /\ reservation' = reservation
  BY <1>1 DEF CheckConflict, DecisionTypeOK, storeVars
<1> QED BY <1>1, SystemSteps
        DEF Load, UpdateRejected, GiveUp, UpdateStored, UpdateUnanswered,
            WriteBack, decisionVars

\* What a check of a resource sees are its confirmed reservations.
LEMMA SeenIsConfirmed ==
  ASSUME StoreTypeOK, NEW resource, NEW p \in Requests, NEW v \in Nat
  PROVE  <<p, v>> \in Visible(resource) <=>
           /\ Command[p].resource = resource
           /\ BlocksSchedule(reservation[p].status)
           /\ v = reservation[p].version
BY DEF Visible

-----------------------------------------------------------------------------
(* What the checks know stays true.                                        *)

\* A creation's claim, what backs its confirmation and the versions behind every
\* stored reservation outlast the steps of decisions, too.
LEMMA ReadyStep ==
  ASSUME Ready, [SystemNext]_systemVars
  PROVE  Ready'
<1>0. /\ SystemShape /\ OwnClaim /\ Backed /\ PastVersions
      /\ StoreTypeOK /\ RequestTypeOK /\ DecisionTypeOK
  BY DEF Ready, SystemShape, Shape, TypeOK
<1>1. ASSUME NEW d \in Decisions,
             \/ Load(d) \/ CheckConflict(d) \/ UpdateRejected(d) \/ GiveUp(d)
             \/ UpdateStored(d) \/ UpdateUnanswered(d)
      PROVE  txn' = txn
  BY <1>1
  DEF Load, CheckConflict, UpdateRejected, GiveUp, UpdateStored,
      UpdateUnanswered, WriteBack, storeVars
<1>2. OwnClaim'
  <2>1. CASE [Next]_vars
    BY <1>0, <2>1, OwnClaimStep
  <2>2. ASSUME UNCHANGED requestVars, txn' = txn PROVE OwnClaim'
    BY <1>0, <2>2 DEF OwnClaim, requestVars
  <2> QED BY <1>1, <2>1, <2>2, SystemSteps
<1>3. Backed'
  <2>1. ASSUME NEW q \in Requests, txn[q] = "committed"
        PROVE  txn'[q] = "committed"
    BY <1>0, <1>1, <2>1, CommittedStays, SystemSteps
  <2>2. ASSUME NEW q \in Requests, Exists(q)' PROVE txn[q] = "committed"
    <3>1. CASE Exists(q)
      BY <1>0, <3>1 DEF Backed
    <3>2. CASE ~Exists(q)
      <4>1. reservation'[q] # reservation[q]
        BY <2>2, <3>2 DEF Exists
      <4>2. ASSUME NEW d \in Decisions, Target(d) = q,
                   UpdateStored(d) \/ UpdateUnanswered(d)
            PROVE  FALSE
        BY <1>0, <3>2, <4>2, WrittenBack, StoredOrAbsent
        DEF UpdateStored, UpdateUnanswered
      <4> QED BY <1>0, <4>1, <4>2, DocumentWrites
    <3> QED BY <3>1, <3>2
  <2> QED BY <2>1, <2>2 DEF Backed, Exists
<1>4. PastVersions'
  <2>1. ASSUME NEW seen \in Histories', NEW p \in Requests, NEW v \in Nat,
               <<p, v>> \in seen
        PROVE  Exists(p) /\ v <= reservation[p].version
    <3>1. CASE seen \in Histories
      BY <1>0, <2>1, <3>1 DEF PastVersions
    <3>2. ASSUME NEW resource, seen = Visible(resource)
          PROVE  Exists(p) /\ v <= reservation[p].version
      BY <1>0, <2>1, <3>2, SeenIsConfirmed DEF Exists, BlocksSchedule
    <3>3. \/ seen \in Histories
          \/ \E q \in Requests : seen = Visible(Command[q].resource)
      <4>1. ASSUME NEW q \in Requests, seen = checked'[q]
            PROVE  seen \in Histories \/ seen = Visible(Command[q].resource)
        BY <1>0, <4>1, CheckedWrites DEF Histories
      <4>2. ASSUME NEW d \in Decisions, seen = looked'[d]
            PROVE  \/ seen \in Histories
                   \/ /\ seen = Visible(Command[Target(d)].resource)
                      /\ Target(d) \in Requests
        BY <1>0, <4>2, LookedWrites, DecisionAssumption DEF Histories, Target
      <4> QED BY <2>1, <4>1, <4>2 DEF Histories
    <3> QED BY <3>1, <3>2, <3>3
  <2>2. ASSUME NEW p \in Requests, Exists(p), NEW v \in Nat,
               v <= reservation[p].version
        PROVE  Exists(p)' /\ v <= reservation'[p].version
    BY <1>0, <2>2, VersionsRise
  <2>3. ASSUME NEW seen \in Histories', NEW p \in Requests, NEW v \in Nat,
               <<p, v>> \in seen
        PROVE  Exists(p)' /\ v <= reservation'[p].version
    BY <2>1, <2>2, <2>3
  <2> QED BY <2>3 DEF PastVersions, Exists
<1> QED BY <1>0, <1>2, <1>3, <1>4, SystemShapeStep DEF Ready

\* An approval or extension that goes on to write has asked for conflicts.
LEMMA AsksBeforeWriting ==
  ASSUME DecisionTypeOK, [SystemNext]_systemVars, NEW d \in Decisions,
         step'[d] = "update", Op(d) \in {"approve", "extend"}
  PROVE  \/ /\ step[d] = "update"
            /\ copy'[d] = copy[d] /\ looked'[d] = looked[d]
         \/ /\ CheckConflict(d) /\ ~FindsConflict(d)
            /\ copy'[d] = copy[d]
            /\ looked'[d] = Visible(Command[Target(d)].resource)
            /\ reservation' = reservation
<1> USE DEF DecisionTypeOK, Finished
<1>1. ASSUME NEW c \in Decisions, Load(c)
      PROVE  /\ step'[d] = step[d] /\ copy'[d] = copy[d]
             /\ looked'[d] = looked[d]
  BY <1>1 DEF Load
<1>2. ASSUME NEW c \in Decisions, CheckConflict(c)
      PROVE  \/ /\ step'[d] = step[d] /\ copy'[d] = copy[d]
                /\ looked'[d] = looked[d]
             \/ /\ c = d /\ ~FindsConflict(d) /\ copy'[d] = copy[d]
                /\ looked'[d] = Visible(Command[Target(d)].resource)
                /\ reservation' = reservation
  BY <1>2 DEF CheckConflict, storeVars
<1>3. ASSUME NEW c \in Decisions,
             \/ UpdateRejected(c) \/ GiveUp(c)
             \/ UpdateStored(c) \/ UpdateUnanswered(c)
      PROVE  /\ step'[d] = step[d] /\ copy'[d] = copy[d]
             /\ looked'[d] = looked[d]
  BY <1>3 DEF UpdateRejected, GiveUp, UpdateStored, UpdateUnanswered, WriteBack
<1>4. UNCHANGED decisionVars =>
        step'[d] = step[d] /\ copy'[d] = copy[d] /\ looked'[d] = looked[d]
  BY DEF decisionVars
<1> HIDE DEF DecisionTypeOK, Finished
<1> QED BY <1>1, <1>2, <1>3, <1>4, SystemSteps

\* A decision that is about to write has seen room for what it wants: whatever
\* it saw and is unchanged does not overlap it.
LEMMA RoomCheckedStep ==
  ASSUME Ready, RoomChecked, [SystemNext]_systemVars
  PROVE  RoomChecked'
<1>0. SystemShape /\ PastVersions /\ StoreTypeOK /\ DecisionTypeOK
  BY DEF Ready, SystemShape, Shape, TypeOK
<1> SUFFICES ASSUME NEW d \in Decisions, step'[d] = "update",
                    Op(d) \in {"approve", "extend"},
                    NEW p \in Requests \ {Target(d)},
                    Command[p].resource = Command[Target(d)].resource,
                    <<p, reservation'[p].version>> \in looked'[d]
             PROVE  ~Overlaps(Wanted(d)', reservation'[p].interval)
  BY DEF RoomChecked, StandsAsSeen, Op, Target
<1>1. CASE step[d] = "update" /\ copy'[d] = copy[d] /\ looked'[d] = looked[d]
  <2>1. reservation'[p] = reservation[p]
    BY <1>0, <1>1, SeenHasNotMoved DEF Histories
  <2>2. Wanted(d)' = Wanted(d)
    BY <1>1 DEF Wanted, Op
  <2> QED BY <1>1, <2>1, <2>2 DEF RoomChecked, StandsAsSeen
<1>2. CASE /\ CheckConflict(d) /\ ~FindsConflict(d)
           /\ copy'[d] = copy[d]
           /\ looked'[d] = Visible(Command[Target(d)].resource)
           /\ reservation' = reservation
  <2>1. BlocksSchedule(reservation[p].status)
    <3>1. reservation[p].version \in Nat
      BY <1>0 DEF StoreTypeOK, ReservationDocument, NoReservation, Stored
    <3> QED BY <1>0, <1>2, <3>1, SeenIsConfirmed
  <2>2. p \notin Conflicting(Command[Target(d)].resource, Wanted(d))
    BY <1>2 DEF FindsConflict
  <2>3. Wanted(d)' = Wanted(d)
    BY <1>2 DEF Wanted, Op
  <2> QED BY <1>2, <2>1, <2>2, <2>3 DEF Conflicting, HasReservationConflict
<1> QED BY <1>0, <1>1, <1>2, AsksBeforeWriting

\* A creation that is about to commit has seen room for what is unchanged since.
LEMMA StillAdmittedStep ==
  ASSUME IsFiniteSet(Requests), Ready, StillAdmitted, [SystemNext]_systemVars
  PROVE  StillAdmitted'
<1>0. /\ SystemShape /\ OwnClaim /\ Backed /\ PastVersions
      /\ StoreTypeOK /\ DecisionTypeOK
  BY DEF Ready, SystemShape, Shape, TypeOK
<1> SUFFICES ASSUME NEW q \in Requests, txn'[q] # "none", ~Exists(q)'
             PROVE  Cardinality(InTheWay(q)') < ResourceOf(q).totalUnits
  BY DEF StillAdmitted, ResourceOf, Exists
<1>1. ~Exists(q)
  BY <1>0, VersionsRise
<1>2. ASSUME checked'[q] = checked[q] PROVE InTheWay(q)' \subseteq InTheWay(q)
  <2>1. ASSUME NEW p \in Requests, <<p, reservation'[p].version>> \in checked[q]
        PROVE  reservation'[p] = reservation[p]
    BY <1>0, <2>1, SeenHasNotMoved DEF Histories
  <2> QED BY <1>2, <2>1 DEF InTheWay, StandsAsSeen
<1>3. /\ Cardinality(InTheWay(q)) \in Nat /\ Cardinality(InTheWay(q)') \in Nat
      /\ ResourceOf(q).totalUnits \in Nat
      /\ InTheWay(q)' \subseteq InTheWay(q) =>
           Cardinality(InTheWay(q)') <= Cardinality(InTheWay(q))
  <2>1. InTheWay(q) \subseteq Requests /\ InTheWay(q)' \subseteq Requests
    BY DEF InTheWay
  <2> QED BY <2>1, FS_Subset, FS_CardinalityType, CommandAssumption,
             ResourceAssumption DEF ResourceOf
<1>4. CASE /\ CheckSchedule(q) /\ txn'[q] = "open" /\ txn[q] = "none"
           /\ checked'[q] = Visible(Command[q].resource)
           /\ reservation' = reservation
  <2>1. ~ScheduleFull(q)
    BY <1>0, <1>4 DEF CheckSchedule, StoreTypeOK
  <2>2. InTheWay(q)' = Conflicting(Command[q].resource, Command[q].interval)
    <3>1. \A p \in Requests : reservation[p].version \in Nat
      BY <1>0 DEF StoreTypeOK, ReservationDocument, NoReservation, Stored
    <3>2. ASSUME NEW p \in Requests
          PROVE  StandsAsSeen(p, checked[q])' <=>
                   /\ Command[p].resource = Command[q].resource
                   /\ BlocksSchedule(reservation[p].status)
      BY <1>0, <1>4, <3>1, SeenIsConfirmed DEF StandsAsSeen
    <3> QED BY <1>4, <3>2 DEF InTheWay, Conflicting, HasReservationConflict
  <2> QED BY <1>3, <2>1, <2>2 DEF ScheduleFull
<1>5. CASE checked'[q] = checked[q] /\ txn[q] # "none"
  BY <1>1, <1>2, <1>3, <1>5 DEF StillAdmitted
<1>6. txn[q] # "none" \/ CheckSchedule(q)
  <2>1. ASSUME NEW d \in Decisions,
               \/ Load(d) \/ CheckConflict(d) \/ UpdateRejected(d) \/ GiveUp(d)
               \/ UpdateStored(d) \/ UpdateUnanswered(d)
        PROVE  txn' = txn
    BY <2>1
    DEF Load, CheckConflict, UpdateRejected, GiveUp, UpdateStored,
        UpdateUnanswered, WriteBack, storeVars
  <2> QED BY <1>0, <2>1, TxnWrites, SystemSteps
<1>7. ASSUME NEW d \in Decisions, Target(d) = q,
             UpdateStored(d) \/ UpdateUnanswered(d)
      PROVE  FALSE
  BY <1>0, <1>1, <1>7, WrittenBack, StoredOrAbsent DEF UpdateStored,
                                                       UpdateUnanswered
<1>8. ASSUME CheckSchedule(q), checked'[q] = checked[q], txn[q] = "none"
      PROVE  /\ txn'[q] = "open"
             /\ checked'[q] = Visible(Command[q].resource)
             /\ reservation' = reservation
  BY <1>0, <1>8 DEF CheckSchedule, StoreTypeOK
<1> QED BY <1>0, <1>4, <1>5, <1>6, <1>7, <1>8, CheckedWrites

-----------------------------------------------------------------------------
(* Overbooking takes a race.                                               *)

\* A step writes one reservation at most.
LEMMA OneDocumentWritten ==
  ASSUME SystemShape, [SystemNext]_systemVars, NEW p \in Requests,
         NEW q \in Requests, p # q, reservation'[q] # reservation[q]
  PROVE  reservation'[p] = reservation[p]
<1>0. StoreTypeOK
  BY DEF SystemShape, Shape, TypeOK
<1>1. ASSUME NEW x \in Requests, ReservationAppears(x)
      PROVE  reservation'[p] = reservation[p]
  BY <1>0, <1>1 DEF ReservationAppears, StoreTypeOK
<1>2. CASE [Next]_vars
  BY <1>1, <1>2
  DEF Next, RequestNext, Handle, StoreNext, vars, storeVars, ClaimAcquired,
      ClaimCollides, ClaimTimesOut, InsertRecord, Classify, Recover,
      VerifyEvents, CheckResource, CheckSchedule, Persisted, PersistFails,
      ReadForCompletion, ReplaceRecord, ReplaceUnanswered, WriteTerminal,
      ReplaceLoses, Reconcile, Abandon,
      TxnCommits, TxnAborts, EventAppears, RetentionEnds
<1>3. ASSUME NEW d \in Decisions,
             Load(d) \/ CheckConflict(d) \/ UpdateRejected(d) \/ GiveUp(d)
      PROVE  reservation' = reservation
  BY <1>3 DEF Load, CheckConflict, UpdateRejected, GiveUp, storeVars
<1>4. ASSUME NEW d \in Decisions, UpdateStored(d) \/ UpdateUnanswered(d)
      PROVE  reservation'[p] = reservation[p]
  BY <1>0, <1>4, WrittenBack DEF UpdateStored, UpdateUnanswered, StoreTypeOK
<1> QED BY <1>2, <1>3, <1>4, SystemSteps

\* Whoever completes a crowd has raced with one of it.
LEMMA RaceStep ==
  ASSUME IsFiniteSet(Requests), Orderly, [SystemNext]_systemVars
  PROVE  RaceInEveryCrowd'
<1>0. /\ SystemShape /\ OwnClaim /\ Backed /\ PastVersions
      /\ RoomChecked /\ StillAdmitted /\ RaceInEveryCrowd
      /\ StoreTypeOK /\ DecisionTypeOK /\ SystemShape' /\ StoreTypeOK'
  BY SystemShapeStep DEF Orderly, Ready, SystemShape, Shape, TypeOK
<1> SUFFICES ASSUME NEW resource \in DOMAIN Resource, NEW t \in Int,
                    NEW crowd \in SUBSET (Occupants(resource, t)'),
                    Cardinality(crowd) > Resource[resource].totalUnits
             PROVE  \E a, b \in crowd :
                      a # b /\ ~SeenBy(a, b)' /\ ~SeenBy(b, a)'
  BY DEF RaceInEveryCrowd
<1> DEFINE units == Resource[resource].totalUnits
<1>1. /\ units \in Nat \ {0}
      /\ crowd \subseteq Requests /\ IsFiniteSet(crowd)
      /\ Cardinality(crowd) \in Nat
  <2>1. crowd \subseteq Requests
    BY DEF Occupants
  <2> QED BY <2>1, FS_Subset, FS_CardinalityType, ResourceAssumption
<1>2. ASSUME NEW p \in crowd
      PROVE  /\ p \in Requests /\ Command[p].resource = resource
             /\ reservation'[p].status = "CONFIRMED" /\ Exists(p)'
             /\ Covers(reservation'[p].interval, t)
             /\ reservation'[p] \in ReservationDocument
             /\ reservation'[p].interval \in Interval
  <2>1. /\ p \in Requests /\ Command[p].resource = resource
        /\ reservation'[p].status = "CONFIRMED"
        /\ Covers(reservation'[p].interval, t)
    BY DEF Occupants, BlocksSchedule
  <2>2. Exists(p)' /\ reservation'[p] \in ReservationDocument
    BY <1>0, <2>1 DEF StoreTypeOK, Exists, NoReservation, Stored
  <2> QED BY <2>1, <2>2 DEF ReservationDocument
<1>3. ASSUME NEW d \in Decisions, NEW q \in crowd, Target(d) = q,
             UpdateStored(d) \/ UpdateUnanswered(d)
      PROVE  /\ step[d] = "update" /\ Op(d) \in {"approve", "extend"}
             /\ checked'[q] = looked[d]
             /\ Exists(q) /\ reservation[q].version \in Nat
             /\ reservation'[q].version = reservation[q].version + 1
             /\ reservation'[q].interval = Wanted(d)
  <2>1. WriteBack(d)
    BY <1>3 DEF UpdateStored, UpdateUnanswered
  <2>2. /\ q \in Requests /\ reservation[q] = copy[d]
        /\ copy[d] \in ReservationDocument /\ Refusal(d, copy[d]) = "none"
        /\ reservation'[q] = Stored(Decided(d), copy[d].cas + 1)
    BY <1>0, <1>2, <1>3, <2>1, WrittenBack DEF StoreTypeOK
  <2>3. Op(d) \in {"approve", "extend"}
    <3>1. Op(d) \in Ops
      BY DecisionAssumption DEF Op
    <3> QED BY <1>2, <2>2, <3>1, DecisionEffect DEF Ops
  <2>4. /\ reservation'[q].version = reservation[q].version + 1
        /\ reservation'[q].interval = Wanted(d)
    BY <2>2, <2>3, DecisionEffect DEF Wanted
  <2>5. step[d] = "update" /\ checked'[q] = looked[d]
    BY <1>0, <1>3, <2>1, <2>2, <2>3 DEF WriteBack, StoreTypeOK
  <2>6. Exists(q) /\ reservation[q].version \in Nat
    BY <2>2 DEF ReservationDocument, Status, Exists
  <2> QED BY <2>3, <2>4, <2>5, <2>6
<1>4. ASSUME NEW p \in crowd, reservation'[p] = reservation[p]
      PROVE  checked'[p] = checked[p]
  <2>1. Exists(p) /\ p \in Requests
    BY <1>2, <1>4 DEF Exists
  <2>2. txn[p] # "none"
    BY <1>0, <2>1 DEF Backed
  <2>3. ASSUME NEW d \in Decisions, Target(d) = p,
               UpdateStored(d) \/ UpdateUnanswered(d)
        PROVE  FALSE
    BY <1>3, <1>4, <2>3
  <2> QED BY <1>0, <2>1, <2>2, <2>3, CheckedWrites
\* A crowd that has not moved raced before.
<1>5. CASE \A p \in crowd : reservation'[p] = reservation[p]
  <2>1. crowd \in SUBSET Occupants(resource, t)
    BY <1>2, <1>5 DEF Occupants, BlocksSchedule
  <2>2. PICK a, b \in crowd : a # b /\ ~SeenBy(a, b) /\ ~SeenBy(b, a)
    BY <1>0, <2>1 DEF RaceInEveryCrowd
  <2>3. ~SeenBy(a, b)' /\ ~SeenBy(b, a)'
    BY <1>4, <1>5, <2>2 DEF SeenBy
  <2> QED BY <2>2, <2>3
<1>6. ASSUME NEW q \in crowd, reservation'[q] # reservation[q],
             NEW a \in crowd \ {q}
      PROVE  /\ reservation'[a] = reservation[a] /\ Exists(a)
             /\ checked'[a] = checked[a]
             /\ ~SeenBy(q, a)'
  <2>1. reservation'[a] = reservation[a] /\ checked'[a] = checked[a]
    BY <1>0, <1>2, <1>4, <1>6, OneDocumentWritten
  <2>2. checked[a] \in Histories
    BY <1>2 DEF Histories
  <2>3. ~SeenBy(q, a)'
    BY <1>0, <1>2, <1>6, <2>1, <2>2, SeenHasNotMoved DEF SeenBy
  <2> QED BY <1>2, <2>1, <2>3 DEF Exists
\* A decision puts q where it had looked for others.
<1>7. ASSUME NEW q \in crowd, reservation'[q] # reservation[q],
             NEW d \in Decisions, Target(d) = q,
             UpdateStored(d) \/ UpdateUnanswered(d)
      PROVE  \E a \in crowd \ {q} : ~SeenBy(a, q)'
  <2>1. PICK a \in crowd : a # q
    <3>1. CASE crowd \subseteq {q}
      <4>1. IsFiniteSet({q}) /\ Cardinality({q}) = 1
        BY FS_Singleton
      <4>2. Cardinality(crowd) <= Cardinality({q})
        BY <3>1, <4>1, FS_Subset
      <4> QED BY <1>1, <4>1, <4>2
    <3> QED BY <3>1
  <2>2. /\ reservation'[a] = reservation[a] /\ a \in Requests /\ q \in Requests
        /\ Command[a].resource = Command[q].resource
        /\ Overlaps(reservation'[q].interval, reservation'[a].interval)
    BY <1>2, <1>6, <1>7, <2>1, SharedHourOverlaps
  <2>3. ~StandsAsSeen(a, looked[d])
    BY <1>0, <1>3, <1>7, <2>1, <2>2 DEF RoomChecked
  <2>4. checked'[q] = looked[d]
    BY <1>3, <1>7
  <2> QED BY <2>1, <2>2, <2>3, <2>4 DEF StandsAsSeen, SeenBy
\* A reservation appears where its check had found room.
<1>8. ASSUME NEW q \in crowd, ~Exists(q), txn[q] = "committed",
             reservation'[q] # reservation[q],
             reservation'[q] = Stored(Created(q), 1)
      PROVE  \E a \in crowd \ {q} : ~SeenBy(a, q)'
  <2> SUFFICES ASSUME \A a \in crowd \ {q} : SeenBy(a, q)' PROVE FALSE
    OBVIOUS
  <2> DEFINE rest == crowd \ {q}
  <2>1. checked'[q] = checked[q]
    <3>1. q \in Requests
      BY <1>2
    <3>2. ASSUME NEW d \in Decisions, Target(d) = q,
                 UpdateStored(d) \/ UpdateUnanswered(d)
          PROVE  FALSE
      BY <1>3, <1>8, <3>2
    <3> QED BY <1>0, <1>8, <3>1, <3>2, CheckedWrites
  <2>2. ASSUME NEW a \in rest PROVE a \in InTheWay(q)
    <3>1. /\ reservation'[a] = reservation[a] /\ a \in Requests
          /\ q \in Requests /\ Command[a].resource = Command[q].resource
          /\ Overlaps(reservation'[q].interval, reservation'[a].interval)
      BY <1>2, <1>6, <1>8, SharedHourOverlaps
    <3>2. reservation'[q].interval = Command[q].interval
      BY <1>8, <3>1, CreatedDocument
    <3>3. StandsAsSeen(a, checked[q])
      BY <2>1, <3>1 DEF SeenBy, StandsAsSeen
    <3> QED BY <3>1, <3>2, <3>3 DEF InTheWay
  <2>3. /\ IsFiniteSet(InTheWay(q)) /\ Cardinality(InTheWay(q)) \in Nat
        /\ Cardinality(InTheWay(q)) < units
    <3>1. InTheWay(q) \subseteq Requests
      BY DEF InTheWay
    <3>2. Cardinality(InTheWay(q)) < units
      BY <1>0, <1>2, <1>8 DEF StillAdmitted, ResourceOf
    <3> QED BY <3>1, <3>2, FS_Subset, FS_CardinalityType
  <2>4. Cardinality(rest) = Cardinality(crowd) - 1 /\ Cardinality(rest) \in Nat
    BY <1>1, FS_RemoveElement, FS_CardinalityType
  <2>5. Cardinality(rest) <= Cardinality(InTheWay(q))
    BY <2>2, <2>3, FS_Subset
  <2> HIDE DEF rest, units
  <2>6. Cardinality(crowd) > units
    BY DEF units
  <2> QED BY <1>1, <2>3, <2>4, <2>5, <2>6
<1>9. CASE \E q \in crowd : reservation'[q] # reservation[q]
  <2>1. PICK q \in crowd : reservation'[q] # reservation[q]
    BY <1>9
  <2>2. \E a \in crowd \ {q} : ~SeenBy(a, q)'
    BY <1>0, <1>2, <1>7, <1>8, <2>1, DocumentWrites
  <2> QED BY <1>6, <2>1, <2>2
<1> QED BY <1>5, <1>9

\* A resource is overbooked only by commands that raced, decisions among them.
THEOREM SystemOverbookingTakesARace ==
  ASSUME IsFiniteSet(Requests) PROVE SystemSpec => []OverbookingNeedsARace
<1>1. SystemInit =>
        OwnClaim /\ Backed /\ PastVersions /\ RoomChecked /\ StillAdmitted
        /\ RaceInEveryCrowd
  <2> SUFFICES ASSUME SystemInit
               PROVE  /\ OwnClaim /\ Backed /\ PastVersions /\ RoomChecked
                      /\ StillAdmitted /\ RaceInEveryCrowd
    OBVIOUS
  <2> USE DEF SystemInit, Init, StoreInit, RequestInit, DecisionInit
  <2>1. OwnClaim /\ RoomChecked /\ StillAdmitted
    BY DEF OwnClaim, RoomChecked, StillAdmitted
  <2>2. Backed
    BY DEF Backed, Exists, NoReservation, Stored
  <2>3. PastVersions
    BY DEF PastVersions, Histories
  <2>4. ASSUME NEW resource \in DOMAIN Resource, NEW t \in Int,
               NEW crowd \in SUBSET Occupants(resource, t)
        PROVE  ~(Cardinality(crowd) > Resource[resource].totalUnits)
    <3>1. crowd = {}
      BY DEF Occupants, BlocksSchedule, NoReservation, Stored
    <3> QED BY <3>1, FS_EmptySet, ResourceAssumption
  <2> QED BY <2>1, <2>2, <2>3, <2>4 DEF RaceInEveryCrowd
<1>2. Orderly /\ [SystemNext]_systemVars => Orderly'
  BY ReadyStep, RoomCheckedStep, StillAdmittedStep, RaceStep DEF Orderly
<1>3. Orderly => OverbookingNeedsARace
  <2> SUFFICES ASSUME Orderly, NEW resource \in DOMAIN Resource, NEW t \in Starts,
                      Overbooked(resource, t)
               PROVE  \E a, b \in Occupants(resource, t) :
                        a # b /\ ~SeenBy(a, b) /\ ~SeenBy(b, a)
    BY DEF OverbookingNeedsARace
  <2>1. t \in Int
    BY DEF Orderly, Ready, SystemShape, Shape, TypeOK, StoreTypeOK, Starts,
           ReservationDocument, NoReservation, Stored, Interval
  <2> QED BY <2>1 DEF Orderly, RaceInEveryCrowd, Overbooked
<1>4. SystemInit => SystemShape
  BY SystemShapeInit
<1>5. SystemInit => Orderly
  BY <1>1, <1>4 DEF Orderly, Ready
<1> QED BY <1>2, <1>3, <1>5, PTL DEF SystemSpec

-----------------------------------------------------------------------------
(* Whatever is written can be read.                                        *)

\* An interval starts where its request asked, and ends where the request or a
\* decision did.
Planned ==
  \A q \in Requests :
    Exists(q) =>
      /\ reservation[q].interval.start = Command[q].interval.start
      /\ reservation[q].interval.end \in Ends

\* Nobody moves the start of an interval, or its end to where nobody asked.
LEMMA PlannedStep ==
  ASSUME SystemShape, Planned, [SystemNext]_systemVars
  PROVE  Planned'
<1> SUFFICES ASSUME NEW q \in Requests, Exists(q)'
             PROVE  /\ reservation'[q].interval.start = Command[q].interval.start
                    /\ reservation'[q].interval.end \in Ends
  BY DEF Planned, Ends
<1>0. StoreTypeOK
  BY DEF SystemShape, Shape, TypeOK
<1>1. CASE reservation'[q] = reservation[q]
  BY <1>1 DEF Planned, Exists
<1>2. CASE reservation'[q] = Stored(Created(q), 1)
  <2>1. reservation'[q].interval = Command[q].interval
    BY <1>2
    DEF Stored, Created, CreateConfirmed, CreatePendingApproval
  <2> QED BY <2>1 DEF Ends
<1>3. CASE Exists(q) /\ reservation'[q] # reservation[q]
  <2>1. PICK d \in Decisions :
          /\ reservation'[q].interval.start = reservation[q].interval.start
          /\ Op(d) # "extend" =>
               reservation'[q].interval = reservation[q].interval
          /\ Op(d) = "extend" =>
               reservation'[q].interval =
                 [start |-> Decision[d].start, end |-> Decision[d].end]
    BY <1>3, DocumentMoves
  <2>2. /\ reservation[q].interval.start = Command[q].interval.start
        /\ reservation[q].interval.end \in Ends
    BY <1>3 DEF Planned
  <2>3. Op(d) = "extend" => reservation'[q].interval.end = Decision[d].end
    BY <2>1
  <2>4. Decision[d].end \in Ends
    BY DEF Ends
  <2> QED BY <2>1, <2>2, <2>3, <2>4
<1>4. ASSUME NEW d \in Decisions, Target(d) = q,
             UpdateStored(d) \/ UpdateUnanswered(d)
      PROVE  Exists(q)
  BY <1>0, <1>4, WrittenBack, StoredOrAbsent DEF UpdateStored, UpdateUnanswered
<1> QED BY <1>1, <1>2, <1>3, <1>4, DocumentWrites

\* No content, no event and no record that can be written is unreadable.
LEMMA AllIsReadable ==
  ASSUME IsFiniteSet(Decisions)
  PROVE  UnreadableContents = {} /\ UnreadableEvents = {} /\ UnreadableRecords = {}
<1>0. \A i \in Ends \cup {Command[q].interval.start : q \in Requests} : i \in Int
  BY CommandAssumption, DecisionAssumption DEF Ends, Interval
<1>1. ASSUME NEW r \in PossibleContents PROVE Readable(r)
  <2>1. Cardinality(Decisions) \in Nat
    BY FS_CardinalityType
  <2>2. r \in Contents
    BY <1>0, <2>1 DEF PossibleContents, Contents, Interval
  <2> QED BY <2>2, ReservationsAreReadable
<1>2. ASSUME NEW q \in Requests, NEW type \in EventTypes
      PROVE  EventReadsBack(CreationEvent(Created(q), type))
  <2>1. Created(q).interval \in Interval /\ Created(q).status \in LiveStatus
    BY CommandAssumption
    DEF Created, CreateConfirmed, CreatePendingApproval, LiveStatus
  <2>2. EventReadsBack(ReservationConfirmedEvent(Created(q), {}))
    BY <2>1, ConfirmationReadsBack
  <2> QED BY <2>1, <2>2, CreationsReadBack DEF CreationEvent, EventTypes
<1>3. ASSUME NEW record \in IdempotencyRecord
      PROVE  RecordReadsBack(record, Command[record.owner].interval)
  <2>1. /\ record = [status |-> record.status, owner |-> record.owner,
                     result |-> record.result]
        /\ record.owner \in Requests
        /\ \/ record.status = "PROCESSING" /\ record.result = "none"
           \/ record.status = "SUCCEEDED" /\ record.result \in Successes
           \/ record.status = "FAILED_PERMANENT" /\ record.result \in Rejections
    BY DEF IdempotencyRecord
  <2>2. Command[record.owner].interval \in Interval
    BY <2>1, CommandAssumption
  <2> QED BY <2>1, <2>2, RecordsReadBack
          DEF Successes, Rejections, RejectionResults
<1>4. UnreadableContents = {}
  BY <1>1 DEF UnreadableContents, If
<1>5. UnreadableEvents = {}
  BY <1>2 DEF UnreadableEvents
<1>6. UnreadableRecords = {}
  BY <1>3 DEF UnreadableRecords
<1> QED BY <1>4, <1>5, <1>6

\* No document the program writes stops a listing, a command or the relay, and
\* none of those that decisions could make of it does.
THEOREM EverythingIsReadable ==
  ASSUME IsFiniteSet(Decisions) PROVE SystemSpec => []NothingUnreadable
<1>1. SystemInit => Planned
  BY DEF SystemInit, Init, StoreInit, NoReservation, Stored, Exists, Planned
<1>2. SystemShape /\ Planned /\ [SystemNext]_systemVars => Planned'
  BY PlannedStep
<1>3. ASSUME SystemShape, Planned, DecisionsAccount PROVE NothingUnreadable
  <2>1. ASSUME NEW q \in Requests, Exists(q) PROVE Content(q) \in PossibleContents
    <3> DEFINE Known == {d \in Decisions : Target(d) = q /\ ~Refused(d)}
    <3>1. reservation[q] \in ReservationDocument
      BY <1>3, <2>1, StoredOrAbsent DEF SystemShape, Shape, TypeOK
    <3>2. reservation[q].version \in 1 .. (Cardinality(Decisions) + 1)
      <4>1. /\ Cardinality(Known) <= Cardinality(Decisions)
            /\ Cardinality(Known) \in Nat /\ Cardinality(Decisions) \in Nat
        BY FS_Subset, FS_CardinalityType
      <4>2. reservation[q].version - 1 <= Cardinality(Known)
        BY <1>3, <2>1 DEF DecisionsAccount, RefusalsChangeNothing
      <4>3. reservation[q].version \in Nat \ {0}
        BY <3>1 DEF ReservationDocument
      <4> HIDE DEF Known
      <4> QED BY <4>1, <4>2, <4>3
    <3>3. /\ reservation[q].interval.start \in {Command[p].interval.start : p \in Requests}
          /\ reservation[q].interval.end \in Ends
      BY <1>3, <2>1 DEF Planned
    <3>4. /\ reservation[q].interval = [start |-> reservation[q].interval.start,
                                        end |-> reservation[q].interval.end]
          /\ reservation[q].interval.start < reservation[q].interval.end
      BY <3>1 DEF ReservationDocument, Interval
    <3>5. reservation[q].status \in Status /\ reservation[q].approved \in BOOLEAN
      BY <3>1 DEF ReservationDocument
    <3> QED BY <3>2, <3>3, <3>4, <3>5 DEF Content, PossibleContents
  <2> QED BY <2>1, AllIsReadable DEF NothingUnreadable
<1> QED BY <1>1, <1>2, <1>3, SystemShapeKept, DecisionsAccounted,
PTL DEF SystemSpec

=============================================================================
