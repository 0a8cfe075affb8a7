--------------------------- MODULE UserTurnProofs ---------------------------
(***************************************************************************)
(* For any number of batches, operators and /start commands, and any       *)
(* window: what a turn may still say once an operator has taken over.      *)
(*                                                                         *)
(* That at most one answer follows the operator's message needs more than  *)
(* the two looks at the window: a turn past the second look holds the      *)
(* lock, so there is one such turn at most, and when it has sent its       *)
(* answer no other reaches its place before the window closes.             *)
(***************************************************************************)
EXTENDS UserTurn, TLAPS

(* A turn between Enter and Leave holds the lock, and nobody else does.    *)
LockHeld ==
  /\ \A k \in Batch : pc[k] \in {"gate", "model", "send", "report", "leave"}
                        <=> phase[k] = "holding"
  /\ \A k \in Batch : wanted[k] = "user"
  /\ \A j, k \in Batch : phase[j] = "holding" /\ phase[k] = "holding" => j = k

(* While the window is open, a turn about to answer was already about to   *)
(* when the operator was recorded, and has not answered yet.               *)
InFlight ==
  /\ late \in {0, 1}
  /\ OperatorActive => \A k \in Batch : pc[k] = "send" => k \in past /\ late = 0

IInv == TypeOK /\ LockHeld /\ InFlight

(* The first state: nobody is in his turn.                                 *)
LEMMA InitIInv == Init => IInv
<1> SUFFICES ASSUME Init PROVE IInv OBVIOUS
<1>1. TypeOK
  <2>1. Lock!TypeOK BY DEF Init, Lock!Init, Lock!TypeOK
  <2>2. hot \in BOOLEAN /\ cancelled \in BOOLEAN BY DEF Init
  <2>3. /\ operatorAge \in Ages /\ starts \in 0..Starts
        /\ topic \in SUBSET Batch /\ past \in SUBSET Batch /\ late \in 0..Batches
    BY SuppressionAssumption, BoundsAssumption DEF Init, Ages
  <2>4. pc \in [Batch -> PC] /\ op \in [Operator -> {"none", "told", "done"}]
    BY DEF Init, PC
  <2> QED BY <2>1, <2>2, <2>3, <2>4 DEF TypeOK
<1>2. LockHeld BY DEF Init, Lock!Init, LockHeld
<1>3. InFlight BY DEF Init, InFlight
<1> QED BY <1>1, <1>2, <1>3 DEF IInv

(* The steps of a turn.                                                    *)
LEMMA RunPreserves ==
  ASSUME IInv, NEW k \in Batch, Run(k)
  PROVE  IInv'
<1> USE SuppressionAssumption, BoundsAssumption
<1>1. TypeOK'
  <2>1. hot' \in BOOLEAN
    BY DEF IInv, TypeOK, Run, Refused, Enter, Suppressed, RateLimited, CallModel,
           ModelFails, Overtaken, Answers, Send, Report, Leave
  <2>2. Lock!TypeOK'
    BY DEF IInv, TypeOK, Run, Refused, Enter, Suppressed, RateLimited, CallModel,
           ModelFails, Overtaken, Answers, Send, Report, Leave, lock, Lock!TypeOK,
           Lock!Abandon, Lock!Grant, Lock!Release
  <2>3. pc' \in [Batch -> PC]
    BY DEF IInv, TypeOK, Run, Refused, Enter, Suppressed, RateLimited, CallModel,
           ModelFails, Overtaken, Answers, Send, Report, Leave, Goto, PC
  <2>4. topic' \in SUBSET Batch /\ past' \in SUBSET Batch /\ late' \in 0..Batches
    <3>1. CASE Send(k)
      <4>1. UNCHANGED <<topic, past>> BY <3>1 DEF Send
      <4>2. late' \in {0, 1}
        BY <3>1 DEF IInv, InFlight, OperatorActive, Send, Goto
      <4>3. 1 <= Batches BY DEF Batch
      <4> QED BY <4>1, <4>2, <4>3 DEF IInv, TypeOK
    <3>2. CASE Report(k)
      BY <3>2 DEF IInv, TypeOK, Report
    <3>3. CASE ~Send(k) /\ ~Report(k)
      <4>1. UNCHANGED <<topic, past, late>>
        BY <3>3 DEF Run, Refused, Enter, Suppressed, RateLimited, CallModel,
                    ModelFails, Overtaken, Answers, Leave, history
      <4> QED BY <4>1 DEF IInv, TypeOK
    <3> QED BY <3>1, <3>2, <3>3
  <2>5. UNCHANGED <<op, starts, cancelled, operatorAge>>
    BY DEF Run, Refused, Enter, Suppressed, RateLimited, CallModel, ModelFails,
           Overtaken, Answers, Send, Report, Leave, Quietly
  <2>6. operatorAge' \in Ages /\ op' \in [Operator -> {"none", "told", "done"}]
    BY <2>5 DEF IInv, TypeOK
  <2>7. starts' \in 0..Starts /\ cancelled' \in BOOLEAN
    BY <2>5 DEF IInv, TypeOK
  <2> QED BY <2>1, <2>2, <2>3, <2>4, <2>6, <2>7 DEF TypeOK
<1>2. LockHeld'
  BY DEF IInv, TypeOK, LockHeld, Run, Refused, Enter, Suppressed, RateLimited,
         CallModel, ModelFails, Overtaken, Answers, Send, Report, Leave, Goto,
         Quietly, lock, history, Lock!TypeOK, Lock!Abandon, Lock!Grant,
         Lock!Release, Lock!Holds
<1>3. InFlight'
  BY DEF IInv, TypeOK, LockHeld, InFlight, OperatorActive, Run, Refused, Enter,
         Suppressed, RateLimited, CallModel, ModelFails, Overtaken, Answers, Send,
         Report, Leave, Goto, Quietly, lock, history
<1> QED BY <1>1, <1>2, <1>3 DEF IInv

(* Everybody else's steps.                                                 *)
LEMMA OthersPreserve ==
  ASSUME IInv,
         \/ \E k \in Batch : Arrive(k)
         \/ \E o \in Operator : OperatorWrites(o) \/ RecordOperator(o)
         \/ Start \/ Cool \/ TicketTurnAcquires \/ Tick \/ Shutdown
         \/ UNCHANGED vars
  PROVE  IInv'
<1> USE SuppressionAssumption, BoundsAssumption
<1>1. ASSUME NEW k \in Batch, Arrive(k) PROVE IInv'
  BY <1>1 DEF IInv, TypeOK, LockHeld, InFlight, OperatorActive, Arrive, Goto,
              Quietly, history, PC, Lock!TypeOK, Lock!Request
<1>2. ASSUME NEW o \in Operator, OperatorWrites(o) PROVE IInv'
  BY <1>2 DEF IInv, TypeOK, LockHeld, InFlight, OperatorActive, OperatorWrites,
              lock, state, history, Lock!TypeOK
<1>3. ASSUME NEW o \in Operator, RecordOperator(o) PROVE IInv'
  BY <1>3 DEF IInv, TypeOK, LockHeld, InFlight, OperatorActive, RecordOperator,
              Ages, Batch, lock, Lock!TypeOK
<1>4. CASE Start
  BY <1>4 DEF IInv, TypeOK, LockHeld, InFlight, OperatorActive, Start, Ages, Batch,
              lock, Lock!TypeOK
<1>5. CASE Cool \/ TicketTurnAcquires \/ Shutdown \/ UNCHANGED vars
  <2>1. hot' \in BOOLEAN /\ cancelled' \in BOOLEAN
    BY <1>5 DEF IInv, TypeOK, Cool, TicketTurnAcquires, Shutdown, vars, state
  <2>2. UNCHANGED <<phase, wanted, pc, operatorAge, op, starts, topic, past, late>>
    BY <1>5 DEF Cool, TicketTurnAcquires, Shutdown, vars, lock, state, history
  <2>3. TypeOK' BY <2>1, <2>2 DEF IInv, TypeOK, Lock!TypeOK
  <2> QED BY <2>2, <2>3 DEF IInv, LockHeld, InFlight, OperatorActive
<1>6. CASE Tick
  <2>1. hot' \in BOOLEAN BY <1>6 DEF Tick
  <2>2. operatorAge' \in Ages /\ (OperatorActive' => OperatorActive)
    BY <1>6 DEF IInv, TypeOK, OperatorActive, Tick, Ages
  <2>3. UNCHANGED <<phase, wanted, pc, op, starts, cancelled, topic, past, late>>
    BY <1>6 DEF Tick, lock, history
  <2>4. TypeOK' BY <2>1, <2>2, <2>3 DEF IInv, TypeOK, Lock!TypeOK
  <2> QED BY <2>2, <2>3, <2>4 DEF IInv, LockHeld, InFlight
<1> QED BY <1>1, <1>2, <1>3, <1>4, <1>5, <1>6

(* Every step keeps the inductive invariant.                               *)
LEMMA NextIInv == IInv /\ [Next]_vars => IInv'
BY RunPreserves, OthersPreserve DEF Next

(* The inductive invariant holds in every behaviour.                       *)
THEOREM Invariant == Spec => []IInv
<1>1. Init => IInv BY InitIInv
<1>2. IInv /\ [Next]_vars => IInv' BY NextIInv
<1> QED BY <1>1, <1>2, PTL DEF Spec

(* Types, and at most one answer after an operator's recorded message.     *)
THEOREM LateAnswers == Spec => [](TypeOK /\ AtMostOneLateAnswer)
<1>1. IInv => TypeOK /\ AtMostOneLateAnswer
  BY DEF IInv, InFlight, AtMostOneLateAnswer
<1> QED BY <1>1, Invariant, PTL

(* And that answer is of the turn that was past its second look.           *)
THEOREM InFlightOnly == Spec => OnlyTheTurnInFlight
<1>1. IInv /\ [Next]_vars =>
        [\A k \in Batch :
           pc[k] = "send" /\ pc'[k] # "send" /\ OperatorActive => k \in past]_vars
  BY DEF IInv, InFlight
<1> QED BY <1>1, Invariant, PTL DEF Spec, OnlyTheTurnInFlight
=============================================================================
