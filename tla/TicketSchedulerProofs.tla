----------------------- MODULE TicketSchedulerProofs -----------------------
(***************************************************************************)
(* For any tickets, any finite number of goroutines and any capacity of    *)
(* a.slots: the safety of TicketScheduler.                                 *)
(*                                                                         *)
(* No lost wakeup needs one goroutine per ticket: the goroutine that       *)
(* leaves its loop must be the one that the request relied on.  The drain  *)
(* needs the wait group to count the goroutines, and Schedule to be closed *)
(* before main waits.                                                      *)
(***************************************************************************)
EXTENDS TicketScheduler, FiniteSetTheorems, TLAPS

ClosedFirst == drain # "serving" => closed

IInv == /\ TypeOK /\ OneWorkerPerTicket /\ NoLostWakeup
        /\ SlotsCountTurns /\ DrainedMeansIdle /\ ClosedFirst

(* Sets of goroutines are finite.                                          *)
LEMMA WorkersFinite ==
  /\ IsFiniteSet(Alive) /\ Cardinality(Alive) \in Nat
  /\ IsFiniteSet(InSlot) /\ Cardinality(InSlot) \in Nat
<1>1. Alive \subseteq Worker /\ InSlot \subseteq Worker BY DEF Alive, InSlot
<1>2. IsFiniteSet(Alive) /\ IsFiniteSet(InSlot)
  BY <1>1, FS_Subset, WorkerAssumption
<1> QED BY <1>2, FS_CardinalityType

(* A goroutine that moves inside its loop stays its ticket's goroutine.    *)
LEMMA MoveKeepsWorkers ==
  ASSUME TypeOK, NEW w \in Worker, NEW a, NEW b, Goto(w, a, b), UNCHANGED job,
         a \in {"gone", "ending"} <=> b \in {"gone", "ending"}
  PROVE  \A t \in Ticket : Workers(t)' = Workers(t)
BY DEF TypeOK, Goto, Workers

(* A worker that moves on is still alive.                                  *)
LEMMA MoveKeepsAlive ==
  ASSUME TypeOK, NEW w \in Worker, NEW a, NEW b, Goto(w, a, b),
         a # "gone", b # "gone"
  PROVE  Alive' = Alive
BY DEF TypeOK, Goto, Alive

(* A worker that moves between places outside of the slots takes none.     *)
LEMMA MoveKeepsSlots ==
  ASSUME TypeOK, NEW w \in Worker, NEW a, NEW b, Goto(w, a, b),
         a \in {"lock", "turn", "unslot"} <=> b \in {"lock", "turn", "unslot"}
  PROVE  InSlot' = InSlot
BY DEF TypeOK, Goto, InSlot

(* The first state: no worker, nothing queued.                             *)
LEMMA InitIInv == Init => IInv
<1> SUFFICES ASSUME Init PROVE IInv OBVIOUS
<1>1. Alive = {} /\ InSlot = {} /\ \A t \in Ticket : Workers(t) = {}
  BY DEF Init, Alive, InSlot, Workers
<1>2. Cardinality(Alive) = 0 /\ Cardinality(InSlot) = 0 BY <1>1, FS_EmptySet
<1>3. TypeOK
  <2>1. closed \in BOOLEAN /\ cancelled \in BOOLEAN BY DEF Init
  <2>2. pc \in [Worker -> PC] /\ job \in [Worker -> Ticket] BY DEF Init, PC
  <2>3. wg \in Nat /\ slots \in 0..MaxSlots BY MaxSlotsAssumption DEF Init
  <2>4. /\ active \in SUBSET Ticket /\ rerun \in SUBSET Ticket /\ owed \in SUBSET Ticket
        /\ drain \in {"serving", "draining", "drained", "timedOut", "closed"}
    BY DEF Init
  <2> QED BY <2>1, <2>2, <2>3, <2>4 DEF TypeOK
<1>4. OneWorkerPerTicket BY <1>1 DEF Init, OneWorkerPerTicket
<1>5. NoLostWakeup BY DEF Init, NoLostWakeup
<1>6. SlotsCountTurns BY <1>2, MaxSlotsAssumption DEF Init, SlotsCountTurns
<1>7. DrainedMeansIdle /\ ClosedFirst
  BY <1>2 DEF Init, DrainedMeansIdle, ClosedFirst
<1> QED BY <1>3, <1>4, <1>5, <1>6, <1>7 DEF IInv

----------------------------------------------------------------------------
(* The two outcomes of Schedule that change anything.                      *)
LEMMA RerunPreserves ==
  ASSUME IInv, NEW t \in Ticket, ScheduleRerun(t)
  PROVE  IInv'
<1>1. UNCHANGED <<active, closed, cancelled, wg, slots, pc, job, drain>>
  BY DEF ScheduleRerun
<1>2. /\ Alive' = Alive /\ InSlot' = InSlot
      /\ \A u \in Ticket : Workers(u)' = Workers(u)
  BY <1>1 DEF Alive, InSlot, Workers
<1>3. TypeOK'
  <2>1. rerun' \in SUBSET Ticket /\ owed' \in SUBSET Ticket
    BY DEF IInv, TypeOK, ScheduleRerun
  <2> QED BY <1>1, <2>1 DEF IInv, TypeOK
<1>4. OneWorkerPerTicket' BY <1>1, <1>2 DEF IInv, OneWorkerPerTicket
<1>5. NoLostWakeup'
  <2> SUFFICES ASSUME NEW u \in owed', ~cancelled
               PROVE  \E w \in Workers(u) : \/ pc[w] \in {"starting", "slot", "lock"}
                                            \/ u \in rerun'
    BY <1>1, <1>2 DEF IInv, TypeOK, NoLostWakeup, ScheduleRerun
  <2>1. CASE u = t
    <3>1. PICK w \in Worker : Workers(t) = {w}
      BY DEF IInv, OneWorkerPerTicket, ScheduleRerun
    <3> QED BY <2>1, <3>1 DEF ScheduleRerun
  <2>2. CASE u # t
    <3>1. u \in owed BY <2>2 DEF ScheduleRerun
    <3> QED BY <3>1 DEF IInv, NoLostWakeup, ScheduleRerun
  <2> QED BY <2>1, <2>2
<1>6. SlotsCountTurns' BY <1>1, <1>2 DEF IInv, SlotsCountTurns
<1>7. DrainedMeansIdle' /\ ClosedFirst'
  BY <1>1, <1>2 DEF IInv, DrainedMeansIdle, ClosedFirst
<1> QED BY <1>3, <1>4, <1>5, <1>6, <1>7 DEF IInv

(* Start: a worker is created, or its ticket is marked as pending.         *)
LEMMA StartPreserves ==
  ASSUME IInv, NEW t \in Ticket, ScheduleStart(t)
  PROVE  IInv'
<1>1. PICK w \in Worker : Goto(w, "gone", "starting") /\ job' = [job EXCEPT ![w] = t]
  BY DEF ScheduleStart
<1>2. /\ active' = active \cup {t} /\ owed' = owed \cup {t} /\ wg' = wg + 1
      /\ UNCHANGED <<rerun, closed, cancelled, slots, drain>>
      /\ ~closed /\ t \notin active
  BY DEF ScheduleStart
<1>3. pc' = [pc EXCEPT ![w] = "starting"] /\ pc[w] = "gone" BY <1>1 DEF Goto
<1>4. TypeOK'
  <2>1. pc' \in [Worker -> PC] /\ job' \in [Worker -> Ticket]
    BY <1>1, <1>3 DEF IInv, TypeOK, PC
  <2>2. active' \in SUBSET Ticket /\ owed' \in SUBSET Ticket /\ wg' \in Nat
    BY <1>2 DEF IInv, TypeOK
  <2> QED BY <1>2, <2>1, <2>2 DEF IInv, TypeOK
<1>5. /\ Workers(t)' = {w}
      /\ \A u \in Ticket : u # t => Workers(u)' = Workers(u)
  <2>1. Workers(t) = {} BY <1>2 DEF IInv, OneWorkerPerTicket
  <2> QED BY <1>1, <1>3, <2>1 DEF IInv, TypeOK, Workers
<1>6. OneWorkerPerTicket' BY <1>2, <1>5 DEF IInv, OneWorkerPerTicket
<1>7. NoLostWakeup'
  <2> SUFFICES ASSUME NEW u \in owed', ~cancelled
               PROVE  \E v \in Workers(u)' : \/ pc'[v] \in {"starting", "slot", "lock"}
                                             \/ u \in rerun'
    BY <1>2 DEF IInv, TypeOK, NoLostWakeup
  <2>1. CASE u = t BY <1>3, <1>5, <2>1 DEF IInv, TypeOK
  <2>2. CASE u # t
    <3>1. u \in owed /\ u \in Ticket BY <1>2, <2>2 DEF IInv, TypeOK
    <3>2. PICK v \in Workers(u) : pc[v] \in {"starting", "slot", "lock"} \/ u \in rerun
      BY <3>1 DEF IInv, NoLostWakeup
    <3>3. v \in Workers(u)' /\ pc'[v] = pc[v]
      BY <1>3, <1>5, <2>2, <3>1, <3>2 DEF IInv, TypeOK, Workers
    <3> QED BY <1>2, <3>2, <3>3
  <2> QED BY <2>1, <2>2
<1>8. SlotsCountTurns'
  <2>1. InSlot' = InSlot BY <1>3 DEF IInv, TypeOK, InSlot
  <2> QED BY <1>2, <2>1 DEF IInv, SlotsCountTurns
<1>9. DrainedMeansIdle' /\ ClosedFirst'
  <2>1. Alive' = Alive \cup {w} /\ w \notin Alive
    BY <1>3 DEF IInv, TypeOK, Alive
  <2>2. Cardinality(Alive') = Cardinality(Alive) + 1
    BY <2>1, WorkersFinite, FS_AddElement
  <2>3. drain = "serving" BY <1>2 DEF IInv, ClosedFirst
  <2> QED BY <1>2, <2>2, <2>3 DEF IInv, DrainedMeansIdle, ClosedFirst
<1> QED BY <1>4, <1>6, <1>7, <1>8, <1>9 DEF IInv

----------------------------------------------------------------------------
(* A step of a goroutine inside its loop, but for the test at the end of   *)
(* it: the facts that all such steps share.                                *)
LEMMA InsidePreserves ==
  ASSUME IInv, NEW w \in Worker, NEW a \in PC, NEW b \in PC, Goto(w, a, b),
         a \notin {"gone", "ending"}, b \notin {"gone", "ending"},
         UNCHANGED <<active, closed, cancelled, wg, job, drain>>,
         rerun' \in SUBSET Ticket, owed' \in SUBSET Ticket,
         NoLostWakeup', slots' \in Nat, SlotsCountTurns'
  PROVE  IInv'
<1>1. TypeOK'
  <2>1. pc' \in [Worker -> PC] BY DEF IInv, TypeOK, Goto
  <2>2. slots' \in 0..MaxSlots BY MaxSlotsAssumption DEF SlotsCountTurns
  <2> QED BY <2>1, <2>2 DEF IInv, TypeOK
<1>2. \A t \in Ticket : Workers(t)' = Workers(t)
  BY MoveKeepsWorkers DEF IInv
<1>3. OneWorkerPerTicket' BY <1>2 DEF IInv, OneWorkerPerTicket
<1>4. Alive' = Alive BY MoveKeepsAlive DEF IInv
<1>5. DrainedMeansIdle' /\ ClosedFirst'
  BY <1>4 DEF IInv, DrainedMeansIdle, ClosedFirst
<1> QED BY <1>1, <1>3, <1>5 DEF IInv

(* A wakeup that is owed stays accounted for when the goroutine moves and  *)
(* was not the reason, or still is.                                        *)
LEMMA WakeupKept ==
  ASSUME IInv, NEW w \in Worker, NEW a \in PC, NEW b \in PC, Goto(w, a, b),
         a \notin {"gone", "ending"}, b \notin {"gone", "ending"},
         UNCHANGED <<cancelled, job>>, owed' \subseteq owed,
         \A t \in Ticket : t # job[w] /\ t \in rerun => t \in rerun',
         job[w] \in owed' /\ ~cancelled =>
           b \in {"starting", "slot", "lock"} \/ job[w] \in rerun'
  PROVE  NoLostWakeup'
<1> SUFFICES ASSUME NEW t \in owed', ~cancelled
             PROVE  \E v \in Workers(t)' : \/ pc'[v] \in {"starting", "slot", "lock"}
                                           \/ t \in rerun'
  BY DEF NoLostWakeup
<1>1. t \in Ticket /\ t \in owed BY DEF IInv, TypeOK
<1>2. PICK v \in Workers(t) : pc[v] \in {"starting", "slot", "lock"} \/ t \in rerun
  BY <1>1 DEF IInv, NoLostWakeup
<1>3. v \in Workers(t)' BY <1>1, <1>2, MoveKeepsWorkers DEF IInv
<1>4. pc' = [pc EXCEPT ![w] = b] /\ pc[w] = a /\ pc \in [Worker -> PC]
  BY DEF Goto, IInv, TypeOK
<1>5. CASE t = job[w]
  <2>1. w \in Workers(t)' BY <1>1, <1>4, <1>5 DEF Workers, IInv, TypeOK
  <2> QED BY <1>4, <1>5, <2>1
<1>6. CASE t # job[w]
  <2>1. v # w BY <1>2, <1>6 DEF Workers
  <2>2. pc'[v] = pc[v] BY <1>2, <1>4, <2>1 DEF Workers
  <2> QED BY <1>1, <1>2, <1>3, <1>6, <2>2
<1> QED BY <1>5, <1>6

(* A goroutine in its loop is the only one of its ticket, so a wakeup owed *)
(* after its turn has read the ticket is in the rerun flag.                *)
LEMMA AloneInLoop ==
  ASSUME IInv, NEW w \in Worker, pc[w] \notin {"gone", "ending"}
  PROVE  /\ Workers(job[w]) = {w} /\ job[w] \in active
         /\ pc[w] \in {"turn", "unslot", "check"} /\ job[w] \in owed /\ ~cancelled
              => job[w] \in rerun
<1>1. job[w] \in Ticket /\ w \in Workers(job[w]) BY DEF IInv, TypeOK, Workers
<1>2. Workers(job[w]) = {w} /\ job[w] \in active
  BY <1>1 DEF IInv, OneWorkerPerTicket
<1> QED BY <1>1, <1>2 DEF IInv, NoLostWakeup

(* Workers that stay where they are use the same slots.                    *)
LEMMA SlotsUnchanged ==
  ASSUME IInv, InSlot' = InSlot, UNCHANGED slots
  PROVE  slots' \in Nat /\ SlotsCountTurns'
BY DEF IInv, TypeOK, SlotsCountTurns

(* The worker begins a turn.                                               *)
LEMMA BeginPreserves == ASSUME IInv, NEW w \in Worker, Begin(w) PROVE IInv'
<1>1. Goto(w, "starting", "slot") /\ rerun' = rerun \ {job[w]}
      /\ UNCHANGED <<active, closed, cancelled, wg, slots, job, drain, owed>>
  BY DEF Begin
<1>2. InSlot' = InSlot BY <1>1, MoveKeepsSlots DEF IInv
<1>3. "starting" \in PC /\ "slot" \in PC BY DEF PC
<1>4. NoLostWakeup' BY <1>1, <1>3, WakeupKept
<1>5. rerun' \in SUBSET Ticket /\ owed' \in SUBSET Ticket
  BY <1>1 DEF IInv, TypeOK
<1> QED BY <1>1, <1>2, <1>3, <1>4, <1>5, SlotsUnchanged, InsidePreserves

(* The worker gets a slot.                                                 *)
LEMMA EnterSlotPreserves == ASSUME IInv, NEW w \in Worker, EnterSlot(w) PROVE IInv'
<1>1. Goto(w, "slot", "lock") /\ slots' = slots + 1 /\ slots < MaxSlots
      /\ UNCHANGED <<active, rerun, closed, cancelled, wg, job, drain, owed>>
  BY DEF EnterSlot
<1>2. "slot" \in PC /\ "lock" \in PC BY DEF PC
<1>3. NoLostWakeup' BY <1>1, <1>2, WakeupKept
<1>4. slots' \in Nat /\ SlotsCountTurns'
  <2>1. InSlot' = InSlot \cup {w} /\ w \notin InSlot
    BY <1>1 DEF IInv, TypeOK, InSlot, Goto
  <2>2. Cardinality(InSlot') = Cardinality(InSlot) + 1
    BY <2>1, WorkersFinite, FS_AddElement
  <2> QED BY <1>1, <2>2, MaxSlotsAssumption DEF IInv, TypeOK, SlotsCountTurns
<1>5. rerun' \in SUBSET Ticket /\ owed' \in SUBSET Ticket
  BY <1>1 DEF IInv, TypeOK
<1> QED BY <1>1, <1>2, <1>3, <1>4, <1>5, InsidePreserves

(* The worker is cancelled while it waits for a slot or the lock.           *)
LEMMA RefusePreserves ==
  ASSUME IInv, NEW w \in Worker, RefuseSlot(w) \/ RefuseLock(w)
  PROVE  IInv'
<1> DEFINE a == IF RefuseSlot(w) THEN "slot" ELSE "lock"
           b == IF RefuseSlot(w) THEN "check" ELSE "unslot"
<1>1. cancelled /\ Goto(w, a, b)
      /\ UNCHANGED <<active, rerun, closed, cancelled, wg, slots, job, drain, owed>>
  BY DEF RefuseSlot, RefuseLock
<1>2. InSlot' = InSlot BY <1>1, MoveKeepsSlots DEF IInv
<1>3. a \in PC /\ b \in PC /\ a \notin {"gone", "ending"} /\ b \notin {"gone", "ending"}
  BY DEF PC
<1>4. NoLostWakeup' BY <1>1 DEF NoLostWakeup
<1>5. rerun' \in SUBSET Ticket /\ owed' \in SUBSET Ticket
  BY <1>1 DEF IInv, TypeOK
<1> HIDE DEF a, b
<1> QED BY <1>1, <1>2, <1>3, <1>4, <1>5, SlotsUnchanged, InsidePreserves

(* The worker takes the lock of its user.                                  *)
LEMMA TakeLockPreserves == ASSUME IInv, NEW w \in Worker, TakeLock(w) PROVE IInv'
<1>1. Goto(w, "lock", "turn") /\ owed' = owed \ {job[w]}
      /\ UNCHANGED <<active, rerun, closed, cancelled, wg, slots, job, drain>>
  BY DEF TakeLock
<1>2. InSlot' = InSlot BY <1>1, MoveKeepsSlots DEF IInv
<1>3. "lock" \in PC /\ "turn" \in PC BY DEF PC
<1>4. NoLostWakeup' BY <1>1, <1>3, WakeupKept
<1>5. rerun' \in SUBSET Ticket /\ owed' \in SUBSET Ticket
  BY <1>1 DEF IInv, TypeOK
<1> QED BY <1>1, <1>2, <1>3, <1>4, <1>5, SlotsUnchanged, InsidePreserves

(* The turn ends.                                                          *)
LEMMA EndTurnPreserves == ASSUME IInv, NEW w \in Worker, EndTurn(w) PROVE IInv'
<1>1. Goto(w, "turn", "unslot")
      /\ UNCHANGED <<active, rerun, closed, cancelled, wg, slots, job, drain, owed>>
  BY DEF EndTurn
<1>2. InSlot' = InSlot BY <1>1, MoveKeepsSlots DEF IInv
<1>3. "turn" \in PC /\ "unslot" \in PC BY DEF PC
<1>4. job[w] \in owed /\ ~cancelled => job[w] \in rerun
  BY <1>1, AloneInLoop DEF Goto
<1>5. NoLostWakeup' BY <1>1, <1>3, <1>4, WakeupKept
<1>6. rerun' \in SUBSET Ticket /\ owed' \in SUBSET Ticket
  BY <1>1 DEF IInv, TypeOK
<1> QED BY <1>1, <1>2, <1>3, <1>5, <1>6, SlotsUnchanged, InsidePreserves

(* The slot is given back.                                                 *)
LEMMA LeaveSlotPreserves == ASSUME IInv, NEW w \in Worker, LeaveSlot(w) PROVE IInv'
<1>1. Goto(w, "unslot", "check") /\ slots' = slots - 1
      /\ UNCHANGED <<active, rerun, closed, cancelled, wg, job, drain, owed>>
  BY DEF LeaveSlot
<1>2. "unslot" \in PC /\ "check" \in PC BY DEF PC
<1>3. job[w] \in owed /\ ~cancelled => job[w] \in rerun
  BY <1>1, AloneInLoop DEF Goto
<1>4. NoLostWakeup' BY <1>1, <1>2, <1>3, WakeupKept
<1>5. slots' \in Nat /\ SlotsCountTurns'
  <2>1. InSlot' = InSlot \ {w} /\ w \in InSlot
    BY <1>1 DEF IInv, TypeOK, InSlot, Goto
  <2>2. Cardinality(InSlot') = Cardinality(InSlot) - 1 /\ Cardinality(InSlot') \in Nat
    BY <2>1, WorkersFinite, FS_RemoveElement, FS_CardinalityType
  <2> QED BY <1>1, <2>2, MaxSlotsAssumption DEF IInv, TypeOK, SlotsCountTurns
<1>6. rerun' \in SUBSET Ticket /\ owed' \in SUBSET Ticket
  BY <1>1 DEF IInv, TypeOK
<1> QED BY <1>1, <1>2, <1>4, <1>5, <1>6, InsidePreserves

(* markRerun sets the flag in the critical section that owes the wakeup.   *)
LEMMA MarkRerunPreserves == ASSUME IInv, NEW w \in Worker, MarkRerun(w) PROVE IInv'
<1>1. /\ pc[w] = "turn" /\ rerun' = rerun \cup {job[w]} /\ owed' = owed \cup {job[w]}
      /\ UNCHANGED <<active, closed, cancelled, wg, slots, pc, job, drain>>
  BY DEF MarkRerun
<1>2. /\ Alive' = Alive /\ InSlot' = InSlot
      /\ \A t \in Ticket : Workers(t)' = Workers(t)
  BY <1>1 DEF Alive, InSlot, Workers
<1>3. job[w] \in Ticket BY DEF IInv, TypeOK
<1>4. TypeOK'
  <2>1. rerun' \in SUBSET Ticket /\ owed' \in SUBSET Ticket
    BY <1>1, <1>3 DEF IInv, TypeOK
  <2> QED BY <1>1, <2>1 DEF IInv, TypeOK
<1>5. OneWorkerPerTicket' BY <1>1, <1>2 DEF IInv, OneWorkerPerTicket
<1>6. NoLostWakeup'
  <2> SUFFICES ASSUME NEW t \in owed', ~cancelled
               PROVE  \E v \in Workers(t) : \/ pc[v] \in {"starting", "slot", "lock"}
                                            \/ t \in rerun'
    BY <1>1, <1>2, <1>3 DEF IInv, TypeOK, NoLostWakeup
  <2>1. CASE t = job[w]
    BY <1>1, <2>1, AloneInLoop
  <2>2. CASE t # job[w]
    <3>1. t \in owed BY <1>1, <2>2
    <3> QED BY <1>1, <3>1 DEF IInv, NoLostWakeup
  <2> QED BY <2>1, <2>2
<1>7. SlotsCountTurns' BY <1>1, <1>2 DEF IInv, SlotsCountTurns
<1>8. DrainedMeansIdle' /\ ClosedFirst'
  BY <1>1, <1>2 DEF IInv, DrainedMeansIdle, ClosedFirst
<1> QED BY <1>4, <1>5, <1>6, <1>7, <1>8 DEF IInv

(* Leaving the loop: nothing is owed, since the flag was tested in the     *)
(* critical section that gives the ticket up.                              *)
LEMMA CheckPreserves == ASSUME IInv, NEW w \in Worker, Check(w) PROVE IInv'
<1>1. pc[w] = "check" /\ UNCHANGED <<closed, cancelled, wg, slots, job, drain, owed>>
  BY DEF Check, Goto
<1>2. Workers(job[w]) = {w} /\ job[w] \in active
  BY <1>1, AloneInLoop
<1>3. CASE job[w] \notin rerun \/ cancelled
  <2>1. /\ Goto(w, "check", "ending") /\ pc' = [pc EXCEPT ![w] = "ending"]
        /\ active' = active \ {job[w]} /\ rerun' = rerun \ {job[w]}
    BY <1>3 DEF Check, Goto
  <2>2. TypeOK'
    <3>1. pc' \in [Worker -> PC] BY <2>1 DEF IInv, TypeOK, PC
    <3>2. active' \in SUBSET Ticket /\ rerun' \in SUBSET Ticket
      BY <2>1 DEF IInv, TypeOK
    <3> QED BY <1>1, <3>1, <3>2 DEF IInv, TypeOK
  <2>3. /\ Workers(job[w])' = {}
        /\ \A t \in Ticket : t # job[w] => Workers(t)' = Workers(t)
    <3>1. \A t \in Ticket : Workers(t)' = Workers(t) \ {w}
      BY <1>1, <2>1 DEF IInv, TypeOK, Workers
    <3>2. job[w] \in Ticket BY DEF IInv, TypeOK
    <3>3. \A t \in Ticket : t # job[w] => w \notin Workers(t) BY DEF Workers
    <3> QED BY <1>1, <1>2, <3>1, <3>2, <3>3
  <2>4. OneWorkerPerTicket'
    BY <1>1, <2>1, <2>3 DEF IInv, OneWorkerPerTicket
  <2>5. NoLostWakeup'
    <3> SUFFICES ASSUME NEW t \in owed, ~cancelled
                 PROVE  \E v \in Workers(t)' : \/ pc'[v] \in {"starting", "slot", "lock"}
                                               \/ t \in rerun'
      BY <1>1 DEF NoLostWakeup
    <3>1. t \in Ticket BY DEF IInv, TypeOK
    <3>2. t # job[w] BY <1>1, <1>3, AloneInLoop
    <3>3. PICK v \in Workers(t) : pc[v] \in {"starting", "slot", "lock"} \/ t \in rerun
      BY DEF IInv, NoLostWakeup
    <3>4. v # w BY <3>2, <3>3 DEF Workers
    <3>5. pc'[v] = pc[v] BY <2>1, <3>3, <3>4 DEF IInv, TypeOK, Workers
    <3> QED BY <2>1, <2>3, <3>1, <3>2, <3>3, <3>5
  <2>6. InSlot' = InSlot BY <2>1, MoveKeepsSlots DEF IInv
  <2>7. Alive' = Alive BY <2>1, MoveKeepsAlive DEF IInv
  <2>8. SlotsCountTurns' BY <1>1, <2>6 DEF IInv, SlotsCountTurns
  <2>9. DrainedMeansIdle' /\ ClosedFirst'
    BY <1>1, <2>7 DEF IInv, DrainedMeansIdle, ClosedFirst
  <2> QED BY <2>2, <2>4, <2>5, <2>8, <2>9 DEF IInv
<1>4. CASE ~(job[w] \notin rerun \/ cancelled)
  <2>1. Goto(w, "check", "starting") /\ UNCHANGED <<active, rerun>>
    BY <1>4 DEF Check
  <2>2. "check" \in PC /\ "starting" \in PC BY DEF PC
  <2>3. NoLostWakeup' BY <1>1, <2>1, <2>2, WakeupKept
  <2>4. InSlot' = InSlot BY <2>1, MoveKeepsSlots DEF IInv
  <2>5. rerun' \in SUBSET Ticket /\ owed' \in SUBSET Ticket
    BY <1>1, <2>1 DEF IInv, TypeOK
  <2> QED BY <1>1, <2>1, <2>2, <2>3, <2>4, <2>5, SlotsUnchanged, InsidePreserves
<1> QED BY <1>3, <1>4

(* wg.Done, for a goroutine that is out of its loop.                       *)
LEMMA DonePreserves == ASSUME IInv, NEW w \in Worker, Done(w) PROVE IInv'
<1>1. Goto(w, "ending", "gone") /\ pc' = [pc EXCEPT ![w] = "gone"] /\ wg' = wg - 1
      /\ UNCHANGED <<active, rerun, closed, cancelled, slots, job, drain, owed>>
  BY DEF Done, Goto
<1>2. Alive' = Alive \ {w} /\ w \in Alive
  BY <1>1 DEF IInv, TypeOK, Alive, Goto
<1>3. Cardinality(Alive') = Cardinality(Alive) - 1 /\ Cardinality(Alive') \in Nat
  BY <1>2, WorkersFinite, FS_RemoveElement, FS_CardinalityType
<1>4. \A t \in Ticket : Workers(t)' = Workers(t)
  BY <1>1, MoveKeepsWorkers DEF IInv
<1>5. InSlot' = InSlot BY <1>1, MoveKeepsSlots DEF IInv
<1>6. TypeOK'
  <2>1. pc' \in [Worker -> PC] BY <1>1 DEF IInv, TypeOK, PC
  <2>2. wg' \in Nat BY <1>1, <1>3 DEF IInv, DrainedMeansIdle
  <2> QED BY <1>1, <2>1, <2>2 DEF IInv, TypeOK
<1>7. OneWorkerPerTicket' BY <1>1, <1>4 DEF IInv, OneWorkerPerTicket
<1>8. NoLostWakeup'
  <2>1. \A t \in Ticket : \A v \in Workers(t) : pc'[v] = pc[v]
    BY <1>1 DEF IInv, TypeOK, Workers, Goto
  <2>2. owed \subseteq Ticket BY DEF IInv, TypeOK
  <2> QED BY <1>1, <1>4, <2>1, <2>2 DEF IInv, NoLostWakeup
<1>9. SlotsCountTurns' BY <1>1, <1>5 DEF IInv, SlotsCountTurns
<1>10. DrainedMeansIdle' /\ ClosedFirst'
  BY <1>1, <1>2, <1>3 DEF IInv, DrainedMeansIdle, ClosedFirst
<1> QED BY <1>6, <1>7, <1>8, <1>9, <1>10 DEF IInv

(* Main's steps touch no goroutine; Drain closes before it waits.          *)
LEMMA ShutdownPreserves == ASSUME IInv, Shutdown PROVE IInv'
<1>1. UNCHANGED <<active, rerun, wg, slots, pc, job, owed>>
  BY DEF Shutdown, StartDrain, DrainDone, DrainTimeout, Close
<1>2. /\ Alive' = Alive /\ InSlot' = InSlot
      /\ \A t \in Ticket : Workers(t)' = Workers(t)
  BY <1>1 DEF Alive, InSlot, Workers
<1>3. TypeOK'
  <2>1. closed' \in BOOLEAN /\ cancelled' \in BOOLEAN
    BY DEF IInv, TypeOK, Shutdown, StartDrain, DrainDone, DrainTimeout, Close
  <2>2. drain' \in {"serving", "draining", "drained", "timedOut", "closed"}
    BY DEF Shutdown, StartDrain, DrainDone, DrainTimeout, Close
  <2> QED BY <1>1, <2>1, <2>2 DEF IInv, TypeOK
<1>4. OneWorkerPerTicket' BY <1>1, <1>2 DEF IInv, OneWorkerPerTicket
<1>5. NoLostWakeup'
  <2>1. cancelled => cancelled'
    BY DEF Shutdown, StartDrain, DrainDone, DrainTimeout, Close
  <2>2. owed \subseteq Ticket BY DEF IInv, TypeOK
  <2> QED BY <1>1, <1>2, <2>1, <2>2 DEF IInv, NoLostWakeup
<1>6. SlotsCountTurns' BY <1>1, <1>2 DEF IInv, SlotsCountTurns
<1>7. ClosedFirst'
  BY DEF IInv, ClosedFirst, Shutdown, StartDrain, DrainDone, DrainTimeout, Close
<1>8. DrainedMeansIdle'
  <2>1. wg' = Cardinality(Alive') BY <1>1, <1>2 DEF IInv, DrainedMeansIdle
  <2>2. ASSUME drain' = "drained" PROVE Alive' = {} /\ closed'
    <3>1. wg = 0 /\ closed'
      BY <2>2 DEF IInv, ClosedFirst, Shutdown, StartDrain, DrainDone, DrainTimeout, Close
    <3>2. Cardinality(Alive) = 0 BY <3>1 DEF IInv, DrainedMeansIdle
    <3>3. Alive = {} BY <3>2, WorkersFinite, FS_EmptySet
    <3> QED BY <1>2, <3>1, <3>3
  <2> QED BY <2>1, <2>2 DEF DrainedMeansIdle
<1> QED BY <1>3, <1>4, <1>5, <1>6, <1>7, <1>8 DEF IInv

----------------------------------------------------------------------------
(* Every step keeps the inductive invariant.                               *)
LEMMA NextIInv == IInv /\ [Next]_vars => IInv'
<1> SUFFICES ASSUME IInv, [Next]_vars PROVE IInv' OBVIOUS
<1>1. CASE UNCHANGED vars
  <2>1. /\ Alive' = Alive /\ InSlot' = InSlot
        /\ \A t \in Ticket : Workers(t)' = Workers(t)
    BY <1>1 DEF vars, Alive, InSlot, Workers
  <2>2. UNCHANGED <<active, rerun, closed, cancelled, wg, slots, pc, job, drain, owed>>
    BY <1>1 DEF vars
  <2>3. TypeOK' BY <2>2 DEF IInv, TypeOK
  <2>4. owed \subseteq Ticket BY DEF IInv, TypeOK
  <2>5. OneWorkerPerTicket' /\ NoLostWakeup'
    BY <2>1, <2>2, <2>4 DEF IInv, OneWorkerPerTicket, NoLostWakeup
  <2>6. SlotsCountTurns' /\ DrainedMeansIdle' /\ ClosedFirst'
    BY <2>1, <2>2 DEF IInv, SlotsCountTurns, DrainedMeansIdle, ClosedFirst
  <2> QED BY <2>3, <2>5, <2>6 DEF IInv
<1>2. ASSUME NEW t \in Ticket, Schedule(t) PROVE IInv'
  BY <1>1, <1>2, RerunPreserves, StartPreserves DEF Schedule, ScheduleClosed
<1>3. ASSUME NEW w \in Worker, Run(w) PROVE IInv'
  BY <1>3, BeginPreserves, EnterSlotPreserves, RefusePreserves, TakeLockPreserves,
     MarkRerunPreserves, EndTurnPreserves, LeaveSlotPreserves, CheckPreserves,
     DonePreserves DEF Run
<1> QED BY <1>1, <1>2, <1>3, ShutdownPreserves DEF Next

(* The inductive invariant holds in every behaviour.                       *)
THEOREM Invariant == Spec => []IInv
<1>1. Init => IInv BY InitIInv
<1>2. IInv /\ [Next]_vars => IInv' BY NextIInv
<1> QED BY <1>1, <1>2, PTL DEF Spec

(* No accepted request is forgotten between two turns.                     *)
THEOREM NoWakeupLost == Spec => []NoLostWakeup
<1>1. IInv => NoLostWakeup BY DEF IInv
<1> QED BY <1>1, Invariant, PTL

(* An active ticket has exactly one goroutine, any other ticket none.      *)
THEOREM OneWorker == Spec => []OneWorkerPerTicket
<1>1. IInv => OneWorkerPerTicket BY DEF IInv
<1> QED BY <1>1, Invariant, PTL

(* At most MaxSlots turns at a time.                                       *)
THEOREM Bounded == Spec => [](TypeOK /\ SlotsCountTurns)
<1>1. IInv => TypeOK /\ SlotsCountTurns BY DEF IInv
<1> QED BY <1>1, Invariant, PTL

(* A drain that ended by itself left no goroutine behind.                  *)
THEOREM DrainComplete == Spec => []DrainedMeansIdle
<1>1. IInv => DrainedMeansIdle BY DEF IInv
<1> QED BY <1>1, Invariant, PTL
=============================================================================
