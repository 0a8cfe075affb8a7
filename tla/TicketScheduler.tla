-------------------------- MODULE TicketScheduler --------------------------
(***************************************************************************)
(* How the answerer runs ticket turns (internal/bedolaga/pipeline.go:      *)
(* Schedule, markRerun, Drain, Handle).  Webhook requests and the periodic *)
(* sweep call Schedule for a ticket; a goroutine per ticket runs turns     *)
(* until nobody asked for another, at most MaxSlots turns at a time, each  *)
(* under the KeyedLock of its ticket; shutdown closes the answerer and     *)
(* waits for the goroutines, but not for ever.  What a turn does is module *)
(* TicketTurn; here it only may ask for another one.                       *)
(*                                                                         *)
(* An action is one critical section of a.mu, one channel operation, or    *)
(* one operation on the wait group.                                        *)
(***************************************************************************)
EXTENDS Integers, FiniteSets

CONSTANTS
  Ticket,    \* ids of panel tickets
  Worker,    \* goroutines the runtime can start; at most Worker at a time
  MaxSlots   \* capacity of a.slots, BEDOLAGA_MAX_CONCURRENT_TICKETS

ASSUME WorkerAssumption == IsFiniteSet(Worker)
ASSUME MaxSlotsAssumption == MaxSlots \in Nat \ {0}

VARIABLES
  active,    \* a.active: tickets that have a goroutine
  rerun,     \* a.rerun: tickets to be handled once more
  closed,    \* a.closed
  cancelled, \* a.ctx is done
  wg,        \* counter of a.wg
  slots,     \* number of elements in a.slots
  pc,        \* where each goroutine is
  job,       \* the ticket of each goroutine
  drain,     \* where main is: "serving", "draining", "drained", "timedOut"
             \* or "closed" (the store and the clients are closed)
  owed       \* history: tickets for which an accepted Schedule or a markRerun
             \* has not been followed by the first read of a turn

vars == <<active, rerun, closed, cancelled, wg, slots, pc, job, drain, owed>>

PC == {"gone",      \* not started, or finished
       "starting",  \* at the top of the loop of Schedule
       "slot",      \* Handle: waits for a slot
       "lock",      \* Handle: has a slot, waits for the lock of the ticket
       "turn",      \* inside answer
       "unslot",    \* the lock is released, the slot is not
       "check",     \* Handle returned
       "ending"}    \* out of the loop, wg.Done still to run

Alive == {w \in Worker : pc[w] # "gone"}
InSlot == {w \in Worker : pc[w] \in {"lock", "turn", "unslot"}}

(* Goroutines of a ticket that may still run a turn.                       *)
Workers(t) == {w \in Worker : pc[w] \notin {"gone", "ending"} /\ job[w] = t}

TypeOK ==
  /\ active \in SUBSET Ticket /\ rerun \in SUBSET Ticket
  /\ closed \in BOOLEAN /\ cancelled \in BOOLEAN
  /\ wg \in Nat /\ slots \in 0..MaxSlots
  /\ pc \in [Worker -> PC] /\ job \in [Worker -> Ticket]
  /\ drain \in {"serving", "draining", "drained", "timedOut", "closed"}
  /\ owed \in SUBSET Ticket

Init ==
  /\ active = {} /\ rerun = {} /\ owed = {}
  /\ closed = FALSE /\ cancelled = FALSE
  /\ wg = 0 /\ slots = 0
  /\ pc = [w \in Worker |-> "gone"] /\ job \in [Worker -> Ticket]
  /\ drain = "serving"

Goto(w, from, to) == /\ pc[w] = from
                     /\ pc' = [pc EXCEPT ![w] = to]

----------------------------------------------------------------------------
(* Mutants.                                                                *)

(* Schedule starts a goroutine without asking whether the ticket has one.  *)
ScheduleAnyway(t) ==
  /\ ~closed
  /\ \E w \in Worker :
       /\ Goto(w, "gone", "starting")
       /\ job' = [job EXCEPT ![w] = t]
  /\ active' = active \cup {t}
  /\ owed' = owed \cup {t}
  /\ wg' = wg + 1
  /\ UNCHANGED <<rerun, closed, cancelled, slots, drain>>

(* wg.Add(1) moved into the goroutine it counts.                           *)
StartUncounted(t) ==
  /\ ~closed /\ t \notin active
  /\ \E w \in Worker :
       /\ Goto(w, "gone", "starting")
       /\ job' = [job EXCEPT ![w] = t]
  /\ active' = active \cup {t}
  /\ owed' = owed \cup {t}
  /\ UNCHANGED <<rerun, closed, cancelled, slots, drain, wg>>

(* The goroutine ends after one turn, whatever was asked meanwhile.        *)
CheckForgetsRerun(w) ==
  /\ Goto(w, "check", "ending")
  /\ active' = active \ {job[w]}
  /\ rerun' = rerun \ {job[w]}
  /\ UNCHANGED <<closed, cancelled, wg, slots, job, drain, owed>>

(* The deferred receive from a.slots runs on the cancelled path too.       *)
RefuseSlotReleases(w) ==
  /\ cancelled
  /\ Goto(w, "slot", "check")
  /\ slots' = slots - 1
  /\ UNCHANGED <<active, rerun, closed, cancelled, wg, job, drain, owed>>

(* Handle returns without the deferred receive from a.slots.               *)
LeaveSlotKeeps(w) ==
  /\ Goto(w, "unslot", "check")
  /\ UNCHANGED <<active, rerun, closed, cancelled, wg, slots, job, drain, owed>>

(* The loop does not look at a.ctx.                                        *)
CheckIgnoresCancel(w) ==
  /\ IF job[w] \notin rerun
     THEN /\ Goto(w, "check", "ending")
          /\ active' = active \ {job[w]}
          /\ rerun' = rerun \ {job[w]}
     ELSE /\ Goto(w, "check", "starting")
          /\ UNCHANGED <<active, rerun>>
  /\ UNCHANGED <<closed, cancelled, wg, slots, job, drain, owed>>

----------------------------------------------------------------------------
(* Schedule: the four outcomes of its critical section.                    *)

(* Nothing is accepted any more.                                           *)
ScheduleClosed(t) ==
  /\ closed
  /\ UNCHANGED vars

(* The ticket's goroutine will take another turn.                          *)
ScheduleRerun(t) ==
  /\ ~closed /\ t \in active
  /\ rerun' = rerun \cup {t}
  /\ owed' = owed \cup {t}
  /\ UNCHANGED <<active, closed, cancelled, wg, slots, pc, job, drain>>

ScheduleStart(t) ==
  /\ ~closed /\ t \notin active
  /\ \E w \in Worker :
       /\ Goto(w, "gone", "starting")
       /\ job' = [job EXCEPT ![w] = t]
  /\ active' = active \cup {t}
  /\ owed' = owed \cup {t}
  /\ wg' = wg + 1
  /\ UNCHANGED <<rerun, closed, cancelled, slots, drain>>

Schedule(t) == ScheduleClosed(t) \/ ScheduleRerun(t) \/ ScheduleStart(t)

----------------------------------------------------------------------------
(* The goroutine of a ticket.                                              *)

(* delete(a.rerun, id): the turn about to start covers what was asked.     *)
Begin(w) ==
  /\ Goto(w, "starting", "slot")
  /\ rerun' = rerun \ {job[w]}
  /\ UNCHANGED <<active, closed, cancelled, wg, slots, job, drain, owed>>

EnterSlot(w) ==
  /\ slots < MaxSlots
  /\ Goto(w, "slot", "lock")
  /\ slots' = slots + 1
  /\ UNCHANGED <<active, rerun, closed, cancelled, wg, job, drain, owed>>

RefuseSlot(w) ==
  /\ cancelled
  /\ Goto(w, "slot", "check")
  /\ UNCHANGED <<active, rerun, closed, cancelled, wg, slots, job, drain, owed>>

(* The lock of the ticket is granted and answer reads the ticket.          *)
TakeLock(w) ==
  /\ \A v \in Worker : pc[v] = "turn" => job[v] # job[w]
  /\ Goto(w, "lock", "turn")
  /\ owed' = owed \ {job[w]}
  /\ UNCHANGED <<active, rerun, closed, cancelled, wg, slots, job, drain>>

RefuseLock(w) ==
  /\ cancelled
  /\ Goto(w, "lock", "unslot")
  /\ UNCHANGED <<active, rerun, closed, cancelled, wg, slots, job, drain, owed>>

(* The turn saw a newer user message and asks for another turn.            *)
MarkRerun(w) ==
  /\ pc[w] = "turn"
  /\ rerun' = rerun \cup {job[w]}
  /\ owed' = owed \cup {job[w]}
  /\ UNCHANGED <<active, closed, cancelled, wg, slots, pc, job, drain>>

(* answer returns, at the latest when its calls time out.                  *)
EndTurn(w) ==
  /\ Goto(w, "turn", "unslot")
  /\ UNCHANGED <<active, rerun, closed, cancelled, wg, slots, job, drain, owed>>

LeaveSlot(w) ==
  /\ Goto(w, "unslot", "check")
  /\ slots' = slots - 1
  /\ UNCHANGED <<active, rerun, closed, cancelled, wg, job, drain, owed>>

(* Leave the loop or go round, in the same critical section as the test.   *)
Check(w) ==
  /\ IF job[w] \notin rerun \/ cancelled
     THEN /\ Goto(w, "check", "ending")
          /\ active' = active \ {job[w]}
          /\ rerun' = rerun \ {job[w]}
     ELSE /\ Goto(w, "check", "starting")
          /\ UNCHANGED <<active, rerun>>
  /\ UNCHANGED <<closed, cancelled, wg, slots, job, drain, owed>>

Done(w) ==
  /\ Goto(w, "ending", "gone")
  /\ wg' = wg - 1
  /\ UNCHANGED <<active, rerun, closed, cancelled, slots, job, drain, owed>>

----------------------------------------------------------------------------
(* Shutdown, as main runs it: Drain with three seconds to go, cancelWork,  *)
(* then the deferred closes.                                               *)

StartDrain ==
  /\ drain = "serving"
  /\ drain' = "draining"
  /\ closed' = TRUE
  /\ UNCHANGED <<active, rerun, cancelled, wg, slots, pc, job, owed>>

(* wg.Wait returned.                                                       *)
DrainDone ==
  /\ drain = "draining"
  /\ wg = 0
  /\ drain' = "drained"
  /\ UNCHANGED <<active, rerun, closed, cancelled, wg, slots, pc, job, owed>>

(* The bound of Drain: it cancels the turns and returns at once.           *)
DrainTimeout ==
  /\ drain = "draining"
  /\ drain' = "timedOut"
  /\ cancelled' = TRUE
  /\ UNCHANGED <<active, rerun, closed, wg, slots, pc, job, owed>>

(* cancelWork, then the deferred closes of the clients and of the store.   *)
Close ==
  /\ drain \in {"drained", "timedOut"}
  /\ drain' = "closed"
  /\ cancelled' = TRUE
  /\ UNCHANGED <<active, rerun, closed, wg, slots, pc, job, owed>>

Shutdown == StartDrain \/ DrainDone \/ DrainTimeout \/ Close

Run(w) == \/ Begin(w)
          \/ EnterSlot(w) \/ RefuseSlot(w)
          \/ TakeLock(w) \/ RefuseLock(w)
          \/ MarkRerun(w) \/ EndTurn(w)
          \/ LeaveSlot(w)
          \/ Check(w)
          \/ Done(w)

Next == \/ \E t \in Ticket : Schedule(t)
        \/ \E w \in Worker : Run(w)
        \/ Shutdown

Spec == Init /\ [][Next]_vars

(* Goroutines run, a turn ends because every call in it has a timeout, the *)
(* senders blocked on a.slots are queued by the runtime, and the bound of  *)
(* Drain expires.  Nobody is obliged to call Schedule or to shut down.     *)
Fairness ==
  /\ \A w \in Worker :
       /\ WF_vars(Begin(w)) /\ SF_vars(EnterSlot(w)) /\ WF_vars(RefuseSlot(w))
       /\ WF_vars(TakeLock(w)) /\ WF_vars(EndTurn(w)) /\ WF_vars(LeaveSlot(w))
       /\ WF_vars(Check(w)) /\ WF_vars(Done(w))
  /\ WF_vars(DrainDone) /\ WF_vars(DrainTimeout)

FairSpec == Spec /\ Fairness

----------------------------------------------------------------------------
(* One goroutine per ticket, exactly for the active tickets: two would     *)
(* answer the same message, none would leave an active ticket deaf, since  *)
(* Schedule then only sets the rerun flag.                                 *)
OneWorkerPerTicket ==
  \A t \in Ticket : IF t \in active THEN \E w \in Worker : Workers(t) = {w}
                                    ELSE Workers(t) = {}

(* A request that was accepted after the last turn read the ticket is not  *)
(* forgotten: a turn that has not read yet is on its way, or the flag that *)
(* makes the goroutine go round is set, unless shutdown cut the work off.  *)
NoLostWakeup ==
  \A t \in owed :
    \/ cancelled
    \/ \E w \in Workers(t) : \/ pc[w] \in {"starting", "slot", "lock"}
                             \/ t \in rerun

(* a.slots counts the goroutines between its send and its receive, so no   *)
(* more than MaxSlots turns use the panel and the model at a time and the  *)
(* receive never blocks.                                                   *)
SlotsCountTurns ==
  /\ slots = Cardinality(InSlot)
  /\ slots <= MaxSlots

(* When Drain returned because the wait group reached zero, no ticket      *)
(* goroutine is left and none will be started, so the store may be closed. *)
DrainedMeansIdle ==
  /\ wg = Cardinality(Alive)
  /\ drain = "drained" => Alive = {} /\ closed

(* An accepted request is served by a turn that reads the ticket after it, *)
(* however the requests, reruns and other tickets interleave.              *)
RequestServed ==
  \A t \in Ticket : t \in owed ~> (t \notin owed \/ cancelled)

(* After the bound of Drain, the goroutines end although reruns are asked  *)
(* for: cancellation reaches every place where one can wait or go round.   *)
CancelledWorkersEnd == drain = "timedOut" ~> Alive = {}
=============================================================================
