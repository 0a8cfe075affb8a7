------------------------------ MODULE UserTurn ------------------------------
(***************************************************************************)
(* One user in Telegram: the turns the pipeline takes for his batches      *)
(* (Pipeline.Handle, internal/bot/pipeline.go), the operators who write to *)
(* him from his topic or let the model answer with /ask, and his /start    *)
(* (internal/bot/router.go).  They share the conversation state and the    *)
(* rate limiter (internal/bot/state.go).                                   *)
(*                                                                         *)
(* Buffer hands over the batches, each in a goroutine of its own, and the  *)
(* turns exclude each other by the user's KeyedLock, which appears here as *)
(* the Mutex it implements.  The operator's handlers and /start take no    *)
(* lock.  Each remote call (model, Telegram) is a step.                    *)
(***************************************************************************)
EXTENDS Integers, FiniteSets

CONSTANTS
  Suppression,   \* the operator window, in ticks of the clock
  Batches,       \* bound: batches of the user
  Operators,     \* bound: messages of operators and answers to /ask
  Starts         \* bound: /start commands

ASSUME SuppressionAssumption == Suppression \in Nat \ {0}
ASSUME BoundsAssumption == Batches \in Nat /\ Operators \in Nat /\ Starts \in Nat

VARIABLES
  phase, wanted,   \* the user's lock, p.locks
  pc,              \* the goroutine of each batch
  operatorAge,     \* age of State.operators[user]; Suppression if there is none
  hot,             \* Rate.last[user] is less than its interval ago
  op,              \* each operator's handler
  starts,          \* /start commands so far
  cancelled,       \* the work context ended: shutdown
  topic,           \* history: batches handed to the support topic
  past,            \* history: turns past their last look at the operator's
                   \* window when the latest operator's message was recorded
  late             \* history: answers since then, while the window is open

lock == <<phase, wanted>>
state == <<operatorAge, hot>>
history == <<topic, past, late>>
vars == <<lock, pc, state, op, starts, cancelled, history>>

Batch == 1..Batches
Operator == 1..Operators
Ages == 0..Suppression

Lock == INSTANCE Mutex WITH Caller <- Batch, Id <- {"user"}

PC == {"none",     \* not dispatched yet
       "queued",   \* waits for the lock
       "gate",     \* has the lock
       "model",    \* the model is working
       "send",     \* the answer goes to the user
       "report",   \* the batch goes to the topic, with the answer or a notice
       "leave",    \* unlock is deferred
       "done"}

TypeOK ==
  /\ Lock!TypeOK
  /\ pc \in [Batch -> PC]
  /\ operatorAge \in Ages /\ hot \in BOOLEAN
  /\ op \in [Operator -> {"none", "told", "done"}]
  /\ starts \in 0..Starts /\ cancelled \in BOOLEAN
  /\ topic \in SUBSET Batch /\ past \in SUBSET Batch /\ late \in 0..Batches

Init ==
  /\ Lock!Init
  /\ pc = [k \in Batch |-> "none"]
  /\ operatorAge = Suppression /\ hot = FALSE
  /\ op = [o \in Operator |-> "none"]
  /\ starts = 0 /\ cancelled = FALSE
  /\ topic = {} /\ past = {} /\ late = 0

OperatorActive == operatorAge < Suppression

Goto(k, from, to) == /\ pc[k] = from
                     /\ pc' = [pc EXCEPT ![k] = to]

(* Nobody but the turn moves.                                              *)
Quietly == UNCHANGED <<op, starts, cancelled, operatorAge>>

----------------------------------------------------------------------------
(* Handle.                                                                 *)

(* Buffer dispatches a batch; the goroutines may ask for the lock in any   *)
(* order.                                                                  *)
Arrive(k) ==
  /\ ~cancelled
  /\ Goto(k, "none", "queued")
  /\ Lock!Request(k, "user")
  /\ Quietly /\ UNCHANGED <<hot, history>>

(* Lock returned an error: the batch is dropped without a word.            *)
Refused(k) ==
  /\ cancelled
  /\ Goto(k, "queued", "done")
  /\ Lock!Abandon(k)
  /\ Quietly /\ UNCHANGED <<hot, history>>

Enter(k) ==
  /\ Goto(k, "queued", "gate")
  /\ Lock!Grant(k)
  /\ Quietly /\ UNCHANGED <<hot, history>>

Suppressed(k) ==
  /\ OperatorActive
  /\ Goto(k, "gate", "report")
  /\ Quietly /\ UNCHANGED <<lock, hot, history>>

RateLimited(k) ==
  /\ ~OperatorActive /\ hot
  /\ Goto(k, "gate", "report")
  /\ Quietly /\ UNCHANGED <<lock, hot, history>>

CallModel(k) ==
  /\ ~OperatorActive /\ ~hot
  /\ Goto(k, "gate", "model")
  /\ hot' = TRUE
  /\ Quietly /\ UNCHANGED <<lock, history>>

(* The model failed: the user and the topic get an error message, whoever  *)
(* owns the conversation.                                                  *)
ModelFails(k) ==
  /\ Goto(k, "model", "report")
  /\ Quietly /\ UNCHANGED <<lock, hot, history>>

(* Mutant: the window is looked at before the model only.                  *)
AnswersUnchecked(k) ==
  /\ Goto(k, "model", "send")
  /\ Quietly /\ UNCHANGED <<lock, hot, history>>

(* Mutant: the lock covers the model call and not the delivery.            *)
AnswersUnlocks(k) ==
  /\ ~OperatorActive
  /\ Goto(k, "model", "send")
  /\ Lock!Release(k)
  /\ Quietly /\ UNCHANGED <<hot, history>>

(* The model answered; an operator may have taken over meanwhile.          *)
Overtaken(k) ==
  /\ OperatorActive
  /\ Goto(k, "model", "report")
  /\ Quietly /\ UNCHANGED <<lock, hot, history>>

Answers(k) ==
  /\ ~OperatorActive
  /\ Goto(k, "model", "send")
  /\ Quietly /\ UNCHANGED <<lock, hot, history>>

Send(k) ==
  /\ Goto(k, "send", "report")
  /\ late' = IF OperatorActive THEN late + 1 ELSE 0
  /\ Quietly /\ UNCHANGED <<lock, hot, topic, past>>

(* Forwarder.Forward, or Error after a failed call.                        *)
Report(k) ==
  /\ Goto(k, "report", "leave")
  /\ topic' = topic \cup {k}
  /\ Quietly /\ UNCHANGED <<lock, hot, past, late>>

(* Mutant: one path returns before the deferred unlock is set up.          *)
LeaveLocked(k) ==
  /\ Goto(k, "leave", "done")
  /\ Quietly /\ UNCHANGED <<lock, hot, history>>

Leave(k) ==
  /\ Goto(k, "leave", "done")
  /\ Lock!Release(k)
  /\ Quietly /\ UNCHANGED <<hot, history>>

----------------------------------------------------------------------------
(* Router.operator and Router.ask: first the user hears from the operator  *)
(* or, by /ask, from the model; a notice in the topic and the record of    *)
(* the operator's window follow.                                           *)
OperatorWrites(o) ==
  /\ op[o] = "none"
  /\ op' = [op EXCEPT ![o] = "told"]
  /\ UNCHANGED <<lock, pc, state, starts, cancelled, history>>

RecordOperator(o) ==
  /\ op[o] = "told"
  /\ op' = [op EXCEPT ![o] = "done"]
  /\ operatorAge' = 0
  /\ past' = {k \in Batch : pc[k] = "send"} /\ late' = 0
  /\ UNCHANGED <<lock, pc, hot, starts, cancelled, topic>>

(* /start: State.Clear forgets the operator.  What Buffer and History do   *)
(* of it is not seen here.                                                 *)
Start ==
  /\ starts < Starts
  /\ starts' = starts + 1
  /\ operatorAge' = Suppression
  /\ late' = 0
  /\ UNCHANGED <<lock, pc, hot, op, cancelled, topic, past>>

----------------------------------------------------------------------------
(* Time, the user's tickets, shutdown.                                     *)

Cool == /\ hot
        /\ hot' = FALSE
        /\ UNCHANGED <<lock, pc, operatorAge, op, starts, cancelled, history>>

(* A ticket turn of the same user acquires the same rate limiter.          *)
TicketTurnAcquires ==
  /\ ~hot
  /\ hot' = TRUE
  /\ UNCHANGED <<lock, pc, operatorAge, op, starts, cancelled, history>>

(* Minutes pass.                                                           *)
Tick == /\ OperatorActive
        /\ operatorAge' = operatorAge + 1
        /\ hot' = FALSE
        /\ UNCHANGED <<lock, pc, op, starts, cancelled, history>>

Shutdown == /\ ~cancelled
            /\ cancelled' = TRUE
            /\ UNCHANGED <<lock, pc, state, op, starts, history>>

Run(k) == \/ Refused(k) \/ Enter(k)
          \/ Suppressed(k) \/ RateLimited(k) \/ CallModel(k)
          \/ ModelFails(k) \/ Overtaken(k) \/ Answers(k)
          \/ Send(k) \/ Report(k) \/ Leave(k)

Next == \/ \E k \in Batch : Arrive(k) \/ Run(k)
        \/ \E o \in Operator : OperatorWrites(o) \/ RecordOperator(o)
        \/ Start \/ Cool \/ TicketTurnAcquires \/ Tick \/ Shutdown

Spec == Init /\ [][Next]_vars

(* A turn goes on, because every call has a timeout, and the runtime hands *)
(* the lock to the waiters in the order of their arrival.                  *)
Fairness == /\ \A k \in Batch : /\ WF_vars(Run(k))
                                /\ SF_vars(Enter(k))
            /\ \A o \in Operator : WF_vars(RecordOperator(o))

FairSpec == Spec /\ Fairness

----------------------------------------------------------------------------
(* Once an operator's message is recorded, the only answer the user still  *)
(* gets from the bot within the window, and before a /start, comes from    *)
(* the one turn that had already looked at the window for the last time;   *)
(* turns in the model, waiting for the lock or arriving later keep quiet.  *)
OnlyTheTurnInFlight ==
  [][\A k \in Batch :
       pc[k] = "send" /\ pc'[k] # "send" /\ OperatorActive => k \in past]_vars

(* That is one answer at most: turns of a user are not sent concurrently.  *)
AtMostOneLateAnswer == late <= 1

(* Every batch reaches the support topic, answered, suppressed, limited or *)
(* failed, however many wait for the lock, unless shutdown cut it off.     *)
EveryBatchReported ==
  \A k \in Batch : pc[k] = "queued" ~> k \in topic \/ cancelled
=============================================================================
