------------------------------- MODULE Buffer -------------------------------
(***************************************************************************)
(* bot.Buffer (internal/bot/buffer.go): messages a user sends in a burst   *)
(* are collected and handed to the pipeline as one batch, when the user is *)
(* silent for Window, when Max are collected, or before a second           *)
(* attachment.  Every batch gets a goroutine of its own.                   *)
(*                                                                         *)
(* An action is one critical section of b.mu, or the runtime starting a    *)
(* timer's callback, which then waits for b.mu like everybody else: a      *)
(* Submit that comes first stops a timer that is past stopping.            *)
(*                                                                         *)
(* A message is its number and its kind.  Numbers are never reused, so the *)
(* first one of a batch stands for the identity of its *pendingBatch.      *)
(***************************************************************************)
EXTENDS Integers, SequencesExt

CONSTANTS
  User,         \* Telegram users
  Kind,         \* what they send: a subset of "text", "image", "pdf"
  Limit,        \* b.Max: messages of a batch
  MaxMessages   \* bound: messages of one user

ASSUME UserAssumption == IsFiniteSet(User)
ASSUME KindAssumption == Kind \subseteq {"text", "image", "pdf"}
ASSUME LimitAssumption == Limit \in Nat \ {0}
ASSUME MaxMessagesAssumption == MaxMessages \in Nat

VARIABLES
  pending,    \* b.pending: items and generation; NoBatch where there is none
  timers,     \* timers that were not stopped and whose callback has not ended
  closed,     \* b.closed
  wg,         \* counter of b.wg
  running,    \* goroutines inside Sink: <<user, number of the batch>>
  drain,      \* where main is: "serving", "draining", "drained", "timedOut", "down"
  count,      \* messages of each user that Submit accepted
  sent,       \* history: batches of each user, in the order of dispatch
  discarded,  \* history: messages that /start dropped
  quiet       \* history: Window has passed since the user's last message

vars == <<pending, timers, closed, wg, running, drain, count, sent, discarded, quiet>>

Number == 1..MaxMessages
Message == [n : Number, kind : Kind]
NoBatch == [items |-> <<>>, generation |-> 0]
Batch == [items : Seq(Message), image : 0..MaxMessages, pdf : 0..MaxMessages]

TypeOK ==
  /\ pending \in [User -> [items : Seq(Message), generation : 0..Limit - 1]]
  /\ \A t \in timers : /\ t.user \in User /\ t.first \in Number
                       /\ t.generation \in 1..Limit - 1 /\ t.fired \in BOOLEAN
  /\ closed \in BOOLEAN /\ wg \in Nat
  /\ running \in SUBSET (User \X Number)
  /\ drain \in {"serving", "draining", "drained", "timedOut", "down"}
  /\ count \in [User -> 0..MaxMessages]
  /\ sent \in [User -> Seq(Batch)]
  /\ discarded \in [User -> SUBSET Number]
  /\ quiet \in [User -> BOOLEAN]

Init ==
  /\ pending = [u \in User |-> NoBatch] /\ timers = {}
  /\ closed = FALSE /\ wg = 0 /\ running = {} /\ drain = "serving"
  /\ count = [u \in User |-> 0] /\ sent = [u \in User |-> <<>>]
  /\ discarded = [u \in User |-> {}] /\ quiet = [u \in User |-> TRUE]

----------------------------------------------------------------------------
(* MakeBatch: the ids and texts of all the messages, which their sequence  *)
(* stands for, and the first attachment of each kind.                      *)

First(items, kind) ==
  LET S == {i \in DOMAIN items : items[i].kind = kind}
  IN  IF S = {} THEN 0 ELSE items[Min(S)].n

MakeBatch(items) == [items |-> items, image |-> First(items, "image"),
                     pdf |-> First(items, "pdf")]

Attached(m) == m.kind \in {"image", "pdf"}

(* Mutant: a second attachment only conflicts with one of its own kind.    *)
ConflictSameKind(items, m) ==
  Attached(m) /\ \E i \in DOMAIN items : items[i].kind = m.kind

Conflict(items, m) == Attached(m) /\ \E i \in DOMAIN items : Attached(items[i])

(* What flushLocked dispatches of a batch.                                 *)
Out(items) == IF items = <<>> THEN <<>> ELSE <<MakeBatch(items)>>

(* The timer of the user's pending batch is stopped if it has not fired.   *)
Unstopped(u) == {t \in timers : t.user = u => t.fired}

(* dispatchLocked, for every batch of new[u].                              *)
Dispatch(new) ==
  LET fresh == {g \in User \X Number :
                  Len(sent[g[1]]) < g[2] /\ g[2] <= Len(sent[g[1]]) + Len(new[g[1]])}
  IN  /\ sent' = [u \in User |-> sent[u] \o new[u]]
      /\ running' = running \cup fresh
      /\ wg' = wg + Cardinality(fresh)

Only(u, batches) == [v \in User |-> IF v = u THEN batches ELSE <<>>]

NoDispatch == UNCHANGED <<sent, running, wg>>

(* Mutant: a batch is dispatched and stays in the map.                     *)
FlushKeeps(u) == /\ Dispatch(Only(u, Out(pending[u].items)))
                 /\ UNCHANGED pending

(* flushLocked, outside Submit.                                            *)
Flush(u) == /\ pending' = [pending EXCEPT ![u] = NoBatch]
            /\ Dispatch(Only(u, Out(pending[u].items)))

----------------------------------------------------------------------------
(* Mutant: Submit does not look at b.closed.                               *)
AcceptsAlways(u) == count[u] < MaxMessages

(* Submit does nothing once the buffer is closed.                          *)
Accepts(u) == ~closed /\ count[u] < MaxMessages

Full(items) == Len(items) >= Limit

(* Mutant: a timer is made with a new batch, not with every message.       *)
ArmNewOnly(u, p) ==
  IF Len(p.items) > 1 THEN {t \in timers : t.user = u /\ ~t.fired}
  ELSE {[user |-> u, first |-> p.items[1].n, generation |-> p.generation,
         fired |-> FALSE]}

(* time.AfterFunc, for a batch that goes on waiting.                       *)
Arm(u, p) == {[user |-> u, first |-> p.items[1].n, generation |-> p.generation,
               fired |-> FALSE]}

(* Submit, with the batches it flushes on its way: the pending one, which  *)
(* has an attachment already, and the one it fills.                        *)
Submit(u, kind) ==
  LET m == [n |-> count[u] + 1, kind |-> kind]
      conflict == Conflict(pending[u].items, m)
      p == IF conflict THEN NoBatch ELSE pending[u]
      grown == [items |-> Append(p.items, m), generation |-> p.generation + 1]
      full == Full(grown.items)
  IN  /\ Accepts(u)
      /\ count' = [count EXCEPT ![u] = m.n]
      /\ quiet' = [quiet EXCEPT ![u] = FALSE]
      /\ Dispatch(Only(u, (IF conflict THEN Out(pending[u].items) ELSE <<>>)
                          \o IF full THEN Out(grown.items) ELSE <<>>))
      /\ pending' = [pending EXCEPT ![u] = IF full THEN NoBatch ELSE grown]
      /\ timers' = Unstopped(u) \cup IF full THEN {} ELSE Arm(u, grown)
      /\ UNCHANGED <<closed, drain, discarded>>

(* Window after the user's last message, the runtime starts the callback.  *)
Elapse(t) ==
  /\ t \in timers /\ ~t.fired
  /\ timers' = (timers \ {t}) \cup {[t EXCEPT !.fired = TRUE]}
  /\ quiet' = [quiet EXCEPT ![t.user] = TRUE]
  /\ UNCHANGED <<pending, closed, wg, running, drain, count, sent, discarded>>

(* Mutant: the callback only looks whether its batch is still pending.     *)
CurrentBatch(t) ==
  LET p == pending[t.user] IN p.items # <<>> /\ p.items[1].n = t.first

(* The batch is the one the timer was made for, and has not grown since.   *)
Current(t) ==
  LET p == pending[t.user]
  IN  p.items # <<>> /\ p.items[1].n = t.first /\ p.generation = t.generation

Callback(t) ==
  /\ t \in timers /\ t.fired
  /\ timers' = timers \ {t}
  /\ IF Current(t) THEN Flush(t.user) ELSE NoDispatch /\ UNCHANGED pending
  /\ UNCHANGED <<closed, drain, count, discarded, quiet>>

Ids(items) == {items[i].n : i \in DOMAIN items}

(* /start: what the user wrote before is not answered any more.            *)
Discard(u) ==
  /\ pending[u] # NoBatch
  /\ pending' = [pending EXCEPT ![u] = NoBatch]
  /\ timers' = Unstopped(u)
  /\ discarded' = [discarded EXCEPT ![u] = @ \cup Ids(pending[u].items)]
  /\ NoDispatch /\ UNCHANGED <<closed, drain, count, quiet>>

(* Sink returns: every call it makes has a timeout.                        *)
Finish(g) ==
  /\ g \in running
  /\ running' = running \ {g}
  /\ wg' = wg - 1
  /\ UNCHANGED <<pending, timers, closed, drain, count, sent, discarded, quiet>>

----------------------------------------------------------------------------
(* Shutdown: main calls Drain with twenty seconds to go, then Shutdown.    *)

StartDrain ==
  /\ drain = "serving"
  /\ drain' = "draining"
  /\ closed' = TRUE
  /\ pending' = [u \in User |-> NoBatch]
  /\ timers' = {t \in timers : t.fired}
  /\ Dispatch([u \in User |-> Out(pending[u].items)])
  /\ UNCHANGED <<count, discarded, quiet>>

(* b.wg.Wait returned.                                                     *)
DrainDone ==
  /\ drain = "draining" /\ wg = 0
  /\ drain' = "drained"
  /\ UNCHANGED <<pending, timers, closed, wg, running, count, sent, discarded, quiet>>

(* The bound of Drain: the context of the Sinks is cancelled, and nobody   *)
(* waits for them.                                                         *)
DrainTimeout ==
  /\ drain = "draining"
  /\ drain' = "timedOut"
  /\ UNCHANGED <<pending, timers, closed, wg, running, count, sent, discarded, quiet>>

Shutdown ==
  /\ drain \in {"drained", "timedOut"}
  /\ drain' = "down"
  /\ closed' = TRUE
  /\ pending' = [u \in User |-> NoBatch]
  /\ timers' = {t \in timers : t.fired}
  /\ NoDispatch /\ UNCHANGED <<count, discarded, quiet>>

Next == \/ \E u \in User : Discard(u) \/ \E kind \in Kind : Submit(u, kind)
        \/ \E t \in timers : Elapse(t) \/ Callback(t)
        \/ \E g \in running : Finish(g)
        \/ StartDrain \/ DrainDone \/ DrainTimeout \/ Shutdown

Spec == Init /\ [][Next]_vars

(* Timers fire, callbacks get b.mu, Sinks return.                          *)
Fairness ==
  /\ \A u \in User, k \in Number :
       /\ WF_vars(\E t \in timers : t.user = u /\ t.first = k /\ Elapse(t))
       /\ WF_vars(\E t \in timers : t.user = u /\ t.first = k /\ Callback(t))
  /\ WF_vars(\E g \in running : Finish(g))

FairSpec == Spec /\ Fairness

----------------------------------------------------------------------------
(* Every accepted message is in exactly one batch, dispatched or pending,  *)
(* and the batches of a user come in the order of his messages: whichever  *)
(* of timers, limits, attachments, /start and shutdown cut them, none is   *)
(* lost or answered twice, but those that /start dropped.                  *)
Part(u, k) == IF k \in DOMAIN sent[u] THEN sent[u][k].items ELSE pending[u].items
Parts(u) == 1..Len(sent[u]) + 1

NothingLostOrRepeated ==
  \A u \in User :
    /\ UNION {Ids(Part(u, k)) : k \in Parts(u)} = (1..count[u]) \ discarded[u]
    /\ \A k, l \in Parts(u) : \A i \in DOMAIN Part(u, k), j \in DOMAIN Part(u, l) :
         k < l \/ (k = l /\ i < j) => Part(u, k)[i].n < Part(u, l)[j].n

(* What the pipeline shows the model of a batch: its PDF or else its image.*)
Shown(b) == IF b.pdf # 0 THEN b.pdf ELSE b.image

(* Every attachment of a batch is shown to the model: a second one, of the *)
(* same or the other kind, would be dropped by MakeBatch or the pipeline.  *)
NoAttachmentDropped ==
  \A u \in User : \A k \in DOMAIN sent[u] : \A i \in DOMAIN sent[u][k].items :
    LET m == sent[u][k].items[i] IN Attached(m) => m.n = Shown(sent[u][k])

(* A burst is not cut while the user is writing: a batch that is neither   *)
(* full nor displaced by an attachment is dispatched only after a silence  *)
(* of Window since the user's last message, or at shutdown, also by a      *)
(* callback that was already waiting for b.mu when that message came.      *)
QuietBeforeTimer ==
  [][\A u \in User :
       Len(sent'[u]) > Len(sent[u]) /\ count'[u] = count[u] /\ ~closed' => quiet[u]]_vars

(* When Drain returned because the wait group reached zero, the pipeline   *)
(* has handled everything: no Sink is running, no batch is pending, and no *)
(* late Submit or timer will start one.                                    *)
DrainedMeansIdle ==
  /\ wg = Cardinality(running)
  /\ drain = "drained" => running = {} /\ \A u \in User : pending[u] = NoBatch

(* A batch does not stay pending: its silence comes, it fills up, or /start*)
(* or shutdown takes it away.                                              *)
BatchLeaves ==
  \A u \in User, k \in Number : k \in Ids(pending[u].items) ~> k \notin Ids(pending[u].items)
=============================================================================
