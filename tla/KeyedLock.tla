----------------------------- MODULE KeyedLock -----------------------------
(***************************************************************************)
(* bot.KeyedLock (internal/bot/state.go:143-180): one lock per int64 id,   *)
(* allocated on first use and deleted from the map when its last user      *)
(* leaves.  A lockEntry is a channel of capacity one, holding the token    *)
(* while nobody is inside, and a reference count guarded by k.mu.          *)
(*                                                                         *)
(* The pipeline uses it per user, the answerer per ticket and the          *)
(* forwarder per topic.  An action is one critical section of k.mu or one  *)
(* channel operation: other callers run between any two of them.           *)
(***************************************************************************)
EXTENDS Integers, FiniteSets

CONSTANTS
  Caller,    \* goroutines that call Lock
  Id,        \* keys of the map
  Entry,     \* lockEntry objects the allocator can return
  NoEntry    \* the nil *lockEntry

ASSUME CallerAssumption == IsFiniteSet(Caller)
ASSUME EntryAssumption == NoEntry \notin Entry

VARIABLES
  entries,   \* k.entries, as a total function: NoEntry where the map has no key
  token,     \* token[e]: the channel of e holds its token
  refs,      \* refs[e]: e.refs
  pc,        \* where each caller is
  key,       \* the id a caller passed to Lock
  mine,      \* the entry a caller's closures captured
  cancelled  \* callers whose context is done

vars == <<entries, token, refs, pc, key, mine, cancelled>>

PC == {"idle",       \* outside Lock, holds nothing
       "waiting",    \* registered, in the select of Lock
       "holding",    \* Lock returned its unlock function
       "leaving"}    \* token given back, releaseRef still to run

InUse(e) == \/ \E i \in Id : entries[i] = e
            \/ \E c \in Caller : pc[c] # "idle" /\ mine[c] = e

Users(e) == {c \in Caller : pc[c] # "idle" /\ mine[c] = e}

TypeOK ==
  /\ entries \in [Id -> Entry \cup {NoEntry}]
  /\ token \in [Entry -> BOOLEAN]
  /\ refs \in [Entry -> Nat]
  /\ pc \in [Caller -> PC]
  /\ key \in [Caller -> Id]
  /\ mine \in [Caller -> Entry \cup {NoEntry}]
  /\ cancelled \in SUBSET Caller

Init ==
  /\ entries = [i \in Id |-> NoEntry]
  /\ token = [e \in Entry |-> FALSE]
  /\ refs = [e \in Entry |-> 0]
  /\ pc = [c \in Caller |-> "idle"]
  /\ key \in [Caller -> Id]
  /\ mine = [c \in Caller |-> NoEntry]
  /\ cancelled = {}

----------------------------------------------------------------------------
(* Mutants: plausible slips, each replacing one definition in one check.   *)

(* Lock takes no reference on an entry it found.                           *)
JoinUncounted(c, i) ==
  /\ entries[i] # NoEntry
  /\ mine' = [mine EXCEPT ![c] = entries[i]]
  /\ UNCHANGED <<entries, token, refs>>

(* releaseRef deletes the entry whoever still uses it.                     *)
DropRefAlwaysDeletes(c) ==
  /\ refs' = [refs EXCEPT ![mine[c]] = @ - 1]
  /\ entries' = [entries EXCEPT ![key[c]] = NoEntry]
  /\ pc' = [pc EXCEPT ![c] = "idle"]
  /\ UNCHANGED <<key, mine, cancelled>>

(* The error path of Lock runs the whole unlock function.                  *)
GiveUpUnlocks(c) ==
  /\ pc[c] = "waiting"
  /\ c \in cancelled
  /\ refs' = [refs EXCEPT ![mine[c]] = @ - 1]
  /\ entries' = IF refs[mine[c]] = 1
                THEN [entries EXCEPT ![key[c]] = NoEntry]
                ELSE entries
  /\ token' = [token EXCEPT ![mine[c]] = TRUE]
  /\ pc' = [pc EXCEPT ![c] = "idle"]
  /\ UNCHANGED <<key, mine, cancelled>>

(* Unlock only drops the reference and forgets the token.                  *)
ReturnNothing(c) ==
  /\ pc[c] = "holding"
  /\ pc' = [pc EXCEPT ![c] = "leaving"]
  /\ UNCHANGED <<entries, token, refs, key, mine, cancelled>>

----------------------------------------------------------------------------
(* Lock, under k.mu: find the entry of the id or make one with its token   *)
(* in the channel, and take a reference.                                   *)

Join(c, i) ==
  /\ entries[i] # NoEntry
  /\ mine' = [mine EXCEPT ![c] = entries[i]]
  /\ refs' = [refs EXCEPT ![entries[i]] = @ + 1]
  /\ UNCHANGED <<entries, token>>

Allocate(c, i) ==
  /\ entries[i] = NoEntry
  /\ \E e \in Entry :
       /\ ~InUse(e)
       /\ entries' = [entries EXCEPT ![i] = e]
       /\ token' = [token EXCEPT ![e] = TRUE]
       /\ refs' = [refs EXCEPT ![e] = 1]
       /\ mine' = [mine EXCEPT ![c] = e]

Register(c, i) ==
  /\ pc[c] = "idle"
  /\ Join(c, i) \/ Allocate(c, i)
  /\ pc' = [pc EXCEPT ![c] = "waiting"]
  /\ key' = [key EXCEPT ![c] = i]
  /\ cancelled' = cancelled \ {c}

(* The select of Lock receives the token.                                  *)
Take(c) ==
  /\ pc[c] = "waiting"
  /\ token[mine[c]]
  /\ token' = [token EXCEPT ![mine[c]] = FALSE]
  /\ pc' = [pc EXCEPT ![c] = "holding"]
  /\ UNCHANGED <<entries, refs, key, mine, cancelled>>

(* releaseRef: drop the reference of the captured entry and, with the last *)
(* one, delete whatever the map holds under the id.                        *)
DropRef(c) ==
  /\ refs' = [refs EXCEPT ![mine[c]] = @ - 1]
  /\ entries' = IF refs[mine[c]] = 1
                THEN [entries EXCEPT ![key[c]] = NoEntry]
                ELSE entries
  /\ pc' = [pc EXCEPT ![c] = "idle"]
  /\ UNCHANGED <<key, mine, cancelled>>

(* The select of Lock sees ctx.Done, which it may prefer to a free token.  *)
GiveUp(c) ==
  /\ pc[c] = "waiting"
  /\ c \in cancelled
  /\ DropRef(c)
  /\ UNCHANGED token

(* The unlock function: first the send on the channel, which would block   *)
(* for ever on a full one, then releaseRef.                                *)
ReturnToken(c) ==
  /\ pc[c] = "holding"
  /\ ~token[mine[c]]
  /\ token' = [token EXCEPT ![mine[c]] = TRUE]
  /\ pc' = [pc EXCEPT ![c] = "leaving"]
  /\ UNCHANGED <<entries, refs, key, mine, cancelled>>

Leave(c) ==
  /\ pc[c] = "leaving"
  /\ DropRef(c)
  /\ UNCHANGED token

(* The caller's context ends: the work context of main.go, or a deadline.  *)
Cancel(c) ==
  /\ pc[c] = "waiting"
  /\ cancelled' = cancelled \cup {c}
  /\ UNCHANGED <<entries, token, refs, pc, key, mine>>

Step(c) == \/ Take(c)
           \/ GiveUp(c)
           \/ ReturnToken(c)
           \/ Leave(c)

Next == \E c \in Caller : \/ \E i \in Id : Register(c, i)
                          \/ Step(c)
                          \/ Cancel(c)

Spec == Init /\ [][Next]_vars

(***************************************************************************)
(* A holder finishes its turn (every call a turn makes has a timeout), a   *)
(* goroutine that can run does, and a receiver blocked on a channel is     *)
(* served in arrival order by the Go runtime, so a caller that finds the   *)
(* token free again and again does not miss it for ever.                   *)
(***************************************************************************)
Fairness == \A c \in Caller : /\ SF_vars(Take(c))
                              /\ WF_vars(GiveUp(c))
                              /\ WF_vars(ReturnToken(c))
                              /\ WF_vars(Leave(c))

FairSpec == Spec /\ Fairness

----------------------------------------------------------------------------
(* Two goroutines are never inside the turn of the same id, although the   *)
(* entry of an id is deleted and allocated again while others wait: a      *)
(* caller that got in through an old entry would meet one with the new.    *)
MutualExclusion ==
  \A c, d \in Caller :
    pc[c] = "holding" /\ pc[d] = "holding" /\ key[c] = key[d] => c = d

(* The map keeps an id exactly as long as somebody uses it: the entry a    *)
(* caller captured is the one the map still holds, an entry of the map has *)
(* a user, and no two ids share one.  The first part is what makes the     *)
(* unconditional delete of releaseRef safe, the second that the ids of     *)
(* past conversations do not pile up.                                      *)
MapMatchesUsers ==
  /\ \A c \in Caller :
       pc[c] # "idle" => mine[c] # NoEntry /\ entries[key[c]] = mine[c]
  /\ \A i \in Id : entries[i] # NoEntry => Users(entries[i]) # {}
  /\ \A i, j \in Id : entries[i] # NoEntry /\ entries[i] = entries[j] => i = j

(* The reference count is the number of callers inside: one too few frees  *)
(* an entry in use, one too many keeps it for ever.                        *)
RefsCountUsers == \A e \in Entry : refs[e] = Cardinality(Users(e))

(* Both together: who is inside is what the map and the counts say.        *)
EntriesAccounted == MapMatchesUsers /\ RefsCountUsers

(* The token of an entry in use is in its channel or with exactly one of   *)
(* the callers inside, never both and never lost: the send of unlock never *)
(* blocks, and no waiter sits behind an entry nobody will release.         *)
Holders(e) == {c \in Caller : pc[c] = "holding" /\ mine[c] = e}

TokenAccounted ==
  \A i \in Id : entries[i] # NoEntry =>
    IF token[entries[i]] THEN Holders(entries[i]) = {}
                         ELSE \E c \in Caller : Holders(entries[i]) = {c}

(* A caller that asked for the lock gets an answer: the token or, when its *)
(* context ended, an error.                                                *)
EveryWaiterAnswered ==
  \A c \in Caller : pc[c] = "waiting" ~> pc[c] # "waiting"

(* The refinement: a caller that returned the token but has not dropped    *)
(* its reference no longer holds the lock.                                 *)
phase == [c \in Caller |-> IF pc[c] = "leaving" THEN "idle" ELSE pc[c]]

Abstract == INSTANCE Mutex WITH wanted <- key

(* KeyedLock implements the lock it promises: no step of its entries and   *)
(* channels grants an id that another caller holds.                        *)
ImplementsMutex == Abstract!Spec
=============================================================================
