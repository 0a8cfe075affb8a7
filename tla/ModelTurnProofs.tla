-------------------------- MODULE ModelTurnProofs --------------------------
(***************************************************************************)
(* The safety of the turns that ask the model, for any number of turns of  *)
(* a user, providers, iterations, sessions, messages and scenarios: the    *)
(* sessions of the MCP client, deletions, the device snapshot, /start, and *)
(* the history in memory and in the table.                                 *)
(*                                                                         *)
(* The parts of the inductive invariant follow the actors: whoever holds   *)
(* c.recovery, a caller that still remembers a session, a turn that is     *)
(* deleting, and a turn that has something to write.  A second one, of the *)
(* messages alone, follows each message from memory into the table and out *)
(* of it again.                                                            *)
(***************************************************************************)
EXTENDS ModelTurn, FiniteSetTheorems, SequenceTheorems, TLAPS

(* Who holds c.recovery has no session to replace any more, and nobody     *)
(* holds it once the client is closed.                                     *)
RecoveryHeld ==
  /\ session <= made /\ generation <= made
  /\ recovery # "nobody" => session = NoSession
  /\ \A c \in Caller : at[c] = "connect" => recovery = c
  /\ retry = "connect" => recovery = "retry"
  /\ closed => retry = "stopped" /\ recovery = "nobody"

(* As long as no other session was installed, the current one is the one   *)
(* the caller knows, or there is none.                                     *)
OwnSession ==
  \A c \in Caller : at[c] \in {"first", "recover"} =>
    /\ gen[c] <= generation
    /\ gen[c] = generation => session \in {NoSession, mine[c]}

(* What is left of a scenario keeps its settings.                          *)
LeftTyped == left \in [turns : SUBSET Caller, candidates : 0..Providers, past : BOOLEAN,
                       tools : SUBSET Call, calls : Nat, clears : Nat, faults : Nat,
                       evicts : BOOLEAN, breaks : BOOLEAN, stops : BOOLEAN]

(* What a turn at a place, with a run, inside the client or out of it, and *)
(* with the deletions it has sent, may rely on.                            *)

Asking == {"start", "snapshot", "model"} \cup ToolPC

AtDeletion(place, r) == place = "call" /\ Head(r.queue)[1] = "delete"
Deletion(place, r, inside) == AtDeletion(place, r) /\ inside = "first"

(* Deletions are sent on the first session only.                           *)
Deletions == [call : Call, provider : 1..Providers, place : {"first"}]

(* A call under way is not a replay, its list was dropped before it, and a *)
(* deletion is never on its second session.                                *)
CallFresh(place, r, inside) ==
  place \in {"owner", "call"} =>
    /\ ~(r.provider > 1 /\ Head(r.queue) \in r.completed)
    /\ r.pending = 0
    /\ AtDeletion(place, r) => inside \in {"out", "first"}

(* Equal deletions are sent by one provider.  Each is under way, or has a  *)
(* result that the later providers are given when they ask for the same.   *)
DeletionsKept(place, r, inside, deletions) ==
  /\ \A s, z \in deletions : s.call = z.call => s.provider = z.provider
  /\ place \in Asking => \A s \in deletions :
       /\ s.provider <= r.provider
       /\ s.call \in r.completed \/ (Deletion(place, r, inside) /\ s.call = Head(r.queue))
       /\ Deletion(place, r, inside) /\ s.call = Head(r.queue) => s.provider = r.provider

Sound(place, r, inside, deletions) ==
  /\ place \in ToolPC <=> r.queue # <<>>
  /\ inside # "out" => place \in {"owner", "call"}
  /\ CallFresh(place, r, inside)
  /\ DeletionsKept(place, r, inside, deletions)

TurnsSound ==
  /\ pc \in [Caller -> PC] /\ run \in [Caller -> Run]
  /\ sent \in [Caller -> SUBSET Deletions]
  /\ \A t \in Caller : Sound(pc[t], run[t], at[t], sent[t])

(* Nobody keeps the list that shows a deleted device, and whoever deletes  *)
(* has dropped the stored ones.                                            *)
ListsDropped ==
  ~crossed =>
    /\ ~device => \A t \in Caller : run[t].pending # 1
    /\ (\E t \in Caller : Deleting(t)) => memSnapshot # 1 /\ dbSnapshot # 1

(* Messages, and whose are forgotten.                                      *)
HistoryMessage == (Caller \cup {"earlier"}) \X {"user", "assistant"}

HistoryTyped == cache \in Seq(HistoryMessage) /\ rows \in Seq(HistoryMessage)

Forgetting ==
  /\ \A t \in Caller : t \in forgotten => pc[t] \in Final
  /\ ~reloaded => \A m \in Range(cache) : m[1] \notin forgotten

----------------------------------------------------------------------------
(* The client.                                                             *)

ClientIInv == McpTypeOK /\ SessionsAccounted /\ RecoveryHeld /\ OwnSession

USE MaxSessionsAssumption, CallerAssumption

(* The client as main.go leaves it: connected, or not.                     *)
LEMMA McpInitIInv == ASSUME McpInit PROVE ClientIInv
<1> USE DEF McpInit, NoSession, Session
<1>1. made \in 0..MaxSessions /\ made \in {0, 1} OBVIOUS
<1>2. McpTypeOK
  <2>1. /\ session \in Session \cup {NoSession}
        /\ generation \in 0..MaxSessions /\ made \in 0..MaxSessions
    BY <1>1
  <2>2. /\ at \in [Caller -> {"out", "first", "recover", "connect", "again", "second"}]
        /\ mine \in [Caller -> Session \cup {NoSession}]
        /\ gen \in [Caller -> 0..MaxSessions]
    OBVIOUS
  <2> QED BY <2>1, <2>2 DEF McpTypeOK
<1>3. SessionsAccounted BY <1>1 DEF SessionsAccounted
<1>4. RecoveryHeld /\ OwnSession BY <1>1 DEF RecoveryHeld, OwnSession
<1> QED BY <1>2, <1>3, <1>4 DEF ClientIInv

(* A step that leaves the client alone keeps its invariant.                *)
LEMMA ClientUnchanged == ASSUME ClientIInv, UNCHANGED mcpVars PROVE ClientIInv'
BY DEF ClientIInv, McpTypeOK, SessionsAccounted, RecoveryHeld, OwnSession,
       mcpVars, client, callers

(* A caller returns: it remembers nothing.                                 *)
LEMMA ReturnKeeps ==
  ASSUME ClientIInv, NEW c \in Caller, Return(c), UNCHANGED <<client, retry>>
  PROVE  ClientIInv'
<1> USE DEF ClientIInv, Return, client, NoSession, Session
<1>1. McpTypeOK' BY DEF McpTypeOK
<1>2. SessionsAccounted' BY DEF SessionsAccounted
<1>3. RecoveryHeld' /\ OwnSession' BY DEF McpTypeOK, RecoveryHeld, OwnSession
<1> QED BY <1>1, <1>2, <1>3

(* A caller moves inside CallTool and nothing else changes.                *)
LEMMA GoKeeps ==
  ASSUME ClientIInv, NEW c \in Caller,
         NEW place \in {"first", "recover", "again", "second"},
         at' = [at EXCEPT ![c] = place], UNCHANGED <<client, retry>>,
         mine' \in [Caller -> Session \cup {NoSession}], gen' \in [Caller -> 0..MaxSessions],
         \A d \in Caller \ {c} : mine'[d] = mine[d] /\ gen'[d] = gen[d],
         place \in {"first", "recover"} =>
           /\ gen'[c] <= generation
           /\ gen'[c] = generation => session \in {NoSession, mine'[c]}
  PROVE  ClientIInv'
<1> USE DEF ClientIInv, client, NoSession, Session
<1>1. McpTypeOK' BY DEF McpTypeOK
<1>2. SessionsAccounted' BY DEF SessionsAccounted
<1>3. RecoveryHeld' BY DEF McpTypeOK, RecoveryHeld
<1>4. OwnSession' BY DEF McpTypeOK, OwnSession
<1> QED BY <1>1, <1>2, <1>3, <1>4

(* connect begins: the session is dropped by the one that took the lock.   *)
LEMMA DropKeeps ==
  ASSUME ClientIInv, NEW who \in Caller \cup {"retry"}, Drop(who), ~closed,
         \/ /\ who \in Caller /\ at' = [at EXCEPT ![who] = "connect"]
            /\ UNCHANGED <<mine, gen, retry>>
         \/ who = "retry" /\ retry' = "connect" /\ UNCHANGED callers
  PROVE  ClientIInv'
<1> USE DEF ClientIInv, Drop, NoSession, Session, callers
<1>1. McpTypeOK' BY DEF McpTypeOK
<1>2. SessionsAccounted' BY DEF SessionsAccounted
<1>3. RecoveryHeld' BY DEF McpTypeOK, RecoveryHeld
<1>4. OwnSession' BY DEF McpTypeOK, OwnSession
<1> QED BY <1>1, <1>2, <1>3, <1>4

(* connect ends: the new session is the only one, or none was kept.        *)
LEMMA ConnectKeeps ==
  ASSUME ClientIInv, Install \/ NotInstalled,
         \/ /\ \E c \in Caller :
                 at[c] = "connect" /\ \E place \in {"again", "out"} :
                   at' = [at EXCEPT ![c] = place] /\
                   \A d \in Caller \ {c} : mine'[d] = mine[d] /\ gen'[d] = gen[d]
            /\ mine' \in [Caller -> Session \cup {NoSession}]
            /\ gen' \in [Caller -> 0..MaxSessions]
            /\ UNCHANGED retry
         \/ retry = "connect" /\ retry' = "waiting" /\ UNCHANGED callers
  PROVE  ClientIInv'
<1> USE DEF ClientIInv, NoSession, Session, callers
<1>0. /\ recovery \in Caller \cup {"retry"} /\ session = NoSession /\ ~closed
      /\ recovery' = "nobody" /\ UNCHANGED <<closed, lost>>
      /\ \A c \in Caller : at'[c] # "connect"
      /\ retry' # "connect"
  BY DEF McpTypeOK, RecoveryHeld, Install, NotInstalled
<1>1. CASE Install
  <2>1. /\ made' = made + 1 /\ session' = made + 1 /\ generation' = generation + 1
        /\ made < MaxSessions /\ shut' = shut
    BY <1>1 DEF Install
  <2>2. McpTypeOK' BY <1>0, <2>1 DEF McpTypeOK, RecoveryHeld
  <2>3. SessionsAccounted' BY <1>0, <2>1 DEF McpTypeOK, SessionsAccounted
  <2>4. RecoveryHeld' BY <1>0, <2>1, <2>2 DEF McpTypeOK, RecoveryHeld
  <2>5. OwnSession' BY <1>0, <2>1 DEF McpTypeOK, OwnSession
  <2> QED BY <2>2, <2>3, <2>4, <2>5
<1>2. CASE NotInstalled
  <2>1. /\ UNCHANGED <<session, generation>>
        /\ \/ UNCHANGED <<made, shut>>
           \/ made < MaxSessions /\ made' = made + 1 /\ shut' = shut \cup {made + 1}
    BY <1>2 DEF NotInstalled
  <2>2. McpTypeOK'
    <3>1. made' \in 0..MaxSessions /\ shut' \subseteq Session
      <4>1. made \in 0..MaxSessions /\ shut \subseteq Session BY DEF McpTypeOK
      <4>2. CASE UNCHANGED <<made, shut>> BY <4>1, <4>2
      <4>3. CASE made < MaxSessions /\ made' = made + 1 /\ shut' = shut \cup {made + 1}
        <5>1. made + 1 \in 1..MaxSessions /\ made + 1 \in 0..MaxSessions BY <4>1, <4>3
        <5> QED BY <4>1, <4>3, <5>1
      <4> QED BY <2>1, <4>2, <4>3
    <3>2. at' \in [Caller -> {"out", "first", "recover", "connect", "again", "second"}]
      BY DEF McpTypeOK
    <3> QED BY <1>0, <2>1, <3>1, <3>2 DEF McpTypeOK
  <2>3. SessionsAccounted' BY <1>0, <2>1 DEF McpTypeOK, SessionsAccounted
  <2>4. RecoveryHeld' BY <1>0, <2>1 DEF McpTypeOK, RecoveryHeld
  <2>5. OwnSession' BY <1>0, <2>1 DEF McpTypeOK, OwnSession
  <2> QED BY <2>2, <2>3, <2>4, <2>5
<1> QED BY <1>1, <1>2

(* A step of CallTool keeps the client's invariant and moves its caller    *)
(* only; one that has not returned leaves the caller inside.               *)
LEMMA UseClientKeeps ==
  ASSUME ClientIInv, NEW t \in Caller, NEW write \in BOOLEAN, NEW o \in Outcome,
         UseClient(t, write, o)
  PROVE  /\ ClientIInv'
         /\ \A u \in Caller \ {t} : at'[u] = at[u]
         /\ o = "going" <=> at'[t] # "out"
         /\ at'[t] = "second" => at[t] = "again"
         /\ at'[t] = "again" => at[t] \in {"recover", "connect"}
         /\ at'[t] = "connect" => at[t] = "recover"
         /\ at'[t] = "recover" => at[t] = "first" /\ ~write
         /\ at'[t] = "first" => at[t] = "out"
         /\ o = "result" => at[t] \in {"first", "second"}
<1>0. at \in [Caller -> {"out", "first", "recover", "connect", "again", "second"}]
  BY DEF ClientIInv, McpTypeOK
<1> USE DEF Go, Error, Outcome
<1>1. ClientIInv'
  <2>1. CASE Enter(t, o)
    <3>1. CASE session = NoSession \/ closed
      BY <2>1, <3>1, ReturnKeeps DEF Enter
    <3>2. CASE ~(session = NoSession \/ closed)
      BY <2>1, <3>2, GoKeeps DEF Enter, ClientIInv, McpTypeOK
    <3> QED BY <3>1, <3>2
  <2>2. CASE Answered(t, o) BY <2>2, ReturnKeeps DEF Answered
  <2>3. CASE Recover(t, o)
    <3>1. CASE SameGeneration(t) /\ ~closed
      BY <2>3, <3>1, DropKeeps DEF Recover
    <3>2. CASE Error(t, o) /\ UNCHANGED client
      BY <2>3, <3>2, ReturnKeeps DEF Recover
    <3>3. CASE Go(t, "again", o) /\ UNCHANGED <<client, mine, gen>>
      BY <2>3, <3>3, GoKeeps DEF Recover, ClientIInv, McpTypeOK
    <3> QED BY <2>3, <3>1, <3>2, <3>3 DEF Recover
  <2>4. CASE Connected(t, o)
    BY <2>4, ConnectKeeps
    DEF Connected, Return, ClientIInv, McpTypeOK, NoSession
  <2>5. CASE Again(t, o)
    <3>1. CASE session = NoSession BY <2>5, <3>1, ReturnKeeps DEF Again
    <3>2. CASE session # NoSession
      BY <2>5, <3>2, GoKeeps DEF Again, ClientIInv, McpTypeOK
    <3> QED BY <3>1, <3>2
  <2>6. CASE Broken(t, write, o)
    <3>1. CASE Return(t) BY <2>6, <3>1, ReturnKeeps DEF Broken
    <3>2. CASE Go(t, "recover", o) /\ UNCHANGED <<mine, gen>>
      BY <2>6, <3>2, GoKeeps DEF Broken, ClientIInv, McpTypeOK, OwnSession
    <3> QED BY <2>6, <3>1, <3>2 DEF Broken
  <2>7. CASE BrokenAgain(t, o) BY <2>7, ReturnKeeps DEF BrokenAgain
  <2> QED BY <2>1, <2>2, <2>3, <2>4, <2>5, <2>6, <2>7 DEF UseClient
<1>2. \A u \in Caller \ {t} : at'[u] = at[u]
  BY <1>0 DEF UseClient, Enter, Answered, Recover, Connected, Again, Broken, BrokenAgain, Return
<1>3. /\ o = "going" <=> at'[t] # "out"
      /\ at'[t] = "second" => at[t] = "again"
      /\ at'[t] = "again" => at[t] \in {"recover", "connect"}
      /\ at'[t] = "connect" => at[t] = "recover"
      /\ at'[t] = "recover" => at[t] = "first" /\ ~write
      /\ at'[t] = "first" => at[t] = "out"
      /\ o = "result" => at[t] \in {"first", "second"}
  BY <1>0 DEF UseClient, Enter, Answered, Recover, Connected, Again, Broken, BrokenAgain, Return
<1> QED BY <1>1, <1>2, <1>3

(* The connection's own goroutine, shutdown and the server.                *)
LEMMA ConnectionKeeps == ASSUME ClientIInv, Connection PROVE ClientIInv' /\ UNCHANGED at
<1>1. CASE RetryLooks \/ RetryStops
  <2>1. /\ UNCHANGED <<client, at, mine, gen>> /\ retry # "connect"
        /\ retry' \in {"looked", "stopped"} /\ retry # "stopped"
    BY <1>1 DEF RetryLooks, RetryStops, callers
  <2> QED
    BY <2>1 DEF ClientIInv, McpTypeOK, SessionsAccounted, RecoveryHeld, OwnSession, client
<1>2. CASE RetryConnects
  <2>1. ~closed BY <1>2 DEF ClientIInv, RecoveryHeld, RetryConnects
  <2> QED BY <1>2, <2>1, DropKeeps DEF RetryConnects, callers
<1>3. CASE RetryConnected BY <1>3, ConnectKeeps DEF RetryConnected, callers
<1>4. CASE Close
  <2> USE DEF ClientIInv, Close, callers, NoSession, Session
  <2>1. McpTypeOK' BY <1>4 DEF McpTypeOK
  <2>2. SessionsAccounted' BY <1>4 DEF SessionsAccounted
  <2>3. RecoveryHeld' BY <1>4 DEF McpTypeOK, RecoveryHeld
  <2>4. OwnSession' BY <1>4 DEF McpTypeOK, OwnSession
  <2> QED BY <1>4, <2>1, <2>2, <2>3, <2>4
<1>5. CASE SessionLost
  BY <1>5 DEF SessionLost, ClientIInv, McpTypeOK, SessionsAccounted, RecoveryHeld, OwnSession,
              callers, NoSession
<1> QED BY <1>1, <1>2, <1>3, <1>4, <1>5 DEF Connection, Retry

----------------------------------------------------------------------------
(* The turns.                                                              *)

Queue == {<<>>} \cup {<<x>> : x \in Call} \cup (Call \X Call)

(* The calls to make are calls of tools, and there is always one less.     *)
LEMMA QueueShrinks ==
  ASSUME NEW q \in Queue, q # <<>>
  PROVE  /\ Head(q) \in Call
         /\ Len(q) > 1 => Tail(q) \in Queue /\ Tail(q) # <<>>
<1>1. CASE q \in {<<x>> : x \in Call}
  <2>1. PICK x \in Call : q = <<x>> BY <1>1
  <2>2. Head(q) = x /\ Len(q) = 1 BY <2>1
  <2> QED BY <2>2
<1>2. CASE q \in Call \X Call
  <2>1. PICK x \in Call, y \in Call : q = <<x, y>> BY <1>2
  <2>2. Head(q) = x /\ Tail(q) = <<y>> BY <2>1
  <2> QED BY <2>2 DEF Queue
<1> QED BY <1>1, <1>2 DEF Queue

(* The fields of a run.                                                    *)
LEMMA RunTypes ==
  ASSUME NEW r \in Run
  PROVE  /\ r.provider \in 1..Providers /\ r.iteration \in 0..MaxIterations - 1
         /\ r.queue \in Queue /\ r.completed \subseteq Call /\ r.pending \in 0..2
BY DEF Run, Queue

(* A run that has not begun.                                               *)
LEMMA NoRunTyped == NoRun \in Run /\ NoRun.queue = <<>> /\ NoRun.pending = 0
BY EngineAssumption DEF NoRun, Run

(* Only the turn that moves changes.                                       *)
LEMMA OneTurnMoves ==
  ASSUME TurnsSound, NEW t \in Caller, NEW place \in PC, NEW r \in Run,
         Continue(t, place, r), \A u \in Caller \ {t} : at'[u] = at[u],
         NEW deletions \in SUBSET Deletions,
         sent' = [sent EXCEPT ![t] = deletions],
         Sound(place, r, at'[t], deletions)
  PROVE  TurnsSound'
<1>1. /\ pc' = [pc EXCEPT ![t] = place] /\ run' = [run EXCEPT ![t] = r]
      /\ pc' \in [Caller -> PC] /\ run' \in [Caller -> Run]
      /\ sent' \in [Caller -> SUBSET Deletions]
  BY DEF TurnsSound, Continue
<1>2. \A u \in Caller : Sound(pc'[u], run'[u], at'[u], sent'[u])
  <2> SUFFICES ASSUME NEW u \in Caller PROVE Sound(pc'[u], run'[u], at'[u], sent'[u])
    OBVIOUS
  <2>1. CASE u = t
    <3>1. pc'[u] = place /\ run'[u] = r /\ sent'[u] = deletions /\ at'[u] = at'[t]
      BY <1>1, <2>1 DEF TurnsSound
    <3> QED BY <3>1
  <2>2. CASE u # t
    <3>1. pc'[u] = pc[u] /\ run'[u] = run[u] /\ sent'[u] = sent[u] /\ at'[u] = at[u]
      BY <1>1, <2>2 DEF TurnsSound
    <3>2. Sound(pc[u], run[u], at[u], sent[u]) BY DEF TurnsSound
    <3> QED BY <3>1, <3>2
  <2> QED BY <2>1, <2>2
<1> QED BY <1>1, <1>2 DEF TurnsSound

(* The turn goes on outside of the client, with a list or none.            *)
Moves(t, list) ==
  \E place \in PC \ {"owner", "call"}, r \in Run :
    /\ Continue(t, place, r)
    /\ Sound(place, r, "out", sent[t])
    /\ r.pending \in {0, list}

(* respond gives up: nothing is under way any more.                        *)
LEMMA LeaveMoves ==
  ASSUME TurnsSound, NEW t \in Caller, NEW list, Leave(t)
  PROVE  Moves(t, list)
<1>1. Sound("failed", NoRun, "out", sent[t])
  BY NoRunTyped
  DEF TurnsSound, Sound, CallFresh, DeletionsKept, Asking, ToolPC
<1> QED BY <1>1, NoRunTyped DEF Moves, Leave, PC, Final

(* A deletion of the turn that is not under way has its result.            *)
Known(t, r) ==
  /\ \A s, z \in sent[t] : s.call = z.call => s.provider = z.provider
  /\ \A s \in sent[t] : s.provider <= r.provider /\ s.call \in r.completed

(* Outside of the call of a deletion, every deletion has its result.       *)
LEMMA KnownOutside ==
  ASSUME TurnsSound, NEW t \in Caller, pc[t] \in Asking,
         pc[t] # "call" \/ at[t] # "first"
  PROVE  Known(t, run[t])
BY DEF TurnsSound, Sound, DeletionsKept, Deletion, AtDeletion, Known

(* The conversation goes back to the model, or the run is over.            *)
LEMMA IterateMoves ==
  ASSUME TurnsSound, NEW t \in Caller, NEW r \in Run, r.queue = <<>>, Known(t, r),
         Iterate(t, r)
  PROVE  Moves(t, r.pending)
<1>1. CASE r.iteration + 1 < MaxIterations
  <2> DEFINE n == [r EXCEPT !.iteration = @ + 1]
  <2>1. /\ n \in Run /\ n.queue = <<>> /\ n.pending = r.pending
        /\ n.completed = r.completed /\ n.provider = r.provider
    BY <1>1, EngineAssumption DEF Run
  <2>2. Continue(t, "model", n) BY <1>1 DEF Iterate
  <2> HIDE DEF n
  <2>3. Sound("model", n, "out", sent[t])
    BY <2>1 DEF Sound, CallFresh, DeletionsKept, Deletion, Known, ToolPC
  <2> QED BY <2>1, <2>2, <2>3 DEF Moves, PC
<1>2. CASE ~(r.iteration + 1 < MaxIterations)
  BY <1>2, LeaveMoves DEF Iterate
<1> QED BY <1>1, <1>2

(* The next tool is called, or the model is asked again.                   *)
LEMMA NextCallMoves ==
  ASSUME TurnsSound, NEW t \in Caller, NEW r \in Run, r.queue # <<>>, Known(t, r),
         NextCall(t, r)
  PROVE  Moves(t, r.pending)
<1>1. CASE Len(r.queue) > 1
  <2> DEFINE n == [r EXCEPT !.queue = Tail(@)]
  <2>0. Tail(r.queue) \in Queue /\ Tail(r.queue) # <<>>
    BY <1>1, RunTypes, QueueShrinks
  <2>1. /\ n \in Run /\ n.queue # <<>> /\ n.pending = r.pending
        /\ n.completed = r.completed /\ n.provider = r.provider
    BY <2>0 DEF Run, Queue
  <2>2. Continue(t, "tool", n) BY <1>1 DEF NextCall
  <2> HIDE DEF n
  <2>3. Sound("tool", n, "out", sent[t])
    BY <2>1 DEF Sound, CallFresh, DeletionsKept, Deletion, Known, ToolPC
  <2> QED BY <2>1, <2>2, <2>3 DEF Moves, PC, ToolPC
<1>2. CASE ~(Len(r.queue) > 1)
  <2> DEFINE n == [r EXCEPT !.queue = <<>>]
  <2>1. /\ n \in Run /\ n.queue = <<>> /\ n.pending = r.pending
        /\ n.completed = r.completed /\ n.provider = r.provider
    BY DEF Run
  <2>2. Known(t, n) BY <2>1 DEF Known
  <2>3. Iterate(t, n) BY <1>2 DEF NextCall
  <2> HIDE DEF n
  <2>4. Moves(t, n.pending) BY <2>1, <2>2, <2>3, IterateMoves
  <2> QED BY <2>1, <2>4
<1> QED BY <1>1, <1>2

(* An error of the run outside of a deletion: the next provider, or none.  *)
LEMMA FailMoves ==
  ASSUME TurnsSound, LeftTyped, NEW t \in Caller, NEW e, Known(t, run[t]), Fail(t, e)
  PROVE  Moves(t, run[t].pending)
<1>1. CASE FallbackEligible(e) /\ run[t].provider < left.candidates
  <2> DEFINE n == [run[t] EXCEPT !.provider = @ + 1, !.iteration = 0, !.queue = <<>>]
  <2>1. run[t] \in Run /\ left.candidates \in 0..Providers
    BY DEF TurnsSound, LeftTyped
  <2>2. /\ run[t].provider \in Nat /\ run[t].provider + 1 \in 1..Providers
        /\ 0 \in 0..MaxIterations - 1
    <3>1. run[t].provider \in 1..Providers BY <2>1, RunTypes
    <3> QED BY <1>1, <2>1, <3>1, EngineAssumption
  <2>3. /\ n \in Run /\ n.queue = <<>> /\ n.pending = run[t].pending
        /\ n.completed = run[t].completed /\ n.provider = run[t].provider + 1
        /\ run[t].provider \in Nat
    BY <2>1, <2>2 DEF Run
  <2>4. Continue(t, "model", n) BY <1>1 DEF Fail
  <2> HIDE DEF n
  <2>5. \A s \in sent[t] : s.provider <= n.provider
    <3>1. \A s \in sent[t] : s.provider \in Nat /\ s.provider <= run[t].provider
      BY DEF TurnsSound, Known, Deletions
    <3> QED BY <2>3, <3>1
  <2>6. Sound("model", n, "out", sent[t])
    BY <2>3, <2>5 DEF Sound, CallFresh, DeletionsKept, Deletion, Known, ToolPC
  <2> QED BY <2>3, <2>4, <2>6 DEF Moves, PC
<1>2. CASE ~(FallbackEligible(e) /\ run[t].provider < left.candidates)
  <2>1. Leave(t) BY <1>2 DEF Fail
  <2> QED BY <2>1, LeaveMoves
<1> QED BY <1>1, <1>2

(* The turn is outside of the client and stays there.                      *)
LEMMA Moved ==
  ASSUME TurnsSound, NEW t \in Caller, NEW list, Moves(t, list),
         at'[t] = "out", \A u \in Caller \ {t} : at'[u] = at[u], UNCHANGED sent
  PROVE  TurnsSound'
<1>1. PICK place \in PC \ {"owner", "call"}, r \in Run :
        Continue(t, place, r) /\ Sound(place, r, "out", sent[t])
  BY DEF Moves
<1>2. /\ sent[t] \in SUBSET Deletions
      /\ sent' = [sent EXCEPT ![t] = sent[t]]
  BY DEF TurnsSound
<1>3. Sound(place, r, at'[t], sent[t]) BY <1>1
<1>4. place \in PC OBVIOUS
<1> QED BY <1>1, <1>2, <1>3, <1>4, OneTurnMoves

(* A turn is inside the client only while it makes a call.                 *)
LEMMA Outside ==
  ASSUME TurnsSound, NEW t \in Caller
  PROVE  /\ run[t] \in Run /\ pc[t] \in PC
         /\ pc[t] \notin {"owner", "call"} => at[t] = "out"
         /\ pc[t] \in ToolPC <=> run[t].queue # <<>>
BY DEF TurnsSound, Sound

(* A turn goes from one place that is not a tool's to another.             *)
LEMMA GotoMoves ==
  ASSUME TurnsSound, NEW t \in Caller, NEW place \in PC \ ToolPC, pc[t] \notin ToolPC,
         place \in Asking => pc[t] \in Asking, Goto(t, place)
  PROVE  Moves(t, run[t].pending)
<1>1. run[t] \in Run /\ run[t].queue = <<>> BY Outside
<1>2. Sound(place, run[t], "out", sent[t])
  <2>1. CASE place \in Asking
    <3>1. Known(t, run[t]) BY <2>1, KnownOutside DEF ToolPC
    <3> QED BY <1>1, <3>1 DEF Sound, CallFresh, DeletionsKept, Deletion, Known, ToolPC
  <2>2. CASE place \notin Asking
    BY <1>1, <2>2 DEF TurnsSound, Sound, CallFresh, DeletionsKept, ToolPC
  <2> QED BY <2>1, <2>2
<1> QED BY <1>1, <1>2 DEF Moves, Goto, ToolPC

(* What the model answers.                                                 *)
LEMMA AskModelMoves ==
  ASSUME TurnsSound, LeftTyped, NEW t \in Caller, AskModel(t)
  PROVE  Moves(t, run[t].pending)
<1>1. /\ pc[t] = "model" /\ run[t] \in Run /\ run[t].queue = <<>>
      /\ Known(t, run[t])
  BY Outside, KnownOutside DEF AskModel, ToolPC, Asking
<1>2. CASE Asks(t)
  <2>1. PICK xs \in {<<x>> : x \in left.tools} \cup (left.tools \X left.tools) :
          Continue(t, "tool", [run[t] EXCEPT !.queue = xs])
    BY <1>2 DEF Asks
  <2>2. xs \in Queue /\ xs # <<>>
    <3>1. left.tools \subseteq Call BY DEF LeftTyped
    <3> QED BY <3>1 DEF Queue
  <2> DEFINE n == [run[t] EXCEPT !.queue = xs]
  <2>3. /\ n \in Run /\ n.queue # <<>> /\ n.pending = run[t].pending
        /\ n.completed = run[t].completed /\ n.provider = run[t].provider
    BY <1>1, <2>2 DEF Run, Queue
  <2>4. Continue(t, "tool", n) BY <2>1
  <2> HIDE DEF n
  <2>5. Sound("tool", n, "out", sent[t])
    BY <1>1, <2>3 DEF Sound, CallFresh, DeletionsKept, Deletion, Known, ToolPC
  <2> QED BY <2>3, <2>4, <2>5 DEF Moves, PC, ToolPC
<1>3. CASE Promises(t) BY <1>1, <1>3, IterateMoves DEF Promises
<1>4. CASE Replies(t)
  <2> DEFINE n == [NoRun EXCEPT !.pending = run[t].pending]
  <2>1. n \in Run /\ n.queue = <<>> /\ n.pending = run[t].pending
    BY <1>1, NoRunTyped DEF Run, NoRun
  <2>2. Continue(t, "user load", n) BY <1>4 DEF Replies
  <2> HIDE DEF n
  <2>3. Sound("user load", n, "out", sent[t])
    BY <2>1 DEF TurnsSound, Sound, CallFresh, DeletionsKept, Asking, ToolPC
  <2> QED BY <2>1, <2>2, <2>3 DEF Moves, PC, Writing
<1>5. CASE Refuses(t)
  <2>1. PICK e : Fail(t, e) BY <1>5 DEF Refuses
  <2> QED BY <1>1, <2>1, FailMoves
<1> QED BY <1>2, <1>3, <1>4, <1>5 DEF AskModel

(* A call is made once no earlier provider has its result.                 *)
LEMMA ToCallSound ==
  ASSUME TurnsSound, NEW t \in Caller, pc[t] = "tool",
         ~Replayed(t, Head(run[t].queue)), ToCall(t), UNCHANGED <<at, sent>>
  PROVE  /\ TurnsSound'
         /\ \A u \in Caller : run'[u].pending \in {0, run[u].pending}
<1> DEFINE n == [run[t] EXCEPT !.pending = 0]
           place == IF Head(run[t].queue)[1] \in Identified THEN "owner" ELSE "call"
<1>1. /\ run[t] \in Run /\ run[t].queue # <<>> /\ at[t] = "out"
      /\ Known(t, run[t])
  BY Outside, KnownOutside DEF ToolPC, Asking
<1>2. /\ n \in Run /\ n.queue = run[t].queue /\ n.pending = 0
      /\ n.completed = run[t].completed /\ n.provider = run[t].provider
  BY <1>1 DEF Run
<1>3. Continue(t, place, n) /\ place \in {"owner", "call"} BY DEF ToCall
<1> HIDE DEF n, place
<1>4. Sound(place, n, "out", sent[t])
  BY <1>1, <1>2, <1>3 DEF Sound, CallFresh, DeletionsKept, Deletion, Known, ToolPC, Replayed
<1>5. TurnsSound'
  <2>1. /\ sent[t] \in SUBSET Deletions
        /\ sent' = [sent EXCEPT ![t] = sent[t]]
    BY DEF TurnsSound
  <2>2. place \in PC BY <1>3 DEF PC, ToolPC
  <2>3. Sound(place, n, at'[t], sent[t]) BY <1>1, <1>4
  <2>4. \A u \in Caller \ {t} : at'[u] = at[u] OBVIOUS
  <2> QED BY <1>2, <1>3, <2>1, <2>2, <2>3, <2>4, OneTurnMoves
<1>6. \A u \in Caller : run'[u].pending \in {0, run[u].pending}
  BY <1>2, <1>3 DEF Continue, TurnsSound
<1> QED BY <1>5, <1>6

(* A call has a result, which a deletion that was sent is kept with.       *)
LEMMA ToolReturnedMoves ==
  ASSUME TurnsSound, NEW t \in Caller, pc[t] \in {"owner", "call"},
         NEW list \in 0..2, ToolReturned(t, list)
  PROVE  Moves(t, list)
<1> DEFINE n == [run[t] EXCEPT !.completed = @ \cup {Head(run[t].queue)}, !.pending = list]
<1>1. run[t] \in Run /\ run[t].queue # <<>> BY Outside DEF ToolPC
<1>2. Head(run[t].queue) \in Call BY <1>1, RunTypes, QueueShrinks
<1>3. /\ n \in Run /\ n.queue = run[t].queue /\ n.pending = list
      /\ n.completed = run[t].completed \cup {Head(run[t].queue)}
      /\ n.provider = run[t].provider
  BY <1>1, <1>2 DEF Run
<1>4. NextCall(t, n) BY DEF ToolReturned
<1> HIDE DEF n
<1>5. Known(t, n)
  <2>1. CASE Deletion(pc[t], run[t], at[t])
    BY <1>3, <2>1 DEF TurnsSound, Sound, DeletionsKept, Deletion, Known, Asking, ToolPC
  <2>2. CASE ~Deletion(pc[t], run[t], at[t])
    BY <1>3, <2>2 DEF TurnsSound, Sound, DeletionsKept, Known, Asking, ToolPC
  <2> QED BY <2>1, <2>2
<1>6. Moves(t, n.pending) BY <1>1, <1>3, <1>4, <1>5, NextCallMoves
<1> QED BY <1>3, <1>6

(* A call is still under way: a deletion on its first session only.        *)
LEMMA CallGoes ==
  ASSUME ClientIInv, TurnsSound, NEW t \in Caller, pc[t] \in {"owner", "call"},
         NEW delete \in BOOLEAN, delete <=> AtDeletion(pc[t], run[t]),
         UseClient(t, delete, "going"), UNCHANGED local,
         sent' = IF delete /\ at'[t] \in {"first", "second"}
                 THEN [sent EXCEPT ![t] = @ \cup {[call |-> Head(run[t].queue),
                                                   provider |-> run[t].provider,
                                                   place |-> at'[t]]}]
                 ELSE sent
  PROVE  TurnsSound'
<1>1. /\ \A u \in Caller \ {t} : at'[u] = at[u]
      /\ at'[t] # "out"
      /\ at'[t] = "second" => at[t] = "again"
      /\ at'[t] = "again" => at[t] \in {"recover", "connect"}
      /\ at'[t] = "connect" => at[t] = "recover"
      /\ at'[t] = "recover" => at[t] = "first" /\ ~delete
      /\ at'[t] = "first" => at[t] = "out"
  BY UseClientKeeps DEF Outcome
<1>2. /\ pc[t] \in PC /\ run[t] \in Run /\ Sound(pc[t], run[t], at[t], sent[t])
      /\ sent[t] \in SUBSET Deletions
      /\ Continue(t, pc[t], run[t])
  BY DEF TurnsSound, Continue, local
<1>3. CASE ~delete
  <2>1. Sound(pc[t], run[t], at'[t], sent[t])
    BY <1>2, <1>3 DEF Sound, CallFresh, DeletionsKept, Deletion, Asking, ToolPC
  <2>2. sent' = [sent EXCEPT ![t] = sent[t]] BY <1>3 DEF TurnsSound
  <2> QED BY <1>1, <1>2, <2>1, <2>2, OneTurnMoves
<1>4. CASE delete
  <2> DEFINE x == Head(run[t].queue)
             d == [call |-> x, provider |-> run[t].provider, place |-> "first"]
  <2>1. at[t] \in {"out", "first"}
    BY <1>2, <1>4 DEF Sound, CallFresh
  <2>2. at'[t] = "first" /\ at[t] = "out"
    <3>1. at'[t] \in {"out", "first", "recover", "connect", "again", "second"}
      <4>1. ClientIInv' BY UseClientKeeps DEF Outcome
      <4> QED BY <4>1 DEF ClientIInv, McpTypeOK
    <3> QED BY <1>1, <1>4, <2>1, <3>1
  <2>3. /\ run[t].provider \in 1..Providers /\ run[t].provider \in Nat
        /\ x \in Call
    <3>1. run[t].provider \in 1..Providers BY <1>2, RunTypes
    <3>2. run[t].queue \in Queue /\ run[t].queue # <<>>
      BY <1>2, RunTypes DEF Sound, ToolPC
    <3> QED BY <3>1, <3>2, QueueShrinks
  <2>4. Known(t, run[t])
    BY <1>2, <2>2, KnownOutside DEF Asking, ToolPC, Deletion
  <2>5. ASSUME NEW s \in sent[t], s.call = x PROVE s.provider = run[t].provider
    <3>1. ~(run[t].provider > 1)
      BY <1>2, <2>4, <2>5 DEF Sound, CallFresh, Known
    <3>2. s.provider \in 1..Providers /\ s.provider <= run[t].provider
      BY <1>2, <2>4 DEF Known, Deletions
    <3> QED BY <2>3, <3>1, <3>2
  <2>6. sent' = [sent EXCEPT ![t] = sent[t] \cup {d}]
    BY <1>4, <2>2 DEF TurnsSound
  <2>7. sent[t] \cup {d} \in SUBSET Deletions BY <1>2, <2>3 DEF Deletions
  <2>8. Sound(pc[t], run[t], at'[t], sent[t] \cup {d})
    <3>1. CallFresh(pc[t], run[t], at'[t]) BY <1>2, <2>2 DEF Sound, CallFresh
    <3>2. d.call = x /\ d.provider = run[t].provider OBVIOUS
    <3> HIDE DEF d
    <3>3. DeletionsKept(pc[t], run[t], at'[t], sent[t] \cup {d})
      <4>1. ASSUME NEW s \in sent[t] \cup {d}, NEW z \in sent[t] \cup {d}, s.call = z.call
            PROVE  s.provider = z.provider
        BY <2>4, <2>5, <3>2, <4>1 DEF Known
      <4>2. ASSUME NEW s \in sent[t] \cup {d}
            PROVE  /\ s.provider <= run[t].provider
                   /\ s.call \in run[t].completed \/ s.call = x
                   /\ s.call = x => s.provider = run[t].provider
        BY <2>3, <2>4, <2>5, <3>2 DEF Known
      <4>3. Deletion(pc[t], run[t], at'[t]) BY <1>4, <2>2 DEF Deletion
      <4> QED BY <4>1, <4>2, <4>3 DEF DeletionsKept
    <3> QED BY <1>2, <3>1, <3>3 DEF Sound
  <2> HIDE DEF d
  <2> QED BY <1>1, <1>2, <2>6, <2>7, <2>8, OneTurnMoves
<1> QED BY <1>3, <1>4

(* The owner is the user himself: the call follows.                        *)
LEMMA OwnerMoves ==
  ASSUME TurnsSound, NEW t \in Caller, pc[t] = "owner", Goto(t, "call"),
         at'[t] = "out", \A u \in Caller \ {t} : at'[u] = at[u], UNCHANGED sent
  PROVE  TurnsSound'
<1>1. /\ run[t] \in Run /\ Sound("owner", run[t], at[t], sent[t])
      /\ sent[t] \in SUBSET Deletions
      /\ sent' = [sent EXCEPT ![t] = sent[t]]
      /\ "call" \in PC
  BY DEF TurnsSound, PC, ToolPC
<1>2. Sound("call", run[t], "out", sent[t])
  BY <1>1 DEF Sound, CallFresh, DeletionsKept, Deletion, AtDeletion, Asking, ToolPC
<1>3. Sound("call", run[t], at'[t], sent[t]) BY <1>2
<1> QED BY <1>1, <1>3, OneTurnMoves DEF Goto

----------------------------------------------------------------------------
(* The lists of devices.                                                   *)

ListsInv == ListsDropped /\ SnapshotFresh

(* Nothing is deleted, a list that shows the device is new only while it   *)
(* is there, and what is stored is what was stored, or nothing.            *)
LEMMA ListsKept ==
  ASSUME ListsInv, UNCHANGED device, crossed => crossed',
         \A u \in Caller : run'[u].pending = 1 => run[u].pending = 1 \/ device,
         \A u \in Caller : Deleting(u)' => Deleting(u),
         memSnapshot' \in {memSnapshot, dbSnapshot, 0}, dbSnapshot' \in {dbSnapshot, 0}
  PROVE  ListsInv'
BY DEF ListsInv, ListsDropped, SnapshotFresh

(* The stored lists are dropped before a tool that reads or deletes.       *)
LEMMA ListsReset ==
  ASSUME ListsInv, UNCHANGED <<device, crossed>>, memSnapshot' = 0, dbSnapshot' = 0,
         \A u \in Caller : run'[u].pending = 1 => run[u].pending = 1
  PROVE  ListsInv'
BY DEF ListsInv, ListsDropped, SnapshotFresh

(* A deletion: the turn itself keeps no list.                              *)
LEMMA DeletionLists ==
  ASSUME ListsInv, TurnsSound, NEW t \in Caller, Deleting(t), NEW o, Deletes(t, o),
         \A u \in Caller : run'[u].pending = 1 => run[u].pending = 1,
         \A u \in Caller : Deleting(u)' => Deleting(u),
         UNCHANGED <<memSnapshot, dbSnapshot>>
  PROVE  ListsInv'
<1>1. crossed => crossed' BY DEF Deletes
<1>2. CASE device' = device BY <1>1, <1>2, ListsKept
<1>3. CASE device' # device
  <2> SUFFICES ASSUME ~crossed' PROVE ListsInv'
    BY DEF ListsInv, ListsDropped, SnapshotFresh
  <2>1. \A u \in Caller \ {t} : run[u].pending = 0
    BY <1>3 DEF Deletes, Showing
  <2>2. run[t].pending = 0 BY DEF TurnsSound, Sound, CallFresh, Deleting
  <2>3. memSnapshot # 1 /\ dbSnapshot # 1
    BY <1>1 DEF ListsInv, ListsDropped
  <2> QED BY <2>1, <2>2, <2>3 DEF ListsInv, ListsDropped, SnapshotFresh
<1> QED BY <1>2, <1>3

(* The list a turn has is stored at its end.                               *)
LEMMA SaveLists ==
  ASSUME ListsInv, TurnsSound, NEW t \in Caller, NEW ok \in BOOLEAN,
         pc[t] = "save", run[t].pending # 0, SetDeviceSnapshot(run[t].pending, ok),
         UNCHANGED device, crossed' = (crossed \/ \E u \in Caller \ {t} : Deleting(u)),
         \A u \in Caller : run'[u].pending = 1 => run[u].pending = 1,
         \A u \in Caller : Deleting(u)' => Deleting(u)
  PROVE  ListsInv'
<1> SUFFICES ASSUME ~crossed' PROVE ListsInv'
  BY DEF ListsInv, ListsDropped, SnapshotFresh
<1>1. ~crossed /\ \A u \in Caller : ~Deleting(u) BY DEF Deleting
<1>2. CASE device BY <1>1, <1>2 DEF ListsInv, ListsDropped, SnapshotFresh
<1>3. CASE ~device
  <2>1. run[t].pending # 1 /\ memSnapshot # 1 /\ dbSnapshot # 1
    BY <1>1, <1>3 DEF ListsInv, ListsDropped, SnapshotFresh
  <2>2. memSnapshot' # 1 /\ dbSnapshot' # 1 BY <2>1 DEF SetDeviceSnapshot
  <2> QED BY <1>1, <1>3, <2>2 DEF ListsInv, ListsDropped, SnapshotFresh
<1> QED BY <1>2, <1>3

(* A turn that moves gets the list it is given, and deletes nothing.       *)
LEMMA MovesLists ==
  ASSUME TurnsSound, NEW t \in Caller, NEW list, Moves(t, list)
  PROVE  /\ \A u \in Caller \ {t} : run'[u] = run[u] /\ pc'[u] = pc[u]
         /\ run'[t].pending \in {0, list}
         /\ \A u \in Caller : Deleting(u)' => Deleting(u)
<1>1. PICK place \in PC \ {"owner", "call"}, r \in Run :
        Continue(t, place, r) /\ r.pending \in {0, list}
  BY DEF Moves
<1>2. /\ \A u \in Caller \ {t} : run'[u] = run[u] /\ pc'[u] = pc[u]
      /\ run'[t].pending \in {0, list}
      /\ pc'[t] \notin {"owner", "call"}
  BY <1>1 DEF Continue, TurnsSound
<1>3. \A u \in Caller : Deleting(u)' => Deleting(u)
  BY <1>2 DEF Deleting
<1> QED BY <1>2, <1>3

----------------------------------------------------------------------------
(* The steps of a turn.                                                    *)

TurnInv == ClientIInv /\ LeftTyped /\ TurnsSound /\ ListsInv

(* A step that moves the turn and leaves devices alone.                    *)
LEMMA MovesKeep ==
  ASSUME TurnInv, NEW t \in Caller, NEW list, Moves(t, list),
         list = 1 => run[t].pending = 1 \/ device,
         at'[t] = "out", \A u \in Caller \ {t} : at'[u] = at[u],
         UNCHANGED <<sent, device>>, crossed => crossed',
         memSnapshot' \in {memSnapshot, dbSnapshot, 0}, dbSnapshot' \in {dbSnapshot, 0},
         ClientIInv', LeftTyped'
  PROVE  TurnInv'
<1>1. TurnsSound' BY Moved DEF TurnInv
<1>2. /\ \A u \in Caller \ {t} : run'[u] = run[u]
      /\ run'[t].pending \in {0, list}
      /\ \A u \in Caller : Deleting(u)' => Deleting(u)
  BY MovesLists DEF TurnInv
<1>3. \A u \in Caller : run'[u].pending = 1 => run[u].pending = 1 \/ device
  BY <1>2
<1>4. ListsInv' BY <1>2, <1>3, ListsKept DEF TurnInv
<1> QED BY <1>1, <1>4 DEF TurnInv

(* A budget that is spent stays a number.                                  *)
LEMMA SpendTyped ==
  ASSUME LeftTyped, NEW budget \in {"calls", "clears", "faults"}, Spend(budget)
  PROVE  LeftTyped'
<1>1. left' = [left EXCEPT ![budget] = left[budget] - 1] /\ left[budget] > 0 BY DEF Spend
<1>2. left[budget] \in Nat BY DEF LeftTyped
<1>3. left[budget] - 1 \in Nat BY <1>1, <1>2
<1> QED BY <1>1, <1>3 DEF LeftTyped

(* A database call, whether it fails or not.                               *)
LEMMA DatabaseTyped == ASSUME LeftTyped, NEW ok \in BOOLEAN, Database(ok) PROVE LeftTyped'
<1>1. CASE ok BY <1>1 DEF Database, LeftTyped
<1>2. CASE ~ok BY <1>2, SpendTyped DEF Database
<1> QED BY <1>1, <1>2

(* What the model answers, and the calls it has left.                      *)
LEMMA AskModelTyped == ASSUME LeftTyped, NEW t \in Caller, AskModel(t) PROVE LeftTyped'
<1>1. CASE Asks(t)
  <2>1. PICK xs \in {<<x>> : x \in left.tools} \cup (left.tools \X left.tools) :
          left.calls >= Len(xs) /\ left' = [left EXCEPT !.calls = @ - Len(xs)]
    BY <1>1 DEF Asks
  <2>2. Len(xs) \in {1, 2}
    <3>1. CASE xs \in {<<x>> : x \in left.tools}
      <4>1. PICK x \in left.tools : xs = <<x>> BY <3>1
      <4> QED BY <4>1
    <3>2. CASE xs \in left.tools \X left.tools
      <4>1. PICK x \in left.tools, y \in left.tools : xs = <<x, y>> BY <3>2
      <4> QED BY <4>1
    <3> QED BY <2>1, <3>1, <3>2
  <2>3. left.calls \in Nat /\ left.calls - Len(xs) \in Nat
    BY <2>1, <2>2 DEF LeftTyped
  <2> QED BY <2>1, <2>3 DEF LeftTyped
<1>2. CASE Promises(t) \/ Replies(t) \/ Refuses(t)
  BY <1>2 DEF Promises, Replies, Refuses, LeftTyped
<1> QED BY <1>1, <1>2 DEF AskModel

(* Everything of respond and run but the calls of the tools.               *)
LEMMA QuietSteps ==
  ASSUME TurnInv, NEW t \in Caller,
         \/ Unsupported(t) \/ Begin(t) \/ LoadSnapshot(t) \/ AskModel(t) \/ Reuse(t)
         \/ AppendLoad(t) \/ AppendMemory(t) \/ AppendRow(t)
  PROVE  TurnInv'
<1>1. /\ pc[t] \in PC \ (Final \cup {"owner", "call", "save"})
      /\ UNCHANGED <<mcpVars, device, sent, crossed>>
  BY DEF Unsupported, Begin, LoadSnapshot, AskModel, Reuse, AppendLoad, AppendMemory,
         AppendRow, Load, PC, ToolPC, Writing, Final, world
<1>2. ClientIInv' /\ at[t] = "out" /\ UNCHANGED at
  BY <1>1, ClientUnchanged, Outside DEF TurnInv, mcpVars, callers
<1>3. /\ memSnapshot' \in {memSnapshot, dbSnapshot, 0} /\ dbSnapshot' \in {dbSnapshot, 0}
  BY DEF Unsupported, Begin, LoadSnapshot, AskModel, Reuse, AppendLoad, AppendMemory,
         AppendRow, Load, historyVars, memory, GetHistory, GetDeviceSnapshot, AppendCache,
         InsertRow
<1>4. LeftTyped'
  <2>1. CASE UNCHANGED left BY <2>1 DEF TurnInv, LeftTyped
  <2>2. CASE \E ok \in BOOLEAN : Database(ok) BY <2>2, DatabaseTyped DEF TurnInv
  <2>3. CASE AskModel(t) BY <2>3, AskModelTyped DEF TurnInv
  <2> QED BY <2>1, <2>2, <2>3
    DEF Unsupported, Begin, LoadSnapshot, Reuse, AppendLoad, AppendMemory, AppendRow, Load
<1>5. Moves(t, run[t].pending)
  <2>1. CASE Leave(t) BY <2>1, LeaveMoves DEF TurnInv
  <2>2. CASE AskModel(t) BY <2>2, AskModelMoves DEF TurnInv
  <2>3. CASE Reuse(t)
    <3>1. Known(t, run[t]) /\ run[t] \in Run /\ run[t].queue # <<>>
      BY <2>3, KnownOutside, Outside DEF TurnInv, Reuse, Asking, ToolPC
    <3> QED BY <2>3, <3>1, NextCallMoves DEF TurnInv, Reuse
  <2>4. CASE Begin(t) \/ (LoadSnapshot(t) /\ ~Leave(t))
    <3>1. /\ pc[t] \in {"start", "snapshot"}
          /\ Goto(t, "snapshot") \/ Goto(t, "model")
      BY <2>4 DEF Begin, LoadSnapshot
    <3>2. {"snapshot", "model"} \subseteq PC \ ToolPC BY DEF PC, ToolPC
    <3> QED BY <3>1, <3>2, GotoMoves DEF TurnInv, Asking, ToolPC
  <2>5. CASE AppendLoad(t) \/ AppendMemory(t) \/ AppendRow(t)
    <3>1. /\ pc[t] \in Writing
          /\ \E place \in (Writing \cup {"save"}) : Goto(t, place)
      BY <2>5 DEF AppendLoad, AppendMemory, AppendRow, Writing
    <3>2. /\ Writing \cup {"save"} \subseteq PC \ ToolPC
          /\ (Writing \cup {"save"}) \cap Asking = {}
          /\ pc[t] \notin ToolPC
      BY <3>1 DEF PC, ToolPC, Writing, Asking
    <3> QED BY <3>1, <3>2, GotoMoves DEF TurnInv
  <2> QED BY <2>1, <2>2, <2>3, <2>4, <2>5 DEF Unsupported
<1> QED BY <1>1, <1>2, <1>3, <1>4, <1>5, MovesKeep

(* The snapshot is dropped and the call made, or the run ends.             *)
LEMMA InvalidateStep ==
  ASSUME TurnInv, NEW t \in Caller, Invalidate(t) PROVE TurnInv'
<1>1. PICK ok \in BOOLEAN :
        /\ SetDeviceSnapshot(0, ok) /\ Database(ok)
        /\ \/ ok /\ ToCall(t)
           \/ ~ok /\ (\E cause \in {"none", "transport"} :
                        Fail(t, ModelError(FALSE, FALSE, cause)))
  BY DEF Invalidate
<1>2. /\ pc[t] = "tool" /\ ~Replayed(t, Head(run[t].queue))
      /\ UNCHANGED <<mcpVars, device, sent, crossed>>
  BY DEF Invalidate, world
<1>3. ClientIInv' /\ LeftTyped' /\ at[t] = "out" /\ UNCHANGED at
  BY <1>1, <1>2, ClientUnchanged, DatabaseTyped, Outside DEF TurnInv, mcpVars, callers
<1>4. CASE ok
  <2>1. /\ TurnsSound'
        /\ \A u \in Caller : run'[u].pending \in {0, run[u].pending}
    BY <1>1, <1>2, <1>3, <1>4, ToCallSound DEF TurnInv
  <2>2. memSnapshot' = 0 /\ dbSnapshot' = 0 BY <1>1, <1>4 DEF SetDeviceSnapshot
  <2>3. \A u \in Caller : run'[u].pending = 1 => run[u].pending = 1 BY <2>1
  <2>4. ListsInv' BY <1>2, <2>2, <2>3, ListsReset DEF TurnInv
  <2> QED BY <1>3, <2>1, <2>4 DEF TurnInv
<1>5. CASE ~ok
  <2>1. PICK e : Fail(t, e) BY <1>1, <1>5
  <2>2. Known(t, run[t]) BY <1>2, KnownOutside DEF TurnInv, Asking, ToolPC
  <2>3. Moves(t, run[t].pending) BY <2>1, <2>2, FailMoves DEF TurnInv
  <2>4. memSnapshot' = 0 /\ dbSnapshot' = dbSnapshot BY <1>1, <1>5 DEF SetDeviceSnapshot
  <2> QED BY <1>2, <1>3, <2>3, <2>4, MovesKeep
<1> QED BY <1>4, <1>5

(* Whose service it is, is asked before the call.                          *)
LEMMA OwnershipStep ==
  ASSUME TurnInv, NEW t \in Caller, CheckOwnership(t) PROVE TurnInv'
<1>1. PICK o \in Outcome :
        /\ UseClient(t, FALSE, o)
        /\ \/ o = "going" /\ UNCHANGED local
           \/ o = "result" /\ Goto(t, "call")
           \/ o # "going" /\ ToolReturned(t, 0)
  BY DEF CheckOwnership
<1>2. /\ pc[t] = "owner"
      /\ UNCHANGED <<memSnapshot, dbSnapshot, device, sent, crossed, left>>
  BY DEF CheckOwnership, world, historyVars, memory
<1>3. /\ ClientIInv' /\ LeftTyped' /\ \A u \in Caller \ {t} : at'[u] = at[u]
      /\ o = "going" <=> at'[t] # "out"
  BY <1>1, <1>2, UseClientKeeps DEF TurnInv, LeftTyped
<1>4. CASE o = "going"
  <2>0. UNCHANGED local /\ UseClient(t, FALSE, "going") BY <1>1, <1>4 
  <2>1. TurnsSound'
    <3>1. FALSE <=> AtDeletion(pc[t], run[t]) BY <1>2 DEF AtDeletion
    <3> QED BY <1>2, <2>0, <3>1, CallGoes DEF TurnInv
  <2>2. /\ \A u \in Caller : run'[u].pending = 1 => run[u].pending = 1 \/ device
        /\ \A u \in Caller : Deleting(u)' => Deleting(u)
    BY <2>0 DEF local, Deleting
  <2>3. ListsInv' BY <1>2, <2>2, ListsKept DEF TurnInv
  <2> QED BY <1>3, <2>1, <2>3 DEF TurnInv
<1>5. CASE o = "result" /\ Goto(t, "call")
  <2>1. TurnsSound' BY <1>2, <1>3, <1>5, OwnerMoves DEF TurnInv
  <2>2. \A u \in Caller : run'[u] = run[u] /\ (pc'[u] = pc[u] \/ u = t)
    BY <1>5 DEF Goto, Continue, TurnInv, TurnsSound
  <2>3. /\ \A u \in Caller : run'[u].pending = 1 => run[u].pending = 1 \/ device
        /\ \A u \in Caller : Deleting(u)' => Deleting(u)
    BY <1>2, <2>2 DEF Deleting
  <2>4. ListsInv' BY <1>2, <2>3, ListsKept DEF TurnInv
  <2> QED BY <1>3, <2>1, <2>4 DEF TurnInv
<1>6. CASE o # "going" /\ ToolReturned(t, 0)
  <2>1. Moves(t, 0) BY <1>2, <1>6, ToolReturnedMoves DEF TurnInv
  <2> QED BY <1>2, <1>3, <1>6, <2>1, MovesKeep
<1> QED BY <1>1, <1>4, <1>5, <1>6

(* The call.                                                               *)
LEMMA CallToolStep ==
  ASSUME TurnInv, NEW t \in Caller, CallTool(t) PROVE TurnInv'
<1> DEFINE x == Head(run[t].queue)[1]
<1>1. PICK o \in Outcome :
        /\ UseClient(t, x = "delete", o)
        /\ IF x = "delete" THEN Deletes(t, o) ELSE UNCHANGED world
        /\ \/ o = "going" /\ UNCHANGED local
           \/ o = "unknown" /\ Fail(t, ModelError(TRUE, FALSE, "transport"))
           \/ o = "result" /\ ToolReturned(t, IF x = "list" THEN Listed ELSE 0)
           \/ o = "error" /\ ToolReturned(t, 0)
  BY DEF CallTool
<1>2. pc[t] = "call" /\ UNCHANGED <<memSnapshot, dbSnapshot, left>>
  BY DEF CallTool, historyVars, memory
<1>3. /\ ClientIInv' /\ LeftTyped' /\ \A u \in Caller \ {t} : at'[u] = at[u]
      /\ o = "going" <=> at'[t] # "out"
  BY <1>1, <1>2, UseClientKeeps DEF TurnInv, LeftTyped
<1>4. sent' = IF x = "delete" /\ at'[t] \in {"first", "second"}
              THEN [sent EXCEPT ![t] = @ \cup {[call |-> Head(run[t].queue),
                                                provider |-> run[t].provider,
                                                place |-> at'[t]]}]
              ELSE sent
  BY <1>1 DEF Deletes, world
<1>5. CASE o = "going"
  <2>1. UNCHANGED local /\ UseClient(t, x = "delete", "going") BY <1>1, <1>5
  <2>2. TurnsSound' 
    <3>1. (x = "delete") <=> AtDeletion(pc[t], run[t]) BY <1>2 DEF AtDeletion
    <3>2. (x = "delete") \in BOOLEAN OBVIOUS
    <3> HIDE DEF x
    <3> QED BY <1>2, <1>4, <2>1, <3>1, <3>2, CallGoes DEF TurnInv
  <2>3. /\ \A u \in Caller : run'[u].pending = 1 => run[u].pending = 1
        /\ \A u \in Caller : Deleting(u)' => Deleting(u)
    BY <2>1 DEF local, Deleting
  <2>4. ListsInv'
    <3>1. CASE x = "delete"
      BY <1>1, <1>2, <2>3, <3>1, DeletionLists DEF TurnInv, Deleting
    <3>2. CASE x # "delete"
      BY <1>1, <1>2, <2>3, <3>2, ListsKept DEF TurnInv, world
    <3> QED BY <3>1, <3>2
  <2> QED BY <1>3, <2>2, <2>4 DEF TurnInv
<1>6. CASE o # "going"
  <2> DEFINE list == IF o = "result" /\ x = "list" THEN Listed ELSE 0
  <2>1. at'[t] = "out" /\ UNCHANGED sent BY <1>3, <1>4, <1>6
  <2>2. Moves(t, list)
    <3>1. CASE o = "unknown" /\ Fail(t, ModelError(TRUE, FALSE, "transport"))
      <4>1. Leave(t) BY <3>1 DEF Fail, FallbackEligible, ModelError
      <4> QED BY <4>1, LeaveMoves DEF TurnInv
    <3>2. CASE ToolReturned(t, list)
      <4>1. list \in 0..2 BY DEF Listed
      <4> HIDE DEF list
      <4> QED BY <1>2, <3>2, <4>1, ToolReturnedMoves DEF TurnInv
    <3> QED BY <1>1, <1>6, <3>1, <3>2
  <2>3. list = 1 => device /\ x # "delete" BY DEF Listed
  <2> HIDE DEF list
  <2>4. CASE x # "delete"
    <3>1. UNCHANGED <<device, crossed>> BY <1>1, <2>4 DEF world
    <3> QED BY <1>2, <1>3, <2>1, <2>2, <2>3, <3>1, MovesKeep
  <2>5. CASE x = "delete"
    <3>1. TurnsSound' BY <1>3, <2>1, <2>2, Moved DEF TurnInv
    <3>2. \A u \in Caller : run'[u].pending = 1 => run[u].pending = 1
      BY <2>2, <2>3, <2>5, MovesLists DEF TurnInv
    <3>3. \A u \in Caller : Deleting(u)' => Deleting(u) BY <2>2, MovesLists DEF TurnInv
    <3>4. ListsInv'
      BY <1>1, <1>2, <2>5, <3>2, <3>3, DeletionLists DEF TurnInv, Deleting
    <3> QED BY <1>3, <3>1, <3>4 DEF TurnInv
  <2> QED BY <2>4, <2>5
<1> QED BY <1>5, <1>6

(* The list is saved, or there is none.                                    *)
LEMMA SaveStep ==
  ASSUME TurnInv, NEW t \in Caller, SaveSnapshot(t) PROVE TurnInv'
<1>1. pc[t] = "save" /\ UNCHANGED <<mcpVars, device, sent>> BY DEF SaveSnapshot
<1>2. ClientIInv' /\ at[t] = "out" /\ UNCHANGED at
  BY <1>1, ClientUnchanged, Outside DEF TurnInv, mcpVars, callers
<1>3. CASE run[t].pending = 0
  <2>1. /\ Goto(t, "done")
        /\ UNCHANGED <<memSnapshot, dbSnapshot, crossed, left>>
    BY <1>3 DEF SaveSnapshot, historyVars, memory
  <2>2. "done" \in PC \ ToolPC /\ "done" \notin Asking /\ pc[t] \notin ToolPC
    BY <1>1 DEF PC, ToolPC, Final, Asking
  <2>3. Moves(t, run[t].pending) BY <2>1, <2>2, GotoMoves DEF TurnInv
  <2>4. LeftTyped' BY <2>1 DEF TurnInv, LeftTyped
  <2> QED BY <1>1, <1>2, <2>1, <2>3, <2>4, MovesKeep
<1>4. CASE run[t].pending # 0
  <2>1. PICK ok \in BOOLEAN :
          /\ SetDeviceSnapshot(run[t].pending, ok) /\ Database(ok)
          /\ Continue(t, IF ok THEN "done" ELSE "failed", NoRun)
    BY <1>4 DEF SaveSnapshot
  <2>2. crossed' = (crossed \/ \E u \in Caller \ {t} : Deleting(u))
    BY <1>4 DEF SaveSnapshot
  <2>3. LeftTyped' BY <2>1, DatabaseTyped DEF TurnInv
  <2>4. Moves(t, 0)
    <3>1. PICK place \in Final : Continue(t, place, NoRun)
      BY <2>1 DEF Final
    <3>2. place \in PC \ ToolPC /\ place \notin Asking BY DEF PC, ToolPC, Final, Asking
    <3>3. Sound(place, NoRun, "out", sent[t])
      BY <3>2, NoRunTyped DEF TurnInv, TurnsSound, Sound, CallFresh, DeletionsKept, ToolPC
    <3> QED BY <3>1, <3>2, <3>3, NoRunTyped DEF Moves, ToolPC
  <2>5. TurnsSound' BY <1>1, <1>2, <2>4, Moved DEF TurnInv
  <2>6. /\ \A u \in Caller : run'[u].pending = 1 => run[u].pending = 1
        /\ \A u \in Caller : Deleting(u)' => Deleting(u)
    BY <2>4, MovesLists DEF TurnInv
  <2>7. ListsInv' BY <1>1, <1>4, <2>1, <2>2, <2>6, SaveLists DEF TurnInv
  <2> QED BY <1>2, <2>3, <2>5, <2>7 DEF TurnInv
<1> QED BY <1>3, <1>4

----------------------------------------------------------------------------
(* The history.                                                            *)

HistorySized ==
  /\ Len(cache) <= MaxHistory /\ (~cached => cache = <<>>)
  /\ memSnapshot \in 0..2 /\ dbSnapshot \in 0..2

ResetInv == Forgetting /\ ResetHolds

(* A message more, the newest ones and the later ones are the old messages *)
(* and that one.                                                           *)
LEMMA AppendRange ==
  ASSUME NEW S, NEW s \in Seq(S), NEW m \in S
  PROVE  Append(s, m) \in Seq(S) /\ Range(Append(s, m)) = Range(s) \cup {m}
<1>1. /\ Append(s, m) \in Seq(S) /\ Len(Append(s, m)) = Len(s) + 1 /\ Len(s) \in Nat
      /\ \A i \in 1..Len(s) : Append(s, m)[i] = s[i]
      /\ Append(s, m)[Len(s) + 1] = m
  BY AppendProperties
<1>2. /\ DOMAIN Append(s, m) = 1..Len(s) + 1 /\ DOMAIN s = 1..Len(s)
      /\ 1..Len(s) + 1 = 1..Len(s) \cup {Len(s) + 1}
  BY <1>1, LenProperties
<1> QED BY <1>1, <1>2 DEF Range

(* The later messages are messages of the whole.                           *)
LEMMA SuffixRange ==
  ASSUME NEW S, NEW s \in Seq(S), NEW n \in 1..Len(s) + 1
  PROVE  /\ SubSeq(s, n, Len(s)) \in Seq(S) /\ Range(SubSeq(s, n, Len(s))) \subseteq Range(s)
         /\ Len(SubSeq(s, n, Len(s))) = Len(s) - n + 1
<1>0. Len(s) \in Nat /\ DOMAIN s = 1..Len(s) BY LenProperties
<1>1. /\ SubSeq(s, n, Len(s)) \in Seq(S)
      /\ Len(SubSeq(s, n, Len(s))) = IF n <= Len(s) THEN Len(s) - n + 1 ELSE 0
      /\ \A i \in 1..Len(s) - n + 1 : SubSeq(s, n, Len(s))[i] = s[n + i - 1]
  BY <1>0, SubSeqProperties
<1>2. Len(SubSeq(s, n, Len(s))) = Len(s) - n + 1 BY <1>0, <1>1
<1>3. DOMAIN SubSeq(s, n, Len(s)) = 1..Len(s) - n + 1 BY <1>1, <1>2, LenProperties
<1>4. \A i \in 1..Len(s) - n + 1 : n + i - 1 \in 1..Len(s) BY <1>0
<1> QED BY <1>0, <1>1, <1>2, <1>3, <1>4 DEF Range

(* The newest messages are old ones, MaxHistory of them at most.           *)
LEMMA NewestRange ==
  ASSUME NEW S, NEW s \in Seq(S)
  PROVE  /\ Newest(s) \in Seq(S) /\ Range(Newest(s)) \subseteq Range(s)
         /\ Len(Newest(s)) <= MaxHistory
<1>0. Len(s) \in Nat /\ MaxHistory \in Nat /\ MaxHistory # 0 BY MaxHistoryAssumption
<1>1. CASE Len(s) > MaxHistory
  <2>1. Len(s) - MaxHistory + 1 \in 1..Len(s) + 1 BY <1>0, <1>1
  <2>2. /\ Newest(s) \in Seq(S) /\ Range(Newest(s)) \subseteq Range(s)
        /\ Len(Newest(s)) = Len(s) - (Len(s) - MaxHistory + 1) + 1
    BY <1>1, <2>1, SuffixRange DEF Newest
  <2> QED BY <1>0, <2>2
<1>2. CASE ~(Len(s) > MaxHistory) BY <1>0, <1>2 DEF Newest
<1> QED BY <1>1, <1>2

(* A turn only moves itself, and never again once it has ended.            *)
LEMMA TurnMovesItself ==
  ASSUME TurnsSound, NEW t \in Caller, Turn(t)
  PROVE  pc[t] \notin Final /\ \A u \in Caller \ {t} : pc'[u] = pc[u]
<1>1. pc \in [Caller -> PC] BY DEF TurnsSound
<1>2. \A place, r : Continue(t, place, r) => \A u \in Caller \ {t} : pc'[u] = pc[u]
  BY <1>1 DEF Continue
<1>3. CASE UNCHANGED local /\ (CheckOwnership(t) \/ CallTool(t))
  BY <1>3 DEF local, CheckOwnership, CallTool, Final
<1>4. CASE Unsupported(t) \/ Begin(t) \/ LoadSnapshot(t)
  BY <1>2, <1>4 DEF Unsupported, Begin, LoadSnapshot, Goto, Leave, Final
<1>5. CASE AskModel(t)
  BY <1>2, <1>5 DEF AskModel, Asks, Promises, Replies, Refuses, Iterate, Fail, Leave, Final
<1>6. CASE Reuse(t) \/ Invalidate(t)
  BY <1>2, <1>6 DEF Reuse, Invalidate, NextCall, Iterate, ToCall, Fail, Leave, Final
<1>7. CASE (CheckOwnership(t) \/ CallTool(t)) /\ ~UNCHANGED local
  BY <1>2, <1>7 DEF CheckOwnership, CallTool, ToolReturned, NextCall, Iterate, Goto, Fail,
                    Leave, Final
<1>8. CASE AppendLoad(t) \/ AppendMemory(t) \/ AppendRow(t) \/ SaveSnapshot(t)
  BY <1>2, <1>8 DEF AppendLoad, AppendMemory, AppendRow, SaveSnapshot, Goto, Final
<1> QED BY <1>3, <1>4, <1>5, <1>6, <1>7, <1>8 DEF Turn

HistoryInv == HistoryTyped /\ HistorySized /\ ResetInv

(* The messages of a turn that is not over are not forgotten, and rows are *)
(* read while /start is between its halves only when that is noted.        *)
LEMMA ResetKept ==
  ASSUME ResetInv, NEW t \in Caller, pc[t] \notin Final,
         \A u \in Caller \ {t} : pc'[u] = pc[u],
         UNCHANGED <<forgotten, clearing>>, reloaded => reloaded',
         \/ Range(cache') \subseteq Range(cache) \cup ({t} \X {"user", "assistant"})
         \/ Range(cache') \subseteq Range(rows) /\ (clearing => reloaded'),
         Range(rows') \subseteq Range(rows) \cup ({t} \X {"user", "assistant"})
  PROVE  ResetInv'
<1>1. t \notin forgotten BY DEF ResetInv, Forgetting
<1>2. \A m \in {t} \X {"user", "assistant"} : m[1] \notin forgotten BY <1>1
<1>3. ~reloaded' => \A m \in Range(cache') : m[1] \notin forgotten
  BY <1>2 DEF ResetInv, Forgetting, ResetHolds
<1>4. ~clearing /\ ~reloaded' => \A m \in Range(rows') : m[1] \notin forgotten
  BY <1>2 DEF ResetInv, Forgetting, ResetHolds
<1>5. \A u \in Caller : u \in forgotten' => pc'[u] \in Final
  BY <1>1 DEF ResetInv, Forgetting
<1> QED BY <1>3, <1>4, <1>5 DEF ResetInv, Forgetting, ResetHolds

(* GetHistory: what memory has, or the newest rows.                        *)
LEMMA LoadHistory ==
  ASSUME HistoryTyped, HistorySized, NEW t \in Caller, NEW ok \in BOOLEAN, Load(t, ok)
  PROVE  /\ HistoryTyped' /\ HistorySized' /\ UNCHANGED rows
         /\ UNCHANGED <<forgotten, clearing>> /\ (reloaded => reloaded')
         /\ \/ Range(cache') \subseteq Range(cache)
            \/ Range(cache') \subseteq Range(rows) /\ (clearing => reloaded')
<1>1. /\ cached' = TRUE /\ UNCHANGED <<rows, memSnapshot, dbSnapshot>>
      /\ cache' = IF cached THEN cache ELSE IF ok THEN Newest(rows) ELSE <<>>
      /\ reloaded' = (reloaded \/ (clearing /\ ~cached /\ ok))
      /\ UNCHANGED <<forgotten, clearing>>
  BY DEF Load, GetHistory
<1>2. MaxHistory \in Nat /\ MaxHistory # 0 BY MaxHistoryAssumption
<1>3. CASE cached BY <1>1, <1>3 DEF HistoryTyped, HistorySized
<1>4. CASE ~cached /\ ok
  <2>1. /\ cache' \in Seq(HistoryMessage) /\ Range(cache') \subseteq Range(rows)
        /\ Len(cache') <= MaxHistory
    BY <1>1, <1>4, NewestRange DEF HistoryTyped
  <2> QED BY <1>1, <1>4, <2>1 DEF HistoryTyped, HistorySized
<1>5. CASE ~cached /\ ~ok BY <1>1, <1>2, <1>5 DEF HistoryTyped, HistorySized
<1> QED BY <1>3, <1>4, <1>5

(* A step of a turn keeps the history typed, bounded and reset.            *)
LEMMA TurnHistory ==
  ASSUME TurnInv, HistoryInv, NEW t \in Caller, Turn(t) PROVE HistoryInv'
<1> DEFINE own == {t} \X {"user", "assistant"}
<1>1. /\ TurnsSound /\ pc[t] \notin Final /\ \A u \in Caller \ {t} : pc'[u] = pc[u]
      /\ run[t].pending \in 0..2
  BY TurnMovesItself, Outside, RunTypes DEF TurnInv
<1>2. own \subseteq HistoryMessage BY DEF HistoryMessage
<1>3. CASE Begin(t) \/ AppendLoad(t)
  <2>1. PICK ok \in BOOLEAN : Load(t, ok) BY <1>3 DEF Begin, AppendLoad
  <2>2. /\ HistoryTyped' /\ HistorySized' /\ UNCHANGED rows
        /\ UNCHANGED <<forgotten, clearing>> /\ (reloaded => reloaded')
        /\ \/ Range(cache') \subseteq Range(cache)
           \/ Range(cache') \subseteq Range(rows) /\ (clearing => reloaded')
    BY <2>1, LoadHistory DEF HistoryInv
  <2>3. ResetInv' BY <1>1, <2>2, ResetKept DEF HistoryInv
  <2> QED BY <2>2, <2>3 DEF HistoryInv
<1>4. CASE AppendMemory(t)
  <2>1. /\ cached' = TRUE /\ cache' = Newest(Append(cache, <<t, Role(t)>>))
        /\ UNCHANGED <<rows, memSnapshot, dbSnapshot, forgotten, clearing, reloaded>>
    BY <1>4 DEF AppendMemory, AppendCache
  <2>2. <<t, Role(t)>> \in own BY DEF Role
  <2> DEFINE longer == Append(cache, <<t, Role(t)>>)
  <2>3. /\ longer \in Seq(HistoryMessage)
        /\ Range(longer) = Range(cache) \cup {<<t, Role(t)>>}
    BY <1>2, <2>2, AppendRange DEF HistoryInv, HistoryTyped
  <2> HIDE DEF longer
  <2>4. /\ Newest(longer) \in Seq(HistoryMessage) /\ Range(Newest(longer)) \subseteq Range(longer)
        /\ Len(Newest(longer)) <= MaxHistory
    BY <2>3, NewestRange
  <2>5. cache' = Newest(longer) BY <2>1 DEF longer
  <2>6. HistoryTyped' /\ HistorySized'
    BY <2>1, <2>4, <2>5 DEF HistoryInv, HistoryTyped, HistorySized
  <2>7. Range(cache') \subseteq Range(cache) \cup own BY <2>2, <2>3, <2>4, <2>5
  <2>8. ResetInv' BY <1>1, <2>1, <2>7, ResetKept DEF HistoryInv
  <2> QED BY <2>6, <2>8 DEF HistoryInv
<1>5. CASE AppendRow(t)
  <2>1. /\ rows' = Append(rows, <<t, Role(t)>>) \/ rows' = rows
        /\ UNCHANGED <<memory, dbSnapshot, forgotten, clearing, reloaded>>
    BY <1>5 DEF AppendRow, InsertRow, historyVars
  <2>2. <<t, Role(t)>> \in own BY DEF Role
  <2>3. rows' \in Seq(HistoryMessage) /\ Range(rows') \subseteq Range(rows) \cup own
    <3>1. rows \in Seq(HistoryMessage) /\ <<t, Role(t)>> \in HistoryMessage
      BY <1>2, <2>2 DEF HistoryInv, HistoryTyped
    <3>2. CASE rows' = rows BY <3>1, <3>2
    <3>3. CASE rows' = Append(rows, <<t, Role(t)>>)
      <4>1. /\ rows' \in Seq(HistoryMessage)
            /\ Range(rows') = Range(rows) \cup {<<t, Role(t)>>}
        BY <3>1, <3>3, AppendRange
      <4> HIDE DEF own
      <4> QED BY <2>2, <4>1
    <3> QED BY <2>1, <3>2, <3>3
  <2>4. HistoryTyped' /\ HistorySized'
    BY <2>1, <2>3 DEF HistoryInv, HistoryTyped, HistorySized, memory
  <2>5. Range(cache') \subseteq Range(cache) \cup own BY <2>1 DEF memory
  <2>6. UNCHANGED <<forgotten, clearing>> /\ (reloaded => reloaded') BY <2>1
  <2>7. ResetInv' BY <1>1, <2>3, <2>5, <2>6, ResetKept DEF HistoryInv
  <2> QED BY <2>4, <2>7 DEF HistoryInv
<1>6. CASE \/ Unsupported(t) \/ LoadSnapshot(t) \/ AskModel(t) \/ Reuse(t) \/ Invalidate(t)
           \/ CheckOwnership(t) \/ CallTool(t) \/ SaveSnapshot(t)
  <2>1. /\ UNCHANGED <<cached, cache, rows, forgotten, clearing, reloaded>>
        /\ memSnapshot' \in {memSnapshot, dbSnapshot, 0, run[t].pending}
        /\ dbSnapshot' \in {dbSnapshot, 0, run[t].pending}
    BY <1>6 DEF Unsupported, LoadSnapshot, AskModel, Reuse, Invalidate, CheckOwnership,
         CallTool, SaveSnapshot, GetDeviceSnapshot, SetDeviceSnapshot, historyVars, memory,
         resets
  <2>2. HistoryTyped' /\ HistorySized'
    BY <1>1, <2>1 DEF HistoryInv, HistoryTyped, HistorySized
  <2>3. ResetInv' BY <1>1, <2>1, ResetKept DEF HistoryInv
  <2> QED BY <2>2, <2>3 DEF HistoryInv
<1> QED BY <1>3, <1>4, <1>5, <1>6 DEF Turn

----------------------------------------------------------------------------
(* /start and the days that go by.                                         *)

(* Whoever is over is forgotten, and memory is empty.                      *)
LEMMA StartCommandHistory ==
  ASSUME HistoryInv, StartCommand PROVE HistoryInv'
<1>1. /\ cached' = FALSE /\ cache' = <<>> /\ memSnapshot' = 0 /\ clearing' = TRUE
      /\ UNCHANGED <<rows, dbSnapshot, pc>> 
      /\ forgotten' = {t \in Caller : pc[t] \in Final} \cup {"earlier"}
  BY DEF StartCommand, ClearMemory, local
<1>2. MaxHistory \in Nat /\ Range(<<>>) = {} /\ <<>> \in Seq(HistoryMessage) /\ Len(<<>>) = 0
  BY MaxHistoryAssumption DEF Range
<1>3. HistoryTyped' /\ HistorySized'
  BY <1>1, <1>2 DEF HistoryInv, HistoryTyped, HistorySized
<1>4. ResetInv'
  BY <1>1, <1>2, EarlierAssumption DEF ResetInv, Forgetting, ResetHolds
<1> QED BY <1>3, <1>4 DEF HistoryInv

(* The rows are gone, or it is noted that they are not.                    *)
LEMMA StartEndsHistory ==
  ASSUME HistoryInv, StartEnds PROVE HistoryInv'
<1>1. PICK ok \in BOOLEAN :
        /\ IF ok THEN ClearRows ELSE UNCHANGED historyVars
        /\ reloaded' = (reloaded \/ ~ok)
  BY DEF StartEnds
<1>2. UNCHANGED <<memory, pc, forgotten>> /\ Range(<<>>) = {} /\ <<>> \in Seq(HistoryMessage)
  BY <1>1 DEF StartEnds, ClearRows, historyVars, local, Range
<1>3. CASE ok
  <2>1. rows' = <<>> /\ dbSnapshot' = 0 BY <1>1, <1>3 DEF ClearRows
  <2>2. reloaded' <=> reloaded BY <1>1, <1>3, Zenon
  <2> QED BY <1>2, <2>1, <2>2
    DEF HistoryInv, HistoryTyped, HistorySized, ResetInv, Forgetting, ResetHolds, memory
<1>4. CASE ~ok
  <2>1. UNCHANGED historyVars /\ reloaded' BY <1>1, <1>4
  <2> QED BY <1>2, <2>1
    DEF HistoryInv, HistoryTyped, HistorySized, ResetInv, Forgetting, ResetHolds,
        historyVars, memory
<1> QED BY <1>3, <1>4

(* Messages only leave.                                                    *)
LEMMA EvictHistory ==
  ASSUME HistoryInv, Evict PROVE HistoryInv'
<1>1. UNCHANGED <<pc, forgotten, clearing, reloaded>> BY DEF Evict, local
<1>2. CASE \E inactive \in BOOLEAN : EvictMemory(inactive)
  <2>1. PICK inactive \in BOOLEAN : EvictMemory(inactive) BY <1>2
  <2>2. MaxHistory \in Nat /\ Range(<<>>) = {} /\ <<>> \in Seq(HistoryMessage) /\ Len(<<>>) = 0
    BY MaxHistoryAssumption DEF Range
  <2>3. /\ UNCHANGED <<rows, dbSnapshot>> /\ memSnapshot' \in {memSnapshot, 0}
        /\ cache' = IF inactive THEN <<>> ELSE cache
    BY <2>1 DEF EvictMemory
  <2>7. ~inactive => (cached' <=> cached) BY <2>1, Zenon DEF EvictMemory
  <2>4. HistoryTyped' /\ HistorySized'
    <3>1. CASE inactive
      BY <2>2, <2>3, <3>1 DEF HistoryInv, HistoryTyped, HistorySized
    <3>2. CASE ~inactive
      <4>1. UNCHANGED <<cache, rows, dbSnapshot>> /\ (cached' <=> cached)
        BY <2>3, <2>7, <3>2
      <4>2. cache \in Seq(HistoryMessage) /\ rows \in Seq(HistoryMessage) /\ HistorySized
        BY DEF HistoryInv, HistoryTyped
      <4> QED BY <2>3, <4>1, <4>2 DEF HistoryTyped, HistorySized
    <3> QED BY <3>1, <3>2
  <2>5. Range(cache') \subseteq Range(cache) BY <2>2, <2>3
  <2>6. ResetInv' BY <1>1, <2>3, <2>5 DEF HistoryInv, ResetInv, Forgetting, ResetHolds
  <2> QED BY <2>4, <2>6 DEF HistoryInv
<1>3. CASE \E n \in 0..Len(rows) : EvictRows(n)
  <2>1. PICK n \in 0..Len(rows) : EvictRows(n) BY <1>3
  <2>2. n + 1 \in 1..Len(rows) + 1 BY <2>1, LenProperties DEF HistoryInv, HistoryTyped
  <2>3. /\ rows' \in Seq(HistoryMessage) /\ Range(rows') \subseteq Range(rows)
        /\ UNCHANGED memory /\ dbSnapshot' \in {dbSnapshot, 0}
    BY <2>1, <2>2, SuffixRange DEF HistoryInv, HistoryTyped, EvictRows
  <2>4. HistoryTyped' /\ HistorySized'
    BY <2>3 DEF HistoryInv, HistoryTyped, HistorySized, memory
  <2>5. ResetInv' BY <1>1, <2>3 DEF HistoryInv, ResetInv, Forgetting, ResetHolds, memory
  <2> QED BY <2>4, <2>5 DEF HistoryInv
<1> QED BY <1>2, <1>3 DEF Evict

----------------------------------------------------------------------------
(* The inductive invariant, and what follows from it.                      *)

IInv == TurnInv /\ HistoryInv /\ device \in BOOLEAN /\ clearing \in BOOLEAN

(* The type invariant is a part of the inductive one.                      *)
LEMMA IInvTypes == IInv => TypeOK
<1> SUFFICES ASSUME IInv PROVE TypeOK OBVIOUS
<1>1. /\ McpTypeOK /\ pc \in [Caller -> PC] /\ run \in [Caller -> Run]
      /\ \A t \in Caller :
           /\ pc[t] \in ToolPC <=> run[t].queue # <<>>
           /\ at[t] # "out" => pc[t] \in {"owner", "call"}
  BY DEF IInv, TurnInv, ClientIInv, TurnsSound, Sound
<1>2. /\ Len(cache) <= MaxHistory /\ (~cached => cache = <<>>)
      /\ memSnapshot \in 0..2 /\ dbSnapshot \in 0..2
  BY DEF IInv, HistoryInv, HistorySized
<1>3. device \in BOOLEAN /\ clearing \in BOOLEAN BY DEF IInv
<1> QED BY <1>1, <1>2, <1>3 DEF TypeOK

(* What every turn keeps of its deletions.                                 *)
LEMMA DeletionsAccounted == IInv => DeletedOnce
<1> SUFFICES ASSUME IInv, NEW t \in Caller
             PROVE  /\ \A s \in sent[t] : s.place = "first"
                    /\ pc[t] \in {"model", "tool", "owner"} =>
                         \A s \in sent[t] : s.call \in run[t].completed
                    /\ \A s, z \in sent[t] : s.call = z.call => s.provider = z.provider
  BY DEF DeletedOnce
<1>1. Sound(pc[t], run[t], at[t], sent[t]) /\ sent[t] \subseteq Deletions
  BY DEF IInv, TurnInv, TurnsSound
<1>2. \A s \in sent[t] : s.place = "first" BY <1>1 DEF Deletions
<1>3. pc[t] \in {"model", "tool", "owner"} => \A s \in sent[t] : s.call \in run[t].completed
  BY <1>1 DEF Sound, DeletionsKept, Deletion, AtDeletion, Asking, ToolPC
<1> QED BY <1>1, <1>2, <1>3 DEF Sound, DeletionsKept

(* The first state.                                                        *)
LEMMA InitIInv == Init => IInv
<1> SUFFICES ASSUME Init PROVE IInv OBVIOUS
<1>1. ClientIInv BY McpInitIInv DEF Init
<1>2. LeftTyped BY ScenarioAssumption DEF Init, LeftTyped
<1>3. TurnsSound
  <2>1. /\ pc = [t \in Caller |-> IF t \in left.turns THEN "start" ELSE "done"]
        /\ run = [t \in Caller |-> NoRun] /\ sent = [t \in Caller |-> {}]
        /\ at = [t \in Caller |-> "out"]
    BY DEF Init, McpInit
  <2>2. pc \in [Caller -> PC] BY <2>1 DEF PC, Final
  <2>3. run \in [Caller -> Run] BY <2>1, NoRunTyped
  <2>4. sent \in [Caller -> SUBSET Deletions] BY <2>1
  <2>5. \A t \in Caller : Sound(pc[t], run[t], at[t], sent[t])
    <3> SUFFICES ASSUME NEW t \in Caller PROVE Sound(pc[t], run[t], at[t], sent[t])
      OBVIOUS
    <3>1. /\ pc[t] \in {"start", "done"} /\ run[t] = NoRun /\ at[t] = "out" /\ sent[t] = {}
      BY <2>1
    <3>2. DeletionsKept(pc[t], run[t], at[t], sent[t])
      BY <3>1, EngineAssumption DEF DeletionsKept, Deletion
    <3> QED BY <3>1, <3>2, NoRunTyped DEF Sound, CallFresh, ToolPC
  <2> QED BY <2>2, <2>3, <2>4, <2>5 DEF TurnsSound
<1>4. ListsInv
  <2>1. device = TRUE /\ \A t \in Caller : pc[t] \in {"start", "done"} BY DEF Init
  <2> QED BY <2>1 DEF ListsInv, ListsDropped, SnapshotFresh, Deleting
<1>5. HistoryInv
  <2>1. /\ cached = FALSE /\ cache = <<>> /\ memSnapshot = 0 /\ dbSnapshot \in 0..2
        /\ \/ rows = <<>>
           \/ rows = <<<<"earlier", "user">>, <<"earlier", "assistant">>>>
        /\ forgotten = {}
    BY DEF Init, HistoryInit
  <2>2. MaxHistory \in Nat /\ Len(<<>>) = 0 /\ <<>> \in Seq(HistoryMessage)
    BY MaxHistoryAssumption
  <2>3. rows \in Seq(HistoryMessage)
    <3>1. <<"earlier", "user">> \in HistoryMessage /\ <<"earlier", "assistant">> \in HistoryMessage
      BY DEF HistoryMessage
    <3>2. \A m, n \in HistoryMessage : <<m, n>> \in Seq(HistoryMessage) OBVIOUS
    <3>3. <<<<"earlier", "user">>, <<"earlier", "assistant">>>> \in Seq(HistoryMessage)
      BY <3>1, <3>2, Zenon
    <3> QED BY <2>1, <2>2, <3>3
  <2>4. ResetInv BY <2>1 DEF ResetInv, Forgetting, ResetHolds
  <2> QED BY <2>1, <2>2, <2>3, <2>4 DEF HistoryInv, HistoryTyped, HistorySized
<1> QED BY <1>1, <1>2, <1>3, <1>4, <1>5 DEF IInv, TurnInv, Init

(* What is not a turn's leaves the turns where they are.                   *)
LEMMA OtherSteps ==
  ASSUME TurnInv, StartCommand \/ StartEnds \/ Evict \/ Connection PROVE TurnInv'
<1>1. UNCHANGED <<pc, run, device, sent, crossed, at>> /\ ClientIInv'
  <2>1. CASE Connection
    BY <2>1, ConnectionKeeps DEF TurnInv, Connection, local, world
  <2>2. CASE StartCommand \/ StartEnds \/ Evict
    BY <2>2, ClientUnchanged
    DEF TurnInv, StartCommand, StartEnds, Evict, local, world, mcpVars, callers
  <2> QED BY <2>1, <2>2
<1>2. LeftTyped'
  <2>1. CASE UNCHANGED left BY <2>1 DEF TurnInv, LeftTyped
  <2>2. CASE StartCommand BY <2>2, SpendTyped DEF TurnInv, StartCommand
  <2>3. CASE StartEnds BY <2>3, DatabaseTyped DEF TurnInv, StartEnds
  <2> QED BY <2>1, <2>2, <2>3 DEF Evict, Connection
<1>3. TurnsSound' BY <1>1 DEF TurnInv, TurnsSound
<1>4. memSnapshot' \in {memSnapshot, dbSnapshot, 0} /\ dbSnapshot' \in {dbSnapshot, 0}
  BY DEF StartCommand, StartEnds, Evict, Connection, ClearMemory, ClearRows, EvictMemory,
         EvictRows, historyVars, memory
<1>5. ListsInv' BY <1>1, <1>4, ListsKept DEF TurnInv, Deleting
<1> QED BY <1>1, <1>2, <1>3, <1>5 DEF TurnInv

(* Every step of a turn keeps what holds of the turns.                     *)
LEMMA TurnSteps ==
  ASSUME TurnInv, NEW t \in Caller, Turn(t) PROVE TurnInv'
BY QuietSteps, InvalidateStep, OwnershipStep, CallToolStep, SaveStep DEF Turn

(* The device is registered or not, and /start under way or not.           *)
LEMMA FlagsTyped ==
  ASSUME device \in BOOLEAN, clearing \in BOOLEAN, Next
  PROVE  device' \in BOOLEAN /\ clearing' \in BOOLEAN
<1>1. CASE \E t \in Caller : Turn(t)
  <2>1. PICK t \in Caller : Turn(t) BY <1>1
  <2>2. CASE CallTool(t) BY <2>2 DEF CallTool, Deletes, world, resets
  <2>3. CASE ~CallTool(t)
    BY <2>1, <2>3
    DEF Turn, Unsupported, Begin, LoadSnapshot, AskModel, Reuse, Invalidate, CheckOwnership,
        AppendLoad, AppendMemory, AppendRow, SaveSnapshot, Load, world, resets
  <2> QED BY <2>2, <2>3
<1>2. CASE StartCommand \/ StartEnds \/ Evict \/ Connection
  BY <1>2 DEF StartCommand, StartEnds, Evict, Connection, world, resets
<1> QED BY <1>1, <1>2 DEF Next

(* The connection does not touch the history.                              *)
LEMMA ConnectionHistory == ASSUME HistoryInv, Connection PROVE HistoryInv'
BY DEF Connection, HistoryInv, HistoryTyped, HistorySized, ResetInv, Forgetting, ResetHolds,
       historyVars, memory, local, resets

(* Every step keeps the inductive invariant.                               *)
LEMMA NextIInv == IInv /\ [Next]_vars => IInv'
<1> SUFFICES ASSUME IInv, [Next]_vars PROVE IInv' OBVIOUS
<1>1. CASE \E t \in Caller : Turn(t)
  <2>1. PICK t \in Caller : Turn(t) BY <1>1
  <2>2. TurnInv' /\ HistoryInv' BY <2>1, TurnSteps, TurnHistory DEF IInv
  <2> QED BY <1>1, <2>2, FlagsTyped DEF IInv, Next
<1>2. CASE StartCommand \/ StartEnds \/ Evict \/ Connection
  <2>1. TurnInv' BY <1>2, OtherSteps DEF IInv
  <2>2. HistoryInv'
    BY <1>2, StartCommandHistory, StartEndsHistory, EvictHistory, ConnectionHistory DEF IInv
  <2> QED BY <1>2, <2>1, <2>2, FlagsTyped DEF IInv, Next
<1>3. CASE UNCHANGED vars
  <2>1. /\ UNCHANGED <<pc, run, device, sent, crossed, at, left, forgotten, clearing, reloaded,
                       cached, cache, rows, memSnapshot, dbSnapshot>>
        /\ ClientIInv'
    BY <1>3, ClientUnchanged
    DEF IInv, TurnInv, vars, mcpVars, callers, local, world, resets, historyVars, memory
  <2>2. TurnInv'
    BY <2>1 DEF IInv, TurnInv, LeftTyped, TurnsSound, ListsInv, ListsDropped, SnapshotFresh,
                Deleting
  <2>3. HistoryInv'
    BY <2>1 DEF IInv, HistoryInv, HistoryTyped, HistorySized, ResetInv, Forgetting, ResetHolds
  <2> QED BY <2>1, <2>2, <2>3 DEF IInv
<1> QED BY <1>1, <1>2, <1>3 DEF Next

(* The inductive invariant holds in every behaviour.                       *)
THEOREM Invariant == Spec => []IInv
<1> QED BY InitIInv, NextIInv, PTL DEF Spec

(* Types, and what the places of a turn say of its run (engine.go:96).     *)
THEOREM TypeCorrect == Spec => []TypeOK
<1> QED BY Invariant, IInvTypes, PTL

(* Every session that was granted is the current one or closed, and none   *)
(* is opened behind Close (client.go:98 and :213).                         *)
THEOREM SessionsSafe == Spec => []SessionsAccounted
<1>1. IInv => SessionsAccounted BY DEF IInv, TurnInv, ClientIInv
<1> QED BY <1>1, Invariant, PTL

(* A deletion is sent on one session, has a result before the turn calls   *)
(* on, and is sent by one provider only, as long as those that take over   *)
(* spell it the same way (client.go:207, engine.go:161 and :239).          *)
THEOREM DeletionSentOnce == Spec => []DeletedOnce
<1> QED BY Invariant, DeletionsAccounted, PTL

(* A stored list does not show a device that has been deleted              *)
(* (devices.go:21).                                                        *)
THEOREM SnapshotsFresh == Spec => []SnapshotFresh
<1>1. IInv => SnapshotFresh BY DEF IInv, TurnInv, ListsInv
<1> QED BY <1>1, Invariant, PTL

(* What /start has forgotten does not come back (history.go:194).          *)
THEOREM ResetSafe == Spec => []ResetHolds
<1>1. IInv => ResetHolds BY DEF IInv, HistoryInv, ResetInv
<1> QED BY <1>1, Invariant, PTL

(* Only a caller whose generation is the current one drops a session.      *)
LEMMA OnlyRecoverConnects ==
  ASSUME TurnInv, Next, NEW t \in Caller, at[t] = "recover", at'[t] = "connect"
  PROVE  SameGeneration(t)
<1>1. PICK u \in Caller : CheckOwnership(u) \/ CallTool(u)
  <2>1. UNCHANGED at \/ \E u \in Caller : CheckOwnership(u) \/ CallTool(u)
    <3>1. CASE Connection BY <3>1, ConnectionKeeps DEF TurnInv
    <3>2. CASE ~Connection
      BY <3>2
      DEF Next, Turn, Unsupported, Begin, LoadSnapshot, AskModel, Reuse, Invalidate,
          AppendLoad, AppendMemory, AppendRow, SaveSnapshot, Load, StartCommand, StartEnds,
          Evict, mcpVars, callers
    <3> QED BY <3>1, <3>2
  <2> QED BY <2>1
<1>2. PICK write \in BOOLEAN, o \in Outcome : UseClient(u, write, o)
  BY <1>1 DEF CheckOwnership, CallTool
<1>3. \A v \in Caller \ {u} : at'[v] = at[v] BY <1>2, UseClientKeeps DEF TurnInv
<1>4. u = t BY <1>3
<1>5. at \in [Caller -> {"out", "first", "recover", "connect", "again", "second"}]
  BY DEF TurnInv, ClientIInv, McpTypeOK
<1>6. Recover(t, o)
  BY <1>2, <1>4, <1>5
  DEF UseClient, Enter, Answered, Connected, Again, Broken, BrokenAgain, Go, Error, Return
<1> QED BY <1>5, <1>6 DEF Recover, Go, Error, Return

(* A caller drops its own session and no other (client.go:215).            *)
THEOREM SessionReplacedIsOwn == Spec => OwnSessionReplaced
<1>1. ASSUME IInv, [Next]_vars
      PROVE  [\A t \in Caller : at[t] = "recover" /\ at'[t] = "connect"
                => session \in {NoSession, mine[t]}]_vars
  <2>1. CASE Next
    <3> SUFFICES ASSUME NEW t \in Caller, at[t] = "recover", at'[t] = "connect"
                 PROVE  session \in {NoSession, mine[t]}
      OBVIOUS
    <3>1. generation = gen[t] BY <1>1, <2>1, OnlyRecoverConnects DEF IInv, SameGeneration
    <3> QED BY <1>1, <3>1 DEF IInv, TurnInv, ClientIInv, OwnSession
  <2>2. CASE UNCHANGED vars BY <2>2
  <2> QED BY <1>1, <2>1, <2>2
<1> QED BY <1>1, Invariant, PTL DEF Spec, OwnSessionReplaced

----------------------------------------------------------------------------
(* What memory has of the rows.                                            *)

EarlierUser == <<"earlier", "user">>
EarlierAssistant == <<"earlier", "assistant">>
Earlier(m) == m[1] = "earlier"

(* Each message once, those of the earlier process first and in order.     *)
InOrder(s) ==
  /\ \A i, j \in 1..Len(s) : s[i] = s[j] => i = j
  /\ \A i, j \in 1..Len(s) : i < j /\ Earlier(s[j]) =>
       s[i] = EarlierUser /\ s[j] = EarlierAssistant

(* How far a turn is once its message is in memory, and in the table.      *)
Remembered(place, role) ==
  place \in Final \cup {"save"} \cup
    (IF role = "user" THEN {"user row", "assistant load", "assistant cache", "assistant row"}
                      ELSE {"assistant row"})
Recorded(place, role) ==
  place \in Final \cup {"save"} \cup
    (IF role = "user" THEN {"assistant load", "assistant cache", "assistant row"} ELSE {})

(* Messages in memory whose insert is still to come.                       *)
Awaits(place, role) == place = IF role = "user" THEN "user row" ELSE "assistant row"
Unwritten == {m \in Caller \X {"user", "assistant"} : Awaits(pc[m[1]], m[2])}

(* No message is written twice, and rows leave the table from the front.   *)
WrittenOnce ==
  /\ InOrder(rows) /\ InOrder(cache) /\ expired \subseteq HistoryMessage
  /\ \A m \in Range(cache) : ~Earlier(m) => Remembered(pc[m[1]], m[2])
  /\ \A m \in Range(rows) \cup expired : ~Earlier(m) => Recorded(pc[m[1]], m[2])
  /\ expired \cap Range(rows) = {}
  /\ \A m \in expired, x \in Range(rows) : Earlier(x) =>
       m = EarlierUser /\ x = EarlierAssistant

(* Unless noted, nobody is between memory and table when memory is dropped.*)
NoLateWriter == ~skewed =>
  /\ ~cached => \A t \in Caller : pc[t] \notin Writing \ {"user load"}
  /\ clearing => ~cached

(* A row that a full memory has no room for is of the earlier process.     *)
Dropped(m) ==
  /\ Earlier(m) /\ Len(cache) = MaxHistory
  /\ m[2] = "assistant" => EarlierUser \notin Range(cache)

Room == 2 * Cardinality(Caller) <= MaxHistory

Alike == cached /\ ~skewed =>
  /\ Range(cache) \subseteq Range(rows) \cup expired \cup Unwritten
  /\ Unwritten \subseteq Range(cache)
  /\ \A m \in Range(rows) : m \in Range(cache) \/ Dropped(m)

MatchInv == /\ cached \in BOOLEAN /\ skewed \in BOOLEAN
            /\ WrittenOnce /\ NoLateWriter /\ (Room => Alike)

(* A suffix of a sequence, and what comes before it.                       *)
LEMMA SuffixSplit ==
  ASSUME NEW S, NEW s \in Seq(S), NEW n \in 1..Len(s) + 1
  PROVE  /\ \A i \in 1..Len(s) - n + 1 : SubSeq(s, n, Len(s))[i] = s[n + i - 1]
         /\ \A j \in n..Len(s) : s[j] = SubSeq(s, n, Len(s))[j - n + 1]
         /\ Len(SubSeq(s, n, Len(s))) = Len(s) - n + 1
         /\ Range(SubSeq(s, n, Len(s))) = {s[j] : j \in n..Len(s)}
         /\ Range(s) = {s[j] : j \in 1..n - 1} \cup {s[j] : j \in n..Len(s)}
<1> DEFINE r == SubSeq(s, n, Len(s))
<1>0. Len(s) \in Nat /\ DOMAIN s = 1..Len(s) BY LenProperties
<1>1. \A i \in 1..Len(s) - n + 1 : r[i] = s[n + i - 1] BY <1>0, SubSeqProperties
<1>2. r \in Seq(S) /\ Len(r) = Len(s) - n + 1 BY SuffixRange
<1>3. DOMAIN r = 1..Len(s) - n + 1 BY <1>2, LenProperties
<1> HIDE DEF r
<1>4. \A j \in n..Len(s) : j - n + 1 \in 1..Len(s) - n + 1 /\ n + (j - n + 1) - 1 = j
  BY <1>0
<1>5. \A j \in n..Len(s) : s[j] = r[j - n + 1] BY <1>1, <1>4
<1>6. \A i \in 1..Len(s) - n + 1 : n + i - 1 \in n..Len(s) BY <1>0
<1>7. Range(r) = {s[j] : j \in n..Len(s)}
  <2>1. Range(r) \subseteq {s[j] : j \in n..Len(s)} BY <1>1, <1>3, <1>6 DEF Range
  <2>2. {s[j] : j \in n..Len(s)} \subseteq Range(r) BY <1>3, <1>4, <1>5 DEF Range
  <2> QED BY <2>1, <2>2
<1>8. 1..Len(s) = 1..n - 1 \cup n..Len(s) BY <1>0
<1>9. Range(s) = {s[j] : j \in 1..n - 1} \cup {s[j] : j \in n..Len(s)}
  BY <1>0, <1>8 DEF Range
<1> QED BY <1>1, <1>2, <1>5, <1>7, <1>9 DEF r

(* What is left of messages in order is in order, and what has gone came   *)
(* before it.                                                              *)
LEMMA SuffixInOrder ==
  ASSUME NEW s \in Seq(HistoryMessage), InOrder(s), NEW n \in 1..Len(s) + 1,
         NEW r, r = SubSeq(s, n, Len(s))
  PROVE  /\ InOrder(r)
         /\ Range(s) = {s[j] : j \in 1..n - 1} \cup Range(r)
         /\ {s[j] : j \in 1..n - 1} \cap Range(r) = {}
         /\ \A j \in 1..n - 1, x \in Range(r) : Earlier(x) =>
              s[j] = EarlierUser /\ x = EarlierAssistant
<1>0. Len(s) \in Nat BY LenProperties
<1>1. /\ \A i \in 1..Len(s) - n + 1 : r[i] = s[n + i - 1]
      /\ Len(r) = Len(s) - n + 1
      /\ Range(r) = {s[j] : j \in n..Len(s)}
      /\ Range(s) = {s[j] : j \in 1..n - 1} \cup {s[j] : j \in n..Len(s)}
  BY SuffixSplit
<1>2. InOrder(r)
  <2>1. \A i \in 1..Len(r) : n + i - 1 \in 1..Len(s) BY <1>0, <1>1
  <2>2. \A i, j \in 1..Len(r) : r[i] = r[j] => i = j
    <3> SUFFICES ASSUME NEW i \in 1..Len(r), NEW j \in 1..Len(r), r[i] = r[j] PROVE i = j
      OBVIOUS
    <3>1. n + i - 1 = n + j - 1 BY <1>1, <2>1 DEF InOrder
    <3> QED BY <1>0, <1>1, <3>1
  <2>3. \A i, j \in 1..Len(r) : i < j /\ Earlier(r[j]) =>
          r[i] = EarlierUser /\ r[j] = EarlierAssistant
    <3> SUFFICES ASSUME NEW i \in 1..Len(r), NEW j \in 1..Len(r), i < j, Earlier(r[j])
                 PROVE  r[i] = EarlierUser /\ r[j] = EarlierAssistant
      OBVIOUS
    <3>1. n + i - 1 < n + j - 1 BY <1>0, <1>1
    <3>2. r[i] = s[n + i - 1] /\ r[j] = s[n + j - 1] BY <1>1
    <3>3. n + i - 1 \in 1..Len(s) /\ n + j - 1 \in 1..Len(s) BY <2>1
    <3> QED BY <3>1, <3>2, <3>3 DEF InOrder
  <2> QED BY <2>2, <2>3 DEF InOrder
<1>3. ASSUME NEW i \in 1..n - 1, NEW j \in n..Len(s)
      PROVE  /\ s[i] # s[j]
             /\ Earlier(s[j]) => s[i] = EarlierUser /\ s[j] = EarlierAssistant
  <2>1. i \in 1..Len(s) /\ j \in 1..Len(s) /\ i < j BY <1>0
  <2> QED BY <2>1 DEF InOrder
<1> QED BY <1>1, <1>2, <1>3

(* A new message at the end.                                               *)
LEMMA AppendInOrder ==
  ASSUME NEW s \in Seq(HistoryMessage), InOrder(s),
         NEW m \in HistoryMessage, ~Earlier(m), m \notin Range(s)
  PROVE  InOrder(Append(s, m))
<1> DEFINE r == Append(s, m)
<1>1. /\ Len(r) = Len(s) + 1 /\ Len(s) \in Nat
      /\ \A i \in 1..Len(s) : r[i] = s[i]
      /\ r[Len(s) + 1] = m
  BY AppendProperties
<1>2. \A i \in 1..Len(s) : s[i] # m BY LenProperties DEF Range
<1> HIDE DEF r
<1>3. \A i, j \in 1..Len(r) : r[i] = r[j] => i = j BY <1>1, <1>2 DEF InOrder
<1>4. \A i, j \in 1..Len(r) : i < j /\ Earlier(r[j]) =>
        r[i] = EarlierUser /\ r[j] = EarlierAssistant
  <2> SUFFICES ASSUME NEW i \in 1..Len(r), NEW j \in 1..Len(r), i < j, Earlier(r[j])
               PROVE  r[i] = EarlierUser /\ r[j] = EarlierAssistant
    OBVIOUS
  <2>1. j # Len(s) + 1 BY <1>1
  <2>2. i \in 1..Len(s) /\ j \in 1..Len(s) BY <1>1, <2>1
  <2> QED BY <1>1, <2>2 DEF InOrder
<1> QED BY <1>3, <1>4 DEF InOrder, r

(* The turns of all callers have room: among more than MaxHistory messages *)
(* there is one of the earlier process.                                    *)
LEMMA EarlierAmong ==
  ASSUME Room, NEW s \in Seq(HistoryMessage), InOrder(s), NEW n \in 1..Len(s),
         Len(s) - n + 1 > MaxHistory
  PROVE  \E j \in n..Len(s) : Earlier(s[j])
<1> DEFINE own == Caller \X {"user", "assistant"}
           f == [j \in n..Len(s) |-> s[j]]
<1>0. Len(s) \in Nat /\ MaxHistory \in Nat /\ s \in [1..Len(s) -> HistoryMessage]
  BY LenProperties, MaxHistoryAssumption
<1> SUFFICES ASSUME \A j \in n..Len(s) : ~Earlier(s[j]) PROVE FALSE OBVIOUS
<1>1. \A j \in n..Len(s) : j \in 1..Len(s) BY <1>0
<1>2. \A j \in n..Len(s) : s[j] \in own
  BY <1>0, <1>1 DEF HistoryMessage, Earlier
<1>3. f \in Injection(n..Len(s), own)
  <2>1. f \in [n..Len(s) -> own] BY <1>2
  <2>2. IsInjective(f) BY <1>1 DEF IsInjective, InOrder
  <2> QED BY <2>1, <2>2 DEF Injection
<1>4. IsFiniteSet(Caller) /\ Cardinality(Caller) \in Nat
  BY CallerAssumption, FS_CardinalityType
<1>5. IsFiniteSet({"user", "assistant"}) /\ Cardinality({"user", "assistant"}) = 2
  <2>1. IsFiniteSet({"user"}) /\ Cardinality({"user"}) = 1 BY FS_Singleton
  <2> DEFINE one == {"user"}
             two == one \cup {"assistant"}
  <2>2. two = {"user", "assistant"} /\ "assistant" \notin one OBVIOUS
  <2> HIDE DEF one
  <2>3. IsFiniteSet(two) /\ Cardinality(two) = Cardinality(one) + 1
    BY <2>1, <2>2, FS_AddElement DEF one
  <2> HIDE DEF two
  <2>4. Cardinality(two) = 2 BY <2>1, <2>3 DEF one
  <2> QED BY <2>2, <2>3, <2>4
<1>6. IsFiniteSet(own) /\ Cardinality(own) = Cardinality(Caller) * 2
  BY <1>4, <1>5, FS_Product
<1> HIDE DEF own, f
<1>7. Cardinality(n..Len(s)) <= Cardinality(own) BY <1>3, <1>6, FS_Injection
<1>8. Cardinality(n..Len(s)) = Len(s) - n + 1 BY <1>0, FS_Interval
<1> QED BY <1>0, <1>4, <1>6, <1>7, <1>8 DEF Room

(* The newest messages lack only ones of the earlier process, and are as   *)
(* many as there is room for if they lack any.                             *)
LEMMA NewestInOrder ==
  ASSUME NEW s \in Seq(HistoryMessage), InOrder(s)
  PROVE  /\ InOrder(Newest(s))
         /\ Room => \A m \in Range(s) \ Range(Newest(s)) :
              /\ Earlier(m) /\ Len(Newest(s)) = MaxHistory
              /\ m[2] = "assistant" => EarlierUser \notin Range(Newest(s))
<1>0. Len(s) \in Nat /\ MaxHistory \in Nat \ {0}
  BY LenProperties, MaxHistoryAssumption
<1>1. CASE ~(Len(s) > MaxHistory) BY <1>1 DEF Newest
<1>2. CASE Len(s) > MaxHistory
  <2> DEFINE n == Len(s) - MaxHistory + 1
             r == SubSeq(s, n, Len(s))
  <2>1. Newest(s) = r BY <1>2 DEF Newest
  <2>2. n \in 1..Len(s) + 1 BY <1>0, <1>2
  <2>3. Len(r) = Len(s) - n + 1 BY <2>2, SuffixRange
  <2>4. Len(r) = MaxHistory BY <1>0, <2>3
  <2>8. r = SubSeq(s, n, Len(s)) OBVIOUS
  <2> HIDE DEF r, n
  <2>5. /\ InOrder(r)
        /\ Range(s) = {s[j] : j \in 1..n - 1} \cup Range(r)
        /\ \A j \in 1..n - 1, x \in Range(r) : Earlier(x) =>
             s[j] = EarlierUser /\ x = EarlierAssistant
    BY <2>2, <2>8, SuffixInOrder
  <2>6. ASSUME Room, NEW i \in 1..n - 1 PROVE Earlier(s[i])
    <3>1. i \in 1..Len(s) /\ Len(s) - i + 1 > MaxHistory BY <1>0, <1>2 DEF n
    <3>2. PICK j \in i..Len(s) : Earlier(s[j]) BY <2>6, <3>1, EarlierAmong
    <3>3. CASE i = j BY <3>2, <3>3
    <3>4. CASE i < j
      <4>1. s[i] = EarlierUser BY <1>0, <3>1, <3>2, <3>4 DEF InOrder
      <4> QED BY <4>1 DEF Earlier, EarlierUser
    <3> QED BY <1>0, <3>3, <3>4
  <2>7. ASSUME NEW i \in 1..n - 1, s[i][2] = "assistant"
        PROVE  EarlierUser \notin Range(r)
    BY <2>5, <2>7 DEF Earlier, EarlierUser, EarlierAssistant
  <2> QED BY <2>1, <2>4, <2>5, <2>6, <2>7
<1> QED BY <1>1, <1>2

(* As many messages as positions.                                          *)
LEMMA CountInOrder ==
  ASSUME NEW s \in Seq(HistoryMessage), InOrder(s)
  PROVE  IsFiniteSet(Range(s)) /\ Cardinality(Range(s)) = Len(s)
<1>1. Len(s) \in Nat /\ DOMAIN s = 1..Len(s) /\ s \in [1..Len(s) -> HistoryMessage]
  BY LenProperties
<1>2. s \in Bijection(1..Len(s), Range(s))
  BY <1>1 DEF InOrder, Range, Bijection, Injection, Surjection, IsInjective
<1>3. ExistsBijection(1..Len(s), Range(s)) BY <1>2 DEF ExistsBijection
<1> QED BY <1>1, <1>3, FS_CountingElements, FS_NatBijection

(* As long as there are more than it has room for, memory is full.         *)
LEMMA NewestFull ==
  ASSUME NEW s \in Seq(HistoryMessage), Len(s) > MaxHistory
  PROVE  Len(Newest(s)) = MaxHistory
<1>0. Len(s) \in Nat /\ MaxHistory \in Nat \ {0}
  BY LenProperties, MaxHistoryAssumption
<1>1. Len(s) - MaxHistory + 1 \in 1..Len(s) + 1 BY <1>0
<1>2. Len(Newest(s)) = Len(s) - (Len(s) - MaxHistory + 1) + 1
  BY <1>1, SuffixRange DEF Newest
<1> QED BY <1>0, <1>2

(* A caller's message is not of the earlier process.                       *)
LEMMA OwnMessage ==
  ASSUME NEW t \in Caller, NEW role \in {"user", "assistant"}
  PROVE  <<t, role>> \in HistoryMessage /\ ~Earlier(<<t, role>>)
BY EarlierAssumption DEF HistoryMessage, Earlier

(* And any other message is a caller's.                                    *)
LEMMA MessageOwner ==
  ASSUME NEW m \in HistoryMessage, ~Earlier(m)
  PROVE  m[1] \in Caller /\ m[2] \in {"user", "assistant"} /\ m = <<m[1], m[2]>>
BY DEF HistoryMessage, Earlier

(* Messages are of the sets their sequences are of.                        *)
LEMMA MessagesTyped ==
  ASSUME HistoryTyped
  PROVE  Range(cache) \subseteq HistoryMessage /\ Range(rows) \subseteq HistoryMessage
<1>1. ASSUME NEW s \in Seq(HistoryMessage) PROVE Range(s) \subseteq HistoryMessage
  <2>1. s \in [1..Len(s) -> HistoryMessage] BY LenProperties
  <2> QED BY <2>1 DEF Range
<1> QED BY <1>1 DEF HistoryTyped

(* A turn goes on, and what it has remembered and recorded stays so.       *)
Onward(t) ==
  /\ \A u \in Caller \ {t} : pc'[u] = pc[u]
  /\ \A role \in {"user", "assistant"} :
       /\ Remembered(pc[t], role) => Remembered(pc'[t], role)
       /\ Recorded(pc[t], role) => Recorded(pc'[t], role)

(* Then what memory and the table have is still of turns that far.         *)
LEMMA PlacesKept ==
  ASSUME HistoryTyped, WrittenOnce, NEW t \in Caller, Onward(t)
  PROVE  /\ \A m \in Range(cache) : ~Earlier(m) => Remembered(pc'[m[1]], m[2])
         /\ \A m \in Range(rows) \cup expired : ~Earlier(m) => Recorded(pc'[m[1]], m[2])
<1>1. ASSUME NEW m \in Range(cache), ~Earlier(m) PROVE Remembered(pc'[m[1]], m[2])
  <2>1. m[1] \in Caller /\ m[2] \in {"user", "assistant"}
    BY <1>1, MessagesTyped, MessageOwner
  <2>2. Remembered(pc[m[1]], m[2]) BY <1>1 DEF WrittenOnce
  <2> QED BY <2>1, <2>2 DEF Onward
<1>2. ASSUME NEW m \in Range(rows) \cup expired, ~Earlier(m)
      PROVE  Recorded(pc'[m[1]], m[2])
  <2>1. m[1] \in Caller /\ m[2] \in {"user", "assistant"}
    BY <1>2, MessagesTyped, MessageOwner DEF WrittenOnce
  <2>2. Recorded(pc[m[1]], m[2]) BY <1>2 DEF WrittenOnce
  <2> QED BY <2>1, <2>2 DEF Onward
<1> QED BY <1>1, <1>2

(* Between other places than those before an insert, nothing is unwritten. *)
LEMMA UnwrittenSame ==
  ASSUME NEW t \in Caller, \A u \in Caller \ {t} : pc'[u] = pc[u],
         pc[t] \notin {"user row", "assistant row"},
         pc'[t] \notin {"user row", "assistant row"}
  PROVE  Unwritten' = Unwritten
<1>1. ASSUME NEW m \in Caller \X {"user", "assistant"}
      PROVE  m \in Unwritten' <=> m \in Unwritten
  <2>1. m[1] \in Caller BY <1>1
  <2>2. CASE m[1] = t BY <2>2 DEF Unwritten, Awaits
  <2>3. CASE m[1] # t BY <2>1, <2>3 DEF Unwritten
  <2> QED BY <2>2, <2>3
<1> QED BY <1>1 DEF Unwritten

(* A step that leaves the messages alone.                                  *)
LEMMA QuietMatch ==
  ASSUME HistoryTyped, MatchInv, NEW t \in Caller,
         UNCHANGED <<cached, cache, rows, expired, clearing>>,
         skewed' \in BOOLEAN, skewed => skewed',
         \A u \in Caller \ {t} : pc'[u] = pc[u],
         \/ pc[t] \in Asking /\ pc'[t] \in Asking \cup {"user load"} \cup Final
         \/ pc[t] = "save" /\ pc'[t] \in Final
         \/ pc'[t] = pc[t]
  PROVE  MatchInv'
<1>1. Onward(t)
  BY DEF Onward, Remembered, Recorded, Asking, ToolPC, Final
<1>2. WrittenOnce' BY <1>1, PlacesKept DEF MatchInv, WrittenOnce
<1>3. Unwritten' = Unwritten
  <2>1. CASE pc'[t] = pc[t]
    <3>1. \A m \in Caller \X {"user", "assistant"} : pc'[m[1]] = pc[m[1]] BY <2>1
    <3> QED BY <3>1 DEF Unwritten
  <2>2. CASE pc'[t] # pc[t]
    BY <2>2, UnwrittenSame DEF Asking, ToolPC, Final
  <2> QED BY <2>1, <2>2
<1>4. NoLateWriter'
  BY DEF MatchInv, NoLateWriter, Asking, ToolPC, Final, Writing
<1>5. Alike => Alike' BY <1>3 DEF Alike, Dropped
<1> QED BY <1>2, <1>4, <1>5 DEF MatchInv, Room

(* What is in the table was in memory.                                     *)
LEMMA RecordedRemembered ==
  ASSUME NEW place, NEW role, Recorded(place, role) PROVE Remembered(place, role)
BY DEF Recorded, Remembered

(* The first state: memory knows nobody.                                   *)
LEMMA InitMatch == Init => MatchInv
<1> SUFFICES ASSUME Init PROVE MatchInv OBVIOUS
<1>1. /\ cached = FALSE /\ cache = <<>> /\ skewed = FALSE /\ expired = {} /\ clearing = FALSE
      /\ rows = <<>> \/ rows = <<EarlierUser, EarlierAssistant>>
      /\ \A t \in Caller : pc[t] \notin Writing
  BY DEF Init, HistoryInit, EarlierUser, EarlierAssistant, Writing
<1>2. InOrder(<<>>) /\ Range(<<>>) = {} BY DEF InOrder, Range
<1>3. InOrder(rows) /\ \A m \in Range(rows) : Earlier(m)
  <2> DEFINE past == <<EarlierUser, EarlierAssistant>>
  <2>1. /\ Len(past) = 2 /\ DOMAIN past = {1, 2} /\ 1..Len(past) = {1, 2}
        /\ past[1] = EarlierUser /\ past[2] = EarlierAssistant
        /\ EarlierUser # EarlierAssistant
    BY DEF EarlierUser, EarlierAssistant
  <2>2. Earlier(EarlierUser) /\ Earlier(EarlierAssistant)
    BY DEF Earlier, EarlierUser, EarlierAssistant
  <2> HIDE DEF past
  <2>3. InOrder(past) /\ \A m \in Range(past) : Earlier(m)
    BY <2>1, <2>2 DEF InOrder, Range
  <2> QED BY <1>1, <1>2, <2>3 DEF past
<1>4. WrittenOnce BY <1>1, <1>2, <1>3 DEF WrittenOnce
<1> QED BY <1>1, <1>4 DEF MatchInv, NoLateWriter, Alike

(* The steps of a turn that leave the messages alone.                      *)
LEMMA QuietTurn ==
  ASSUME IInv, MatchInv, NEW t \in Caller,
         \/ Unsupported(t) \/ LoadSnapshot(t) \/ AskModel(t) \/ Reuse(t) \/ Invalidate(t)
         \/ CheckOwnership(t) \/ CallTool(t) \/ SaveSnapshot(t)
  PROVE  MatchInv'
<1>1. /\ HistoryTyped /\ pc \in [Caller -> PC] /\ \A u \in Caller \ {t} : pc'[u] = pc[u]
  BY TurnMovesItself DEF IInv, TurnInv, HistoryInv, TurnsSound, Turn
<1>2. UNCHANGED <<cached, cache, rows, expired, clearing>>
  BY DEF Unsupported, LoadSnapshot, AskModel, Reuse, Invalidate, CheckOwnership, CallTool,
         SaveSnapshot, GetDeviceSnapshot, SetDeviceSnapshot, historyVars, memory, resets
<1>3. skewed' = skewed \/ skewed' = (skewed \/ clearing)
  BY DEF Unsupported, LoadSnapshot, AskModel, Reuse, Invalidate, CheckOwnership, CallTool,
         SaveSnapshot, resets
<1>4. skewed' \in BOOLEAN /\ (skewed => skewed') BY <1>3 DEF MatchInv
<1>5. \A place, r : Continue(t, place, r) => pc'[t] = place BY <1>1 DEF Continue
<1>6. \/ pc[t] \in Asking /\ pc'[t] \in Asking \cup {"user load"} \cup Final
      \/ pc[t] = "save" /\ pc'[t] \in Final
      \/ pc'[t] = pc[t]
  <2> USE <1>5 DEF Asking, ToolPC, Final
  <2>1. CASE Unsupported(t) \/ LoadSnapshot(t)
    BY <2>1 DEF Unsupported, LoadSnapshot, Goto, Leave
  <2>2. CASE AskModel(t)
    BY <2>2 DEF AskModel, Asks, Promises, Replies, Refuses, Iterate, Fail, Leave
  <2>3. CASE Reuse(t) \/ Invalidate(t)
    BY <2>3 DEF Reuse, Invalidate, NextCall, Iterate, ToCall, Fail, Leave
  <2>4. CASE (CheckOwnership(t) \/ CallTool(t)) /\ UNCHANGED local
    BY <2>4 DEF local
  <2>5. CASE (CheckOwnership(t) \/ CallTool(t)) /\ ~UNCHANGED local
    BY <2>5 DEF CheckOwnership, CallTool, ToolReturned, NextCall, Iterate, Goto, Fail, Leave
  <2>6. CASE SaveSnapshot(t) BY <2>6 DEF SaveSnapshot, Goto
  <2> QED BY <2>1, <2>2, <2>3, <2>4, <2>5, <2>6
<1> QED BY <1>1, <1>2, <1>4, <1>6, QuietMatch

(* Memory gets the newest rows while nobody is between memory and table.   *)
LEMMA LoadMatch ==
  ASSUME IInv, MatchInv, NEW t \in Caller, Begin(t) \/ AppendLoad(t)
  PROVE  MatchInv'
<1>1. /\ HistoryTyped /\ HistorySized /\ pc \in [Caller -> PC] /\ clearing \in BOOLEAN
      /\ \A u \in Caller \ {t} : pc'[u] = pc[u]
  BY TurnMovesItself DEF IInv, TurnInv, HistoryInv, TurnsSound, Turn
<1>2. PICK ok \in BOOLEAN : Load(t, ok) BY DEF Begin, AppendLoad
<1>3. /\ cached' = TRUE /\ UNCHANGED <<rows, expired, clearing>>
      /\ cache' = IF cached THEN cache ELSE IF ok THEN Newest(rows) ELSE <<>>
      /\ skewed' = (skewed \/ clearing \/ ~ok)
  BY <1>2 DEF Load, GetHistory
<1>4. \/ pc[t] = "start" /\ pc'[t] = "snapshot"
      \/ pc[t] = "user load" /\ pc'[t] = "user cache"
      \/ pc[t] = "assistant load" /\ pc'[t] = "assistant cache"
  BY <1>1 DEF Begin, AppendLoad, Role, Goto, Continue
<1>5. Onward(t) BY <1>1, <1>4 DEF Onward, Remembered, Recorded, Final
<1>6. Unwritten' = Unwritten BY <1>1, <1>4, UnwrittenSame
<1>7. ~skewed' => ~skewed /\ ~clearing /\ ok BY <1>3
<1>8. skewed' \in BOOLEAN BY <1>3
<1>9. NoLateWriter' BY <1>3, <1>7 DEF NoLateWriter
<1>10. /\ \A m \in Range(cache) : ~Earlier(m) => Remembered(pc'[m[1]], m[2])
       /\ \A m \in Range(rows) \cup expired : ~Earlier(m) => Recorded(pc'[m[1]], m[2])
  BY <1>1, <1>5, PlacesKept DEF MatchInv
<1>11. CASE cached
  <2>1. cache' = cache BY <1>3, <1>11
  <2>2. WrittenOnce' BY <1>3, <1>10, <2>1 DEF MatchInv, WrittenOnce
  <2>3. Alike => Alike' BY <1>3, <1>6, <1>7, <1>11, <2>1 DEF Alike, Dropped
  <2> QED BY <1>3, <1>8, <1>9, <2>2, <2>3 DEF MatchInv, Room
<1>12. CASE ~cached /\ ~ok
  <2>0. InOrder(<<>>) /\ Range(<<>>) = {} BY DEF InOrder, Range
  <2>1. cache' = <<>> /\ skewed' /\ InOrder(<<>>) /\ Range(<<>>) = {}
    BY <1>3, <1>12, <2>0
  <2>2. WrittenOnce' BY <1>3, <1>10, <2>1 DEF MatchInv, WrittenOnce
  <2>3. Alike' BY <2>1 DEF Alike
  <2> QED BY <1>3, <1>8, <1>9, <2>2, <2>3 DEF MatchInv, Room
<1>13. CASE ~cached /\ ok
  <2>1. cache' = Newest(rows) BY <1>3, <1>13
  <2>2. /\ InOrder(cache') /\ Range(cache') \subseteq Range(rows)
        /\ Room => \A m \in Range(rows) \ Range(cache') : Dropped(m)'
    BY <1>1, <2>1, NewestInOrder, NewestRange
    DEF MatchInv, WrittenOnce, HistoryTyped, Dropped, Earlier, EarlierUser
  <2>3. WrittenOnce' BY <1>3, <1>10, <2>2, RecordedRemembered DEF MatchInv, WrittenOnce
  <2>4. ~skewed => Unwritten = {}
    BY <1>13 DEF MatchInv, NoLateWriter, Unwritten, Awaits, Writing
  <2>5. Room => Alike' BY <1>3, <1>6, <1>7, <2>2, <2>4 DEF Alike
  <2> QED BY <1>3, <1>8, <1>9, <2>3, <2>5 DEF MatchInv, Room
<1> QED BY <1>11, <1>12, <1>13

(* A turn's message comes into memory, and is not yet in the table.        *)
LEMMA RememberMatch ==
  ASSUME IInv, MatchInv, NEW t \in Caller, AppendMemory(t)
  PROVE  MatchInv'
<1> DEFINE m == <<t, Role(t)>>
           longer == Append(cache, m)
<1>1. /\ HistoryTyped /\ HistorySized /\ pc \in [Caller -> PC] /\ clearing \in BOOLEAN
      /\ \A u \in Caller \ {t} : pc'[u] = pc[u]
  BY TurnMovesItself DEF IInv, TurnInv, HistoryInv, TurnsSound, Turn
<1>2. /\ cached' = TRUE /\ cache' = Newest(longer) /\ UNCHANGED <<rows, expired, clearing>>
      /\ skewed' = (skewed \/ clearing)
  BY DEF AppendMemory, AppendCache
<1>3. \/ pc[t] = "user cache" /\ pc'[t] = "user row" /\ Role(t) = "user"
      \/ pc[t] = "assistant cache" /\ pc'[t] = "assistant row" /\ Role(t) = "assistant"
  BY <1>1 DEF AppendMemory, Role, Goto, Continue
<1>4. m \in HistoryMessage /\ ~Earlier(m) /\ m[1] = t /\ m[2] = Role(t)
  BY <1>3, OwnMessage
<1>5. Onward(t) BY <1>1, <1>3 DEF Onward, Remembered, Recorded, Final
<1>6. Remembered(pc'[m[1]], m[2]) /\ ~Remembered(pc[m[1]], m[2])
  BY <1>3, <1>4 DEF Remembered, Final
<1>7. m \notin Range(cache) BY <1>4, <1>6 DEF MatchInv, WrittenOnce
<1>8. Unwritten' = Unwritten \cup {m}
  <2>1. ASSUME NEW x \in Caller \X {"user", "assistant"}
        PROVE  x \in Unwritten' <=> x \in Unwritten \cup {m}
    <3>1. x[1] \in Caller /\ x[2] \in {"user", "assistant"} OBVIOUS
    <3>2. x = m <=> x[1] = t /\ x[2] = Role(t) BY <3>1
    <3>3. /\ x \in Unwritten <=> Awaits(pc[x[1]], x[2])
          /\ x \in Unwritten' <=> Awaits(pc'[x[1]], x[2])
      BY DEF Unwritten, Awaits
    <3> HIDE DEF m
    <3>4. CASE x[1] = t BY <1>3, <3>1, <3>2, <3>3, <3>4 DEF Awaits
    <3>5. CASE x[1] # t BY <1>1, <3>1, <3>2, <3>3, <3>5
    <3> QED BY <3>4, <3>5
  <2>2. m \in Caller \X {"user", "assistant"} BY <1>3
  <2> QED BY <2>1, <2>2 DEF Unwritten
<1> HIDE DEF m
<1>9. /\ longer \in Seq(HistoryMessage) /\ Range(longer) = Range(cache) \cup {m}
      /\ InOrder(longer) /\ Len(longer) = Len(cache) + 1
  BY <1>1, <1>4, <1>7, AppendRange, AppendInOrder, AppendProperties
  DEF HistoryTyped, MatchInv, WrittenOnce
<1>10. Len(cache) \in Nat /\ MaxHistory \in Nat
  BY <1>1, LenProperties, MaxHistoryAssumption DEF HistoryTyped
<1> HIDE DEF longer
<1>11. /\ InOrder(cache') /\ Range(cache') \subseteq Range(longer)
       /\ Room => \A x \in Range(longer) \ Range(cache') : Dropped(x)'
  BY <1>2, <1>9, NewestInOrder, NewestRange DEF Dropped, Earlier, EarlierUser
<1>12. /\ \A x \in Range(cache) : ~Earlier(x) => Remembered(pc'[x[1]], x[2])
       /\ \A x \in Range(rows) \cup expired : ~Earlier(x) => Recorded(pc'[x[1]], x[2])
  BY <1>1, <1>5, PlacesKept DEF MatchInv
<1>13. \A x \in Range(cache') : ~Earlier(x) => Remembered(pc'[x[1]], x[2])
  BY <1>6, <1>9, <1>11, <1>12
<1>14. WrittenOnce' BY <1>2, <1>11, <1>12, <1>13 DEF MatchInv, WrittenOnce
<1>15. skewed' \in BOOLEAN /\ (~skewed' => ~skewed /\ ~clearing) BY <1>2
<1>16. ~skewed => cached BY <1>3 DEF MatchInv, NoLateWriter, Writing
<1>17. NoLateWriter' BY <1>2, <1>15 DEF NoLateWriter
<1>18. ASSUME Room, Alike, ~skewed' PROVE Alike'
  <2>1. /\ Range(cache) \subseteq Range(rows) \cup expired \cup Unwritten
        /\ Unwritten \subseteq Range(cache)
        /\ \A x \in Range(rows) : x \in Range(cache) \/ Dropped(x)
    BY <1>15, <1>16, <1>18 DEF Alike
  <2>2. Range(cache') \subseteq Range(rows) \cup expired \cup Unwritten'
    BY <1>8, <1>9, <1>11, <2>1
  <2>3. \A x \in Unwritten' : ~Earlier(x)
    <3>1. Unwritten' \subseteq Caller \X {"user", "assistant"} BY DEF Unwritten
    <3>2. \A x \in Caller \X {"user", "assistant"} : ~Earlier(x)
      BY EarlierAssumption DEF Earlier
    <3> QED BY <3>1, <3>2
  <2>4. Unwritten' \subseteq Range(cache')
    BY <1>8, <1>9, <1>11, <1>18, <2>1, <2>3 DEF Dropped, Earlier
  <2>5. ASSUME NEW x \in Range(rows), Dropped(x), x \notin Range(longer) PROVE Dropped(x)'
    <3>1. Len(cache') = MaxHistory
      BY <1>2, <1>9, <1>10, <2>5, NewestFull DEF Dropped
    <3>2. EarlierUser # m BY <1>4 DEF Earlier, EarlierUser
    <3> QED BY <1>9, <1>11, <2>5, <3>1, <3>2 DEF Dropped, Earlier, EarlierUser
  <2>6. \A x \in Range(rows) : x \in Range(cache') \/ Dropped(x)'
    BY <1>9, <1>11, <1>18, <2>1, <2>5
  <2> QED BY <1>2, <2>2, <2>4, <2>6 DEF Alike
<1>19. Room => Alike' BY <1>18 DEF MatchInv, Alike
<1> QED BY <1>2, <1>14, <1>15, <1>17, <1>19 DEF MatchInv, Room

(* A message of memory comes into the table, or it is noted that it is not.*)
LEMMA RecordMatch ==
  ASSUME IInv, MatchInv, NEW t \in Caller, AppendRow(t)
  PROVE  MatchInv'
<1> DEFINE m == <<t, Role(t)>>
<1>1. /\ HistoryTyped /\ HistorySized /\ pc \in [Caller -> PC] /\ clearing \in BOOLEAN
      /\ \A u \in Caller \ {t} : pc'[u] = pc[u]
  BY TurnMovesItself DEF IInv, TurnInv, HistoryInv, TurnsSound, Turn
<1>2. PICK ok \in BOOLEAN :
        /\ IF ok THEN rows' = Append(rows, m) ELSE rows' = rows
        /\ UNCHANGED <<cached, cache, expired, clearing>>
        /\ skewed' = (skewed \/ clearing \/ ~ok)
  BY DEF AppendRow, InsertRow, historyVars, memory
<1>3. \/ pc[t] = "user row" /\ pc'[t] = "assistant load" /\ Role(t) = "user"
      \/ pc[t] = "assistant row" /\ pc'[t] = "save" /\ Role(t) = "assistant"
  BY <1>1 DEF AppendRow, Role, Goto, Continue
<1>4. m \in HistoryMessage /\ ~Earlier(m) /\ m[1] = t /\ m[2] = Role(t)
  BY <1>3, OwnMessage
<1>5. Onward(t) BY <1>1, <1>3 DEF Onward, Remembered, Recorded, Final
<1>6. Recorded(pc'[m[1]], m[2]) /\ ~Recorded(pc[m[1]], m[2])
  BY <1>3, <1>4 DEF Recorded, Final
<1>7. m \notin Range(rows) \cup expired BY <1>4, <1>6 DEF MatchInv, WrittenOnce
<1>8. Unwritten' = Unwritten \ {m} /\ m \in Unwritten
  <2>1. ASSUME NEW x \in Caller \X {"user", "assistant"}
        PROVE  x \in Unwritten' <=> x \in Unwritten \ {m}
    <3>1. x[1] \in Caller /\ x[2] \in {"user", "assistant"} OBVIOUS
    <3>2. x = m <=> x[1] = t /\ x[2] = Role(t) BY <3>1
    <3>3. /\ x \in Unwritten <=> Awaits(pc[x[1]], x[2])
          /\ x \in Unwritten' <=> Awaits(pc'[x[1]], x[2])
      BY DEF Unwritten, Awaits
    <3> HIDE DEF m
    <3>4. CASE x[1] = t BY <1>3, <3>1, <3>2, <3>3, <3>4 DEF Awaits
    <3>5. CASE x[1] # t BY <1>1, <3>1, <3>2, <3>3, <3>5
    <3> QED BY <3>4, <3>5
  <2>2. m \in Unwritten BY <1>3 DEF Unwritten, Awaits
  <2> QED BY <2>1, <2>2 DEF Unwritten
<1> HIDE DEF m
<1>9. Append(rows, m) \in Seq(HistoryMessage) /\ Range(Append(rows, m)) = Range(rows) \cup {m}
  BY <1>1, <1>4, AppendRange DEF HistoryTyped
<1>10. InOrder(rows') /\ Range(rows) \subseteq Range(rows') /\ Range(rows') \subseteq Range(rows) \cup {m}
  <2>1. CASE ok
    BY <1>1, <1>2, <1>4, <1>7, <1>9, <2>1, AppendInOrder DEF HistoryTyped, MatchInv, WrittenOnce
  <2>2. CASE ~ok BY <1>2, <2>2 DEF MatchInv, WrittenOnce
  <2> QED BY <2>1, <2>2
<1>11. /\ \A x \in Range(cache) : ~Earlier(x) => Remembered(pc'[x[1]], x[2])
       /\ \A x \in Range(rows) \cup expired : ~Earlier(x) => Recorded(pc'[x[1]], x[2])
  BY <1>1, <1>5, PlacesKept DEF MatchInv
<1>12. WrittenOnce'
  BY <1>2, <1>4, <1>6, <1>7, <1>10, <1>11 DEF MatchInv, WrittenOnce
<1>13. skewed' \in BOOLEAN /\ (~skewed' => ~skewed /\ ~clearing /\ ok) BY <1>2
<1>14. ~skewed => cached BY <1>3 DEF MatchInv, NoLateWriter, Writing
<1>15. NoLateWriter' BY <1>2, <1>13, <1>14 DEF NoLateWriter
<1>16. ASSUME Alike, ~skewed' PROVE Alike'
  <2>1. Range(rows') = Range(rows) \cup {m} BY <1>2, <1>9, <1>13, <1>16
  <2>2. /\ Range(cache) \subseteq Range(rows) \cup expired \cup Unwritten
        /\ Unwritten \subseteq Range(cache)
        /\ \A x \in Range(rows) : x \in Range(cache) \/ Dropped(x)
    BY <1>13, <1>14, <1>16 DEF Alike
  <2>3. /\ Range(cache) \subseteq Range(rows') \cup expired \cup Unwritten'
        /\ Unwritten' \subseteq Range(cache)
        /\ \A x \in Range(rows') : x \in Range(cache) \/ Dropped(x)
    BY <1>8, <2>1, <2>2
  <2> QED BY <1>2, <2>3 DEF Alike, Dropped
<1>17. Alike => Alike' BY <1>16 DEF Alike
<1> QED BY <1>2, <1>12, <1>13, <1>15, <1>17 DEF MatchInv, Room

(* /start empties memory, and notes who writes meanwhile.                  *)
LEMMA ClearMatch ==
  ASSUME IInv, MatchInv, StartCommand \/ StartEnds
  PROVE  MatchInv'
<1>0. InOrder(<<>>) /\ Range(<<>>) = {} BY DEF InOrder, Range
<1>1. UNCHANGED <<pc, expired>> BY DEF StartCommand, StartEnds, local
<1>2. CASE StartCommand
  <2>1. /\ cached' = FALSE /\ cache' = <<>> /\ clearing' = TRUE /\ UNCHANGED rows
        /\ skewed' = \E t \in Caller : pc[t] \in Writing
    BY <1>2 DEF StartCommand, ClearMemory
  <2>2. WrittenOnce' BY <1>0, <1>1, <2>1 DEF MatchInv, WrittenOnce
  <2>3. skewed' \in BOOLEAN /\ (~skewed' => \A t \in Caller : pc'[t] \notin Writing)
    BY <1>1, <2>1
  <2> QED BY <2>1, <2>2, <2>3 DEF MatchInv, NoLateWriter, Alike
<1>3. CASE StartEnds
  <2>1. /\ clearing /\ clearing' = FALSE /\ UNCHANGED <<cached, cache, skewed>>
        /\ rows' = <<>> \/ rows' = rows
    BY <1>3 DEF StartEnds, ClearRows, historyVars, memory
  <2>2. WrittenOnce' BY <1>0, <1>1, <2>1 DEF MatchInv, WrittenOnce
  <2>3. ~skewed => ~cached BY <2>1 DEF MatchInv, NoLateWriter
  <2> QED BY <1>1, <2>1, <2>2, <2>3 DEF MatchInv, NoLateWriter, Alike
<1> QED BY <1>2, <1>3

(* Memory is evicted when nobody writes; rows leave the table from the     *)
(* front, and memory may keep them.                                        *)
LEMMA EvictMatch ==
  ASSUME IInv, MatchInv, Evict
  PROVE  MatchInv'
<1>0. /\ HistoryTyped /\ clearing \in BOOLEAN /\ UNCHANGED <<pc, clearing>>
      /\ InOrder(<<>>) /\ Range(<<>>) = {}
  BY DEF IInv, HistoryInv, Evict, local, InOrder, Range
<1>1. ASSUME NEW inactive \in BOOLEAN,
             inactive => \A t \in Caller : pc[t] \in {"start"} \cup Final,
             EvictMemory(inactive), skewed' = IF inactive THEN clearing ELSE skewed,
             UNCHANGED expired
      PROVE  MatchInv'
  <2>1. CASE inactive
    <3>1. /\ cached' = FALSE /\ cache' = <<>> /\ UNCHANGED rows /\ skewed' = clearing
          /\ \A t \in Caller : pc'[t] \notin Writing
      BY <1>0, <1>1, <2>1 DEF EvictMemory, Writing, Final
    <3>2. WrittenOnce' BY <1>0, <1>1, <3>1 DEF MatchInv, WrittenOnce
    <3> QED BY <1>0, <3>1, <3>2 DEF MatchInv, NoLateWriter, Alike
  <2>2. CASE ~inactive
    <3>1. cached' = cached /\ UNCHANGED <<cache, rows, skewed, expired>>
      BY <1>1, <2>2 DEF EvictMemory, MatchInv
    <3> QED BY <1>0, <3>1
      DEF MatchInv, WrittenOnce, NoLateWriter, Alike, Dropped, Room, Unwritten
  <2> QED BY <2>1, <2>2
<1>2. ASSUME NEW n \in 0..Len(rows), EvictRows(n),
             expired' = expired \cup {rows[i] : i \in 1..n}, UNCHANGED skewed
      PROVE  MatchInv'
  <2> DEFINE gone == {rows[i] : i \in 1..n}
  <2>1. rows \in Seq(HistoryMessage) /\ Len(rows) \in Nat /\ InOrder(rows)
    BY <1>0, LenProperties DEF HistoryTyped, MatchInv, WrittenOnce
  <2>2. /\ n + 1 \in 1..Len(rows) + 1 /\ (n + 1) - 1 = n
        /\ rows' = SubSeq(rows, n + 1, Len(rows)) /\ UNCHANGED <<cached, cache>>
    BY <1>2, <2>1 DEF EvictRows, memory
  <2>3. /\ InOrder(rows') /\ Range(rows) = gone \cup Range(rows')
        /\ gone \cap Range(rows') = {}
        /\ \A j \in 1..n, x \in Range(rows') : Earlier(x) =>
             rows[j] = EarlierUser /\ x = EarlierAssistant
    <3> DEFINE k == n + 1
    <3>1. k \in 1..Len(rows) + 1 /\ k - 1 = n /\ rows' = SubSeq(rows, k, Len(rows)) BY <2>2
    <3>2. gone = {rows[j] : j \in 1..k - 1} BY <3>1
    <3>3. 1..n = 1..k - 1 BY <3>1
    <3> HIDE DEF k, gone
    <3>4. /\ InOrder(rows')
          /\ Range(rows) = {rows[j] : j \in 1..k - 1} \cup Range(rows')
          /\ {rows[j] : j \in 1..k - 1} \cap Range(rows') = {}
          /\ \A j \in 1..k - 1, x \in Range(rows') : Earlier(x) =>
               rows[j] = EarlierUser /\ x = EarlierAssistant
      BY <2>1, <3>1, SuffixInOrder
    <3> QED BY <3>2, <3>3, <3>4
  <2>4. \A m \in gone, x \in Range(rows') : Earlier(x) => m = EarlierUser /\ x = EarlierAssistant
    BY <2>3
  <2>5. expired' = expired \cup gone BY <1>2
  <2>6. gone \subseteq HistoryMessage BY <1>0, <2>3, MessagesTyped
  <2> HIDE DEF gone
  <2>7. WrittenOnce' BY <1>0, <2>2, <2>3, <2>4, <2>5, <2>6 DEF MatchInv, WrittenOnce
  <2>8. Unwritten' = Unwritten BY <1>0 DEF Unwritten
  <2>9. Alike => Alike' BY <1>2, <2>2, <2>3, <2>5, <2>8 DEF Alike, Dropped
  <2> QED BY <1>0, <1>2, <2>2, <2>7, <2>9 DEF MatchInv, NoLateWriter, Room
<1> QED BY <1>1, <1>2 DEF Evict

(* Every step keeps what memory has of the rows.                           *)
LEMMA NextMatch == IInv /\ MatchInv /\ [Next]_vars => MatchInv'
<1> SUFFICES ASSUME IInv, MatchInv, [Next]_vars PROVE MatchInv' OBVIOUS
<1>1. CASE \E t \in Caller : Turn(t)
  BY <1>1, QuietTurn, LoadMatch, RememberMatch, RecordMatch DEF Turn
<1>2. CASE StartCommand \/ StartEnds \/ Evict
  BY <1>2, ClearMatch, EvictMatch
<1>3. CASE Connection \/ UNCHANGED vars
  <2>1. UNCHANGED <<pc, cached, cache, rows, skewed, expired, clearing>>
    BY <1>3 DEF Connection, vars, historyVars, memory, local, resets
  <2> QED BY <2>1
    DEF MatchInv, WrittenOnce, NoLateWriter, Alike, Dropped, Room, Unwritten
<1> QED BY <1>1, <1>2, <1>3 DEF Next

(* With nobody writing: a row that memory lacks would leave more messages  *)
(* in memory than there are rows.                                          *)
LEMMA MatchHolds == IInv /\ MatchInv => HistoryMatches
<1> SUFFICES ASSUME IInv, MatchInv, Room, \A t \in Caller : pc[t] \notin Writing,
                    cached, ~skewed, Len(rows) <= MaxHistory
             PROVE  Range(cache) \ expired = Range(rows)
  BY DEF HistoryMatches, Room
<1>1. Unwritten = {} BY DEF Unwritten, Awaits, Writing
<1>2. /\ Range(cache) \subseteq Range(rows) \cup expired
      /\ \A x \in Range(rows) : x \in Range(cache) \/ Dropped(x)
  BY <1>1 DEF MatchInv, Alike
<1>3. /\ expired \cap Range(rows) = {}
      /\ \A m \in expired, x \in Range(rows) : Earlier(x) =>
           m = EarlierUser /\ x = EarlierAssistant
  BY DEF MatchInv, WrittenOnce
<1>4. /\ IsFiniteSet(Range(cache)) /\ Cardinality(Range(cache)) = Len(cache)
      /\ IsFiniteSet(Range(rows)) /\ Cardinality(Range(rows)) = Len(rows)
  BY CountInOrder DEF IInv, HistoryInv, HistoryTyped, MatchInv, WrittenOnce
<1>5. Len(rows) \in Nat /\ MaxHistory \in Nat
  BY LenProperties, MaxHistoryAssumption DEF IInv, HistoryInv, HistoryTyped
<1>6. ASSUME NEW x \in Range(rows), Dropped(x), x \notin Range(cache) PROVE FALSE
  <2>1. Range(cache) \subseteq Range(rows) \ {x}
    BY <1>2, <1>3, <1>6 DEF Dropped, EarlierAssistant
  <2>2. /\ IsFiniteSet(Range(rows) \ {x})
        /\ Cardinality(Range(rows) \ {x}) = Cardinality(Range(rows)) - 1
    BY <1>4, FS_RemoveElement
  <2>3. Cardinality(Range(cache)) <= Cardinality(Range(rows) \ {x})
    BY <2>1, <2>2, FS_Subset
  <2> QED BY <1>4, <1>5, <1>6, <2>2, <2>3 DEF Dropped
<1> QED BY <1>2, <1>3, <1>6

(* What the model is told of the past is what a restarted process would    *)
(* read, as far as it is not noted otherwise (history.go:103 and :123).    *)
THEOREM HistoryKept == Spec => []HistoryMatches
<1>1. Init => IInv /\ MatchInv BY InitIInv, InitMatch
<1>2. IInv /\ MatchInv /\ [Next]_vars => (IInv /\ MatchInv)' BY NextIInv, NextMatch
<1> QED BY <1>1, <1>2, MatchHolds, PTL DEF Spec
=============================================================================
