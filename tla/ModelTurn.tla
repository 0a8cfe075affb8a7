----------------------------- MODULE ModelTurn -----------------------------
(***************************************************************************)
(* llm.Engine (internal/llm/engine.go) answering one user: respond and run *)
(* with the providers in their order, the tools they ask for, and what the *)
(* turn reads from and leaves in the user's history; over the session of   *)
(* McpClient and the memory and tables of History.  A user has more than   *)
(* one turn at a time when an operator asks for him while he writes, and   *)
(* /start comes at any time: neither takes his lock.                       *)
(*                                                                         *)
(* A provider's answer is one step, whatever retries it took.  Of the      *)
(* tools, two touch the state here: the list of the user's devices and the *)
(* deletion of one of them.  A call is a tool with its arguments as the    *)
(* model spelled them: the router takes the same user for "7" and for 7,   *)
(* and the results a turn keeps are filed under the spelling.              *)
(***************************************************************************)
EXTENDS McpClient, History

CONSTANTS
  Providers,       \* len(e.Providers)
  MaxIterations,   \* iterations of run: 5 in the code
  Identified,      \* tools that take a userId: its owner is looked up first
  Spellings,       \* ways to write the arguments of one call
  Scenarios        \* bounds: what may happen in a behaviour

Tool == {"list", "delete"}
Call == Tool \X Spellings

ASSUME EngineAssumption ==
  /\ Providers \in Nat \ {0} /\ MaxIterations \in Nat \ {0}
  /\ Identified \subseteq Tool

(* turns: who has a turn; candidates: how many providers take what the user*)
(* sent, text or a picture; past: an earlier process may have left rows;   *)
(* tools, calls: what the models call, and how often; clears: /start;      *)
(* faults: database calls that fail; evicts: days go by; breaks: sessions  *)
(* and calls fail; stops: the process shuts down.                          *)
ASSUME ScenarioAssumption ==
  Scenarios \subseteq
    [turns : SUBSET Caller, candidates : 0..Providers, past : BOOLEAN,
     tools : SUBSET Call, calls : Nat, clears : Nat, faults : Nat,
     evicts : BOOLEAN, breaks : BOOLEAN, stops : BOOLEAN]

(* Messages of an earlier process are nobody's.                            *)
ASSUME EarlierAssumption == "earlier" \notin Caller

VARIABLES
  pc,           \* where each turn is
  run,          \* its provider and iteration, the calls to make, those
                \* that have a result, and devices.pending, the list to save
  device,       \* the server: the device is registered
  left,         \* bounds: what is left of the scenario
  clearing,     \* /start is between its two halves
  sent,         \* history: how deletions were sent, by turn
  crossed,      \* history: a list and a deletion of two turns overlapped
  forgotten,    \* history: whose messages /start has deleted
  reloaded,     \* history: the last /start left rows, or had them read
  skewed,       \* history: memory and rows were written apart
  expired       \* history: messages that came of age in the table

local == <<pc, run>>
world == <<device, sent, crossed>>
resets == <<clearing, forgotten, reloaded, skewed, expired>>
vars == <<mcpVars, historyVars, local, world, resets, left>>

Final == {"done", "failed"}
ToolPC == {"tool", "owner", "call"}
Writing == {"user load", "user cache", "user row",
            "assistant load", "assistant cache", "assistant row"}
PC == {"start", "snapshot", "model", "save"} \cup ToolPC \cup Writing \cup Final

(* The list that the server shows, as the number of a snapshot.            *)
Listed == IF device THEN 1 ELSE 2

Run == [provider : 1..Providers, iteration : 0..MaxIterations - 1,
        queue : {<<>>} \cup {<<x>> : x \in Call} \cup (Call \X Call),
        completed : SUBSET Call, pending : 0..2]
NoRun == [provider |-> 1, iteration |-> 0, queue |-> <<>>,
          completed |-> {}, pending |-> 0]

TypeOK ==
  /\ McpTypeOK
  /\ pc \in [Caller -> PC]
  /\ run \in [Caller -> Run]
  /\ \A t \in Caller :
       /\ pc[t] \in ToolPC <=> run[t].queue # <<>>
       /\ at[t] # "out" => pc[t] \in {"owner", "call"}
  /\ Len(cache) <= MaxHistory /\ (~cached => cache = <<>>)
  /\ memSnapshot \in 0..2 /\ dbSnapshot \in 0..2
  /\ device \in BOOLEAN /\ clearing \in BOOLEAN

Init ==
  /\ left \in Scenarios
  /\ pc = [t \in Caller |-> IF t \in left.turns THEN "start" ELSE "done"]
  /\ McpInit /\ (left.breaks \/ made = 1)
  /\ \/ HistoryInit(<<>>, 0)
     \/ left.past /\ \E snapshot \in {0, 1} :
          HistoryInit(<<<<"earlier", "user">>, <<"earlier", "assistant">>>>, snapshot)
  /\ run = [t \in Caller |-> NoRun]
  /\ device = TRUE /\ clearing = FALSE
  /\ sent = [t \in Caller |-> {}] /\ crossed = FALSE
  /\ forgotten = {} /\ reloaded = FALSE
  /\ skewed = FALSE /\ expired = {}

Spend(budget) == left[budget] > 0 /\ left' = [left EXCEPT ![budget] = @ - 1]
Database(ok) == IF ok THEN UNCHANGED left ELSE Spend("faults")

Continue(t, place, r) == pc' = [pc EXCEPT ![t] = place] /\ run' = [run EXCEPT ![t] = r]
Goto(t, place) == Continue(t, place, run[t])
Leave(t) == Continue(t, "failed", NoRun)

----------------------------------------------------------------------------
(* Errors of run, and what respond does with them.                         *)

ModelError(unknown, fallback, cause) ==
  [unknown |-> unknown, fallback |-> fallback, cause |-> cause]

(* Mutant: the cause of an interrupted write is an error of the transport. *)
FallbackOnAnyCause(e) == e.fallback \/ e.cause = "transport"

FallbackEligible(e) == ~e.unknown /\ (e.fallback \/ e.cause = "transport")

(* The next provider starts from the beginning, with the results so far.   *)
Fail(t, e) ==
  IF FallbackEligible(e) /\ run[t].provider < left.candidates
  THEN Continue(t, "model", [run[t] EXCEPT !.provider = @ + 1, !.iteration = 0,
                                           !.queue = <<>>])
  ELSE Leave(t)

(* Mutant: the limit is one too far.                                       *)
IterateOnceMore(t, r) ==
  IF r.iteration < MaxIterations
  THEN Continue(t, "model", [r EXCEPT !.iteration = @ + 1])
  ELSE Leave(t)

(* The conversation goes back to the model, MaxIterations times at most.   *)
Iterate(t, r) ==
  IF r.iteration + 1 < MaxIterations
  THEN Continue(t, "model", [r EXCEPT !.iteration = @ + 1])
  ELSE Leave(t)

NextCall(t, r) ==
  IF Len(r.queue) > 1 THEN Continue(t, "tool", [r EXCEPT !.queue = Tail(@)])
                      ELSE Iterate(t, [r EXCEPT !.queue = <<>>])

----------------------------------------------------------------------------
(* respond, up to the first provider.                                      *)

Load(t, ok) ==
  /\ GetHistory(ok) /\ (ok \/ ~cached) /\ Database(ok)
  /\ reloaded' = (reloaded \/ (clearing /\ ~cached /\ ok))
  /\ skewed' = (skewed \/ clearing \/ ~ok)
  /\ UNCHANGED <<mcpVars, world, clearing, forgotten, expired>>

(* Chat, ChatWithImage, ChatWithPDF: nobody can look at the attachment.    *)
Unsupported(t) ==
  /\ pc[t] = "start" /\ left.candidates = 0 /\ Leave(t)
  /\ UNCHANGED <<mcpVars, historyVars, world, resets, left>>

Begin(t) ==
  /\ pc[t] = "start" /\ left.candidates > 0 /\ Goto(t, "snapshot")
  /\ \E ok \in BOOLEAN : Load(t, ok)

(* The database fails, and likewise the FAQ before it.                     *)
LoadSnapshot(t) ==
  /\ pc[t] = "snapshot"
  /\ \/ GetDeviceSnapshot /\ Goto(t, "model") /\ UNCHANGED left
     \/ UNCHANGED historyVars /\ Leave(t) /\ Database(FALSE)
  /\ skewed' = (skewed \/ clearing)
  /\ UNCHANGED <<mcpVars, world, clearing, forgotten, reloaded, expired>>

----------------------------------------------------------------------------
(* run: what the provider answers.                                         *)

Asks(t) ==   \* for one tool or two
  \E xs \in {<<x>> : x \in left.tools} \cup (left.tools \X left.tools) :
    /\ left.calls >= Len(xs)
    /\ left' = [left EXCEPT !.calls = @ - Len(xs)]
    /\ Continue(t, "tool", [run[t] EXCEPT !.queue = xs])

(* Mutant: promises are nudged for ever.                                   *)
PromisesAgain(t) ==
  /\ Continue(t, "model", [run[t] EXCEPT !.iteration = (@ + 1) % MaxIterations])
  /\ UNCHANGED left

Promises(t) ==   \* a bare promise; the last one is the answer
  run[t].iteration + 1 < MaxIterations /\ Iterate(t, run[t]) /\ UNCHANGED left

Replies(t) ==
  /\ Continue(t, "user load", [NoRun EXCEPT !.pending = run[t].pending])
  /\ UNCHANGED left

(* No answer after the retries, or one that is no JSON; a status, or an    *)
(* error in the body; no choice, no text, or calls that cannot be read.    *)
CallError == {ModelError(FALSE, TRUE, "transport"), ModelError(FALSE, FALSE, "none")}
ApiError == {ModelError(FALSE, fallback, "none") : fallback \in BOOLEAN}
ParseError == {ModelError(FALSE, network, "none") : network \in BOOLEAN}

Refuses(t) ==
  /\ \E e \in CallError \cup ApiError \cup ParseError : Fail(t, e)
  /\ UNCHANGED left

AskModel(t) ==
  /\ pc[t] = "model"
  /\ Asks(t) \/ Promises(t) \/ Replies(t) \/ Refuses(t)
  /\ UNCHANGED <<mcpVars, historyVars, world, resets>>

----------------------------------------------------------------------------
(* run: one tool call.  A provider that takes over gets the result of a    *)
(* call with the same name and arguments, and of no other.                 *)

Replayed(t, x) == run[t].provider > 1 /\ x \in run[t].completed

Reuse(t) ==
  /\ pc[t] = "tool" /\ Replayed(t, Head(run[t].queue))
  /\ NextCall(t, run[t])
  /\ UNCHANGED <<mcpVars, historyVars, world, resets, left>>

ToCall(t) == Continue(t, IF Head(run[t].queue)[1] \in Identified THEN "owner" ELSE "call",
                      [run[t] EXCEPT !.pending = 0])

(* invalidateDeviceSnapshot: the list and the deletion drop the snapshot   *)
(* before they are called, and do not go on when that fails.               *)
Invalidate(t) ==
  /\ pc[t] = "tool" /\ ~Replayed(t, Head(run[t].queue))
  /\ \E ok \in BOOLEAN :
       /\ SetDeviceSnapshot(0, ok) /\ Database(ok)
       /\ \/ ok /\ ToCall(t)
          \/ ~ok /\ (\E cause \in {"none", "transport"} :
                       Fail(t, ModelError(FALSE, FALSE, cause)))
  /\ skewed' = (skewed \/ clearing)
  /\ UNCHANGED <<mcpVars, world, clearing, forgotten, reloaded, expired>>

UseClient(t, write, o) ==
  \/ Enter(t, o) \/ Answered(t, o) \/ Recover(t, o) \/ Connected(t, o) \/ Again(t, o)
  \/ left.breaks /\ (Broken(t, write, o) \/ BrokenAgain(t, o))

(* The result, or the text of an error, is kept and goes to the model.     *)
ToolReturned(t, list) ==
  NextCall(t, [run[t] EXCEPT !.completed = @ \cup {Head(run[t].queue)}, !.pending = list])

(* mcp.Router.checkOwnership: any answer but the user's own account, and   *)
(* any error, refuses the call.                                            *)
CheckOwnership(t) ==
  /\ pc[t] = "owner"
  /\ \E o \in Outcome :
       /\ UseClient(t, FALSE, o)
       /\ \/ o = "going" /\ UNCHANGED local
          \/ o = "result" /\ Goto(t, "call")
          \/ o # "going" /\ ToolReturned(t, 0)
  /\ UNCHANGED <<historyVars, world, resets, left>>

Showing(t) == run[t].pending # 0
Deleting(t) == pc[t] \in {"owner", "call"} /\ Head(run[t].queue)[1] = "delete"

(* The server may have deleted the device, whatever became of the answer.  *)
Deletes(t, o) ==
  /\ device' \in IF at[t] \in {"first", "second"} THEN {device, FALSE} ELSE {device}
  /\ o = "result" => ~device'
  /\ sent' = IF at'[t] \in {"first", "second"}
             THEN [sent EXCEPT ![t] = @ \cup {[call |-> Head(run[t].queue),
                                               provider |-> run[t].provider,
                                               place |-> at'[t]]}]
             ELSE sent
  /\ crossed' = (crossed \/ (device' # device /\ (\E u \in Caller \ {t} : Showing(u))))

CallTool(t) ==
  LET x == Head(run[t].queue)[1] IN
  /\ pc[t] = "call"
  /\ \E o \in Outcome :
       /\ UseClient(t, x = "delete", o)
       /\ IF x = "delete" THEN Deletes(t, o) ELSE UNCHANGED world
       /\ \/ o = "going" /\ UNCHANGED local
          \/ o = "unknown" /\ Fail(t, ModelError(TRUE, FALSE, "transport"))
          \/ o = "result" /\ ToolReturned(t, IF x = "list" THEN Listed ELSE 0)
          \/ o = "error" /\ ToolReturned(t, 0)
  /\ UNCHANGED <<historyVars, resets, left>>

----------------------------------------------------------------------------
(* respond, with an answer: the history, then the snapshot.                *)

Role(t) == IF pc[t] \in {"user load", "user cache", "user row"}
           THEN "user" ELSE "assistant"

AppendLoad(t) ==
  /\ pc[t] \in {"user load", "assistant load"}
  /\ Goto(t, IF Role(t) = "user" THEN "user cache" ELSE "assistant cache")
  /\ \E ok \in BOOLEAN : Load(t, ok)

AppendMemory(t) ==
  /\ pc[t] \in {"user cache", "assistant cache"}
  /\ Goto(t, IF Role(t) = "user" THEN "user row" ELSE "assistant row")
  /\ AppendCache(<<t, Role(t)>>)
  /\ skewed' = (skewed \/ clearing)
  /\ UNCHANGED <<mcpVars, world, clearing, forgotten, reloaded, expired, left>>

(* A row that could not be written is only logged.                         *)
AppendRow(t) ==
  /\ pc[t] \in {"user row", "assistant row"}
  /\ Goto(t, IF Role(t) = "user" THEN "assistant load" ELSE "save")
  /\ \E ok \in BOOLEAN :
       /\ IF ok THEN InsertRow(<<t, Role(t)>>) ELSE UNCHANGED historyVars
       /\ Database(ok)
       /\ skewed' = (skewed \/ clearing \/ ~ok)
  /\ UNCHANGED <<mcpVars, world, clearing, forgotten, reloaded, expired>>

SaveSnapshot(t) ==
  LET list == run[t].pending IN
  /\ pc[t] = "save"
  /\ \/ list = 0 /\ Goto(t, "done")
        /\ UNCHANGED <<historyVars, crossed, skewed, left>>
     \/ /\ list # 0 /\ skewed' = (skewed \/ clearing)
        /\ \E ok \in BOOLEAN :
             /\ SetDeviceSnapshot(list, ok) /\ Database(ok)
             /\ Continue(t, IF ok THEN "done" ELSE "failed", NoRun)
        /\ crossed' = (crossed \/ \E u \in Caller \ {t} : Deleting(u))
  /\ UNCHANGED <<mcpVars, device, sent, clearing, forgotten, reloaded, expired>>

Turn(t) ==
  \/ Unsupported(t) \/ Begin(t) \/ LoadSnapshot(t) \/ AskModel(t)
  \/ Reuse(t) \/ Invalidate(t) \/ CheckOwnership(t) \/ CallTool(t)
  \/ AppendLoad(t) \/ AppendMemory(t) \/ AppendRow(t) \/ SaveSnapshot(t)

----------------------------------------------------------------------------
(* /start: History.Clear in its two halves.                                *)

StartCommand ==
  /\ ~clearing /\ clearing' = TRUE
  /\ Spend("clears")
  /\ ClearMemory
  /\ forgotten' = {t \in Caller : pc[t] \in Final} \cup {"earlier"}
  /\ reloaded' = FALSE
  /\ skewed' = \E t \in Caller : pc[t] \in Writing
  /\ UNCHANGED <<mcpVars, local, world, expired>>

StartEnds ==
  /\ clearing /\ clearing' = FALSE
  /\ \E ok \in BOOLEAN :
       /\ IF ok THEN ClearRows ELSE UNCHANGED historyVars
       /\ Database(ok) /\ reloaded' = (reloaded \/ ~ok)
  /\ UNCHANGED <<mcpVars, local, world, forgotten, skewed, expired>>

(* History.EvictStaleEntries, every hour.  A turn is over within minutes:   *)
(* what it has written, and that the user is active, is not old before.    *)
Evict ==
  /\ left.evicts
  /\ \/ \E inactive \in BOOLEAN :
          /\ inactive => \A t \in Caller : pc[t] \in {"start"} \cup Final
          /\ EvictMemory(inactive)
          /\ skewed' = IF inactive THEN clearing ELSE skewed
          /\ UNCHANGED expired
     \/ \E n \in 0..Len(rows) :
          /\ \A i \in 1..n, t \in Caller : rows[i][1] = t => pc[t] \in Final
          /\ EvictRows(n)
          /\ expired' = expired \cup {rows[i] : i \in 1..n}
          /\ UNCHANGED skewed
  /\ UNCHANGED <<mcpVars, local, world, clearing, forgotten, reloaded, left>>

(* The connection's own goroutine, shutdown, and the server.               *)
Connection ==
  /\ \/ left.breaks /\ (Retry \/ SessionLost)
     \/ left.stops /\ (RetryStops \/ Close)
  /\ UNCHANGED <<historyVars, local, world, resets, left>>

Next == (\E t \in Caller : Turn(t)) \/ StartCommand \/ StartEnds \/ Evict \/ Connection

(* A turn's calls end: each request to a provider, a server or the         *)
(* database has a time limit, and a goroutine that waits for c.recovery    *)
(* gets it (sync.Mutex hands over to a waiter that starves).               *)
Fairness ==
  /\ \A t \in Caller : WF_vars(Turn(t)) /\ SF_vars(Turn(t) /\ at[t] = "recover")
  /\ WF_vars(Connection /\ RetryConnected)
  /\ WF_vars(StartEnds)

Spec == Init /\ [][Next]_vars /\ Fairness

----------------------------------------------------------------------------
(* A deletion is not sent twice by accident (client.go:207, engine.go:161  *)
(* and :239): never on a second session; while the turn may still call     *)
(* tools, every deletion it has sent has a result, so that one which was   *)
(* interrupted is followed by nothing; and a provider that takes over does *)
(* not send what an earlier one has sent, as long as it spells the call    *)
(* the same way: otherwise it is a new call, and the device is deleted     *)
(* again.                                                                  *)
DeletedOnce == \A t \in Caller :
  /\ \A s \in sent[t] : s.place = "first"
  /\ pc[t] \in {"model", "tool", "owner"} =>
       \A s \in sent[t] : s.call \in run[t].completed
  /\ \A s, z \in sent[t] : s.call = z.call => s.provider = z.provider

(* The list kept for the next message does not show a device that has been *)
(* deleted, whatever failed between: memory, the table and the server      *)
(* agree, unless two turns of the user had a list and a deletion at the    *)
(* same time (devices.go:21, history.go:68).                               *)
SnapshotFresh ==
  ~crossed /\ ~device => memSnapshot # 1 /\ dbSnapshot # 1

(* A caller that lost its session drops that one and no other: whatever a  *)
(* second caller or RetryConnection has installed since is used as it is   *)
(* (client.go:215).                                                        *)
OwnSessionReplaced ==
  [][\A t \in Caller : at[t] = "recover" /\ at'[t] = "connect"
       => session \in {NoSession, mine[t]}]_vars

(* After /start nothing that had been said before is in memory, where the  *)
(* next turn reads it, or in the table, although turns go on beside it (one*)
(* that has loaded tells its model what it loaded); the exceptions are a   *)
(* turn that reads the rows between the two halves of Clear, and a failed  *)
(* deletion (history.go:194).                                              *)
ResetHolds ==
  ~clearing /\ ~reloaded =>
    \A m \in Range(cache) \cup Range(rows) : m[1] \notin forgotten

(* With nobody writing, what the model is told of the past is what a       *)
(* restarted process would read, and rows that have come of age since; but *)
(* for a failed load or insert and for writes that overlap /start, until   *)
(* the user is evicted from memory (history.go:103, :123 and :226).  Turns *)
(* at the same time may write the two in different orders: what is kept is *)
(* the same only while all they write has room.                            *)
HistoryMatches ==
  /\ 2 * Cardinality(Caller) <= MaxHistory
  /\ \A t \in Caller : pc[t] \notin Writing
  /\ cached /\ ~skewed /\ Len(rows) <= MaxHistory
  => Range(cache) \ expired = Range(rows)

(* Every turn ends: the models stop asking or are stopped, and no session, *)
(* however often it is lost, keeps a turn waiting (engine.go:217,          *)
(* client.go:213).                                                         *)
TurnEnds == \A t \in Caller : <>(pc[t] \in Final)
=============================================================================
