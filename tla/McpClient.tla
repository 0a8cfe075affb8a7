----------------------------- MODULE McpClient -----------------------------
(***************************************************************************)
(* mcp.HTTPClient (internal/mcp/client.go): one session with an MCP server *)
(* shared by all turns, replaced when it is lost.  Calls read the session  *)
(* and its generation and use it without a lock; whoever wants another one *)
(* takes c.recovery, and connect drops the old session before it asks for  *)
(* the new, so that there is none while it works.                          *)
(*                                                                         *)
(* The actions are for a module that composes them with what calls and     *)
(* with the server: they leave alone the caller's variables.  An action is *)
(* one critical section of c.mu, or one exchange with the server.          *)
(***************************************************************************)
EXTENDS Integers, FiniteSets

CONSTANTS
  Caller,        \* goroutines that call tools
  MaxSessions    \* bound: sessions the server grants

ASSUME MaxSessionsAssumption == MaxSessions \in Nat
ASSUME CallerAssumption ==
  IsFiniteSet(Caller) /\ "nobody" \notin Caller /\ "retry" \notin Caller

VARIABLES
  session,     \* c.session, or NoSession
  generation,  \* c.generation
  closed,      \* c.closed
  made,        \* number of sessions granted so far: their names
  shut,        \* sessions this side has closed
  lost,        \* sessions the server or the network has dropped
  recovery,    \* who holds c.recovery, or "nobody"
  at,          \* where each caller is inside CallTool
  mine, gen,   \* session and generation a caller read
  retry        \* the goroutine of RetryConnection

NoSession == 0
Session == 1..MaxSessions
client == <<session, generation, closed, made, shut, lost, recovery>>
callers == <<at, mine, gen>>
mcpVars == <<client, callers, retry>>

McpTypeOK ==
  /\ session \in Session \cup {NoSession}
  /\ generation \in 0..MaxSessions /\ made \in 0..MaxSessions
  /\ closed \in BOOLEAN
  /\ shut \subseteq Session /\ lost \subseteq Session
  /\ recovery \in Caller \cup {"nobody", "retry"}
  /\ at \in [Caller -> {"out", "first", "recover", "connect", "again", "second"}]
  /\ mine \in [Caller -> Session \cup {NoSession}]
  /\ gen \in [Caller -> 0..MaxSessions]
  /\ retry \in {"waiting", "looked", "connect", "stopped"}

(* main.go has tried to connect once, and goes on whether it worked or not.*)
McpInit ==
  /\ made \in {0, 1} \cap 0..MaxSessions
  /\ session = made /\ generation = made
  /\ closed = FALSE /\ shut = {} /\ lost = {} /\ recovery = "nobody"
  /\ at = [c \in Caller |-> "out"]
  /\ mine = [c \in Caller |-> NoSession] /\ gen = [c \in Caller |-> 0]
  /\ retry = "waiting"

(* What an action of CallTool returns: "going" is that it has not yet, a   *)
(* "result" what the tool returned, an "error" the text of an error, and   *)
(* "unknown" a Go error.                                                   *)
Outcome == {"going", "result", "error", "unknown"}

Go(c, place, o) == o = "going" /\ at' = [at EXCEPT ![c] = place]
Return(c) == /\ at' = [at EXCEPT ![c] = "out"]
             /\ mine' = [mine EXCEPT ![c] = NoSession] /\ gen' = [gen EXCEPT ![c] = 0]
Error(c, o) == o = "error" /\ Return(c)

----------------------------------------------------------------------------
(* connect, by the holder of c.recovery: its first critical section drops  *)
(* the session, its last one installs the new.                             *)

(* Mutant: connect is called without c.recovery.                           *)
DropUnlocked(who) ==
  /\ recovery' = who
  /\ session' = NoSession
  /\ shut' = IF session = NoSession THEN shut ELSE shut \cup {session}
  /\ UNCHANGED <<generation, closed, made, lost>>

Drop(who) ==
  /\ recovery = "nobody" /\ recovery' = who
  /\ session' = NoSession
  /\ shut' = IF session = NoSession THEN shut ELSE shut \cup {session}
  /\ UNCHANGED <<generation, closed, made, lost>>

Install ==
  /\ made < MaxSessions
  /\ made' = made + 1
  /\ session' = made + 1
  /\ generation' = generation + 1
  /\ recovery' = "nobody"
  /\ UNCHANGED <<closed, shut, lost>>

(* No connection, an error while the tools are listed, or a list without   *)
(* an end: a session already granted is closed.                            *)
NotInstalled ==
  /\ \/ UNCHANGED <<made, shut>>
     \/ made < MaxSessions /\ made' = made + 1 /\ shut' = shut \cup {made + 1}
  /\ recovery' = "nobody"
  /\ UNCHANGED <<session, generation, closed, lost>>

----------------------------------------------------------------------------
(* CallTool.                                                               *)

Enter(c, o) ==
  /\ at[c] = "out"
  /\ IF session = NoSession \/ closed
     THEN Error(c, o)
     ELSE /\ Go(c, "first", o)
          /\ mine' = [mine EXCEPT ![c] = session]
          /\ gen' = [gen EXCEPT ![c] = generation]
  /\ UNCHANGED <<client, retry>>

Usable(c) == mine[c] \notin lost \cup shut

(* The server answered: a result, or an error of the tool.                 *)
Answered(c, o) ==
  /\ at[c] \in {"first", "second"} /\ Usable(c)
  /\ o \in {"result", "error"} /\ Return(c)
  /\ UNCHANGED <<client, retry>>

(* The exchange failed: an error nobody can recover from is a text for the *)
(* model; a read asks for another session; the one write must not be sent  *)
(* twice.  Whatever the tool, the context of the turn may have ended.      *)
Broken(c, write, o) ==
  /\ at[c] = "first"
  /\ \/ o \in {"error", "unknown"} /\ Return(c)
     \/ ~write /\ Go(c, "recover", o) /\ UNCHANGED <<mine, gen>>
  /\ UNCHANGED <<client, retry>>

BrokenAgain(c, o) ==
  /\ at[c] = "second" /\ Error(c, o)
  /\ UNCHANGED <<client, retry>>

(* Mutant: whoever lost a session connects, also when another has.         *)
AnyGeneration(c) == TRUE

SameGeneration(c) == generation = gen[c]

Recover(c, o) ==
  /\ at[c] = "recover"
  /\ IF SameGeneration(c) /\ ~closed
     THEN Drop(c) /\ Go(c, "connect", o) /\ UNCHANGED <<mine, gen>>
     ELSE /\ recovery = "nobody"
          /\ IF ~SameGeneration(c) /\ session # NoSession
             THEN Go(c, "again", o) /\ UNCHANGED <<mine, gen>>
             ELSE Error(c, o)
          /\ UNCHANGED client
  /\ UNCHANGED retry

Connected(c, o) ==
  /\ at[c] = "connect"   \* holding c.recovery
  /\ \/ Install /\ Go(c, "again", o) /\ UNCHANGED <<mine, gen>>
     \/ NotInstalled /\ Error(c, o)
  /\ UNCHANGED retry

Again(c, o) ==
  /\ at[c] = "again"
  /\ IF session = NoSession
     THEN Error(c, o)
     ELSE /\ Go(c, "second", o)
          /\ mine' = [mine EXCEPT ![c] = session] /\ UNCHANGED gen
  /\ UNCHANGED <<client, retry>>

----------------------------------------------------------------------------
(* RetryConnection looks before it takes c.recovery, and connects then.    *)

RetryLooks ==
  /\ retry = "waiting" /\ session = NoSession
  /\ retry' = "looked"
  /\ UNCHANGED <<client, callers>>

RetryConnects ==
  /\ retry = "looked" /\ Drop("retry")
  /\ retry' = "connect"
  /\ UNCHANGED callers

RetryConnected ==
  /\ retry = "connect"
  /\ Install \/ NotInstalled
  /\ retry' = "waiting"
  /\ UNCHANGED callers

(* Shutdown stops it and waits for it before it closes the clients.        *)
RetryStops ==
  /\ retry = "waiting"
  /\ retry' = "stopped"
  /\ UNCHANGED <<client, callers>>

Close ==
  /\ retry = "stopped" /\ recovery = "nobody" /\ ~closed
  /\ closed' = TRUE
  /\ session' = NoSession
  /\ shut' = IF session = NoSession THEN shut ELSE shut \cup {session}
  /\ UNCHANGED <<generation, made, lost, recovery, callers, retry>>

(* The server restarts or forgets the session.                             *)
SessionLost ==
  /\ session \notin lost \cup {NoSession}
  /\ lost' = lost \cup {session}
  /\ UNCHANGED <<session, generation, closed, made, shut, recovery, callers, retry>>

Retry == RetryLooks \/ RetryConnects \/ RetryConnected

----------------------------------------------------------------------------
(* Of all sessions the server granted, the current one is open and every   *)
(* other was closed by this side, whoever lost, replaced or refused it;    *)
(* after Close there is none, although turns may still be reconnecting.    *)
SessionsAccounted ==
  /\ \A s \in 1..made : s = session \/ s \in shut
  /\ closed => session = NoSession
=============================================================================
