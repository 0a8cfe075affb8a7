------------------------------- MODULE Intake -------------------------------
(***************************************************************************)
(* How updates of Telegram reach the buffer, and how the process ends: poll*)
(* and run (cmd/supportbot/main.go) with Router.Handle for what users write*)
(* in private, over Buffer.  Every update has a goroutine of its own;      *)
(* asking for the next ones tells Telegram that the ones before have been  *)
(* received, handled or not.  The process may die at any moment, and the   *)
(* next one gets what Telegram was not told about.                         *)
(*                                                                         *)
(* What an update brings shows when it is handled.                         *)
(***************************************************************************)
EXTENDS Buffer

CONSTANTS
  MaxUpdates,   \* bound: updates, numbered in their order
  Scenarios     \* bounds: what may happen in a behaviour

(* waiting: updates that are there at the start; more: those still to come;*)
(* kinds: what they bring; failures: of getUpdates; stops: the process may *)
(* be told to end; starts: how often it is started again.                  *)
ASSUME ScenarioAssumption == \A s \in Scenarios :
  /\ {s.waiting, s.more, s.failures, s.starts} \subseteq Nat
  /\ s.waiting + s.more <= MaxUpdates
  /\ s.kinds \subseteq Kind \cup {"/start"} /\ s.stops \in BOOLEAN

VARIABLES
  written,    \* Telegram: updates so far
  confirmed,  \* Telegram: those it will not deliver again
  offset,     \* poll: the first one to ask for
  polling,    \* poll: it has not left its loop
  handling,   \* poll: inflight, the updates in Router.Handle
  stopping,   \* run: cancelPoll was called
  left,       \* bounds: what is left of the scenario
  done,       \* history: updates whose Handle returned with a result
  received,   \* history: the last update a process has got
  latest,     \* history: what getUpdates returned last to this process
  unsure,     \* history: what it had returned last to those that ended
  repeated,   \* history: updates that were received again
  cut         \* history: a process died or did not wait for its handlers

telegram == <<written, confirmed>>
intake == <<offset, polling, handling, stopping>>
receipts == <<received, latest, unsure, repeated>>
seen == <<done, receipts, cut>>
allVars == <<vars, telegram, intake, left, seen>>

Starting == offset = 0 /\ polling = TRUE /\ handling = {} /\ stopping = FALSE

IntakeInit ==
  /\ Init /\ Starting
  /\ left \in Scenarios
  /\ written = left.waiting /\ confirmed = 0
  /\ done = {} /\ cut = FALSE
  /\ received = 0 /\ latest = {} /\ unsure = {} /\ repeated = {}

Alive == drain # "down"
Spend(budget) == left[budget] > 0 /\ left' = [left EXCEPT ![budget] = @ - 1]

Writes ==
  /\ Spend("more") /\ written' = written + 1
  /\ UNCHANGED <<vars, confirmed, intake, seen>>

----------------------------------------------------------------------------
(* poll.                                                                   *)

(* What Telegram takes from a request that reaches it.                     *)
Confirmed == Max({confirmed, offset - 1})

(* Mutant: the next request names the last update once more.               *)
OffsetOfLast(new) == IF new = {} THEN offset ELSE Max(new)

NextOffset(new) == IF new = {} THEN offset ELSE Max(new) + 1

Poll ==
  /\ Alive /\ polling /\ ~stopping
  /\ confirmed' = Confirmed
  /\ LET new == {n \in confirmed' + 1..written : n >= offset} IN
       /\ new # {} \/ confirmed' # confirmed
       /\ offset' = NextOffset(new)
       /\ handling' = handling \cup new
       /\ received' = Max(new \cup {received})
       /\ repeated' = repeated \cup (new \cap 1..received)
       /\ latest' = new
  /\ UNCHANGED <<vars, written, polling, stopping, left, done, unsure, cut>>

(* Nobody knows whether Telegram got the request.                          *)
PollFails ==
  /\ Alive /\ polling /\ ~stopping
  /\ Spend("failures")
  /\ confirmed' \in {confirmed, Confirmed}
  /\ UNCHANGED <<vars, written, intake, seen>>

PollEnds ==
  /\ Alive /\ polling /\ stopping
  /\ polling' = FALSE
  /\ confirmed' \in {confirmed, Confirmed}
  /\ UNCHANGED <<vars, written, offset, handling, stopping, left, seen>>

----------------------------------------------------------------------------
(* Router.Handle, for a private message.                                   *)

Handled(n) ==
  /\ handling' = handling \ {n} /\ done' = done \cup {n}
  /\ UNCHANGED <<telegram, offset, polling, stopping, left, receipts, cut>>

(* Text, or a file that could be downloaded.                               *)
HandOver(n, u, kind) ==
  /\ kind \in Kind /\ Submit(u, kind)
  /\ Handled(n)

(* Submit after Drain or Shutdown has closed the buffer: nobody is told.   *)
TooLate(n) ==
  /\ closed
  /\ handling' = handling \ {n}
  /\ UNCHANGED <<vars, telegram, offset, polling, stopping, left, seen>>

(* downloadPhoto, downloadPDF; or no model takes the file: the user is told*)
Refused(n, kind) ==
  /\ kind \in {"image", "pdf"}
  /\ Handled(n) /\ UNCHANGED vars

StartCommand(n, u) ==
  /\ IF pending[u] # NoBatch THEN Discard(u) ELSE UNCHANGED vars
  /\ Handled(n)

Handle(n) ==
  /\ Alive /\ n \in handling
  /\ \E u \in User, kind \in left.kinds :
       \/ HandOver(n, u, kind) \/ Refused(n, kind)
       \/ kind \in Kind /\ TooLate(n)
       \/ kind = "/start" /\ StartCommand(n, u)

----------------------------------------------------------------------------
(* run, from the signal on: intake, buffer, end.                           *)

Stop ==
  /\ left.stops /\ drain = "serving" /\ ~stopping /\ stopping' = TRUE
  /\ UNCHANGED <<vars, telegram, offset, polling, handling, left, seen>>

(* Mutant: poll does not wait for inflight.                                *)
PollLeft == ~polling

PollDone == ~polling /\ handling = {}

(* pollDone, or five seconds.                                              *)
IntakeEnds ==
  /\ stopping /\ StartDrain
  /\ cut' = (cut \/ ~PollDone)
  /\ UNCHANGED <<telegram, intake, left, done, receipts>>

EndOfRun ==
  /\ DrainDone \/ DrainTimeout \/ Shutdown
  /\ UNCHANGED <<telegram, intake, left, seen>>

(* The process dies, or after an orderly end is started again.             *)
Restart ==
  /\ Spend("starts")
  /\ cut' = (cut \/ Alive)
  /\ pending' = [u \in User |-> NoBatch] /\ timers' = {}
  /\ closed' = FALSE /\ wg' = 0 /\ running' = {} /\ drain' = "serving"
  /\ count' = [u \in User |-> 0] /\ sent' = [u \in User |-> <<>>]
  /\ discarded' = [u \in User |-> {}] /\ quiet' = [u \in User |-> TRUE]
  /\ offset' = 0 /\ polling' = TRUE /\ handling' = {} /\ stopping' = FALSE
  /\ latest' = {} /\ unsure' = unsure \cup latest
  /\ UNCHANGED <<telegram, done, received, repeated>>

(* The buffer's own goroutines.                                            *)
Buffered ==
  /\ \/ \E t \in timers : Elapse(t) \/ Callback(t)
     \/ \E g \in running : Finish(g)
  /\ UNCHANGED <<telegram, intake, left, seen>>

IntakeNext ==
  \/ Writes \/ Poll \/ PollFails \/ PollEnds
  \/ \E n \in 1..MaxUpdates : Handle(n)
  \/ Stop \/ IntakeEnds \/ EndOfRun \/ Restart
  \/ Buffered

(* Fairness of the buffer: nobody has to write, to poll or to stop.        *)
IntakeSpec == IntakeInit /\ [][IntakeNext]_allVars /\ Fairness

----------------------------------------------------------------------------
(* An update that Telegram will not deliver again is being handled or has  *)
(* been, through failed requests and orderly ends, as long as no process   *)
(* dies or stops waiting for its handlers; and an update is handled again  *)
(* only if it was in the last answer to a process that ended: never by the *)
(* same process, never one that had been confirmed (main.go:253-276).      *)
UpdatesAccounted ==
  /\ ~cut => 1..confirmed \subseteq handling \cup done
  /\ repeated \subseteq unsure
=============================================================================
