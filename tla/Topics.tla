------------------------------- MODULE Topics -------------------------------
(***************************************************************************)
(* bot.Forwarder (internal/bot/forwarder.go) over the table topic_mappings *)
(* and a Telegram group whose topics may be deleted: a user's topic is     *)
(* found, renamed, created or replaced under his topic lock; reports of    *)
(* his Telegram messages and of his tickets go to it without the lock, and *)
(* set the ticket that an operator's answer in the topic is sent to.       *)
(*                                                                         *)
(* A Worker is a goroutine inside a call of the forwarder: a user's turn,  *)
(* a handler of the router or a ticket's turn, so several of one user run  *)
(* at a time.  A call to the database or to Telegram is a step of its own. *)
(* The topic lock appears as what KeyedLock guarantees.                    *)
(***************************************************************************)
EXTENDS Integers, FiniteSets

CONSTANTS
  User,
  Cabinet,       \* users of the panel without Telegram: ids below 0
  Ticket, NoTicket,
  Owner,         \* Owner[k]: the user ticket k belongs to
  Worker,
  MaxCalls,      \* bound: calls of the forwarder and messages in Telegram
  MaxTopics,     \* bound: topics Telegram creates
  MaxDeletions,  \* bound: topics deleted in Telegram
  MaxFaults      \* bound: calls that fail for no reason of the model's

ASSUME UserAssumption == User # {} /\ Cabinet \subseteq User
ASSUME TicketAssumption == NoTicket \notin Ticket /\ Owner \in [Ticket -> User]
ASSUME BoundAssumption ==
  {MaxCalls, MaxTopics, MaxDeletions, MaxFaults} \subseteq Nat

VARIABLES
  row,         \* row[u]: the user's row of topic_mappings, or NoRow
  live,        \* topics of the group, each with the user it was created for
  pc, job,     \* the workers and what each was called with
  existing,    \* existing[w]: the row Topic read
  topic,       \* topic[w]: the topic Topic created or returned
  recreate,    \* recreate[w]: the argument of Topic
  calls, created, deletions, faults,   \* bounds
  lastSet,     \* history: the ticket last set for the user's topic
  overwrote,   \* history: workers that saved a row they had read before
  givenUp,     \* history: topics a copy failed in or that were never saved
  dropped      \* history: users a report of whom was given up

table == <<row, lastSet, overwrote>>
group == <<live, created, deletions>>
work == <<pc, job, existing, topic, recreate>>
vars == <<table, group, work, calls, faults, givenUp, dropped>>

NoTopic == 0
Topic == 1..MaxTopics
Row == [topic : Topic, ticket : Ticket \cup {NoTicket}]
NoRow == [topic |-> NoTopic, ticket |-> NoTicket]

Kind == {"forward",   \* Forward of messages written in Telegram
         "mirror",    \* Forward of a ticket's turn, with nothing to copy
         "media",     \* ForwardMedia
         "error"}     \* Error

Job == [user : User, kind : Kind, ticket : Ticket \cup {NoTicket}]

PC == {"idle", "topic", "found", "create", "save", "copy", "send", "set",
       "upload"}

TypeOK ==
  /\ row \in [User -> Row \cup {NoRow}]
  /\ live \subseteq Topic \X User
  /\ pc \in [Worker -> PC]
  /\ job \in [Worker -> Job]
  /\ existing \in [Worker -> Row \cup {NoRow}]
  /\ topic \in [Worker -> Topic \cup {NoTopic}]
  /\ recreate \in [Worker -> Topic \cup {NoTopic}]
  /\ calls \in 0..MaxCalls /\ created \in 0..MaxTopics
  /\ deletions \in 0..MaxDeletions /\ faults \in 0..MaxFaults
  /\ lastSet \in [User -> Ticket \cup {NoTicket}]
  /\ overwrote \subseteq Worker
  /\ givenUp \subseteq Topic
  /\ dropped \subseteq User

Init ==
  /\ row = [u \in User |-> NoRow]
  /\ live = {}
  /\ pc = [w \in Worker |-> "idle"]
  /\ job = [w \in Worker |-> [user |-> CHOOSE u \in User : TRUE,
                             kind |-> "forward", ticket |-> NoTicket]]
  /\ existing = [w \in Worker |-> NoRow]
  /\ topic = [w \in Worker |-> NoTopic]
  /\ recreate = [w \in Worker |-> NoTopic]
  /\ calls = 0 /\ created = 0 /\ deletions = 0 /\ faults = 0
  /\ lastSet = [u \in User |-> NoTicket]
  /\ overwrote = {} /\ givenUp = {} /\ dropped = {}

U(w) == job[w].user
Exists(t) == \E u \in User : <<t, u>> \in live
GoTo(w, label) == pc' = [pc EXCEPT ![w] = label]
Fault == faults < MaxFaults /\ faults' = faults + 1
Call == calls < MaxCalls /\ calls' = calls + 1

----------------------------------------------------------------------------
(* The rows.                                                               *)

SaveTopic(u, r) == row' = [row EXCEPT ![u] = r]

(* Updates nothing for a user without a row.                               *)
SetActiveTicket(u, k) ==
  /\ row' = IF row[u] = NoRow THEN row ELSE [row EXCEPT ![u].ticket = k]
  /\ lastSet' = [lastSet EXCEPT ![u] = IF row[u] = NoRow THEN NoTicket ELSE k]

DeleteTopic(u, t) ==
  row' = IF row[u].topic = t THEN [row EXCEPT ![u] = NoRow] ELSE row

(* Mutant: no update when the row read before has the ticket already.      *)
SetTicketIfNew(w) ==
  IF existing[w].ticket = job[w].ticket THEN UNCHANGED <<row, lastSet>>
  ELSE SetActiveTicket(U(w), job[w].ticket)

----------------------------------------------------------------------------
(* Calls of the forwarder, and the router's handling of any message in a   *)
(* private chat, which first of all leaves the ticket.                     *)

Start(w, u, kind, k) ==
  /\ pc[w] = "idle" /\ Call
  /\ kind \in {"forward", "error"} => u \notin Cabinet /\ k = NoTicket
  /\ kind \in {"mirror", "media"} => k \in Ticket /\ Owner[k] = u
  /\ job' = [job EXCEPT ![w] = [user |-> u, kind |-> kind, ticket |-> k]]
  /\ recreate' = [recreate EXCEPT ![w] = NoTopic]
  /\ GoTo(w, "topic")
  /\ UNCHANGED <<table, group, existing, topic, faults, givenUp, dropped>>

TelegramMessage(u) ==
  /\ u \notin Cabinet /\ row[u].ticket # NoTicket /\ Call
  /\ SetActiveTicket(u, NoTicket)
  /\ UNCHANGED <<group, work, overwrote, faults, givenUp, dropped>>

----------------------------------------------------------------------------
(* Topic, under the topic lock of the user.                                *)

Locked(u) == \E v \in Worker : U(v) = u /\ pc[v] \in {"found", "create", "save"}

(* Topic returns t: the caller goes on.                                    *)
Return(w, t) ==
  /\ topic' = [topic EXCEPT ![w] = t]
  /\ GoTo(w, CASE job[w].kind = "forward" -> "copy"
               [] job[w].kind = "mirror" -> "send"
               [] OTHER -> "set")

(* Topic returns 0, or the copy fails again: the caller gives up.          *)
GiveUp(w) ==
  /\ GoTo(w, "idle")
  /\ dropped' = dropped \cup {U(w)}

(* Mutant: the row's topic is replaced whichever topic the caller missed.  *)
ReadRowReplaces(w) ==
  LET r == row[U(w)]
  IN  /\ pc[w] = "topic" /\ ~Locked(U(w))
      /\ existing' = [existing EXCEPT ![w] = r]
      /\ IF r # NoRow /\ recreate[w] = NoTopic
         THEN GoTo(w, "found") /\ UNCHANGED row
         ELSE GoTo(w, "create") /\ DeleteTopic(U(w), r.topic)
      /\ UNCHANGED <<group, job, topic, recreate, calls, faults, lastSet,
                     overwrote, givenUp, dropped>>

(* The row is read and, if it names the topic to be replaced, deleted.     *)
ReadRow(w) ==
  LET r == row[U(w)]
  IN  /\ pc[w] = "topic" /\ ~Locked(U(w))
      /\ existing' = [existing EXCEPT ![w] = r]
      /\ IF r # NoRow /\ r.topic # recreate[w]
         THEN GoTo(w, "found") /\ UNCHANGED row
         ELSE GoTo(w, "create") /\ DeleteTopic(U(w), recreate[w])
      /\ UNCHANGED <<group, job, topic, recreate, calls, faults, lastSet,
                     overwrote, givenUp, dropped>>

(* The name is as stored, or cannot be changed, or the user is of Telegram.*)
UseFound(w) ==
  /\ pc[w] = "found"
  /\ Return(w, existing[w].topic)
  /\ UNCHANGED <<table, group, job, existing, recreate, calls, faults,
                 givenUp, dropped>>

(* A cabinet user's name has changed: Telegram renamed the topic, and the  *)
(* row is saved as it was read, or the save fails.                         *)
SaveRenamed(w) ==
  /\ pc[w] = "found" /\ U(w) \in Cabinet /\ Exists(existing[w].topic)
  /\ SaveTopic(U(w), existing[w])
  /\ overwrote' = overwrote \cup {w}
  /\ Return(w, existing[w].topic)
  /\ UNCHANGED <<group, job, existing, recreate, calls, faults, lastSet,
                 givenUp, dropped>>

CreateTopic(w) ==
  /\ pc[w] = "create" /\ created < MaxTopics
  /\ created' = created + 1
  /\ live' = live \cup {<<created + 1, U(w)>>}
  /\ topic' = [topic EXCEPT ![w] = created + 1]
  /\ GoTo(w, "save")
  /\ UNCHANGED <<table, job, existing, recreate, calls, deletions, faults,
                 givenUp, dropped>>

SaveCreated(w) ==
  /\ pc[w] = "save"
  /\ SaveTopic(U(w), [topic |-> topic[w], ticket |-> NoTicket])
  /\ lastSet' = [lastSet EXCEPT ![U(w)] = NoTicket]
  /\ Return(w, topic[w])
  /\ UNCHANGED <<group, job, existing, recreate, calls, faults, overwrote,
                 givenUp, dropped>>

(* A database or Telegram call of Topic fails.  A topic that was created   *)
(* stays in the group.                                                     *)
TopicFails(w) ==
  /\ pc[w] \in {"topic", "create", "save"} /\ Fault
  /\ pc[w] = "topic" => ~Locked(U(w))
  /\ givenUp' = IF pc[w] = "save" THEN givenUp \cup {topic[w]} ELSE givenUp
  /\ GiveUp(w)
  /\ UNCHANGED <<table, group, job, existing, topic, recreate, calls>>

----------------------------------------------------------------------------
(* Forward, ForwardMedia and Error after Topic, without the lock.          *)

CopyFirst(w) ==
  /\ pc[w] = "copy" /\ Exists(topic[w])
  /\ GoTo(w, "send")
  /\ UNCHANGED <<table, group, job, existing, topic, recreate, calls, faults,
                 givenUp, dropped>>

(* Mutant: the attempt counts as the second when the topic is not the one  *)
(* the row names any more.                                                 *)
CopyFailsOnce(w) ==
  /\ pc[w] = "copy"
  /\ IF Exists(topic[w]) THEN Fault ELSE UNCHANGED faults
  /\ givenUp' = givenUp \cup {topic[w]}
  /\ IF recreate[w] = NoTopic /\ row[U(w)].topic = topic[w]
     THEN /\ recreate' = [recreate EXCEPT ![w] = topic[w]]
          /\ GoTo(w, "topic")
          /\ UNCHANGED dropped
     ELSE GiveUp(w) /\ UNCHANGED recreate
  /\ UNCHANGED <<table, group, job, existing, topic, calls>>

(* The first copy fails, as the topic is gone or for another reason: Topic *)
(* is asked to replace the topic, once.                                    *)
CopyFails(w) ==
  /\ pc[w] = "copy"
  /\ IF Exists(topic[w]) THEN Fault ELSE UNCHANGED faults
  /\ givenUp' = givenUp \cup {topic[w]}
  /\ IF recreate[w] = NoTopic
     THEN /\ recreate' = [recreate EXCEPT ![w] = topic[w]]
          /\ GoTo(w, "topic")
          /\ UNCHANGED dropped
     ELSE GiveUp(w) /\ UNCHANGED recreate
  /\ UNCHANGED <<table, group, job, existing, topic, calls>>

(* The report and what goes with it; whether it arrives is not looked at.  *)
SendReport(w) ==
  /\ pc[w] = "send"
  /\ GoTo(w, IF job[w].kind = "error" THEN "idle" ELSE "set")
  /\ UNCHANGED <<table, group, job, existing, topic, recreate, calls, faults,
                 givenUp, dropped>>

AfterSet(w) == CASE job[w].kind = "media" -> "upload"
                 [] job[w].kind = "error" -> "send"
                 [] OTHER -> "idle"

SetTicket(w) == SetActiveTicket(U(w), job[w].ticket)

RecordTicket(w) ==
  /\ pc[w] = "set"
  /\ SetTicket(w)
  /\ overwrote' = overwrote \ {w}
  /\ GoTo(w, AfterSet(w))
  /\ UNCHANGED <<group, job, existing, topic, recreate, calls, faults,
                 givenUp, dropped>>

RecordFails(w) ==
  /\ pc[w] = "set" /\ Fault
  /\ lastSet' = [lastSet EXCEPT ![U(w)] = row[U(w)].ticket]
  /\ overwrote' = overwrote \ {w}
  /\ GoTo(w, AfterSet(w))
  /\ UNCHANGED <<row, group, job, existing, topic, recreate, calls, givenUp,
                 dropped>>

(* The attachment or, if that fails, a notice.                             *)
Upload(w) ==
  /\ pc[w] = "upload"
  /\ GoTo(w, "idle")
  /\ UNCHANGED <<table, group, job, existing, topic, recreate, calls, faults,
                 givenUp, dropped>>

(* Somebody deletes a topic in Telegram.                                   *)
DeletedInTelegram ==
  /\ deletions < MaxDeletions
  /\ deletions' = deletions + 1
  /\ \E x \in live : live' = live \ {x}
  /\ UNCHANGED <<table, created, work, calls, faults, givenUp, dropped>>

Step(w) == \/ ReadRow(w) \/ UseFound(w) \/ SaveRenamed(w)
           \/ CreateTopic(w) \/ SaveCreated(w) \/ TopicFails(w)
           \/ CopyFirst(w) \/ CopyFails(w) \/ SendReport(w)
           \/ RecordTicket(w) \/ RecordFails(w) \/ Upload(w)

Next == \/ \E w \in Worker : \/ Step(w)
                             \/ \E u \in User, kind \in Kind,
                                   k \in Ticket \cup {NoTicket} :
                                  Start(w, u, kind, k)
        \/ \E u \in User : TelegramMessage(u)
        \/ DeletedInTelegram

Spec == Init /\ [][Next]_vars

----------------------------------------------------------------------------
(* Where an operator's message in topic t goes (Router.operator).          *)
Route(t) ==
  LET owners == {u \in User : row[u] # NoRow /\ row[u].topic = t}
      u == CHOOSE v \in owners : TRUE
  IN  IF owners = {} THEN "ignored"
      ELSE IF row[u].ticket # NoTicket THEN row[u].ticket
      ELSE IF u \in Cabinet THEN "undeliverable" ELSE "private chat"

(* A topic of the group in which operators are not heard is one that a     *)
(* copy failed in, one whose row could not be saved, or one just being     *)
(* created: however many goroutines find a topic missing or gone at the    *)
(* same time, they make one topic between them, and none replaces the      *)
(* topic another has just made.                                            *)
TopicsAccounted ==
  \A x \in live :
    \/ row[x[2]].topic = x[1]
    \/ Route(x[1]) = "ignored"
       /\ \/ x[1] \in givenUp
          \/ \E w \in Worker : pc[w] = "save" /\ topic[w] = x[1]

(* A cabinet user's topic may lose the ticket set while it was renamed to  *)
(* the one read before (forwarder.go:88), but only until the same call     *)
(* sets its own: operators answer the ticket last set for the topic.       *)
RouteSettles ==
  \A u \in User :
    row[u] # NoRow /\ row[u].ticket # lastSet[u] =>
      \E w \in overwrote : U(w) = u /\ pc[w] \in {"send", "set"}

(* With every call working, a topic that is deleted under two of a user's  *)
(* forwards costs neither its report: each copies its message again, into  *)
(* the one topic that takes the place of the old.                          *)
DeletionLosesNoReport ==
  faults = 0 /\ deletions <= 1 => dropped = {}
=============================================================================
