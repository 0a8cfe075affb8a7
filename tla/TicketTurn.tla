----------------------------- MODULE TicketTurn -----------------------------
(***************************************************************************)
(* The life of one panel ticket: the turns of the answerer (answer and the *)
(* functions it calls, internal/bedolaga/pipeline.go), the operator's      *)
(* Relay from the support topic, the stored progress and the in-memory     *)
(* state, against a panel where the customer and human operators write at  *)
(* any time, webhooks that may be lost, calls that may fail, and restarts. *)
(*                                                                         *)
(* Each remote call of a turn (panel, database, model, Telegram) is a step *)
(* of its own: everybody else runs between any two.  That one turn of the  *)
(* ticket runs at a time is the subject of TicketScheduler; its rerun flag *)
(* is kept here because a turn sets it.                                    *)
(*                                                                         *)
(* A message of the panel is its kind; its id is its position.  Statuses   *)
(* open and pending, which the code treats alike, are one.                 *)
(***************************************************************************)
EXTENDS TicketProgress, Sequences

CONSTANTS
  Kinds,        \* what the customer may write: a subset of UserKinds
  MaxInputs,    \* bound: messages of the customer and of human operators,
                \* and events of the same user in Telegram
  MaxReplies,   \* bound: replies the panel accepts to one message
  MaxFailures   \* cap of the consecutive failures a backoff counts

UserKinds == {"text",    \* a question
              "shot",    \* a question with an attachment
              "file",    \* an attachment with nothing the model can read
              "huge"}    \* one that can never be forwarded: over 50 MiB, or
                         \* without a description that the code can use

ASSUME KindsAssumption == Kinds \subseteq UserKinds
ASSUME BoundsAssumption == MaxInputs \in Nat /\ MaxReplies \in Nat \ {0}
ASSUME MaxFailuresAssumption == MaxFailures \in Nat \ {0}

VARIABLES
  msgs, status,             \* the panel's ticket
  row,                      \* its bedolaga_ticket_state row
  rerun,                    \* a.rerun[ticket]
  backoff,                  \* a.backoff[ticket]: failures, ticks left
  operatorAge,              \* age of State.operators[user]
  hot,                      \* Rate.last[user] is less than its interval ago
  pc, seen, seenStatus, p, item, posted,   \* the turn
  relay,                    \* the operator's message being recorded, or "none"
  delivered,                \* history: attachments that reached the topic
  elsewhere,                \* bound: events of the user in Telegram
  outages,                  \* environment: calls may fail, the process may die
  topic                     \* environment: nobody deleted the user's topic

panel == <<msgs, status>>
memory == <<backoff, operatorAge, hot>>
turn == <<pc, seen, seenStatus, p, item, posted>>
vars == <<panel, row, rerun, memory, turn, relay, delivered, elsewhere, outages, topic>>

PC == {"idle", "read", "progress", "resolve", "forward", "mark",
       "decide", "model", "post", "record", "reconcile"}

Message == [kind : UserKinds \cup {"bot", "human"}, re : Nat, age : Ages]

NoRelay == -1

TypeOK ==
  /\ msgs \in Seq(Message)
  /\ status \in {"open", "answered", "closed"}
  /\ row \in Progress
  /\ rerun \in BOOLEAN
  /\ backoff \in [failures : 0..MaxFailures, left : 0..MaxFailures]
  /\ operatorAge \in Ages
  /\ hot \in BOOLEAN
  /\ pc \in PC
  /\ seen \in 0..Len(msgs)
  /\ seenStatus \in {"open", "answered", "closed"}
  /\ p \in Progress
  /\ item \in 0..Len(msgs)
  /\ posted \in 0..Len(msgs)
  /\ relay \in NoRelay..Len(msgs)
  /\ delivered \in SUBSET (1..Len(msgs))
  /\ elsewhere \in 0..MaxInputs
  /\ outages \in BOOLEAN
  /\ topic \in BOOLEAN

NoBackoff == [failures |-> 0, left |-> 0]

InitWith(mayFail) ==
  /\ msgs = <<>> /\ status = "open" /\ row = NoProgress
  /\ rerun = FALSE /\ backoff = NoBackoff
  /\ operatorAge = Suppression /\ hot = FALSE
  /\ pc = "idle" /\ seen = 0 /\ seenStatus = "open" /\ p = NoProgress
  /\ item = 0 /\ posted = NoId
  /\ relay = NoRelay /\ delivered = {} /\ elsewhere = 0
  /\ outages = mayFail /\ topic = TRUE

Init == InitWith(TRUE)

----------------------------------------------------------------------------
(* The ticket as a turn saw it: its first n messages.                      *)

IsUser(i) == msgs[i].kind \in UserKinds
HasMedia(i) == msgs[i].kind \in {"shot", "file", "huge"}
Unsendable(i) == msgs[i].kind = "huge"
MaxOr0(S) == IF S = {} THEN 0 ELSE Max(S)

LastUser(n) == MaxOr0({i \in 1..n : IsUser(i)})

Awaits(n, s) == n > 0 /\ IsUser(n) /\ s = "open"

(* Mutant: the answered watermark is written and never read.               *)
UnansweredForgets(n, s, q) ==
  LET m == LastUser(n)
  IN  IF Awaits(n, s) \/ (s = "answered" /\ q.bot > m) THEN m ELSE 0

(* The message a turn should answer, 0 for none.  The second disjunct is a *)
(* message that the bot's own reply overtook.                              *)
Unanswered(n, s, q) ==
  LET m == LastUser(n)
  IN  IF /\ m > q.answered
         /\ Awaits(n, s) \/ (s = "answered" /\ q.bot > m)
      THEN m ELSE 0

Last == Unanswered(seen, seenStatus, p)

(* Attachments the turn has to forward, in the order of their ids.         *)
Unmirrored == {i \in 1..seen : HasMedia(i) /\ i > p.mirrored}

(* Mutant: an entry of the backoff map holds the ticket back for good.     *)
BackingOffForGood == backoff.failures > 0

BackingOff == backoff.left > 0

(* The newest staff message after the bot's last known reply: a human's,   *)
(* as far as the code can tell.                                            *)
LatestHuman == IF p.bot = 0 THEN 0
               ELSE MaxOr0({i \in 1..seen : ~IsUser(i) /\ i > p.bot})

OperatorActive == operatorAge < Suppression

HumanNews == LatestHuman > p.human

HumanOwns == IF LatestHuman = 0 THEN OperatorActive
                                ELSE OperatorActive \/ HumanRecentlyActive(p)

Append1(kind, re) == Append(msgs, [kind |-> kind, re |-> re, age |-> 0])

----------------------------------------------------------------------------
(* Memory of the answerer.                                                 *)

(* clear: the ticket needs nothing, or was served.                         *)
Clear == /\ backoff' = NoBackoff
         /\ UNCHANGED <<operatorAge, hot>>

(* Mutant: no cap.                                                         *)
ReplyFailedUncapped ==
  LET n == backoff.failures + 1
  IN  /\ backoff' = [failures |-> n, left |-> n]
      /\ UNCHANGED <<operatorAge, hot>>

(* replyFailed: one, two, four... minutes, up to a cap.                    *)
ReplyFailed ==
  LET n == IF backoff.failures < MaxFailures THEN backoff.failures + 1
                                             ELSE MaxFailures
  IN  /\ backoff' = [failures |-> n, left |-> n]
      /\ UNCHANGED <<operatorAge, hot>>

(* Handle returns; the goroutine goes round when a rerun was asked for.    *)
EndTurn(again) == /\ pc' = IF again THEN "read" ELSE "idle"
                  /\ rerun' = FALSE
                  /\ seen' = 0 /\ seenStatus' = "open" /\ p' = NoProgress
                  /\ item' = 0 /\ posted' = NoId

Leave == EndTurn(rerun)

Goto(label) == /\ pc' = label
               /\ UNCHANGED rerun

(* Nothing outside the turn and the answerer's memory changes.             *)
TurnOnly == UNCHANGED <<panel, relay, elsewhere, outages, topic>>

----------------------------------------------------------------------------
(* Schedule, as seen from one ticket: start a turn or ask for another.     *)
Schedule ==
  /\ IF pc = "idle" THEN Goto("read") ELSE rerun' = TRUE /\ UNCHANGED pc
  /\ UNCHANGED <<panel, row, memory, seen, seenStatus, p, item, posted, relay, delivered,
                 elsewhere, outages, topic>>

(* The webhook handler, for a customer's message: the panel may deliver it *)
(* late, more than once, or never.                                         *)
Webhook == /\ LastUser(Len(msgs)) # 0
           /\ pc = "idle" \/ ~rerun
           /\ Schedule

(* Mutant: only the tickets the panel lists.                               *)
SweepListed == /\ status = "open"
               /\ pc = "idle" \/ ~rerun
               /\ Schedule

(* Sweep: tickets the panel lists as open or pending, and tickets with     *)
(* attachments still to forward; fifty of each, in no order, so that a     *)
(* ticket which is due may be left out.                                    *)
Sweep == /\ status = "open" \/ MediaPending(row)
         /\ pc = "idle" \/ ~rerun
         /\ Schedule

----------------------------------------------------------------------------
(* answer, call by call.                                                   *)

(* GetTicket failed: the same as a ticket that needs nothing.              *)
ReadFails == /\ outages
             /\ pc = "read"
             /\ Clear /\ Leave
             /\ TurnOnly /\ UNCHANGED <<row, delivered>>

ReadTicket == /\ pc = "read"
              /\ seen' = Len(msgs) /\ seenStatus' = status
              /\ Goto("progress")
              /\ TurnOnly /\ UNCHANGED <<row, memory, p, item, posted, delivered>>

(* The customer's profile is needed.                                       *)
NeedsLookup == Unmirrored # {} \/ (Last # 0 /\ ~BackingOff)

(* Past the backoff, with a message to answer.                             *)
MayAnswer == pc = "decide" /\ Last # 0 /\ ~BackingOff

(* A database error, an unknown customer, a model error or a failed second *)
(* GetTicket ends the turn and changes nothing.                            *)
GiveUp == /\ outages
          /\ \/ pc \in {"progress", "mark", "model", "record"}
             \/ pc = "resolve" /\ NeedsLookup
             \/ MayAnswer /\ HumanNews
          /\ Leave
          /\ TurnOnly /\ UNCHANGED <<row, memory, delivered>>

ReadProgress == /\ pc = "progress"
                /\ p' = row
                /\ Goto("resolve")
                /\ TurnOnly
                /\ UNCHANGED <<row, memory, seen, seenStatus, item, posted, delivered>>

NothingToDo == /\ pc = "resolve"
               /\ Last = 0 /\ Unmirrored = {}
               /\ Clear /\ Leave
               /\ TurnOnly /\ UNCHANGED <<row, delivered>>

NotYet == /\ pc = "resolve"
          /\ Last # 0 /\ BackingOff /\ Unmirrored = {}
          /\ Leave
          /\ TurnOnly /\ UNCHANGED <<row, memory, delivered>>

(* Resolve knows the customer; GiveUp covers an unknown one.               *)
NoMedia == /\ pc = "resolve" /\ NeedsLookup
           /\ Unmirrored = {}
           /\ Goto("decide")
           /\ TurnOnly
           /\ UNCHANGED <<row, memory, seen, seenStatus, p, item, posted, delivered>>

(* pendingMedia: the newest attachment is marked as due before any upload. *)
MarkPending == /\ pc = "resolve"
               /\ Unmirrored # {}
               /\ row' = RecordPendingMedia(row, Max(Unmirrored))
               /\ item' = Min(Unmirrored)
               /\ Goto("forward")
               /\ TurnOnly
               /\ UNCHANGED <<memory, seen, seenStatus, p, posted, delivered>>

ForwardMedia == /\ pc = "forward"
                /\ topic /\ ~Unsendable(item)
                /\ delivered' = delivered \cup {item}
                /\ Goto("mark")
                /\ TurnOnly
                /\ UNCHANGED <<row, memory, seen, seenStatus, p, item, posted>>

(* Mutant: the loop goes on with the next attachment.                      *)
ForwardFailsGoesOn ==
  LET rest == {i \in Unmirrored : i > item}
  IN  /\ pc = "forward"
      /\ outages \/ ~topic \/ Unsendable(item)
      /\ item' = IF rest = {} THEN item ELSE Min(rest)
      /\ Goto(IF rest = {} THEN "decide" ELSE "forward")
      /\ TurnOnly /\ UNCHANGED <<row, memory, seen, seenStatus, p, posted, delivered>>

(* The first failed upload ends the loop, not the turn.  A topic that was  *)
(* deleted is not replaced here: only a message of the user in Telegram    *)
(* makes the forwarder create a new one.                                   *)
ForwardFails == /\ pc = "forward"
                /\ outages \/ ~topic \/ Unsendable(item)
                /\ Goto("decide")
                /\ TurnOnly
                /\ UNCHANGED <<row, memory, seen, seenStatus, p, item, posted, delivered>>

MarkMirrored ==
  LET rest == {i \in Unmirrored : i > item}
  IN  /\ pc = "mark"
      /\ row' = RecordMirroredMedia(row, item)
      /\ item' = IF rest = {} THEN item ELSE Min(rest)
      /\ Goto(IF rest = {} THEN "decide" ELSE "forward")
      /\ TurnOnly
      /\ UNCHANGED <<memory, seen, seenStatus, p, posted, delivered>>

(* Only attachments were due, or the ticket still backs off.               *)
OnlyMedia == /\ pc = "decide"
             /\ Last = 0
             /\ Clear /\ Leave
             /\ TurnOnly /\ UNCHANGED <<row, delivered>>

StillBackingOff == /\ pc = "decide"
                   /\ Last # 0 /\ BackingOff
                   /\ Leave
                   /\ TurnOnly /\ UNCHANGED <<row, memory, delivered>>

(* A staff message the code has not seen before starts the operator's      *)
(* window, in the row and in memory.                                       *)
HumanAppears == /\ MayAnswer /\ HumanNews
                /\ row' = RecordHumanReply(row, LatestHuman)
                /\ operatorAge' = 0
                /\ Leave
                /\ TurnOnly /\ UNCHANGED <<backoff, hot, delivered>>

HumanStays == /\ MayAnswer /\ ~HumanNews /\ HumanOwns
              /\ Leave
              /\ TurnOnly /\ UNCHANGED <<row, memory, delivered>>

RateLimited == /\ MayAnswer /\ ~HumanNews /\ ~HumanOwns
               /\ hot
               /\ Leave
               /\ TurnOnly /\ UNCHANGED <<row, memory, delivered>>

(* A file alone gets a fixed reply, posted without reading the ticket      *)
(* again; anything else goes to the model.                                 *)
StartAnswer == /\ MayAnswer /\ ~HumanNews /\ ~HumanOwns
               /\ ~hot
               /\ hot' = TRUE
               /\ Goto(IF msgs[Last].kind \in {"file", "huge"} THEN "post" ELSE "model")
               /\ TurnOnly
               /\ UNCHANGED <<row, backoff, operatorAge, seen,
                              seenStatus, p, item, posted, delivered>>

(* The model answered, which GiveUp covers the failure of, and GetTicket   *)
(* shows what happened to the ticket meanwhile.                            *)
StatusMoved == /\ pc = "model"
               /\ status # seenStatus
               /\ Clear /\ Leave
               /\ TurnOnly /\ UNCHANGED <<row, delivered>>

StaffWrote == /\ pc = "model"
              /\ status = seenStatus
              /\ \E i \in seen + 1 .. Len(msgs) : ~IsUser(i)
              /\ backoff' = NoBackoff
              /\ Leave
              /\ TurnOnly /\ UNCHANGED <<row, operatorAge, hot, delivered>>

CustomerWrote == /\ pc = "model"
                 /\ status = seenStatus
                 /\ Len(msgs) > seen
                 /\ \A i \in seen + 1 .. Len(msgs) : IsUser(i)
                 /\ EndTurn(TRUE)
                 /\ TurnOnly /\ UNCHANGED <<row, memory, delivered>>

(* The answer is about what this second look showed, too.                  *)
StillCurrent == /\ pc = "model"
                /\ status = seenStatus
                /\ Len(msgs) = seen
                /\ seen' = Len(msgs)
                /\ Goto("post")
                /\ TurnOnly
                /\ UNCHANGED <<row, memory, seenStatus, p, item, posted, delivered>>

(* Reply: the panel appends the message, and the turn may or may not learn *)
(* of it; the request is never sent twice.                                 *)
Replies(k) == {i \in 1..Len(msgs) : msgs[i].kind = "bot" /\ msgs[i].re = k}

PanelAccepts == status # "closed" /\ Cardinality(Replies(Last)) < MaxReplies

Posts == /\ pc = "post"
         /\ PanelAccepts
         /\ msgs' = Append1("bot", Last)
         /\ status' = "answered"
         /\ UNCHANGED <<row, relay, delivered, elsewhere, outages, topic>>

PostAccepted == /\ Posts
                /\ posted' \in {NoId, Len(msgs) + 1}
                /\ Goto("record")
                /\ UNCHANGED <<memory, seen, seenStatus, p, item>>

PostLost == outages /\ Posts /\ ReplyFailed /\ Leave

PostRefused == /\ outages \/ ~PanelAccepts
               /\ pc = "post"
               /\ ReplyFailed /\ Leave
               /\ TurnOnly /\ UNCHANGED <<row, delivered>>

Record == /\ pc = "record"
          /\ row' = RecordTicketReply(row, posted, Last)
          /\ Clear
          /\ Goto("reconcile")
          /\ TurnOnly /\ UNCHANGED <<seen, seenStatus, p, item, posted, delivered>>

(* reconcile: a customer message that the posted reply overtook.           *)
Reconcile == /\ pc = "reconcile"
             /\ EndTurn(rerun \/ LastUser(Len(msgs)) > Last)
             /\ TurnOnly /\ UNCHANGED <<row, memory, delivered>>

ReconcileFails == /\ outages
                  /\ pc = "reconcile"
                  /\ Leave
                  /\ TurnOnly /\ UNCHANGED <<row, memory, delivered>>

----------------------------------------------------------------------------
(* Relay: the operator answers in the support topic.                       *)

Outside == UNCHANGED <<row, rerun, memory, turn, delivered, elsewhere, outages, topic>>

Inputs == elsewhere + Cardinality({i \in 1..Len(msgs) : msgs[i].kind # "bot"})

StaffAppends == /\ Inputs < MaxInputs
                /\ status # "closed"
                /\ msgs' = Append1("human", 0)
                /\ status' = "answered"

RelayPosts == /\ relay = NoRelay /\ topic
              /\ StaffAppends
              /\ relay' \in {NoId, Len(msgs) + 1}
              /\ Outside

(* record: the watermark may fail to be written, the memory never.         *)
RelayRecords ==
  /\ relay # NoRelay
  /\ row' \in {row} \cup (IF relay = NoId THEN {}
                                           ELSE {RecordHumanReply(row, relay)})
  /\ operatorAge' = 0
  /\ relay' = NoRelay
  /\ UNCHANGED <<panel, rerun, backoff, hot, turn, delivered, elsewhere, outages, topic>>

----------------------------------------------------------------------------
(* The panel and the people at it.                                         *)

CustomerWrites(kind) == /\ Inputs < MaxInputs
                        /\ status # "closed"
                        /\ msgs' = Append1(kind, 0)
                        /\ status' = "open"
                        /\ UNCHANGED relay /\ Outside

(* An operator writes in the panel, or a relayed reply was accepted and    *)
(* its response lost: the bot records neither.                             *)
StaffWrites == StaffAppends /\ UNCHANGED relay /\ Outside

StaffCloses == /\ status # "closed"
               /\ status' = "closed"
               /\ UNCHANGED <<msgs, relay>> /\ Outside

----------------------------------------------------------------------------
(* The same user in Telegram: the memory of operators and of the rate      *)
(* limiter is the bot's, one for both channels.                            *)

Elsewhere == /\ Inputs < MaxInputs
             /\ elsewhere' = elsewhere + 1
             /\ UNCHANGED <<panel, row, rerun, backoff, turn, relay, delivered, outages>>

(* An operator writes to the user's topic.                                 *)
TelegramOperator == /\ Elsewhere
                    /\ topic
                    /\ operatorAge' = 0
                    /\ UNCHANGED <<hot, topic>>

(* An operator deletes it.                                                 *)
TopicDeleted == /\ Elsewhere
                /\ topic
                /\ topic' = FALSE
                /\ UNCHANGED <<operatorAge, hot>>

(* /start clears the operator's window, for the ticket too.                *)
TelegramStart == /\ Elsewhere
                 /\ OperatorActive
                 /\ operatorAge' = Suppression
                 /\ UNCHANGED <<hot, topic>>

(* The user writes: answered, unless too soon after the last turn, and     *)
(* forwarded, which replaces a deleted topic unless a call fails.          *)
TelegramTurn == /\ Elsewhere
                /\ ~hot \/ ~topic
                /\ hot' = TRUE
                /\ topic' \in {topic, TRUE}
                /\ UNCHANGED operatorAge

----------------------------------------------------------------------------
(* Time and restarts.                                                      *)

(* The three seconds of the rate limiter.                                  *)
Cool == /\ hot
        /\ hot' = FALSE
        /\ UNCHANGED <<panel, row, rerun, backoff, operatorAge, turn,
                       relay, delivered, elsewhere, outages, topic>>

(* Minutes pass.                                                           *)
Tick ==
  /\ \/ BackingOff \/ OperatorActive
     \/ HumanRecentlyActive(row) \/ HumanRecentlyActive(p)
     \/ \E i \in 1..Len(msgs) : msgs[i].kind = "human" /\ msgs[i].age < Suppression
  /\ backoff' = [backoff EXCEPT !.left = IF @ = 0 THEN 0 ELSE @ - 1]
  /\ operatorAge' = Older(operatorAge)
  /\ row' = [row EXCEPT !.humanAge = Older(@)]
  /\ p' = [p EXCEPT !.humanAge = Older(@)]
  /\ msgs' = [i \in DOMAIN msgs |->
                IF msgs[i].kind = "human" THEN [msgs[i] EXCEPT !.age = Older(@)]
                                          ELSE msgs[i]]
  /\ hot' = FALSE
  /\ UNCHANGED <<status, rerun, pc, seen, seenStatus, item, posted,
                 relay, delivered, elsewhere, outages, topic>>

(* The process dies and comes back with what the database kept.            *)
Crash == /\ outages
         /\ backoff' = NoBackoff
         /\ operatorAge' = Suppression /\ hot' = FALSE
         /\ EndTurn(FALSE)
         /\ relay' = NoRelay
         /\ UNCHANGED <<panel, row, delivered, elsewhere, outages, topic>>

----------------------------------------------------------------------------
Turn == \/ ReadFails \/ ReadTicket \/ GiveUp \/ ReadProgress
        \/ NothingToDo \/ NotYet \/ NoMedia
        \/ MarkPending \/ ForwardMedia \/ ForwardFails \/ MarkMirrored
        \/ OnlyMedia \/ StillBackingOff
        \/ HumanAppears \/ HumanStays \/ RateLimited \/ StartAnswer
        \/ StatusMoved \/ StaffWrote \/ CustomerWrote \/ StillCurrent
        \/ PostAccepted \/ PostLost \/ PostRefused
        \/ Record \/ Reconcile \/ ReconcileFails

Environment == \/ RelayPosts \/ RelayRecords
               \/ \E kind \in Kinds : CustomerWrites(kind)
               \/ StaffWrites \/ StaffCloses
               \/ TelegramOperator \/ TopicDeleted \/ TelegramStart \/ TelegramTurn
               \/ Cool \/ Tick \/ Crash

Next == Webhook \/ Sweep \/ Turn \/ Environment

Spec == Init /\ [][Next]_vars

(* A turn goes on, time passes; every call has a timeout.                  *)
Fairness == /\ WF_vars(Turn) /\ WF_vars(RelayRecords)
            /\ WF_vars(Cool) /\ WF_vars(Tick)

(* The sweep ticker fires for ever, but a sweep asks for fifty tickets     *)
(* only.  That a ticket which stays due is listed in the end is sure when  *)
(* there are no more than that; the code does nothing for it otherwise.    *)
Listed == WF_vars(Sweep)

(* Liveness is claimed for when calls and the process stop failing at some *)
(* point; webhooks may be lost before and after.                           *)
OutagesEnd == /\ outages
              /\ outages' = FALSE
              /\ UNCHANGED <<panel, row, rerun, memory, turn, relay, delivered, elsewhere, topic>>

FairSpec == Init /\ [][Next \/ OutagesEnd]_vars /\ Fairness /\ WF_vars(OutagesEnd)

(* Behaviours without any outage.                                          *)
CalmSpec == InitWith(FALSE) /\ [][Next]_vars /\ Fairness /\ Listed

----------------------------------------------------------------------------
(* Every watermark is about a message that justifies it, in every order of *)
(* writes, failures and restarts: the bot watermark is a reply the bot     *)
(* posted, the answered one a message the bot replied to, the human one a  *)
(* staff message, and every attachment up to the mirrored one reached the  *)
(* topic, so no failed upload is skipped by a later one that succeeded.    *)
(* The human one may be the bot's own reply, when recording that failed.   *)
WatermarksJustified ==
  /\ row.bot # 0 => row.bot <= Len(msgs) /\ msgs[row.bot].kind = "bot"
  /\ row.answered # 0 =>
       \E i \in 1..Len(msgs) : msgs[i].kind = "bot" /\ msgs[i].re = row.answered
  /\ row.human # 0 => row.human <= Len(msgs) /\ ~IsUser(row.human)
  /\ \A i \in 1..Len(msgs) : HasMedia(i) /\ i <= row.mirrored => i \in delivered

(* An attachment the bot took notice of stays marked in the row until it   *)
(* reached the topic, whichever attachments around it are forwarded, fail  *)
(* or are interrupted by a restart: the sweep still lists its ticket after *)
(* it was answered or closed.                                              *)
PendingUntilDelivered ==
  [][\A i \in 1..Len(msgs) :
       HasMedia(i) /\ i <= row.pending /\ i \notin delivered => i <= row'.pending]_vars

BotPosts == Len(msgs') > Len(msgs) /\ msgs'[Len(msgs')].kind = "bot"

(* A message whose answer was recorded is not answered again, whatever     *)
(* webhooks, sweeps, reruns and restarts follow.                           *)
NoSecondAnswer == [][BotPosts => row.answered < msgs'[Len(msgs')].re]_vars

(* The bot keeps quiet while an operator owns the ticket: when it posts,   *)
(* every human message that the turn read, newer than the last reply it    *)
(* knew to be its own, is older than the operator's window, although the   *)
(* process may have restarted since and the message came by the panel or   *)
(* by the relay.                                                           *)
OperatorWindowRespected ==
  [][BotPosts /\ p.bot # 0 =>
       \A i \in p.bot + 1 .. seen :
         msgs[i].kind = "human" => msgs[i].age = Suppression]_vars

(* Attachments that were taken notice of, have not reached the topic and   *)
(* still can: the topic is there, and neither the attachment nor one       *)
(* before it, where the loop stops turn after turn, is unsendable.         *)
Deliverable == {i \in 1..Len(msgs) : /\ HasMedia(i)
                                     /\ row.mirrored < i /\ i <= row.pending
                                     /\ topic
                                     /\ \A j \in 1..i : ~Unsendable(j)}

(* An attachment that was taken notice of reaches the topic in the end,    *)
(* unless sweeps leave its ticket out for ever or it cannot be sent any    *)
(* more.                                                                   *)
MediaDelivered == Listed => (Deliverable # {} ~> Deliverable = {})

(* An open ticket whose last message is the customer's does not stay that  *)
(* way, as long as sweeps list it: the bot answers, or staff answered or   *)
(* closed it.                                                              *)
CustomerServed ==
  Listed => (Awaits(Len(msgs), status) ~> ~Awaits(Len(msgs), status))

----------------------------------------------------------------------------
(* What the documents say and the code does not keep.                      *)

(* "suppress 30 min across restart" (docs/go-migration/parity-matrix.md):  *)
(* the bot does not post while the row says a human replied within the     *)
(* window, when nothing in Telegram, such as a /start, explains it.        *)
RecordedOwnerRespected ==
  [][BotPosts /\ elsewhere = 0 => ~HumanRecentlyActive(p)]_vars

(* "a missed notification does not lose a request" (README.md, on the      *)
(* sweep): a message the code itself counts as unanswered is attended to   *)
(* in the end, also when the bot's own reply overtook it.                  *)
Overdue == Unanswered(Len(msgs), status, row) # 0

OverdueServed == Overdue ~> ~Overdue
=============================================================================
