# SupportAiBot in TLA+

SupportAiBot answers the customers of a VPN service, in Telegram and in the
tickets of the Bedolaga panel, with a language model, and hands over to human
operators who sit in the topics of a Telegram forum group. This directory holds
specifications of the bot's own logic, translated from `src/`, the TLC
configurations that check them on small instances, and proofs that TLAPS checks
for all instances. Every definition is mapped to the lines it models in
`PROJECT.json`.

What is hard in this program is not any single function. It is a dozen kinds of
goroutines around four pieces of shared memory and a database, with remote calls
that take seconds to minutes between reading a fact and acting on it.

## The system

| Component | State | Operations | Interacts with | What makes it correct |
|---|---|---|---|---|
| **Keyed lock** (`bot/state.go`) | map id -> entry (token channel, reference count) | `Lock`, the unlock function | pipeline (per user), answerer (per ticket), forwarder (per topic) | one holder per id while entries come and go; no lost token; no entry left behind |
| **Ticket scheduler** (`bedolaga/pipeline.go`: `Schedule`, `Handle`, `Drain`) | `active`, `rerun`, `closed`, `slots`, wait group | `Schedule`, the per-ticket goroutine, `markRerun`, `Drain` | webhook, sweep, ticket turn, shutdown | one goroutine per ticket, no accepted request forgotten, slots bounded, drained means idle |
| **Ticket turn** (`bedolaga/pipeline.go`: `answer` ...) | `backoff`, `suppressed`; a row per ticket in the database; the panel's ticket | read, forward attachments, decide, model, read again, post, record, reconcile | panel, store, model, forwarder, conversation state, rate limiter | no answer twice, no answer over an operator, attachments not lost, tickets served |
| **Relay** (`bedolaga/pipeline.go`) | – | operator's message from the topic to the ticket | router, panel, store, state | the operator owns the ticket afterwards |
| **Ticket progress** (`storage/store.go`) | `bedolaga_ticket_state` | four updates, two reads | ticket turn, relay, sweep | watermarks move only with what justifies them |
| **Buffer** (`bot/buffer.go`) | pending batch, timer and generation per user; wait group | `Submit`, timer callback, `Discard`, `Drain`, `Shutdown` | router, pipeline, shutdown | no message lost, repeated, reordered; no attachment dropped; no burst cut |
| **User turn** (`bot/pipeline.go`) | the user's lock | `Handle` | buffer, model, sender, forwarder, state | operators suppress answers; every batch is reported to the topic |
| **Conversation state, rate limiter** (`bot/state.go`) | operator window, last query, pictures; last answer time | record, look, clear, evict | both kinds of turns, router | one memory for both channels |
| **Router** (`bot/router.go`) | – | updates of users and operators, `/start`, `/ask`, `/operator` | everything in `bot/` | ownership is recorded for what reaches the user |
| **Forwarder** (`bot/forwarder.go`) | topics, active ticket, message mappings in the database | `Topic`, `Forward`, `ForwardMedia`, `Error` | Telegram, store | one live topic per user; deleted topics are replaced once |
| **History** (`storage/history.go`) | per-user cache over the database | load, append, clear, evict, device snapshots | model engine, `/start` | cache and rows agree; a reset stays a reset |
| **Model engine** (`internal/llm`) | one turn: completed tools, device evidence | provider fallback, tool loop, retries | history, FAQ, MCP | completed tools survive fallback, unknown writes are not repeated |
| **MCP client, router** (`internal/mcp`) | session, generation, tools | `connect`, `CallTool`, `RetryConnection`, `Close` | engine, shutdown | reconnect once per loss, no replay of a write |
| **FAQ index, gaps** (`internal/rag`) | rows, fingerprint, query cache | `Initialize`, `Search`, `EmbedQuery`, `save` | engine, store | no search over vectors of another model; the cache is bounded |
| **Process** (`cmd/supportbot/main.go`, `bot/maintenance.go`) | contexts, tickers, polling offset | start, poll, shutdown | everything | work stops before what it uses is closed |

Configuration, diagnostics, logging, message texts, and the evaluation,
verification and release tools keep no state the rest reads back; they are
listed in `PROJECT.json` as not modelled.

**How they interact.** Polling starts a goroutine per update; the router submits
user messages to the buffer and operators' messages to the user or, through the
relay, to the ticket. The buffer starts a goroutine per batch, which takes the
user's lock, looks at the operator's window, calls the model, looks again, sends,
and forwards everything to the user's topic. On the other side the webhook and a
sweep every few minutes schedule tickets; the ticket's goroutine takes a slot and
the ticket's lock, and reads, answers and records. Both kinds of turn share the
conversation state and the rate limiter under the customer's Telegram id.

**What is hard.** State read before a remote call and used after it (the ticket,
the operator's window, the topic); requests that arrive exactly when a goroutine
ends; timers that fire while they are being stopped; replies the panel accepted
and whose response was lost; a restart between a post and its record; webhooks
lost, late and repeated; shutdown with work in flight. `PROJECT.json` lists each
of these at its line with the properties that cover it.

## Modules

| Module | Models |
|---|---|
| `Mutex` | what a per-id lock promises (abstract) |
| `KeyedLock`, `KeyedLockProofs` | `bot.KeyedLock`; proofs, and that it implements `Mutex` |
| `TicketScheduler`, `TicketSchedulerProofs` | `Schedule`, `Handle`, `Drain` of the answerer; proofs |
| `TicketProgress` | the stored row and its updates |
| `TicketTurn` (extends `TicketProgress`), `TicketTurnProofs` | `answer`, `Relay`, `Sweep`, the webhook's effect; panel, restarts; proofs |
| `Buffer` | `bot.Buffer` |
| `Intake` (extends `Buffer`), `IntakeProofs` | `poll`, `Router.Handle` for private messages, the end of `run`; restarts; proofs, of `Buffer` too |
| `UserTurn` (instantiates `Mutex`), `UserTurnProofs` | `Pipeline.Handle`, `Router.operator`, `ask`, `/start`; proofs |
| `Topics`, `TopicsProofs` | `bot.Forwarder` over `topic_mappings`, and where the router sends an operator's message; proofs |
| `McpClient` | `mcp.HTTPClient`: sessions, calls, reconnecting, closing |
| `History` | `storage.History` for one user: memory and rows, device lists, `/start`, eviction |
| `ModelTurn` (extends `McpClient`, `History`), `ModelTurnProofs` | `llm.Engine`: `respond` and `run`, for turns of one user side by side; proofs, of the client and the history too |
| `FaqIndex`, `FaqIndexProofs` | `rag.Service` and `rag.Gaps`: start-up, vectors, cache of questions, gaps; proofs |
| `MC...` | the instances TLC checks |

**How state and actions correspond to code.** A variable has the name of the
field it models (`a.active` is `active`); a variable marked *history* is not in
the code and only records what a property needs. An action is one critical
section of a mutex, one channel operation, or one remote call, because other
goroutines run between any two of those. Definitions under a comment beginning
*Mutant* are plausible slips; each replaces one definition in a check that
expects a property to fail, and none is used by a specification.

`KeyedLock`. An `Entry` is a `lockEntry` object; the allocator may return any
that nobody refers to, so freed entries are reused, as memory is. `Lock` is
`Register` and then `Take` or `GiveUp`, the two cases of its `select`, which may
choose either when both are ready. The unlock function is two steps,
`ReturnToken` and `Leave`, since the next holder may run between them.

`TicketScheduler`. A `Worker` is a goroutine; each label of `pc` is a place where
it can be overtaken. `TakeLock` is the moment `answer` reads the ticket, which is
what a request waits for; `owed` remembers requests made since the last such
read. The ticket's lock appears as its guarantee, which `KeyedLockProofs` proves.

`TicketTurn` is one ticket and the people around it. The panel is outside the
repository and is modelled from how `bedolaga/client.go` uses it: message ids
grow, a customer's message opens the ticket, a staff reply marks it answered, a
closed ticket takes no replies, and a request that times out may have been
executed. Ages replace timestamps: 0 is now, `Suppression` is "the window is
over". The database's `NULL` columns are read as 0, as the code's `COALESCE` and
column defaults do. The model's call and the second reading of the ticket are one
step, because the code keeps nothing it read before the model except what the
second reading checks; failures of either are `GiveUp`. The `suppressed` map,
which keeps a notice in the topic from being repeated, is left out: no decision
to post reads it. What happens to the user in Telegram is four actions:
`TelegramOperator`, `TelegramStart` and `TelegramTurn`, as the memory is shared,
and `TopicDeleted`, as attachments go to his topic and only a message of his own
in Telegram has it replaced. A customer's message is of one of the `UserKinds`;
`huge` is an attachment no retry will forward (over 50 MiB, `sender.go:139`, or
with a description that `DescribeMedia` cannot use), and the loop over attachments
stops there in every turn.

`Buffer`. `Elapse` is the runtime starting a timer's callback, `Callback` is that
callback once it has `b.mu`; anything may come between, and `Stop` no longer
helps there. A batch's identity (the pointer the callback compares) is the number
of its first message. That a Sink's context is cancelled at the bound of `Drain`
is not seen here: the Sink is `UserTurn`.

`Intake` puts before the buffer what feeds it and after it what ends it. Telegram
is external: it delivers what was not confirmed, and a request for the updates
from `offset` on confirms those before, if it arrives. `handling` is the wait
group `inflight`; what an update brings, and whether a file can be downloaded,
shows when its goroutine is done. The end is `run` from the signal on: `Stop`
cancels `poll`, `IntakeEnds` is `pollDone` or five seconds, and the buffer's own
`StartDrain`, `DrainDone` or `DrainTimeout`, and `Shutdown` follow. `Restart` is a
new process over the same Telegram, after an end or in the place of a death.

`UserTurn`. The user's lock is an instance of `Mutex`, which is sound for what is
proved here because `KeyedLock` implements it. An operator's message and `/ask`
have the same shape, tell the user first and record the operator afterwards, and
are one handler, in two steps. Illustrations, knowledge gaps and the last query
do not decide anything the turn does and are left out.

`Topics`. A `Worker` is a goroutine inside the forwarder, for one of the kinds of
`Job`; an action is one query or one call to Telegram, and the lock of
`Topic(user)` is held from `Locked` to `Return`. `live` is external: the topics
that exist. A failing call spends one of `MaxFaults`; a copy into a deleted
topic fails of itself. `Route` is a pure definition of where `Router.operator`
takes a message from a topic: to the row's ticket, the user, or nobody.

`McpClient` has no `Init` and `Next` of its own use: its actions leave the
caller's variables alone, and `ModelTurn` composes them. `CallTool` is `Enter`,
then `Answered` or `Broken`, and from there `Recover` (waits for `c.recovery`),
`Connected` and `Again`; each returns an outcome, *going* while the call is not
over. `connect` drops the session in one critical section and installs the next
in another, and between them there is none. Whether the server still knows a
session is external (`lost`).

`History` likewise gives the halves of its operations: each touches memory under
`h.mu` or the tables, and other goroutines come between. A device list is the
number of what it shows; 0 is none.

`ModelTurn` is a user's turns, each a sequence of the places in `PC`. A turn of
the pipeline holds the user's lock, but `/ask` and `/start` do not take it, so
two turns and `/start` go side by side. A provider's answer is one step, with
retries; it asks for tools, promises to, replies or fails in each of the ways
`ModelError` tells apart. Of the tools, the list of devices and the deletion of
one are modelled, as they touch what outlives the turn. A call is a tool and one
of the `Spellings` of its arguments, because results are kept under the name and
the arguments as the model wrote them (`engine.go:239`), while the router takes
user `"7"` and `7` for the same (`router.go:281`). `Deletes` is the server,
which may have executed a call whose answer was lost. `device` and `sent` are
what the user would see of it.

`FaqIndex`. A row set is whose it is and whether it has vectors; a vector is the
model that made it. What two models make of a text may look similar or not, so
`Found` is nondeterministic there. `Start` chooses any of the `Settings`; the
steps of start-up are those between which the process may end, and `Stop` ends
it anywhere. What a search finds is left out.

## Runs

| Run | Instance and why it is enough | Shows |
|---|---|---|
| `keyed_lock` | 3 callers, 2 ids, 3 entries: one holds, one waits, one arrives; an id's entry can be freed and allocated again meanwhile | bookkeeping, tokens, every waiter answered, `Mutex` implemented |
| `ticket_scheduler` | 2 tickets, 1 slot, 3 goroutines: the slot is contended, and a goroutine that still has to run `wg.Done` meets its successor | one goroutine per ticket, no lost wakeup, slots, drain; requests served; cancelled goroutines end |
| `ticket_turn` | 3 inputs of the customer, operators and Telegram, 2 replies to a message, window and failure cap of 1 | watermarks, pending attachments, no second answer, operator's window |
| `ticket_live` | 2 inputs, attachments with a question and ones that cannot be forwarded, the topic deleted before or after; calls fail until they stop | what can be delivered is, also after the ticket was answered; tickets served |
| `buffer` | 1 user, batches of 3; a burst of 4 updates of three kinds (a full batch and the start of the next, or one cut by an attachment while a callback waits); bursts with `/start` and with shutdown; 3 updates over 3 processes, 1 failed request | no update and no message lost, repeated or dropped; bursts not cut; drain; batches leave |
| `user_turn` | 3 batches, 2 operators, 1 `/start`, window 2: one turn sending, one behind it, one later; the window renewed and cleared | at most one late answer, from the turn in flight; every batch reported |
| `topics` | 1 user of Telegram with a ticket, 1 of the cabinet with two; 2 goroutines, 4 calls, 3 topics, 1 deletion, 1 failing call: both goroutines find the same topic missing, gone or renamed | one topic between them; operators answer the ticket last set; a deletion costs no report |
| `model_turn` | 2 turns, 2 sessions, 2 providers, 2 iterations, a history of 4; in eight scenarios: one turn with everything, one with a deletion spelled in two ways, two with tools, with lost sessions, with `/start`, with days between them, a picture one provider takes, or none | no deletion repeated by a retry or, spelled alike, by the next provider; device lists not stale; sessions accounted for and not replaced by mistake; `/start` holds; memory matches rows; turns end |
| `faq` | 3 starts with 4 settings (2 files, 3 models, 2 of one dimension), 2 goroutines, 3 questions, 4 asks, a cache of 2: full cache, a miss filled in twice, a model changed and changed back | vectors compared only under the settings of the fingerprint; cache consistent and bounded; one gap for a question |
| `ticket_overdue` | 2 inputs, no failures | *violation*, see below |
| `ticket_owner` | 3 inputs, restarts | *violation* |
| `faq_torn` | as `faq`, 3 starts, no questions | *violation* |

Bounds are constants named in each module: `MaxInputs`, `MaxReplies` and
`MaxMessages` cap what the environment does and guard nothing else;
`MaxFailures` is the code's own cap of 16, made small. Two users of the buffer
share only its mutex, its closing and the wait group, so one user is enough
there; two tickets are needed where they compete for slots, and one where the
panel's ticket is the subject. Histories of two users share only a mutex, and
their MCP sessions are in `model_turn`, whose two turns contend for them.
`model_turn` and `buffer` explore scenarios side by side (`Scenarios` is part of
the initial state) where all hazards at once would be too many states: each
scenario combines those that meet in the code. Deadlock is checked for
`keyed_lock` and `ticket_scheduler`, which never stop; in the others the bounded
inputs run out. Type invariants are part of a run in `ticket_turn` and
`model_turn`, and proved for every component.

**Fairness.** Goroutines that can run do; timers, tickers and the bounds of
`Drain` expire; a turn ends because each call in it has a timeout. Strong fairness
is asked only of waiting on a channel (`Take`, `EnterSlot`, `Enter`), where the Go
runtime serves blocked goroutines in the order of their arrival, so one that finds
the channel ready again and again is served, and of waiting for `c.recovery` in
`ModelTurn`, as a `sync.Mutex` is handed to a waiter that starves. Nobody is
obliged to write, to start a shutdown, or to deliver a webhook. `ticket_live`
assumes that calls stop failing and the process stops dying at some point
(`OutagesEnd`): before that, anything may fail. A failure that is there to stay,
such as a customer the panel does not know or a model that rejects the request, is
an outage that never ends, and nothing is claimed of it. What fails for ever by
itself is in the model instead, and `MediaDelivered` speaks of what can still be
sent (`Deliverable`): the topic exists, and no unsendable attachment is at or
before it in the ticket. The project's own `README.md:611-613` says of those over
50 MB that they are not forwarded; that they also hold back the later ones is what
`pipeline.go:211` does. Both properties of this run state as their condition that
sweeps do not leave the ticket out for ever (`Listed`): a sweep asks for fifty
open, fifty pending tickets and fifty with attachments due, in no order
(`client.go:144`, `store.go:169`), so with more than fifty of a kind the code
promises nothing, and fifty that never deliver may keep others out.

**What the violations show.**
`ticket_overdue`: the README promises that a missed notification does not lose a
request. A customer who writes between the bot's second look and its post leaves
a ticket that the panel counts as answered. `reconcile` notices and asks for
another turn; that turn comes within the three seconds of the rate limiter,
gives up, and nothing looks again, since the sweep lists open tickets only. No
call fails in this run.
`ticket_owner`: the parity matrix promises the operator's window across a
restart. `human()` consults the stored time only if the bot has a recorded reply;
otherwise it trusts the memory, which the restart emptied.
`faq_torn`: the validation report promises that a failed replacement of the
embedding model keeps rows and fingerprint and disables incompatible vector search.
Rows and fingerprint are written one after the other. When the second write fails,
or the process dies between them, the rows are the new model's and the fingerprint
is the old one's; a start with the old settings believes it and searches the other
model's vectors, as long as they are of the length of its own. `VectorsCompatible`
in `faq` is what holds: every other settings embed the FAQ again.

## Proofs

TLC says the above of small instances. TLAPS proves the safety of every component,
every invariant and every action property of the runs that pass, for all values of
the constants that satisfy the assumptions named in the modules. Each `...Proofs`
module has an inductive invariant `IInv` (in `ModelTurnProofs` two), whose parts
are named for what they say, a lemma for each action or kind of action, and at the
end the theorems. TLC checked each invariant on an instance before it was proved.

* `KeyedLockProofs`. `BookkeepingSafe`: map and counts agree with the callers
  inside. `TokensSafe`: so do the tokens. `MutexSafe`: two callers never hold one
  id. `Refinement`: `Spec => Mutex!Spec`. Mutual exclusion is not inductive: it
  needs that a caller who waits holds the entry the map still has
  (`MapMatchesUsers`), which needs that the count is right (`RefsCountUsers`), and
  that each entry has one token (`TokenAccounted`). `CountJoin`, `CountLeave`,
  `LastUser` are the facts about cardinalities its actions share. In the
  refinement a caller in `leaving` is outside.
* `TicketSchedulerProofs`. `NoWakeupLost`, `OneWorker`, `Bounded`,
  `DrainComplete`, from the conjunction of the type invariant and the four
  properties. `MarkRerun` and `Check` need that a goroutine in the loop is the
  only one of its ticket; `LeaveSlot` needs that the slots count the goroutines
  inside.
* `TicketTurnProofs`. `WatermarksSafe`, `AnsweredOnce`, `WindowKept`,
  `PendingKept`. That the human watermark is a staff message has a second, smaller
  part beside `IInv`: so is what the operator's relay is about to record
  (`RelayOfStaff`); it may be the bot's own reply, if recording that failed. What
  a turn writes rests on what it read several calls before. `RowStillGood` says
  what of it is still true: nobody else moves `answered` and `bot`, and `mirrored`
  only grows. `MediaInOrder` says that the loop over attachments has skipped none,
  so that the watermark may move past them; `AnswerUnderWay` that a turn about to
  record has posted; `TimeCovers` that the stored time of a human reply is not
  older than any human message up to it, on which `WindowOver`, what a turn that
  answers knows of the operators, depends when the window is read back from the
  row. `MinOfIds` and `MaxOfIds` are the existence of least and greatest ids, from
  a well-founded ordering of intervals.
* `UserTurnProofs`. `LateAnswers` and `InFlightOnly`. The strengthening says that
  who is past the gate holds the lock of `Mutex`, that so at most one turn is
  past its last look, and that `late` counts only that one: while the window is
  open, a turn about to send was in that place when the operator was recorded.
* `IntakeProofs`, over `IntakeSpec`, so that it covers the buffer with all that
  feeds and ends it. `MessagesKept`, `AttachmentsKept`, `DrainComplete`,
  `BurstKept`, `UpdatesSafe`. `UsersGood` is about one user at a time: `Good`
  relates his pending items, his batches, the number of his messages and those
  dropped, and the lemmas say what a message, a flush and a drop do to these four
  values, whoever causes them. `TimersKnown` says which timer may still flush;
  `SinksCounted` is the wait group. `UpdatesKnown` follows an update from
  Telegram: what `poll` will not ask for again is with a handler or done, and
  what was received and not confirmed is of the last answer to a process.
* `TopicsProofs`. `TopicsSafe`, `RouteSafe`, `ReportsSafe`. `TopicsOwned`: a
  topic mentioned by a row, by the group or by a goroutine that carries it about
  without the lock belongs to one customer. `OneInside` is the topic lock;
  `WorkersSound` what a goroutine may rely on at its place, among it that the
  topic it wants replaced is one that a copy failed in; `FewGone` counts the
  topics that are not there any more, so that a second copy cannot meet a second
  deleted one.
* `ModelTurnProofs`. `SessionsSafe`, `SessionReplacedIsOwn`: `RecoveryHeld` says
  that the session is absent while somebody holds `c.recovery`, and that whoever
  connects holds it; `OwnSession` that as long as a caller's generation is the
  current one, the session is the one it knows, or none. `DeletionSentOnce` and
  `SnapshotsFresh`: `TurnsSound` says, for a turn at a place with a run, that a
  deletion sent is under way or has a result, kept under its spelling, that later
  providers are given when they spell the call so, and that the list was dropped
  before the call; `ListsDropped` that nobody then holds the old list.
  `ResetSafe`: a turn whose messages `/start` forgot is over. `HistoryKept` has an
  invariant of its own, `MatchInv`, on top of `IInv`: a message is written once
  (`WrittenOnce`), and as long as nothing was noted in `skewed`, memory has what
  is in the table, what has come of age there, and what its turn has yet to insert
  (`Alike`). A full memory drops its oldest; while all turns' messages have room
  these are of the earlier process, user's question first (`Dropped`), which a
  count of the rows then excludes.
* `FaqIndexProofs`. `VectorsSafe`: `FingerprintHonest`, a fingerprint names the
  rows with vectors unless it was not written, and vector search is on only for
  the settings it names. `CacheSafe`: a key is taken out of
  the order before it is appended (`CacheListed`). `RowsUnique`: whoever is about
  to insert a question has seen no row of it and is alone with it
  (`InsertsAlone`).

**Assumed.** Callers, goroutines and users are finite sets; names that stand for
nobody (`"nobody"`, `"retry"`, `"earlier"`, `NoEntry`, `NoTicket`, `Nothing`) are
no member of them; `Topics` has at least one customer, and the cabinet's are among
them. Limits, windows, slots, caps and cache sizes are at least 1: the slots by
`Validate` (`config.go:362`), the history by its constructor (`history.go:34`),
the caps and the cache as constants of the code; a buffer limit below 1 acts like
1 (`buffer.go:111`). An operator's window of no length, which the configuration
does not exclude and which asks for no suppression at all, is left out. Bounds on
what the environment does (`MaxInputs`, `MaxSessions`, `MaxCalls`, the numbers in
`Scenarios` ...) are any numbers, so that the theorems hold of behaviours of any
length. `HistoryMatches` states the condition that memory has room for the
messages of all turns side by side; without it, turns that write memory and table
in different orders may keep different messages.

**Left to TLC.** Liveness, which needs fairness and `ENABLED`, out of the provers'
reach: `EveryWaiterAnswered`, `RequestServed`, `CancelledWorkersEnd`,
`MediaDelivered`, `CustomerServed`, `BatchLeaves`, `EveryBatchReported`,
`TurnEnds`. Of the types in `FaqIndex`, the rows without a vector, whose number is
a fold over the models: what a fold computes needs induction over data, which no
installed prover does. The violations are counterexamples and need no proof. No
module declares a recursive operator.

## Observations

What the models make visible and an exception in a property stands for. Of the
first two a document says otherwise, and they have no run of their own:

* The router sends the operator's message to the user, then a notice to the topic,
  and only then records the operator (`router.go:243-249`). An answer the model
  completes in between passes the second look and goes out after the operator's
  message, where `docs/go-migration/runtime-validation.md:71` says that it "is
  suppressed before delivery". `user_turn` shows what holds from the record on: at
  most one answer, and from a turn past its last look.
* A provider that takes over and spells a call otherwise than the first misses the
  result kept for it (`engine.go:239`), and a device is deleted again, where
  `docs/go-migration/parity-matrix.md:20` says "no duplicated action"
  (`DeletedOnce` speaks of equal spellings).
* A reply of the bot whose recording failed looks like an operator's to the next
  turn: it is recorded as a human's and starts the window (`pipeline.go:168-186`);
  the question it answered may be answered twice.
* A turn that cannot read the ticket clears its backoff (`pipeline.go:231`).
* Mirrors of a ticket, and media, never replace a topic that was deleted in
  Telegram: only a failed copy does (`forwarder.go:125`, `:143`). A copy that
  fails for any other reason replaces a topic that is alive, and the old one
  then is heard by nobody (`givenUp` in `TopicsAccounted`).
* Sending to the topic and setting its active ticket are two calls: of two
  tickets of one cabinet user, the one heard last need not be the one set last.
* `RetryConnection` looks outside the lock and may replace a session a caller has
  just made (`client.go:156`); that caller then reconnects.
* A write that fails for another reason than a lost connection is told to the
  model as an error text although it may have been executed (`client.go:201`).
* Two turns of one user, one listing and one deleting, may leave a list that
  still shows the device (`crossed` in `SnapshotFresh`, `engine.go:180`).
* A provider that takes over gets the results of the first also for a list that
  it repeats after a deletion (`engine.go:241`).
* A failed load is cached as an empty history until the user is evicted
  (`history.go:103`; `skewed`). Rows leave the table one by one as they come of
  age, while the memory of an active user keeps their messages (`expired`).
* A turn that loaded the history before `/start` still tells it to its model.
* A fingerprint that cannot be read is taken for a different one
  (`service.go:138`), and the FAQ is embedded again.
* Gaps of another model with the same dimension are compared (`gaps.go:67`).
* Updates are confirmed by the next request, handled or not: a death loses those
  in `inflight` (`cut`), and the last answer before an end comes again
  (`unsure`), so that its messages may be answered twice.

## Not modelled

Message texts, escalation wording, HTML and Markdown conversion; the building and
parsing of requests and responses, except for how they may fail; ranking of FAQ
entries (SQL and floating point); request signatures; configuration. Of
`TicketTurn`: the priority of an escalated ticket, the mirror in the topic, a
second process. Of `Topics`: message mappings, which only reactions and replies
read. Of `ModelTurn`: tools that leave nothing behind, which tools are offered,
the choice of reasoning effort. Of `History`: rejected FAQ entries, which stay
empty, since `RecordFAQContext` is always told of no question. Of `Intake`:
group messages (see `UserTurn`, `Topics`), reactions, `/operator`. `/start` is in
three modules: it clears the buffer (`Intake`), the history (`ModelTurn`) and the
operator's window (`UserTurn`, `TicketTurn`).

## Plan

The safety properties of the runs are proved. What the next proofs are for, in
this order:

1. An abstract scheduler, per ticket: a request is accepted, a turn reads the
   ticket, one at a time and at most `MaxSlots` over all; `TicketScheduler`
   implements it as `KeyedLock` implements `Mutex`.
2. An abstract inbox for `Buffer`: a queue per user, from which a prefix leaves
   as a batch or is dropped; that `Buffer` implements it says what
   `NothingLostOrRepeated` says of states about every step.
3. A store of one device list and one history for `History`, without a cache, of
   which `ModelTurn` is an implementation as long as `skewed` and `crossed` are
   false.
