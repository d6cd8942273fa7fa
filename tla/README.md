# The appointment notifier in TLA+

This directory models the appointment notifier: what each of its parts does to
the state it keeps, how the parts interleave, and what survives when one of
them stops. TLC checks the models on small instances; TLAPS proves the central
properties for every value of the constants. `src/` below is the repository;
paths without a directory are in `src/src/appointment_notifier/`.

## 1. The system

A Telethon client follows a public channel of visa appointment posts. A post
that announces free slots becomes an alert, which goes to Telegram users
(through an SQLite outbox and Kafka, or directly), and to email, SMS, WhatsApp
or iMessage. Beside it a Telegram bot answers commands and questions, runs
agent tasks (A2A), and collects startups from a WhatsApp group. One process,
one asyncio loop, one SQLite file; the delivery workers are processes of their
own.

### Components

| Component | State | Operations | Talks to |
|---|---|---|---|
| Source watcher (`telegram_watcher.py`) | Telethon session, update queue, delivery lock | connect, catch up, live handler | Telegram, app |
| Post handling (`app.py`) | `alerts`, `observations`, `availability_state`, source cursor | `handle_message`, `supervise` | parser, media, store, notifiers |
| Parser, media (`parser.py`, `media.py`) | `media_analysis`, keyed by hash | `parse`, `analyze` | store |
| Outbox (`telegram_queue.py`, `store.py:606-720`) | `notification_jobs` | enqueue, publish, deliver, retry, close | Kafka, Bot API |
| Notifiers (`notifiers.py`) | - | render, send, fan out | Bot API, SMTP, Twilio, WhatsApp, `osascript` |
| Bot listener (`bot_listener.py`) | update offset in `bot_state` | poll, dispatch of some twenty commands | Bot API, all services |
| Bot users (`store.py:493-604`) | `telegram_bot_users` | seed, allow, revoke, bind, match | bot listener, notifiers |
| A2A engine (`a2a/`) | `a2a_tasks`, `a2a_messages`, `a2a_artifacts`; coroutines, events, queues | submit, execute, stream, wait, cancel | bot listener, Talos Scout, chat |
| Chat (`chat.py`) | `telegram_chat_messages` | answer, forget | LLM, trend |
| LLM providers (`llm.py`) | - | complete with fallback | HTTP |
| Trend (`trend.py`) | `trend_snapshots` | report, refresh | store, LLM |
| WhatsApp watcher, Talos Scout (`whatsapp_watcher.py`, `talos_scout.py`) | `whatsapp_messages`, `startups`, Qdrant | sync, extract, search | OpenWA, LLM, Qdrant |
| Backfill (`backfill.py`) | resume cursors, `telegram_messages`, `observed_messages` | import history | Telegram, media, parser, trend |
| Failover (`src/management/telegram-failover.py`) | a second SQLite file | stand in for the bot until the primary is back | Telegram |
| Maintenance (`src/management/docker-weekly-maintenance.py`) | Docker | recreate services | Docker |
| Configuration, CLI, deployment files | - | - | - |

### How they interact

* The watcher calls `app.handle_message` under its delivery lock, in the
  catch-up and in the live handler.
* `handle_message` writes, in this order and each in a transaction of its own:
  observation, availability row, outbox jobs, alert, (other channels), cursor.
* The publisher task reads due rows and sends job ids to Kafka; workers read
  the ids, call the Bot API and write the outcome to the row. Publisher and
  workers share nothing but the rows and the topic.
* The bot's update loop handles one command at a time and acknowledges it
  afterwards. A question is submitted to the A2A engine and streamed in the
  same loop; the task's coroutine runs beside it.
* `supervise` restarts each of the tasks of the process that ends with an
  exception, after 1 to 60 seconds.
* The importer is a process of its own on the same SQLite file. It keeps what
  it imports in the tables the watcher writes, under another chat key, and
  stores a trend snapshot when it gets to its end.
* The standby is a second bot process on another host with a database of its
  own. It and the primary share only what Telegram keeps of the bot.

### What is hard

* *Crashes*: every pair of transactions can be torn apart. What makes up for
  it is repetition (catch-up from the cursor, leases, Kafka redelivery), so
  everything has to be repeatable, and must not repeat what cannot be taken
  back (a message to a person).
* *Interleaving*: two workers on one job after a rebalance; publisher against
  worker on `published_at`; live updates against the catch-up; a cancellation
  against a result; a subscriber against the end of its task.
* *Unreliable delivery*: lost API answers, lost delivery reports, records
  delivered again, updates delivered again.
* *Time*: leases, retry delays counted from an old clock reading, timeouts.
* *Partial failure*: a store call that raises in the middle of a handler.

### What makes each part correct

* Watcher and post handling: no announcing post is passed over; posts handled
  twice are harmless; `/current` tells the truth.
* Outbox: each job is sent until Telegram has taken or refused it; it is then
  closed for good; duplicates only where nothing could have prevented them.
* A2A engine: terminal states are final and carry their results; streams and
  waits end.
* Bot listener: each command is handled and acknowledged, and a failing call does
  not stop those behind it. A command that fails at every attempt does, and does
  so for ever.
* Bot users: revoked means out; owners stay in.
* WhatsApp and Talos Scout: every message is extracted once.
* Chat: history is bounded and `/forget` forgets.
* Backfill: resumable and complete; its snapshot counts each post once.
* Failover: what is sent during an outage is handled, once, by one of the two.

## 2. Modules

| Module | Of | Lines it follows |
|---|---|---|
| `TelegramOutbox` | outbox rows, publisher, workers | `telegram_queue.py:33-144`, `store.py:606-720`, `notifiers.py:136-155` |
| `DeliveryPromise` | abstract: what the outbox promises | - |
| `MCTelegramOutbox` | instances for TLC | - |
| `TelegramOutboxProofs` | proofs | - |
| `PostParser` | rules of the parser and of the image layouts, as operators | `parser.py:9-322`, `media.py` |
| `Notifiers` | what may become of an alert, as operators | `notifiers.py` |
| `SourceWatcher` | watcher, `handle_message`, restarts | `telegram_watcher.py:23-76`, `app.py:41-169`, `store.py:328-450` |
| `MCSourceWatcher` | contents and instances for TLC | - |
| `SourceWatcherProofs` | proofs | - |
| `A2AEngine` | task engine and its caller | `a2a/engine.py`, `a2a/store.py:74-144`, `a2a/rpc.py:70-158`, `bot_listener.py:666-885` |
| `TaskLifecycle` | abstract: the life of a task | - |
| `MCA2AEngine` | instances for TLC | - |
| `A2AEngineProofs` | proofs | - |
| `BotUsers` | the users table, as operators | `store.py:493-583`, `946-990`, `bot_listener.py:1125-1136` |
| `BotListener` | update loop, commands, chat history | `bot_listener.py:113-319`, `666-779`, `965-979`, `1075-1136`, `chat.py:43-83`, `store.py:273-308`, `app.py:141-152` |
| `MCBotListener` | instances for TLC | - |
| `BotListenerProofs` | proofs about the users table | - |
| `BotUpdatesProofs` | proofs about the updates | - |
| `LlmFallback` | one call of the language model | `llm.py:45-65`, `102-352` |
| `FoundersSync` | WhatsApp watcher, startup extraction | `whatsapp_watcher.py:40-176`, `talos_scout.py:440-505`, `store.py:992-1126` |
| `MCFoundersSync` | instances for TLC | - |
| `FoundersSyncProofs` | proofs | - |
| `History` | watcher and importer on the history, the snapshot of the trend | `backfill.py:34-85`, `store.py:59-226`, `328-377`, `app.py:46-103`, `cli.py:95-114` |
| `Failover` | primary and standby of the bot | `src/management/telegram-failover.py:47-115`, `bot_listener.py:150-193` |
| `MCOperations` | `History` and `Failover` side by side, instances for TLC | - |
| `OperationsProofs` | proofs | - |
| `Induction` | induction over numbers and recursive functions, for the proofs | - |

Definitions whose comment begins with "Mutant" are plausible mistakes in the
code. They are not part of any specification: each is put in the place of the
action it varies, to see that the property it is meant for then fails.

### TelegramOutbox

One row per post and recipient: `status`, `attempts`, `dueIn`
(`next_attempt_at` minus now) and `leaseIn` (what is left of the 15 seconds
after `published_at`). Time is kept as countdowns that `Tick` lowers, so no
clock has to be bounded.

The publisher task is `ScanDue` (the query of `due_telegram_jobs` and its
limit), `ProduceAcked`/`ProduceFailed` per job, `BufferFull` (the rest of the
batch is left), `MarkPublished` after `flush` and `PublisherStops`. A worker
goes `Receive` - `SendAccepted`, `SendAnswerLost`, `SendRejected` or
`SendFailed` - `MarkDelivered`, `MarkDead` or `RetryRead` and `RetryWrite` -
`Commit`. Reading and writing in `mark_telegram_job_retry` are two steps
because the code reads outside its transaction. The writes keep the `where
status = 'pending'` of the SQL.

Kafka is external: records of one partition come in order, one at a time; a
record not committed is handed out again after `WorkerDies` or `Rebalance`; a
worker that was revoked does not know it and goes on. The Bot API is external.

`DeliveryPromise` knows only books: a job is booked, taken or turned down by
Telegram, and closed on that evidence. `TelegramOutbox` implements it with
`status` as the book (`KeepsPromise`, `PromiseFulfilled`).

### SourceWatcher

Posts are numbered. `content` is what each says and shows, and `PostParser`
gives the parser's verdict on it: `open` (an alert), `closed` (availability
ends) or `noise`. A content is the set of pattern groups the words hit and the
portal layout of the image; `Vetoes` are the early returns that turn a post
down, in their order, and `Opens` is what the others need to be an alert. Which
words hit which pattern is left out: every combination of groups is considered,
also those that only a long post could hit. Per transaction or await of
`handle_message` there is one action: `Classify` (observation and availability
row), `Dedupe` (`has_alert`), `Enqueue`, `RecordAlert`, `SendOthers`,
`SendDirect`, `Advance` (the cursor). The client is `Start` - `Fetch` -
`DeliverHistory`* - `GoLive`, with `DeliverUpdate` for live updates, which
queue up from the moment the handler is registered. `StoreRaises` is an
exception of a store call: it ends the catch-up, and is logged and swallowed by
Telethon in a live handler. `queueMode` is the configuration: with outbox and
cursor, or sending directly. `channels` are the enabled channels: `SendOthers` and
`SendDirect` choose one of the outcomes that `Sends` of `Notifiers` has for them,
which says who was reached and whether the sender is told of a failure. The
layout of an image is in turn what `LayoutOf` makes of the marks in its text
(`media.py`, first rule that fits).

### A2AEngine

`row` and `answers` are in SQLite; `run`, `cancelled`, `completed` and `queue`
are in memory and lost in a `Crash`. On one asyncio loop what lies between two
awaits is one step. The only callers are in the bot's update loop, which
handles one command at a time, hence one `call`. Commands: `Submit`
(`returnImmediately`), `Ask` then `Subscribe` and `StreamNext`, `Execute`,
`Wait`, `Cancel`. A task's coroutine: `Start`, `Report`*, then `Succeed`,
`Fail` or `Stop`. `...Raises` are store calls that raise, at the places where
it makes a difference; an artifact or answer that cannot be written ends like
`Fail`. `Ready` says what asyncio guarantees: a new coroutine takes its first
step before the caller's next await returns. With one caller a task that runs
in `Execute` cannot be cancelled, so the branches of `check_cancelled` after
the handler are out of reach: `cancel_task` also cancels the coroutine, which
then never gets past its await.

`TaskLifecycle` knows only a task's state and whether it has its answer:
`Create`, `Start`, `Answer`, `Complete`, `Fail`, `Cancel`. `A2AEngine` implements it
with `row` as the state and the tasks with an answer in the store as the answered
ones (`KeepsLifecycle`).

### BotUsers and BotListener

`BotUsers` has the table `telegram_bot_users` as a set of rows and each
statement of the store on it as an operator: `Find`, `Ensure`, `Removable`,
`Bind`, `Matches`, and `Seed` for the loop over the configured identifiers,
which is one step because no await interrupts it.

`BotListener` extends it. Updates are numbered as Telegram numbers them;
`confirmed` is what Telegram has forgotten, `offset` what `bot_state` has. The
process goes `Start` - `Run` - `Initialize` (no offset stored: the newest update
counts as handled) - `Poll` and then, per update, `Ignore`, `HandleLater`,
`Forget` or `Manage` up to the first await, the awaits, and `Acknowledge`. What
raises gives up the batch: `run` waits ten seconds (`SleepEnds`) and polls again
with the old offset. Nothing is undone, so that the update in hand takes effect
again. A call that need not fail may raise as often as `MaxFaults` allows
(`HandlerRaises`). Without any bound raise those that fail at every attempt:

* a message that Telegram refuses (`SendRefused`), 403 for a chat that blocked the
  bot, 400 for one of the requests `Unsendable`: "/campaign a_b" is announced in
  Markdown with a "_" that nothing closes (`bot_listener.py:476-484`);
* a handler that raises (`HandlingFails`, `Raising`): `/allow @` of an owner, which
  names neither a chat nor a username (`store.py:505-506`), and `/rpc 1`, a payload
  that is no object (`a2a/rpc.py:38`).

Such an update is `Hopeless`: it is tried every ten seconds, and everybody behind
it waits; nothing in the program ends that. `EveryUpdateHandled` excepts an update
only if from some time on a hopeless one, or the update itself, is in its way for
good. (That Telegram drops what it could not deliver for a day, and that a block may
be lifted, is left out.)

`RunReturns` is a listener that has nothing to do: `supervise`
calls it again without an await between.

What is abstracted: the commands that only read are one request, "read"; /talos,
/campaign and voice notes, which announce a task and start it, are "task", /ask
is "ask", plain text "chat", `/rpc 1` "malformed", and a message with neither text
nor voice is "silent". In /allow and /revoke, `None` is an identifier that names
nobody. Which requests
there are depends on the scope of the listener: in the process of `app.py` it is
"visa", where Talos requests are answered with a pointer to the other bot and are
a "read". The task of a request is the set `running`: what the engine does with
it is in `A2AEngine`, which also shows when a stream ends with its task
(`StreamEndsUnlessFault`) and when not (`a2a_hung`); here it ends, or raises
(`StreamBreaks`). Without a stored offset `Initialize` takes the newest update for
handled, at the first start and after a crash before the first acknowledgement: an
update in hand at that crash is then among the `passed`, and `NoUpdateLost` lets it
go. The edits of a message while a task runs never raise and
change nothing, and are left out, as is the transcript that a voice note gets
before its task. A person blocks the bot when it is about to write and not
before (`Block`): an earlier moment could not be told from this one.

### LlmFallback and FoundersSync

`LlmFallback` is one call of `FallbackLlmClient.complete`: the provider that is
asked (`at`), its `url` and the `attempt`, and how the call ends. A reply is one
of six kinds; what each provider makes of it is `FedoraReply` or `PlainReply`:
the Fedora provider swallows everything and goes through its urls, the others
let escape what is neither an `LlmProviderError` nor an `OSError` nor a
`ValueError`. `Providers` is the list `build_llm_client` makes.

`FoundersSync` extends it with the loop that calls it: `Resolve` - `Fetch` -
`Record`* - `Select` - `ModelReplies`* - `List`, `OddList` or `NoList` -
`Store`* - `Mark`, and sleeps. Each statement on the database is a step because
the process may die behind it; nothing else runs on these tables. Which startups
an answer names is the model's affair (any subset of the batch); an "odd"
message is one that never gets an answer that can be stored. `auto_extract` is
taken to be on. The vector index is left out: it is written after each `Store`,
a failure is swallowed, and this loop never reads it.

### History

The tables of the channel's history and their two writers. The watcher goes
`WatchPost` - `Analyse` - `KeepReading` - `Observe` - `AlertRecorded` through
each new post; a run of the importer goes `ImportStart`, then per post, newest
first, `ImportPost` - `Analyse` - `KeepReading` - `ImportRaw` - `Observe` -
`ImportCursor`, and at its end `ImportThrough` - `ReadPoints` - `ReadLegacy` -
`SaveSnapshot`: the two queries of `trend_points` are steps because the watcher
may write in between. `ImportDies` breaks a run off anywhere; a download or a
reading that fails is a fault of `Analyse`. What each writer takes from an image
is a reading, "none", "failed" or "read"; the cache is keyed by the image. The
statistics made of a snapshot are left out: `snapshot` is the set of rows they
are made of. Deliveries and restarts of the watcher are in `SourceWatcher`, which
in turn leaves the raw posts out.

### Failover

Per poller a `place` (off, init, ask, asked, handle, store, pause) and the
`offset` in its own database; `confirmed` is what Telegram has forgotten. `Asks`
confirms what is below the offset, `Answered` hands out all the rest as a batch,
`Handles` and `Stores` go through it. Of two polls under way the older one gets
409 (`Requests`): the primary pauses, the standby ends for good. `Raises` gives a
batch up, `Dies` ends a process. An update may be `hopeless` from the start: whoever
handles it, the handler raises (`Refused`), and its offset is never stored. While
one is pending (`Stuck`), nothing behind it is served by either poller; besides,
Telegram answers every poll at once, so that two polls need not meet and 409 need
not occur. What handling an update does is in `BotListener`.

The two share no variable with each other. `MCOperations` checks them in one
instance: a behaviour is one of the one or one of the other.

## 3. Runs

`CHECK_DEADLOCK FALSE` is set everywhere: the numbers of posts, tasks, reports
and faults are bounded, so every behaviour of an instance ends.

| Run | Instance | Shows |
|---|---|---|
| `outbox_promise` | 1 job, 2 workers, 2 faults, fairness with answers | `TypeOK`; a message is taken twice only after a lost answer, crash or rebalance (`DuplicateHasCause`); the outbox implements `DeliveryPromise`, which closes rows on evidence only and never reopens them (`KeepsPromise`), and every job is closed (`PromiseFulfilled`) |
| `outbox_wakeup` | 2 jobs in one partition, batch limit 1, 1 worker, 1 fault | no pending row is forgotten (`NeverForgotten`), by fairness of publisher and worker alone |
| `watcher` | both modes, with and without the Bot API among the channels, 3 posts of any verdict, 2 crashes, in direct mode also raised calls | the cursor leaves no matching post behind (`NoPostSkipped`) and each gets to the outbox (`EveryPostEnqueued`); a suppressed alert has its Telegram jobs or, without the queue, has reached somebody (`RecordedIsBacked`) and is sent again only after a fault (`RepeatedOnlyByFault`); without a fault `AvailabilityCatchesUp`; the order of the parser's rules over all 229,376 contents and of those of `media.py` over all marks (`RulesAreIntended`) |
| `watcher_live_failure` | 2 posts, 1 raised call in a live handler | violated: `NoPostSkipped` |
| `watcher_stale_availability` | 2 posts, 1 crash | violated: `AvailabilityIsNewest` |
| `a2a_engine` | 2 tasks, 2 reports each, 2 faults | `TerminalIsFinal`, `CallShowsOutcome`; the engine implements `TaskLifecycle`, in which a task is answered once and only while it is worked on (`KeepsLifecycle`); while nothing fails `OpenHasRunner` and `StreamEndsUnlessFault` |
| `a2a_hung` | 1 task, 1 fault | violated: `StreamEnds` |
| `bot` | 3 updates of 8 kinds by an owner and a friend, 2 of which raise at every attempt, 1 fault, restarts with the listener on or off | no update is left behind unanswered (`NoUpdateLost`), an effect repeats only because of what went wrong with that very update (`RepeatedOnlyByMishap`); `UsersUnique`, `SeededOwnersOwn`, `RevokedStaysOut`; `ForgottenStaysForgotten`; every update is handled unless the bot is off, or the update or one in front of it can never be acknowledged (`EveryUpdateHandled`) |
| `bot_disabled` | listener switched off | violated: `LoopIsShared` |
| `founders` | 3 messages, window and batch limit 2, 3 providers, 2 faults | no startup is lost between answer and mark (`ProcessedIsStored`) or stored again without a cause (`StoredTwiceHasCause`); a call is told that all have failed only after all providers, and none is asked out of turn (`FailsOnlyWhenAllFailed`); every message is recorded and processed unless it scrolls out or an odd one is in every batch (`EveryMessageExtracted`) |
| `founders_escape` | 1 message, 3 providers, no fault | violated: `FailuresMoveOn` |
| `operations` | 3 posts, 2 of them with old alerts, runs of 1 or 3 posts, 2 faults; 2 updates, 2 starts of each poller, 2 failures, hopeless updates among them | above its cursor the import has no hole (`ImportedDownToCursor`), it gets to the first post (`ImportGetsThrough`), and a run that ends has counted all of it (`ImportIsCounted`), nothing both as alert and as observation (`LegacyApart`); what Telegram has forgotten was handled (`OutageLosesNothing`), twice only with a cause (`RepeatHasCause`); a standby yields to a primary that stays (`StandbyYields`), and one poller that stays is enough (`EveryUpdateServed`), both but for a hopeless update in the way |

### Bounds

* Two workers are what a rebalance needs: the old and the new owner of a
  partition. Two recipients are what the limit of a batch and the order in a
  partition need. Two faults let one spoil the recovery from the other. Two
  workers and two recipients together are left to the proofs: the safety
  properties of `outbox_promise` are theorems for any number of both.
* Lease and delay are 1 to 3 ticks instead of 15 and 60 seconds: what matters
  is that each may run out before or after any other step.
* Three posts with a history limit of one: some are dropped at a first start,
  some replayed, some live, and a catch-up may be longer than the limit. Raised
  store calls are left out of the queue mode of the run `watcher`, where they
  lose posts: `watcher_live_failure` shows how.
* Two channels: the Bot API with one recipient, which every alert may go to, and
  one with two recipients, which stops at the first failure and takes no silent
  alerts; or the second one alone, where a silent alert has nowhere to go.
* Three posts in `operations`: two old ones, so that an import goes on below its
  cursor, and one that the watcher takes meanwhile; a limit of one post breaks
  every run off, one of three none. One image, which shows slots if it can be
  read. Two faults let a second run fail where the first one did.
* Two updates in `operations`: one in hand, one behind it in the batch. Two
  starts of each poller, so that the standby comes back with an old offset; two
  failures, so that each poller may be interrupted. A hopeless update is one of the
  two failures; its attempts are not bounded.
* Three updates are what a batch needs to have an update before and one behind
  the one that fails, and what "allow, revoke, repeat" needs. A history limit of
  two rows is the smallest the code allows: the second exchange drops the first.
  The friend is seeded by username and allowed or revoked by chat id, so that
  both columns and the binding of the chat come into play; the owner is seeded
  by chat id and tries to revoke the owner. The owner also sends `/allow @` and a
  task whose announcement is refused. Requests "read", "silent", "malformed" and a
  task that can be announced are left out of the run: they go through a subset of
  the steps of the others.
* Three messages with a window and a batch of two: one may scroll out, one may
  wait behind the others. Three of the four providers, one of them with two
  urls, which the order does not name; the order also names one that is not
  configured, and one twice with another between.
* Two tasks: one that the caller waits for and one that runs beside it; tasks
  share nothing but the caller. Two reports: one before and one after a
  subscription.

### Fairness

* `RunFairness` (outbox): the clock ticks; the publisher task and the workers
  run on (`supervise`, `restart: unless-stopped`); the query orders by
  `next_attempt_at`, so a row that stays due gets into a batch (strong fairness
  of `ScanFor`: that the limit of a batch starves nobody is assumed here, from the
  order of the query, and not shown); the broker takes a job at last; a partition hands out its
  records in order (strong fairness of `Receive` per job). Nothing is assumed
  of Telegram. `LiveSpec` adds that a job tried again and again is answered at
  last: no program can promise delivery without it.
* `SourceWatcher`: `supervise` restarts the watcher for ever and the loop runs
  what is ready. Crashes are bounded by `MaxFaults`, not fair.
* `BotListener`: weak fairness of the listener as a whole, since the loop runs
  what is ready, requests have timeouts, and `supervise` starts it again. Nothing
  is assumed of the people, of faults, of what a request is answered with, or of
  which of two outcomes an await has.
* `FoundersSync`: the loop goes on; OpenWA answers at last, and so does the model,
  with a list wherever it ever would (strong fairness of `Resolve`, `Fetch`,
  `ModelReplies("text")` and `List`): nothing could be promised of a group that
  cannot be read or a model that is never there.
* `History`: a run that was started goes on, and whoever imports starts runs
  until the import is through ("Re-running resumes", README.md:403). Faults are
  bounded, the watcher is not fair.
* `Failover`: each poller goes on as long as it lives. Nobody is bound to start
  one: the properties speak of pollers that stay.
* `A2AEngine`: the loop runs what is ready and handlers end, since their
  requests have timeouts. Commands, reports and timeouts are not fair.

## 4. Proofs

`Induction` has what the others need of numbers. The provers can use no theorem
with an operator as parameter, so what is to hold of every number is given as a
set of numbers; that it is all of them follows from well-foundedness
(`LeastNumber`, `NumberInduction`, `BoundedInduction`). `RecursiveFunction` says that
a function defined by recursion exists and where its values lie, which every proof
about `TwoTo` (powers of two) and `ListedUpTo` (the providers in their order) needs.

`TelegramOutboxProofs`, from `ConstantAssumption` (limits are natural numbers,
`NoJob` is no job):

* `TypeCorrect`: `TypeOK`.
* `ClosedOnEvidence`, `DuplicatesHaveCauses`: `SettledHasEvidence`,
  `DuplicateHasCause`. Neither is inductive. `IInv` adds what a worker's
  program counter says about the row and about Telegram (who is past an
  accepted request has one acceptance on the record), that at most one worker
  that was not revoked holds a job, and an account of acceptances: each is
  booked in the row, still in the hands of the one owner, or paid for by a
  cause.
* `ClosedIsFinal`: `SettledIsFinal`, an action property, action by action.
* `OutboxKeepsPromise`: every step of the outbox is a step of
  `DeliveryPromise` or leaves its variables alone.
* `DeliveryIsAlone`: two workers have the same job in hand only after a rebalance,
  a part of `IInv` worth its own statement.
* `RepeatsCostFaults`: a message arrives at most once more than there were faults.
  `DuplicateHasCause` counts causes; `FaultsAccounted` adds that each cause took a
  fault of its own, and so did each revoked worker that may yet be told that
  Telegram took the message.
* `DelaysDouble`: the delay of a retry is a second at least, doubles with each
  failure and stops at the cap.

`A2AEngineProofs`, from `EngineAssumption`:

* `TypeCorrect`: `TypeOK`.
* `TerminalStays`, `CompletedIsAnswered`: `TerminalIsFinal` and
  `CompletedHasAnswer`, both from `FinalInv`: a coroutine that may still write
  belongs to an open row, one in its handler to a row that is "working" and not
  answered, one not yet started to a submitted row nobody has cancelled, and ids
  without a row have no cancel event set.
* `EngineKeepsLifecycle`: `KeepsLifecycle`. `StepSimulation` maps every step to a
  step of `TaskLifecycle` or to none, also those in which the answer is written
  and the row can no longer be. `SucceedRaises` is one step where the code may write
  "completed" and then "failed" (`a2a/engine.py:178-184`): no await lies between,
  and nobody in the loop sees the first.
* `OpenIsAtWork`: `OpenHasRunner`, from `RunInv`, which adds that a cancelled
  task is over: otherwise its coroutine could be stopped before the row is closed.
* `CallsShowTheEnd`: `CallShowsOutcome`, from `ToldInv`: the end is announced to a
  stream only when the row has reached it, and, while nothing fails, a completion
  event is set only then. That announced rows stay closed is `FinalInv` again.
* `NobodyWaitsInVain`: `NoWakeUpLost`, from `WakeInv`. While nothing fails, an open
  stream has the end in its queue or a coroutine at work that will put it there,
  and a wait has its event set or a coroutine that will set it: the part of
  `StreamEndsUnlessFault` that is not fairness.

`SourceWatcherProofs`, from `WatcherAssumption` and `NotifiersAssumption`:

* `TypeCorrect`: `TypeOK`.
* `RecordedAlertsAreBacked`, `RepeatsAreExcused`: `RecordedIsBacked` and
  `RepeatedOnlyByFault`, from `AlertInv`: what the stage of a handler says of the
  post in hand, that with the queue records follow jobs and the other channels
  follow records, and that without it what was received and what is recorded
  differ only by the post in hand and by what a fault excuses. What a channel may
  do to an alert enters as one lemma about `Sends`. With the queue the theorem
  speaks of Telegram jobs: a crash after `RecordAlert`, or a failure that is only
  logged, loses the alert for the other channels (`app.py:84-95`).
* `CursorPassesNothing`: `NoPostSkipped`, provided that no store call of the
  queue mode raises (`FailIn` has only pairs with FALSE): with one the property is
  false, as `watcher_live_failure` shows. `CursorInv` says of every phase of the
  watcher which posts are covered (no alert, or in the outbox, or too old): in the
  catch-up all delivered ones, while those after the fetched page wait; live, all
  but those that wait; and that updates wait in ascending order.
* `PostsStayInReach`, under the same condition: a matching post that is not in the
  outbox is above the cursor of a watcher that will ask again, in its page, among
  the waiting updates, or in hand: the part of `EveryPostEnqueued` that is not
  fairness.
* `AvailabilityIsCurrent`: `AvailabilityCatchesUp`, from `AvailInv`: live updates are
  consecutive and end with the newest post, the catch-up reaches up to the first of
  them, and what a post says of slots is in the row or comes yet. A late update
  therefore overwrites the row only where all newer posts come after it.
* `RulesComeOut`: `RulesAreIntended`, for every content and every set of marks. The
  first rule that fits is the least number of one that fits (`FirstFit`).

`BotListenerProofs`, from `UsersAssumption` (chat ids and usernames are
different things, the configuration names some of them) and
`ListenerAssumption` (what a request is):

* `UsersStayUnique`, `OwnersStayOwners`: `UsersUnique` and `SeededOwnersOwn`.
  Each statement on the table has a lemma that it keeps rows apart, and one that
  it leaves an owner findable; `Seed` makes owners of whatever it finds. `UInv`
  adds that an update of the queue is in hand whenever a handler reads one, so
  that an /allow which reaches the table names somebody: `Raising` has stopped the
  others.

`BotUpdatesProofs`, from the same assumptions. All of it rests on `Queue`: the
update in hand is `NextUp`, the one after the stored offset and after what
Telegram has forgotten, and `NextUp` never falls (`NextQueue`).

* `TypeCorrect`: `TypeOK`.
* `NothingIsLost`: `NoUpdateLost`, from `AllTold`: all updates before `NextUp`
  were told or were to be told nothing, and so was the one in hand where only its
  offset is missing.
* `RepeatsAreMishaps`: `RepeatedOnlyByMishap`, from `Excused`: from `NextUp` on
  every effect was followed by a mishap, but for the update that is past its
  effect.
* `RevocationsStand`: `RevokedStaysOut`, from `Revocations`: no revocation is of
  an update after `NextUp`, so that no /allow that is repeated is later than one.
* `ForgottenForGood`: `ForgottenStaysForgotten`, from `Memory`: no chat was
  forgotten after `NextUp`, and a task goes on after its stream only where the
  stream broke.

`FoundersSyncProofs`, from `SyncAssumption`. What a call to the providers does
matters for neither of the first two:

* `NothingIsLost`: `ProcessedIsStored`, from `Stored`: while an answer is stored,
  what it named of the batch is stored or still to be.
* `RepeatsHaveCauses`: `StoredTwiceHasCause`, from `Paid`: what is not processed
  was stored no more often than its extraction broke off, but for what the answer
  in hand has just brought.
* `TypeCorrect`: `TypeOK`, with what `ListedUpTo` returns, by induction along the
  order.
* `ProvidersAskedInOrder`: `FailsOnlyWhenAllFailed`, from `CallInv`: during a call
  exactly the providers up to the present one were asked. The order may
  repeat names, leave some out and name some that are not configured. An earlier
  form of the property spoke of every place of a name in the order; the proof
  showed it to be false where another name stands between two places, and now it
  speaks of one.
* `BatchesKeepLimit`: a batch keeps its limit, and is not empty when the model is
  asked.

`OperationsProofs`, from `HistoryAssumption` and `FailoverAssumption`. Of `History`:

* `HistoryTypeCorrect`: `HistoryTypeOK`, with `Places`, where the two writers may be.
* `ImportHasNoHole`: `ImportedDownToCursor`, from `NoHole` (in a run everything
  passed so far is observed, not only what is above the cursor) and `RawFirst`
  (what is about to be observed has its raw row).
* `NothingCountsTwice`, `ImportsAreCounted`: `LegacyApart` and `ImportIsCounted`,
  from `ReportSound`, the same of what a run has read and not yet stored.
* `HashStays`: no step takes the hash of its image from a raw post.
* `ImportMovesOn`: the cursor moves to the next older post and never back, from
  `AtCursor`: the ground that `ImportGetsThrough` gains.

Of `Failover`:

* `FailoverTypeCorrect`: `FailoverTypeOK`.
* `NothingIsLost`: `OutageLosesNothing`, from `NothingLost`: what is below either
  offset or before the place in either batch was handled or passed over.
* `RepeatsHaveCauses`: `RepeatHasCause`, from `CauseInv`: what a poller has
  handled without interruption is below its offset (`OwnMarks`), and what it has in
  hand the other one has neither handled nor in hand without a cause on record
  (`SharedMarks`).

Of the two side by side, `EachAlone`: a behaviour of `MCOperations` is one of each,
with stutters. So `OperationsTypeCorrect` and `OperationsAreSafe` say of its `Spec`
what the theorems above say of its parts.

The theorems hold for any numbers of messages, recipients, workers, posts,
channels, tasks, users, updates, messages of the group, pollers' starts and
faults, and any configuration of the bot.

Only model-checked:

* Liveness (`NeverForgotten`, `PromiseFulfilled`, `EveryPostEnqueued`,
  `StreamEndsUnlessFault`, `EveryUpdateHandled`, `EveryMessageExtracted`,
  `ImportGetsThrough`, `StandbyYields`, `EveryUpdateServed`) and what fairness
  rests on (ENABLED), which the prover does not reach. Of `StreamEndsUnlessFault`,
  `EveryPostEnqueued` and `ImportGetsThrough` the theorems `NobodyWaitsInVain`,
  `PostsStayInReach` and `ImportMovesOn` prove what does not depend on fairness.

Every invariant and action property that a passing run checks is a theorem, and so
are the two refinements. `NoPostSkipped` is one under the condition on `FailIn`
above, since it is false without.

## 5. Where code and text disagree

* *Posts lost to a failing store* (`watcher_live_failure`). README.md:285-286:
  the watcher "catches up all later posts after a restart". A store call that
  raises in a live handler loses the post, and the next one moves the cursor
  past it. With `FailIn = {<<TRUE, "catchUp">>}` the same property fails in another way:
  the live handler that waited for the lock of a failed catch-up runs before
  the client is closed and moves the cursor past the rest of the history.
* *Availability* (`watcher_stale_availability`). README.md:368: "`/current`
  returns the current boolean availability state". A late live update repeats
  an older post; if the process stops before the newer update is repeated as
  well, the row stays at the older post.
* *Image layouts* (no run of its own). IMPLEMENTATION_PLAN.md:89-90: "ghost,
  partial-OFC, and unavailable layouts are excluded from alerts". The layouts
  `potential_ghost` and `partial_ofc_only` are evidence of availability for the
  parser (`parser.py:247-248`, `263`): such an image alerts without any words.
  The tests (`test_parser.py:142-149`) agree with the code, and `Intended`, which
  `RulesAreIntended` holds against the rules, counts such a layout as evidence too.
* *Streams* (`a2a_hung`). `a2a/engine.py:191`: the stream yields "until task
  transitions to terminal state". If the first status or the FAILED status
  cannot be written, no event ends the stream, and the update loop that
  awaits it answers nobody any more.
* *A listener that is switched off* (`bot_disabled`). .env.example:10-11:
  "Telegram bot alert delivery. This is separate from the Telegram channel
  watcher above." With `TELEGRAM_ALERT_ENABLED=false` the listener's `run`
  returns without an await, and `supervise`, which pauses only after an
  exception, calls it again at once: the event loop never gets to the watcher or
  the publisher again.
* *Providers* (`founders_escape`). README.md:386-387: "Providers are attempted in
  `LLM_PROVIDER_ORDER`; failures, HTTP 429 responses, and unavailable providers move
  to the next configured provider". `complete` goes on only after the exceptions it
  names (`llm.py:62`). A response that breaks off (`http.client.IncompleteRead`) or
  JSON of another shape (`AttributeError`, `TypeError`) from Ollama or NVIDIA ends
  the call, and nobody else is asked. `FailsOnlyWhenAllFailed` is about the message
  "all configured providers failed" (`llm.py:65`), which is true whenever it is sent.

### Facts that contradict no text

They came up in the modelling, and a reader of the code should know them.

* The delay of a retry counts from a clock reading made before the request: after
  a request of ten seconds a retry of "2-60 second delay" (README.md:280) may be
  due at once (`telegram_queue.py`, `store.py`, `mark_telegram_job_retry`).
* Trend reports are made from the stored snapshot, once there is one. Only the end
  of an import stores one: what the watcher observes afterwards is in no report.
* A reading that failed is stored for its hash like any other, and is what the
  next post with the same image gets (`KeepReading`).
* The watcher writes its posts under the name of the channel, the importer under
  its numeric id: a post that both have seen is two rows of the history.
* A silent alert is recorded although no enabled channel takes silent alerts
  (`RecordedIsBacked` excepts it).
* Some updates can never be acknowledged, and the bot answers nobody behind them:
  `/allow @` of an owner, `/rpc 1`, an announcement whose Markdown Telegram turns
  down, a command of somebody who blocks the bot (`bot_listener.py:161-168`,
  `190-193`; `Hopeless`, and `Stuck` for the two pollers).
* Without the queue an alert is sent until one channel took it, and with the queue
  the channels other than Telegram are tried once, after the alert was recorded.
* An open task stays open after a restart: nothing sweeps the rows
  (`OpenHasRunner` is stated for behaviours without faults).

## 6. Not modelled

* Functions of text, pixels, floats and dates: the statistics of a trend, which
  words hit which pattern, which characters are read from an image, categories,
  reasons and locations, the rendering and escaping of messages and their cut at
  4096 characters.
* Configuration, command line, agent card: no state of their own; the commands
  that change something are actions of the components they call.
* `docker-weekly-maintenance.py`: a sequential script over Docker, one instance
  at a time behind a lock file, that keeps nothing from one run to the next.
* Deployment files, dashboard, and the patch to OpenWA: not the program.
* Of the bot: the texts and cards, keyboards, and what the reading commands
  read; the edits of progress messages; `alerts_enabled`, which nothing clears.
* Of the bot the tasks that `/rpc` starts in the background (scopes "combined", which
  only the tests build, and "talos", that of one standby): one that is answered by
  the chat service may write into a chat after `/forget`, which
  `ForgottenStaysForgotten` does not speak of.
* `/sync` calling `sync_now` beside the watcher's own loop (`bot_listener.py:948-963`),
  which could extract a batch twice: `StoredTwiceHasCause` does not speak of it. It
  needs a listener with a WhatsApp watcher outside the scope "visa", which no entry
  point builds.
* Of Talos Scout the vector index and the answers, of the providers the health
  checks: neither changes what the loops decide.
* Of `supervise` its delays and the order it starts the tasks in.
* External evidence of a trend, which is entered by hand and read as it is.
* The watcher and the outbox are not composed into one module: what they share is
  one statement, `enqueue_telegram_alert`, which is `Enqueue` in both. That every
  matching post gets there is `EveryPostEnqueued`, what becomes of its rows
  `PromiseFulfilled`.
