---------------------------- MODULE SourceWatcher ---------------------------
(***************************************************************************)
(* From the source channel to the outbox: catch-up and live updates of the *)
(* Telegram watcher (telegram_watcher.py), the handling of one post and    *)
(* the supervised restart (app.py), with the rows of store.py that decide  *)
(* what is done again after a crash: the source cursor, the alerts, the    *)
(* outbox jobs and the availability row.                                   *)
(*                                                                         *)
(* The handling of a post is one step per SQLite transaction or await,     *)
(* because the process may die after any of them; what becomes of an alert *)
(* that is sent is in Notifiers.  The Telethon client is external.         *)
(***************************************************************************)
EXTENDS Integers, Sequences, PostParser, Notifiers

CONSTANTS
  MaxPost,       \* bound: posts of the channel, numbered 1..MaxPost
  Contents,      \* what a post may say or show
  HistoryLimit,  \* posts replayed when there is no cursor (TELEGRAM_HISTORY_LIMIT)
  Modes,         \* settings of the Kafka queue to be considered, of BOOLEAN
  ChannelSets,   \* sets of enabled channels to be considered
  FailIn,        \* bound: where a store call may raise, as pairs of queueMode
                 \* and "catchUp" or "live"
  MaxFaults      \* bound: crashes and raised store calls together

Posts == 1..MaxPost

ASSUME WatcherAssumption ==
  /\ MaxPost \in Nat
  /\ Contents \subseteq Content
  /\ HistoryLimit \in Nat
  /\ Modes \subseteq BOOLEAN
  /\ ChannelSets \subseteq SUBSET Channels
  /\ FailIn \subseteq BOOLEAN \X {"catchUp", "live"}
  /\ MaxFaults \in Nat

VARIABLES
  posted,    \* posts in the channel so far
  content,   \* content of each of them
  queueMode, \* setting: TRUE: outbox and cursor; FALSE: direct sending
  channels,  \* setting: the enabled channels
  cursor,    \* bot_state source_cursor:<channel>, 0 when there is none
  alerted,   \* posts with a row in alerts
  enqueued,  \* posts whose jobs are in notification_jobs
  avail,     \* availability_state: [open, by], by the post that set it
  mode,      \* watcher: "down", "fetch", "catchUp", "live" or "closing"
  updates,   \* live updates not yet handled, oldest first
  at, upto,  \* catch-up: last post delivered, last post of the fetched page
  cur,       \* post being handled under the delivery lock, 0 if none
  stage,     \* how far handle_message is with it
  told,      \* history: posts that reached somebody through the other or (direct
             \* mode) all channels
  again,     \* history: posts that did so by more than one sending
  excused,   \* history: posts whose sending failed, or was cut off by a fault
             \* before the alert was recorded
  dropped,   \* history: posts older than what a start without cursor replays
  faults     \* faults so far

durableVars == <<cursor, alerted, enqueued, avail>>
givenVars == <<posted, content, queueMode, channels>>
sentVars == <<told, again, excused>>
clientVars  == <<mode, updates, at, upto>>
workVars    == <<cur, stage>>
vars == <<givenVars, durableVars, clientVars, workVars, sentVars, dropped, faults>>

Stages == {"none", "read", "dedupe", "enqueue", "record", "others", "send", "advance"}

TypeOK ==
  /\ posted \in 0..MaxPost
  /\ content \in [1..posted -> Contents]
  /\ queueMode \in Modes /\ channels \in ChannelSets
  /\ cursor \in 0..posted
  /\ alerted \subseteq 1..posted
  /\ enqueued \subseteq 1..posted
  /\ avail \in [open : BOOLEAN, by : 0..posted]
  /\ mode \in {"down", "fetch", "catchUp", "live", "closing"}
  /\ updates \in Seq(1..posted)
  /\ at \in 0..posted
  /\ upto \in 0..posted
  /\ cur \in 0..posted
  /\ stage \in Stages
  /\ cur = 0 <=> stage = "none"
  /\ told \subseteq 1..posted /\ again \subseteq told
  /\ excused \subseteq 1..posted
  /\ dropped \subseteq 1..posted
  /\ faults \in 0..MaxFaults

Init ==
  /\ posted = 0
  /\ content = << >>
  /\ queueMode \in Modes /\ channels \in ChannelSets
  /\ queueMode => Telegram \in channels
  /\ cursor = 0
  /\ alerted = {}
  /\ enqueued = {}
  /\ avail = [open |-> FALSE, by |-> 0]
  /\ mode = "down"
  /\ updates = << >>
  /\ at = 0
  /\ upto = 0
  /\ cur = 0
  /\ stage = "none"
  /\ told = {}
  /\ again = {}
  /\ excused = {}
  /\ dropped = {}
  /\ faults = 0

\* What the parser makes of post m, and its silent flag.
Kind(m) == Verdict(content[m])
SilentAlert(m) == Silent(content[m])

\* The post being handled is sent, with that outcome.
Reaches(some) ==
  IF some = {} THEN UNCHANGED <<told, again>>
  ELSE /\ told' = told \union {cur}
       /\ again' = IF cur \in told THEN again \union {cur} ELSE again

-----------------------------------------------------------------------------
(* The channel and the Telethon client.                                    *)

\* A new post.  Once the handler is registered it is also a live update.
Post ==
  /\ posted < MaxPost
  /\ posted' = posted + 1
  /\ \E c \in Contents : content' = Append(content, c)
  /\ UNCHANGED <<queueMode, channels>>
  /\ updates' = IF mode = "down" THEN updates ELSE Append(updates, posted + 1)
  /\ UNCHANGED <<durableVars, mode, at, upto, workVars, sentVars, dropped, faults>>

\* supervise starts the watcher: it connects, registers the handler and takes
\* the delivery lock before the first history request is on its way.
Start ==
  /\ mode = "down"
  /\ mode' = "fetch"
  /\ UNCHANGED <<givenVars, durableVars, updates, at, upto, workVars, sentVars,
                 dropped, faults>>

Newest(n) == IF posted > n THEN posted - n ELSE 0

\* Mutant: the newest posts after the limit are not cut off at the first one.
FetchUncut ==
  /\ mode = "fetch"
  /\ mode' = "catchUp"
  /\ at' = IF cursor > 0 THEN cursor ELSE posted - HistoryLimit
  /\ upto' = posted
  /\ dropped' = dropped
  /\ UNCHANGED <<givenVars, durableVars, updates, workVars, sentVars, faults>>

\* Mutant: the limit of the first start cuts off every catch-up.
FetchLimited ==
  /\ mode = "fetch"
  /\ mode' = "catchUp"
  /\ at' = IF cursor > Newest(HistoryLimit) THEN cursor ELSE Newest(HistoryLimit)
  /\ upto' = posted
  /\ dropped' = IF cursor > 0 THEN dropped ELSE dropped \union 1..Newest(HistoryLimit)
  /\ UNCHANGED <<givenVars, durableVars, updates, workVars, sentVars, faults>>

\* The history request is answered: everything after the cursor, or without a
\* cursor the newest HistoryLimit posts.
Fetch ==
  /\ mode = "fetch"
  /\ mode' = "catchUp"
  /\ at' = IF cursor > 0 THEN cursor ELSE Newest(HistoryLimit)
  /\ upto' = posted
  /\ dropped' = IF cursor > 0 THEN dropped ELSE dropped \union 1..Newest(HistoryLimit)
  /\ UNCHANGED <<givenVars, durableVars, updates, workVars, sentVars, faults>>

\* The next post of the history, oldest first.
DeliverHistory ==
  /\ mode = "catchUp" /\ cur = 0
  /\ at < upto
  /\ at' = at + 1
  /\ cur' = at + 1
  /\ stage' = "read"
  /\ UNCHANGED <<givenVars, durableVars, mode, updates, upto, sentVars, dropped, faults>>

\* Mutant: the updates that waited for the lock are taken for history.
GoLiveDroppingUpdates ==
  /\ mode = "catchUp" /\ cur = 0
  /\ at = upto
  /\ mode' = "live"
  /\ at' = 0 /\ upto' = 0
  /\ updates' = << >>
  /\ UNCHANGED <<givenVars, durableVars, workVars, sentVars, dropped, faults>>

\* The catch-up is through and lets go of the lock.
GoLive ==
  /\ mode = "catchUp" /\ cur = 0
  /\ at = upto
  /\ mode' = "live"
  /\ at' = 0 /\ upto' = 0
  /\ UNCHANGED <<givenVars, durableVars, updates, workVars, sentVars, dropped, faults>>

\* sequential_updates: one handler at a time, in the order of the updates.
\* The lock is free once the catch-up is over, one way or the other.
DeliverUpdate ==
  /\ mode \in {"live", "closing"} /\ cur = 0
  /\ updates # << >>
  /\ cur' = Head(updates)
  /\ updates' = Tail(updates)
  /\ stage' = "read"
  /\ UNCHANGED <<givenVars, durableVars, mode, at, upto, sentVars, dropped, faults>>

-----------------------------------------------------------------------------
(* handle_message.                                                         *)

Goto(s) == stage' = s /\ UNCHANGED cur
Finish == stage' = "none" /\ cur' = 0
AfterPost == IF queueMode THEN Goto("advance") ELSE Finish

\* Mutant: a post that denies slots no longer clears the state.
ClassifyOpenOnly ==
  /\ stage = "read"
  /\ IF Kind(cur) = "open"
     THEN avail' = [open |-> TRUE, by |-> cur] /\ Goto("dedupe")
     ELSE UNCHANGED avail /\ AfterPost
  /\ UNCHANGED <<givenVars, cursor, alerted, enqueued, clientVars, sentVars, dropped, faults>>

\* Message row, OCR, parser, observation and availability.
Classify ==
  /\ stage = "read"
  /\ CASE Kind(cur) = "open"   -> avail' = [open |-> TRUE, by |-> cur] /\ Goto("dedupe")
       [] Kind(cur) = "closed" -> avail' = [open |-> FALSE, by |-> cur] /\ AfterPost
       [] OTHER               -> UNCHANGED avail /\ AfterPost
  /\ UNCHANGED <<givenVars, cursor, alerted, enqueued, clientVars, sentVars, dropped, faults>>

\* Mutant: has_alert is not asked.
DedupeNever ==
  /\ stage = "dedupe"
  /\ Goto(IF queueMode THEN "enqueue" ELSE "send")
  /\ UNCHANGED <<givenVars, durableVars, clientVars, sentVars, dropped, faults>>

\* has_alert.
Dedupe ==
  /\ stage = "dedupe"
  /\ IF cur \in alerted THEN AfterPost
     ELSE Goto(IF queueMode THEN "enqueue" ELSE "send")
  /\ UNCHANGED <<givenVars, durableVars, clientVars, sentVars, dropped, faults>>

\* enqueue_telegram_alert: the jobs of all recipients in one transaction.
Enqueue ==
  /\ stage = "enqueue"
  /\ enqueued' = enqueued \union {cur}
  /\ Goto("record")
  /\ UNCHANGED <<givenVars, cursor, alerted, avail, clientVars, sentVars, dropped, faults>>

\* record_alert; in direct mode it is the last thing done for the post.
RecordAlert ==
  /\ stage = "record"
  /\ alerted' = alerted \union {cur}
  /\ IF queueMode THEN Goto("others") ELSE Finish
  /\ UNCHANGED <<givenVars, cursor, enqueued, avail, clientVars, sentVars, dropped, faults>>

\* The other channels, in a thread; an exception is logged and that is all.
SendOthers ==
  /\ stage = "others"
  /\ \E o \in Sends(channels \ {Telegram}, SilentAlert(cur)) : Reaches(o.reached)
  /\ Goto("advance")
  /\ UNCHANGED <<givenVars, durableVars, clientVars, excused, dropped, faults>>

\* Mutant: the alert is recorded even though the delivery failed.
SendDirectRecording ==
  /\ stage = "send"
  /\ \E o \in Sends(channels, SilentAlert(cur)) :
       /\ Reaches(o.reached)
       /\ excused' = IF o.raises THEN excused \union {cur} ELSE excused
  /\ Goto("record")
  /\ UNCHANGED <<givenVars, durableVars, clientVars, dropped, faults>>

\* Direct mode: all channels, in a thread; when all have failed the alert is not
\* recorded.
SendDirect ==
  /\ stage = "send"
  /\ \E o \in Sends(channels, SilentAlert(cur)) :
       /\ Reaches(o.reached)
       /\ IF o.raises
          THEN Finish /\ excused' = excused \union {cur}
          ELSE Goto("record") /\ UNCHANGED excused
  /\ UNCHANGED <<givenVars, durableVars, clientVars, dropped, faults>>

\* advance_source_cursor never moves it back.
Advance ==
  /\ stage = "advance"
  /\ cursor' = IF cursor < cur THEN cur ELSE cursor
  /\ Finish
  /\ UNCHANGED <<givenVars, alerted, enqueued, avail, clientVars, sentVars, dropped, faults>>

-----------------------------------------------------------------------------
(* What goes wrong.                                                        *)

\* A fault between the sending of an alert and the record of it.
Interrupted ==
  IF ~queueMode /\ stage \in {"send", "record"} THEN excused \union {cur} ELSE excused

\* A store call raises (disk full, database locked for five seconds).  Under
\* the catch-up it ends run(), under a live update Telethon logs it and goes
\* on with the next.
StoreRaises ==
  /\ stage \notin {"none", "others", "send"}
  /\ <<queueMode, IF mode = "catchUp" THEN "catchUp" ELSE "live">> \in FailIn
  /\ faults < MaxFaults
  /\ faults' = faults + 1
  /\ mode' = IF mode = "catchUp" THEN "closing" ELSE mode
  /\ Finish
  /\ excused' = Interrupted
  /\ UNCHANGED <<givenVars, durableVars, updates, at, upto, told, again, dropped>>

\* The client is closed; supervise will start the watcher again.
Disconnect ==
  /\ mode = "closing" /\ cur = 0
  /\ mode' = "down"
  /\ updates' = << >> /\ at' = 0 /\ upto' = 0
  /\ UNCHANGED <<givenVars, durableVars, workVars, sentVars, dropped, faults>>

\* The process dies or the connection is lost; what is in SQLite stays.  A
\* delivery on its way may get through.
Crash ==
  /\ mode # "down"
  /\ faults < MaxFaults
  /\ faults' = faults + 1
  /\ mode' = "down"
  /\ updates' = << >> /\ at' = 0 /\ upto' = 0
  /\ Finish
  /\ \/ UNCHANGED <<told, again>>
     \/ stage = "others" /\ \E o \in Sends(channels \ {Telegram}, SilentAlert(cur)) : Reaches(o.reached)
     \/ stage = "send" /\ \E o \in Sends(channels, SilentAlert(cur)) : Reaches(o.reached)
  /\ excused' = Interrupted
  /\ UNCHANGED <<givenVars, durableVars, dropped>>

-----------------------------------------------------------------------------

Watch == Start \/ Fetch \/ DeliverHistory \/ GoLive \/ DeliverUpdate \/ Disconnect

Handle ==
  \/ Classify \/ Dedupe \/ Enqueue \/ RecordAlert
  \/ SendOthers \/ SendDirect \/ Advance

Next == Post \/ Watch \/ Handle \/ StoreRaises \/ Crash

Spec == Init /\ [][Next]_vars

\* supervise restarts the watcher for ever and the loop runs what is ready.
FairSpec == Spec /\ WF_vars(Watch) /\ WF_vars(Handle)

-----------------------------------------------------------------------------
(* Properties.                                                             *)

\* The cursor never passes a matching post that is not in the outbox, so that
\* "catches up all later posts after a restart" leaves none behind (README,
\* Queued Telegram alerts).  Posts a start without cursor does not replay are
\* excepted.
NoPostSkipped ==
  \A m \in 1..cursor : Kind(m) = "open" => m \in enqueued \union dropped

\* What has_alert will suppress from now on is on its way or has arrived: with the
\* queue its jobs are there, without it somebody has received it, unless no
\* enabled channel takes alerts of its kind.  A crash between the two writes, or
\* a delivery that fails, can repeat work but not lose such an alert; with the queue
\* the other channels may lose theirs, since they come after the record (app.py:84-95).
RecordedIsBacked ==
  \A m \in alerted :
    IF queueMode THEN m \in enqueued
    ELSE Eligible(channels, SilentAlert(m)) # {} => m \in told

\* When the watcher is live and has nothing left to handle, /current speaks of
\* the newest post that says anything about slots.
AvailabilityIsNewest ==
  mode = "live" /\ cur = 0 /\ updates = << >> =>
    \A m \in 1..posted :
      Kind(m) \in {"open", "closed"} /\ m \notin dropped => avail.by >= m

\* So it is as long as nothing has failed, although late live updates repeat
\* posts that are older than what the row shows.
AvailabilityCatchesUp == faults = 0 => AvailabilityIsNewest

\* Queue mode: every matching post reaches the outbox in the end, whatever crashes
\* interrupt its handling.
EveryPostEnqueued ==
  \A m \in Posts :
    (queueMode /\ m <= posted /\ Kind(m) = "open") ~> (m \in enqueued \union dropped)

\* An alert that has reached somebody is sent again only when each of the channels
\* had failed, or a fault came between the delivery and the record of it.  With
\* the queue the other channels, which come after the record, never hear of a
\* post twice, however often catch-up, live updates and restarts bring it back.
RepeatedOnlyByFault == IF queueMode THEN again = {} ELSE again \subseteq excused

\* Whatever the channel is going to post, of any pattern groups and layout, the
\* order of the parser's rules gives it the verdict it should have: a denial
\* beats every announcement, an alert has an announcement to rest on, only a
\* denial clears the availability (parse).
VerdictIsIntended == \A c \in Content : Intended(c, Verdict(c))

\* Whatever marks the text of an image bears, the order of the rules of media.py
\* gives it the layout it should have (analyze): a screen that cannot be booked is
\* not taken for one that can, and what cannot be read is not taken for either.
LayoutIsIntended ==
  \A marks \in SUBSET Marks : Readable(marks) => LayoutIntended(marks)

\* The two rule lists, one upon the other.  They depend on no variable and are
\* asked before the first post.
RulesAreIntended ==
  mode = "down" /\ posted = 0 => VerdictIsIntended /\ LayoutIsIntended

=============================================================================
