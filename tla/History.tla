------------------------------- MODULE History ------------------------------
(***************************************************************************)
(* The history of the channel in SQLite, its two writers and what is read  *)
(* out of it.                                                              *)
(*                                                                         *)
(* The watcher takes every new post (app.py, _process_message), the        *)
(* importer goes back through the old ones (backfill.py), each in a        *)
(* process of its own; both keep the raw post, the reading of its image    *)
(* and the parser's result.  A run of the importer that gets to its end    *)
(* stores a snapshot of the trend (trend.py), and reports are made from    *)
(* the latest one.  The two write under different chat keys: the watcher   *)
(* the name of the channel, the importer its numeric id.                   *)
(*                                                                         *)
(* A step is a SQLite transaction or a read of the database.  Posts are    *)
(* numbered in the order they are sent in.  Deliveries, the availability   *)
(* and restarts of the watcher are in SourceWatcher; several chats are     *)
(* imported one after the other and never meet.                            *)
(***************************************************************************)
EXTENDS Integers, Sequences

CONSTANTS
  Images, NoImage,
  Bookable,      \* images whose text, when it can be read, shows slots
  Says,          \* what a post may say of slots without its image, of BOOLEAN
  OldPosts,      \* posts sent before there was a watcher
  OldAlerts,     \* those of them that an older version alerted about
  Limits,        \* what --limit may be
  MaxPost,       \* bound: posts of the channel
  MaxFaults      \* bound: unread images, failed downloads and dead importers

Posts == 1..MaxPost

ASSUME HistoryAssumption ==
  /\ NoImage \notin Images
  /\ Bookable \subseteq Images
  /\ Says \subseteq BOOLEAN
  /\ MaxPost \in Nat /\ MaxFaults \in Nat
  /\ OldPosts \in 0..MaxPost
  /\ OldAlerts \subseteq 1..OldPosts
  /\ Limits \subseteq Nat \ {0}

VARIABLES
  sentPosts,   \* the posts of the channel: [says, image]
  raw,         \* telegram_messages
  hashed,      \* those of them with a media_sha256
  observed,    \* observed_messages
  matched,     \* those of them with matched = 1
  analysis,    \* media_analysis: per image "none", "failed" or "read"
  alerts,      \* alerts
  snapshot,    \* latest row of trend_snapshots: [points, legacy]; both empty
               \* while there is none
  stored,      \* whether there is one
  cursor,      \* bot_state backfill:<id>, 0 when there is none
  stage,       \* per writer: what it does next with the post it is at
  at,          \* per writer: that post; the importer's last one between posts
  reading,     \* per writer: what it got out of the image
  seen,        \* the last post the watcher is through with
  import,      \* the run of the importer: "off", "posts", "points", "legacy" or "save"
  left,        \* posts the run may still take
  report,      \* what the run has read for its snapshot
  top,         \* history variable: the newest post when the cursor was still 0
  done,        \* history variable: the last run got to its end
  mishaps      \* faults so far

postVars == <<sentPosts, alerts>>
rowVars == <<raw, hashed, observed, matched, analysis>>
writerVars == <<stage, at, reading>>
importVars == <<cursor, import, left, report, snapshot, stored, top, done>>
historyVars == <<postVars, rowVars, writerVars, seen, importVars, mishaps>>

Watcher == "watcher"
Importer == "importer"
Writers == {Watcher, Importer}

\* Rows are keyed by chat and message; the writer stands for its chat key.
Row == Writers \X Posts
Content == [says : Says, image : Images \union {NoImage}]
Readings == {"none", "failed", "read"}
Trend == [points : SUBSET Row, legacy : SUBSET Posts]
NoTrend == [points |-> {}, legacy |-> {}]

Newest == Len(sentPosts)
ImageOf(m) == sentPosts[m].image
RowOf(a) == <<a, at[a]>>

HistoryTypeOK ==
  /\ sentPosts \in Seq(Content) /\ Newest \in OldPosts..MaxPost
  /\ raw \subseteq Row /\ hashed \subseteq raw
  /\ observed \subseteq Row /\ matched \subseteq observed
  /\ analysis \in [Images -> Readings]
  /\ alerts \subseteq Posts
  /\ snapshot \in Trend /\ stored \in BOOLEAN /\ report \in Trend
  /\ cursor \in 0..top /\ top \in 0..Newest
  /\ stage \in [Writers -> {"idle", "raw", "analyse", "keep", "observe", "alert", "cursor"}]
  /\ at \in [Writers -> 0..Newest + 1]
  /\ \A a \in Writers : stage[a] # "idle" => at[a] \in 1..Newest
  /\ reading \in [Writers -> Readings]
  /\ seen \in OldPosts..Newest
  /\ import \in {"off", "posts", "points", "legacy", "save"}
  /\ import # "posts" => stage[Importer] = "idle"
  /\ left \in Nat
  /\ done \in BOOLEAN
  /\ mishaps \in 0..MaxFaults

HistoryInit ==
  /\ sentPosts \in [1..OldPosts -> Content]
  /\ raw = {} /\ hashed = {} /\ observed = {} /\ matched = {}
  /\ analysis = [i \in Images |-> "none"]
  /\ alerts = OldAlerts
  /\ snapshot = NoTrend /\ stored = FALSE /\ report = NoTrend
  /\ cursor = 0 /\ top = 0
  /\ stage = [a \in Writers |-> "idle"]
  /\ at = [a \in Writers |-> 0]
  /\ reading = [a \in Writers |-> "none"]
  /\ seen = OldPosts
  /\ import = "off" /\ left = 0 /\ done = FALSE
  /\ mishaps = 0

Goes(a, s) == stage' = [stage EXCEPT ![a] = s]

Mishap == mishaps < MaxFaults /\ mishaps' = mishaps + 1

-----------------------------------------------------------------------------
(* What the two writers do alike.                                          *)

\* The image is downloaded and read, then its hash is looked up: what is stored
\* for it counts, even that it could not be read.  The download may fail; in the
\* importer a call that raises after it is only logged, and the hash is kept.
Analyse(a) ==
  /\ stage[a] = "analyse"
  /\ UNCHANGED <<postVars, rowVars, at, seen, importVars>>
  /\ LET image == ImageOf(at[a])
         onward == IF a = Watcher THEN "observe" ELSE "raw"
     IN \/ /\ image = NoImage
           /\ reading' = [reading EXCEPT ![a] = "none"]
           /\ Goes(a, onward) /\ UNCHANGED mishaps
        \/ /\ image # NoImage
           /\ \E got \in IF a = Watcher THEN {"none"} ELSE {"none", "failed"} :
                reading' = [reading EXCEPT ![a] = got]
           /\ Goes(a, onward) /\ Mishap
        \/ /\ image # NoImage
           /\ analysis[image] # "none"
           /\ reading' = [reading EXCEPT ![a] = analysis[image]]
           /\ Goes(a, onward) /\ UNCHANGED mishaps
        \/ /\ image # NoImage
           /\ analysis[image] = "none"
           /\ Goes(a, "keep")
           /\ \/ reading' = [reading EXCEPT ![a] = "read"] /\ UNCHANGED mishaps
              \/ reading' = [reading EXCEPT ![a] = "failed"] /\ Mishap

\* record_media_analysis; the other writer may have stored one in between.
KeepReading(a) ==
  /\ stage[a] = "keep"
  /\ analysis' = [analysis EXCEPT ![ImageOf(at[a])] = reading[a]]
  /\ Goes(a, IF a = Watcher THEN "observe" ELSE "raw")
  /\ UNCHANGED <<postVars, raw, hashed, observed, matched, at, reading, seen,
                 importVars, mishaps>>

\* parse, as far as the trend is concerned.
Matches(m, got) ==
  \/ sentPosts[m].says
  \/ ImageOf(m) \in Bookable /\ got = "read"

\* record_observation.
Observe(a) ==
  /\ stage[a] = "observe"
  /\ observed' = observed \union {RowOf(a)}
  /\ LET matches == Matches(at[a], reading[a])
     IN  /\ matched' = IF matches THEN matched \union {RowOf(a)} ELSE matched \ {RowOf(a)}
         /\ Goes(a, IF a = Importer THEN "cursor" ELSE IF matches THEN "alert" ELSE "idle")
         /\ seen' = IF a = Watcher /\ ~matches THEN at[a] ELSE seen
  /\ UNCHANGED <<postVars, raw, hashed, analysis, at, reading, importVars, mishaps>>

-----------------------------------------------------------------------------
(* The channel and the watcher.                                            *)

Publish ==
  /\ Newest < MaxPost
  /\ \E c \in Content : sentPosts' = Append(sentPosts, c)
  /\ UNCHANGED <<alerts, rowVars, writerVars, seen, importVars, mishaps>>

\* The next post reaches the watcher: record_telegram_message, without a hash.
WatchPost ==
  /\ stage[Watcher] = "idle"
  /\ seen < Newest
  /\ at' = [at EXCEPT ![Watcher] = seen + 1]
  /\ raw' = raw \union {<<Watcher, seen + 1>>}
  /\ Goes(Watcher, "analyse")
  /\ UNCHANGED <<postVars, hashed, observed, matched, analysis, reading, seen,
                 importVars, mishaps>>

\* record_alert, when the alert is on its way.
AlertRecorded ==
  /\ stage[Watcher] = "alert"
  /\ alerts' = alerts \union {at[Watcher]}
  /\ seen' = at[Watcher]
  /\ Goes(Watcher, "idle")
  /\ UNCHANGED <<sentPosts, rowVars, at, reading, importVars, mishaps>>

-----------------------------------------------------------------------------
(* The importer.                                                           *)

\* Mutant: the post at the cursor is asked for again.
ImportStartInclusive ==
  /\ import = "off"
  /\ \E n \in Limits : left' = n
  /\ import' = "posts"
  /\ at' = [at EXCEPT ![Importer] = IF cursor = 0 THEN Newest + 1 ELSE cursor + 1]
  /\ top' = IF cursor = 0 THEN Newest ELSE top
  /\ done' = FALSE
  /\ UNCHANGED <<postVars, rowVars, stage, reading, seen, cursor, report, snapshot,
                 stored, mishaps>>

\* The command is given: everything below the cursor, newest first, or without
\* a cursor everything there is.
ImportStart ==
  /\ import = "off"
  /\ \E n \in Limits : left' = n
  /\ import' = "posts"
  /\ at' = [at EXCEPT ![Importer] = IF cursor = 0 THEN Newest + 1 ELSE cursor]
  /\ top' = IF cursor = 0 THEN Newest ELSE top
  /\ done' = FALSE
  /\ UNCHANGED <<postVars, rowVars, stage, reading, seen, cursor, report, snapshot,
                 stored, mishaps>>

\* Mutant: the cursor is stored when the post is taken.
ImportPostAhead ==
  /\ import = "posts" /\ stage[Importer] = "idle"
  /\ left > 0 /\ at[Importer] > 1
  /\ left' = left - 1
  /\ at' = [at EXCEPT ![Importer] = @ - 1]
  /\ cursor' = at[Importer] - 1
  /\ Goes(Importer, "analyse")
  /\ UNCHANGED <<postVars, rowVars, reading, seen, import, report, snapshot,
                 stored, top, done, mishaps>>

ImportPost ==
  /\ import = "posts" /\ stage[Importer] = "idle"
  /\ left > 0 /\ at[Importer] > 1
  /\ left' = left - 1
  /\ at' = [at EXCEPT ![Importer] = @ - 1]
  /\ Goes(Importer, "analyse")
  /\ UNCHANGED <<postVars, rowVars, reading, seen, cursor, import, report, snapshot,
                 stored, top, done, mishaps>>

\* record_telegram_message: a hash that is there stays when this time there is
\* none (coalesce).
ImportRaw ==
  /\ stage[Importer] = "raw"
  /\ raw' = raw \union {RowOf(Importer)}
  /\ hashed' = IF reading[Importer] # "none" THEN hashed \union {RowOf(Importer)} ELSE hashed
  /\ Goes(Importer, "observe")
  /\ UNCHANGED <<postVars, observed, matched, analysis, at, reading, seen, importVars,
                 mishaps>>

\* set_backfill_cursor.
ImportCursor ==
  /\ stage[Importer] = "cursor"
  /\ cursor' = at[Importer]
  /\ Goes(Importer, "idle")
  /\ UNCHANGED <<postVars, rowVars, at, reading, seen, import, left, report, snapshot,
                 stored, top, done, mishaps>>

\* Mutant: the run does not wait for the post it is at.
ImportThroughUnfinished ==
  /\ import = "posts"
  /\ left = 0 \/ at[Importer] <= 1
  /\ import' = "points"
  /\ UNCHANGED <<postVars, rowVars, writerVars, seen, cursor, left, report, snapshot,
                 stored, top, done, mishaps>>

\* Mutant: a run that has used up its limit returns before the snapshot.
ImportThroughEarly ==
  /\ import = "posts" /\ stage[Importer] = "idle"
  /\ left = 0 \/ at[Importer] <= 1
  /\ import' = IF left = 0 THEN "off" ELSE "points"
  /\ done' = (left = 0)
  /\ UNCHANGED <<postVars, rowVars, writerVars, seen, cursor, left, report, snapshot,
                 stored, top, mishaps>>

\* No posts are left, or the run may take no more: refresh_snapshot is called.
ImportThrough ==
  /\ import = "posts" /\ stage[Importer] = "idle"
  /\ left = 0 \/ at[Importer] <= 1
  /\ import' = "points"
  /\ UNCHANGED <<postVars, rowVars, writerVars, seen, cursor, left, report, snapshot,
                 stored, top, done, mishaps>>

\* Mutant: the alerts of the time of the observations count as well.
Baseline(points) == alerts

\* Which alerts stand for the time before the first matching observation.
Legacy(points) ==
  {m \in alerts : \A row \in points : m < row[2]}

\* trend_points, first and second query.
ReadPoints ==
  /\ import = "points"
  /\ report' = [points |-> matched, legacy |-> {}]
  /\ import' = "legacy"
  /\ UNCHANGED <<postVars, rowVars, writerVars, seen, cursor, left, snapshot, stored,
                 top, done, mishaps>>

ReadLegacy ==
  /\ import = "legacy"
  /\ report' = [report EXCEPT !.legacy = Legacy(report.points)]
  /\ import' = "save"
  /\ UNCHANGED <<postVars, rowVars, writerVars, seen, cursor, left, snapshot, stored,
                 top, done, mishaps>>

\* save_trend_snapshot.
SaveSnapshot ==
  /\ import = "save"
  /\ snapshot' = report /\ stored' = TRUE
  /\ report' = NoTrend
  /\ import' = "off" /\ left' = 0 /\ done' = TRUE
  /\ UNCHANGED <<postVars, rowVars, writerVars, seen, cursor, top, mishaps>>

\* The importer is stopped, or a call raises and ends it.
ImportDies ==
  /\ import # "off"
  /\ Mishap
  /\ import' = "off" /\ left' = 0 /\ report' = NoTrend
  /\ Goes(Importer, "idle")
  /\ UNCHANGED <<postVars, rowVars, at, reading, seen, cursor, snapshot, stored, top, done>>

-----------------------------------------------------------------------------
Watching ==
  \/ WatchPost \/ AlertRecorded
  \/ Analyse(Watcher) \/ KeepReading(Watcher) \/ Observe(Watcher)

Importing ==
  \/ ImportPost \/ ImportRaw \/ ImportCursor \/ ImportThrough
  \/ ReadPoints \/ ReadLegacy \/ SaveSnapshot
  \/ Analyse(Importer) \/ KeepReading(Importer) \/ Observe(Importer)

HistoryNext == Publish \/ Watching \/ ImportStart \/ Importing \/ ImportDies

HistorySpec == HistoryInit /\ [][HistoryNext]_historyVars

\* A run that was started goes on; whoever imports starts runs again and again
\* (README.md:403, "Re-running resumes").
HistoryFairness == WF_historyVars(ImportStart) /\ WF_historyVars(Importing)

-----------------------------------------------------------------------------
(* Properties.                                                             *)

\* Wherever a run of the importer ends, what was the newest post when the
\* import began and everything from there down to the cursor is kept and has been
\* observed: resuming below the cursor leaves no hole (backfill.py:40-43, 83).
\* And no observation of either writer is without its raw post, wherever it
\* stops: all can be classified again (record_telegram_message "before deriving a
\* classification", store.py:107).
ImportedDownToCursor ==
  /\ cursor # 0 => \A m \in cursor..top : <<Importer, m>> \in observed
  /\ observed \subseteq raw

\* No post counts both as an old alert and as an observation, although the two
\* queries are no transaction and the watcher alerts in between.
LegacyApart ==
  \A m \in snapshot.legacy : \A row \in snapshot.points : row[2] # m

\* A run that got to its end has counted all it imported, in this and in
\* earlier runs that broke off.
ImportIsCounted ==
  import = "off" /\ done =>
    \A row \in matched : row[1] = Importer => row \in snapshot.points

\* However small the limit and wherever runs break off, repeated runs get to
\* the first post of the channel.
ImportGetsThrough == top # 0 ~> cursor = 1

=============================================================================
