-------------------------- MODULE OperationsProofs --------------------------
(***************************************************************************)
(* Proofs about what is run by hand beside the notifier.                   *)
(*                                                                         *)
(* History, for any channel, limits and number of faults: the types, that  *)
(* an import leaves no hole above its cursor and no row without its raw    *)
(* post, that a snapshot counts nothing twice and all that was imported,   *)
(* that a hash once stored stays, and that the cursor only moves on.       *)
(*                                                                         *)
(* Failover, for any number of updates, starts and failures: the types,    *)
(* that nothing Telegram forgets was left out, and what makes an update    *)
(* take effect twice.  A poller is at update u of its batch from           *)
(* current[u] on; what lies below is covered, what it still holds the      *)
(* other has not handled, unless there is a cause on record.               *)
(*                                                                         *)
(* Both: what is proved of each alone holds of the two side by side.       *)
(***************************************************************************)
EXTENDS MCOperations, SequenceTheorems, TLAPS

USE DEF Writers, Watcher, Importer, Pollers, Primary, Standby

-----------------------------------------------------------------------------
(* History: types.                                                         *)

\* The watcher is past the old posts, the importer not above where it began.
Places ==
  /\ stage[Watcher] # "idle" => at[Watcher] > OldPosts
  /\ import = "posts" => at[Importer] \in 1..top + 1
  /\ stage[Importer] # "idle" => at[Importer] <= top

HistoryTypes == HistoryTypeOK /\ Places

\* What the types say of the post a writer is at.
LEMMA PostInHand ==
  ASSUME HistoryTypes, NEW a \in Writers, stage[a] # "idle"
  PROVE  /\ at[a] \in 1..Newest /\ RowOf(a) \in Row
         /\ sentPosts[at[a]] \in Content /\ ImageOf(at[a]) \in Images \union {NoImage}
<1> USE HistoryAssumption DEF HistoryTypes, HistoryTypeOK
<1>1. at[a] \in 1..Newest /\ Newest \in OldPosts..MaxPost
  OBVIOUS
<1>2. at[a] \in Posts
  BY <1>1 DEF Posts
<1>3. sentPosts[at[a]] \in Content
  BY <1>1, ElementOfSeq DEF Newest
<1> QED BY <1>1, <1>2, <1>3 DEF RowOf, Row, ImageOf, Content

LEMMA InitHistoryTypes == HistoryInit => HistoryTypes
<1> SUFFICES ASSUME HistoryInit PROVE HistoryTypes
  OBVIOUS
<1> USE HistoryAssumption DEF HistoryInit
<1>1. sentPosts \in Seq(Content) /\ Newest = OldPosts
  <2>1. OldPosts \in Nat /\ sentPosts \in [1..OldPosts -> Content]
    OBVIOUS
  <2> QED BY <2>1 DEF Newest
<1>2. alerts \subseteq Posts
  BY DEF Posts
<1>3. analysis \in [Images -> Readings] /\ reading \in [Writers -> Readings]
  BY DEF Readings
<1>4. snapshot \in Trend /\ report \in Trend
  BY DEF Trend, NoTrend
<1>5. /\ stage = [a \in Writers |-> "idle"] /\ at = [a \in Writers |-> 0]
      /\ cursor = 0 /\ top = 0 /\ seen = OldPosts /\ import = "off" /\ left = 0
      /\ mishaps = 0 /\ stored = FALSE /\ done = FALSE
      /\ raw = {} /\ hashed = {} /\ observed = {} /\ matched = {}
  OBVIOUS
<1> HIDE DEF HistoryInit
<1>6. Places
  BY <1>5 DEF Places
<1>7. HistoryTypeOK
  <2>1. \A a \in Writers : stage[a] = "idle" /\ at[a] = 0
    BY <1>5
  <2>2. /\ stage \in [Writers -> {"idle", "raw", "analyse", "keep", "observe", "alert", "cursor"}]
        /\ at \in [Writers -> 0..Newest + 1]
    BY <1>1, <1>5
  <2>3. /\ Newest \in OldPosts..MaxPost /\ seen \in OldPosts..Newest /\ mishaps \in 0..MaxFaults
        /\ cursor \in 0..top /\ top \in 0..Newest
    BY <1>1, <1>5
  <2>4. /\ raw \subseteq Row /\ hashed \subseteq raw /\ observed \subseteq Row
        /\ matched \subseteq observed
    BY <1>5
  <2>5. import \in {"off", "posts", "points", "legacy", "save"} /\ left \in Nat
        /\ done \in BOOLEAN /\ stored \in BOOLEAN
    BY <1>5
  <2> QED BY <1>1, <1>2, <1>3, <1>4, <2>1, <2>2, <2>3, <2>4, <2>5 DEF HistoryTypeOK
<1> QED BY <1>6, <1>7 DEF HistoryTypes

LEMMA ChannelTypes ==
  ASSUME HistoryTypes, Publish \/ WatchPost \/ AlertRecorded PROVE HistoryTypes'
<1> USE HistoryAssumption DEF HistoryTypes, HistoryTypeOK, Places
<1>1. CASE Publish
  <2>1. PICK c \in Content : sentPosts' = Append(sentPosts, c)
    BY <1>1 DEF Publish
  <2>2. sentPosts' \in Seq(Content) /\ Newest' = Newest + 1 /\ Newest' <= MaxPost
    BY <1>1, <2>1, AppendProperties DEF Publish, Newest
  <2>3. UNCHANGED <<alerts, raw, hashed, observed, matched, analysis, stage, at, reading, seen,
                    cursor, import, left, report, snapshot, stored, top, done, mishaps>>
    BY <1>1 DEF Publish, rowVars, writerVars, importVars
  <2> QED BY <2>2, <2>3
<1>2. CASE WatchPost
  <2>1. seen + 1 \in 1..Newest /\ seen + 1 > OldPosts /\ seen + 1 \in Posts
    BY <1>2 DEF WatchPost, Posts
  <2>2. UNCHANGED <<sentPosts, Newest, alerts, hashed, observed, matched, analysis, reading, seen,
                    cursor, import, left, report, snapshot, stored, top, done, mishaps>>
    BY <1>2 DEF WatchPost, postVars, importVars, Newest
  <2>3. /\ at' = [at EXCEPT ![Watcher] = seen + 1]
        /\ stage' = [stage EXCEPT ![Watcher] = "analyse"]
        /\ raw' = raw \union {<<Watcher, seen + 1>>}
    BY <1>2 DEF WatchPost, Goes
  <2>4. raw' \subseteq Row
    BY <2>1, <2>3 DEF Row
  <2> QED BY <2>1, <2>2, <2>3, <2>4
<1>3. CASE AlertRecorded
  <2>1. at[Watcher] \in 1..Newest /\ at[Watcher] \in Posts /\ at[Watcher] > OldPosts
    BY <1>3 DEF AlertRecorded, Posts
  <2>2. UNCHANGED <<sentPosts, Newest, raw, hashed, observed, matched, analysis, at, reading,
                    cursor, import, left, report, snapshot, stored, top, done, mishaps>>
    BY <1>3 DEF AlertRecorded, rowVars, importVars, Newest
  <2>3. /\ alerts' = alerts \union {at[Watcher]} /\ seen' = at[Watcher]
        /\ stage' = [stage EXCEPT ![Watcher] = "idle"]
    BY <1>3 DEF AlertRecorded, Goes
  <2> QED BY <2>1, <2>2, <2>3
<1> QED BY <1>1, <1>2, <1>3

LEMMA WriterTypes ==
  ASSUME HistoryTypes, NEW a \in Writers, Analyse(a) \/ KeepReading(a) \/ Observe(a)
  PROVE  HistoryTypes'
<1> USE HistoryAssumption DEF HistoryTypes, HistoryTypeOK, Places
<1>1. stage[a] # "idle" /\ at[a] \in 1..Newest /\ RowOf(a) \in Row
  BY PostInHand DEF Analyse, KeepReading, Observe
<1>2. CASE Analyse(a)
  <2>1. UNCHANGED <<sentPosts, Newest, alerts, raw, hashed, observed, matched, analysis, at, seen,
                    cursor, import, left, report, snapshot, stored, top, done>>
    BY <1>2 DEF Analyse, postVars, rowVars, importVars, Newest
  <2>2. /\ mishaps' \in 0..MaxFaults /\ reading' \in [Writers -> Readings]
        /\ \E s \in {"keep", "observe", "raw"} : stage' = [stage EXCEPT ![a] = s]
    <3> DEFINE image == ImageOf(at[a])
               onward == IF a = Watcher THEN "observe" ELSE "raw"
    <3>1. image \in Images \union {NoImage} /\ (image # NoImage => analysis[image] \in Readings)
      BY <1>1, PostInHand
    <3>2. mishaps + 1 \in 0..MaxFaults \/ ~(mishaps < MaxFaults)
      OBVIOUS
    <3>3. mishaps' \in {mishaps} \/ Mishap
      BY <1>2 DEF Analyse
    <3>4. mishaps' \in 0..MaxFaults
      BY <3>2, <3>3 DEF Mishap
    <3>5. \E s \in {"keep", "observe", "raw"} : Goes(a, s)
      BY <1>2 DEF Analyse
    <3>6. \E got \in Readings : reading' = [reading EXCEPT ![a] = got]
      BY <1>2, <3>1 DEF Analyse, Readings
    <3> QED BY <3>4, <3>5, <3>6 DEF Goes
  <2> QED BY <1>1, <2>1, <2>2
<1>3. CASE KeepReading(a)
  <2>1. UNCHANGED <<sentPosts, Newest, alerts, raw, hashed, observed, matched, at, reading, seen,
                    cursor, import, left, report, snapshot, stored, top, done, mishaps>>
    BY <1>3 DEF KeepReading, postVars, importVars, Newest
  <2>2. /\ \E s \in {"observe", "raw"} : stage' = [stage EXCEPT ![a] = s]
        /\ analysis' = [analysis EXCEPT ![ImageOf(at[a])] = reading[a]]
    BY <1>3 DEF KeepReading, Goes
  <2>3. analysis' \in [Images -> Readings]
    BY <2>2
  <2> QED BY <1>1, <2>1, <2>2, <2>3
<1>4. CASE Observe(a)
  <2>1. UNCHANGED <<sentPosts, Newest, alerts, raw, hashed, analysis, at, reading,
                    cursor, import, left, report, snapshot, stored, top, done, mishaps>>
    BY <1>4 DEF Observe, postVars, importVars, Newest
  <2>2. /\ observed' = observed \union {RowOf(a)}
        /\ matched' \in {matched \union {RowOf(a)}, matched \ {RowOf(a)}}
        /\ seen' = seen \/ (a = Watcher /\ seen' = at[a])
        /\ \E s \in {"idle", "alert", "cursor"} : stage' = [stage EXCEPT ![a] = s]
    <3> DEFINE matches == Matches(at[a], reading[a])
    <3>1. /\ observed' = observed \union {RowOf(a)}
          /\ matched' = IF matches THEN matched \union {RowOf(a)} ELSE matched \ {RowOf(a)}
          /\ stage' = [stage EXCEPT ![a] = IF a = Importer THEN "cursor"
                                           ELSE IF matches THEN "alert" ELSE "idle"]
          /\ seen' = IF a = Watcher /\ ~matches THEN at[a] ELSE seen
      BY <1>4 DEF Observe, Goes
    <3>2. /\ matched' \in {matched \union {RowOf(a)}, matched \ {RowOf(a)}}
          /\ seen' = seen \/ (a = Watcher /\ seen' = at[a])
      BY ONLY <3>1
    <3>3. \E s \in {"idle", "alert", "cursor"} : stage' = [stage EXCEPT ![a] = s]
      BY ONLY <3>1
    <3> QED BY ONLY <3>1, <3>2, <3>3
  <2>3. observed' \subseteq Row /\ matched' \subseteq observed'
    BY <1>1, <2>2
  <2> QED BY <1>1, <2>1, <2>2, <2>3
<1> QED BY <1>2, <1>3, <1>4

LEMMA ImportTypes ==
  ASSUME HistoryTypes, ImportStart \/ ImportPost \/ ImportRaw \/ ImportCursor \/ ImportThrough
  PROVE  HistoryTypes'
<1> USE HistoryAssumption DEF HistoryTypes, HistoryTypeOK, Places
<1>1. CASE ImportStart
  <2>1. left' \in Nat /\ import' = "posts" /\ import = "off"
    BY <1>1 DEF ImportStart
  <2>2. /\ at' = [at EXCEPT ![Importer] = IF cursor = 0 THEN Newest + 1 ELSE cursor]
        /\ top' = (IF cursor = 0 THEN Newest ELSE top) /\ done' = FALSE
    BY <1>1 DEF ImportStart
  <2>3. UNCHANGED <<sentPosts, Newest, alerts, raw, hashed, observed, matched, analysis, stage,
                    reading, seen, cursor, report, snapshot, stored, mishaps>>
    BY <1>1 DEF ImportStart, postVars, rowVars, Newest
  <2>4. /\ at' \in [Writers -> 0..Newest + 1] /\ at'[Watcher] = at[Watcher]
        /\ at'[Importer] \in 1..top' + 1 /\ top' \in 0..Newest /\ cursor \in 0..top'
    BY <2>2
  <2> QED BY <2>1, <2>2, <2>3, <2>4
<1>2. CASE ImportPost
  <2>1. /\ at' = [at EXCEPT ![Importer] = @ - 1] /\ at[Importer] \in 2..top + 1
        /\ stage' = [stage EXCEPT ![Importer] = "analyse"]
        /\ left' \in Nat /\ import = "posts"
    BY <1>2 DEF ImportPost, Goes
  <2>2. UNCHANGED <<sentPosts, Newest, alerts, raw, hashed, observed, matched, analysis,
                    reading, seen, cursor, import, report, snapshot, stored, top, done, mishaps>>
    BY <1>2 DEF ImportPost, postVars, rowVars, Newest
  <2> QED BY <2>1, <2>2
<1>3. CASE ImportRaw
  <2>1. RowOf(Importer) \in Row /\ stage[Importer] # "idle"
    BY <1>3, PostInHand DEF ImportRaw
  <2>2. /\ raw' = raw \union {RowOf(Importer)}
        /\ hashed' \in {hashed, hashed \union {RowOf(Importer)}}
        /\ stage' = [stage EXCEPT ![Importer] = "observe"]
    BY <1>3 DEF ImportRaw, Goes
  <2>3. UNCHANGED <<sentPosts, Newest, alerts, observed, matched, analysis, at, reading, seen,
                    cursor, import, left, report, snapshot, stored, top, done, mishaps>>
    BY <1>3 DEF ImportRaw, postVars, importVars, Newest
  <2>4. raw' \subseteq Row /\ hashed' \subseteq raw'
    BY <2>1, <2>2
  <2> QED BY <2>1, <2>2, <2>3, <2>4
<1>4. CASE ImportCursor
  <2>1. /\ cursor' = at[Importer] /\ at[Importer] \in 1..top
        /\ stage' = [stage EXCEPT ![Importer] = "idle"]
    BY <1>4 DEF ImportCursor, Goes
  <2>2. UNCHANGED <<sentPosts, Newest, alerts, raw, hashed, observed, matched, analysis, at,
                    reading, seen, import, left, report, snapshot, stored, top, done, mishaps>>
    BY <1>4 DEF ImportCursor, postVars, rowVars, Newest
  <2> QED BY <2>1, <2>2
<1>5. CASE ImportThrough
  BY <1>5 DEF ImportThrough, postVars, rowVars, writerVars, Newest
<1> QED BY <1>1, <1>2, <1>3, <1>4, <1>5

LEMMA ReportTypes ==
  ASSUME HistoryTypes, ReadPoints \/ ReadLegacy \/ SaveSnapshot \/ ImportDies
  PROVE  HistoryTypes'
<1> USE HistoryAssumption DEF HistoryTypes, HistoryTypeOK, Places
<1>1. CASE ReadPoints
  <2>1. report' \in Trend
    BY <1>1 DEF ReadPoints, Trend
  <2> QED BY <1>1, <2>1 DEF ReadPoints, postVars, rowVars, writerVars, Newest
<1>2. CASE ReadLegacy
  <2>1. report' \in Trend
    BY <1>2 DEF ReadLegacy, Legacy, Trend
  <2> QED BY <1>2, <2>1 DEF ReadLegacy, postVars, rowVars, writerVars, Newest
<1>3. CASE SaveSnapshot
  BY <1>3 DEF SaveSnapshot, Trend, NoTrend, postVars, rowVars, writerVars, Newest
<1>4. CASE ImportDies
  <2>1. /\ stage' = [stage EXCEPT ![Importer] = "idle"] /\ import' = "off" /\ left' = 0
        /\ mishaps' \in 0..MaxFaults /\ report' \in Trend
    BY <1>4 DEF ImportDies, Goes, Mishap, Trend, NoTrend
  <2> QED BY <1>4, <2>1 DEF ImportDies, postVars, rowVars, Newest
<1> QED BY <1>1, <1>2, <1>3, <1>4

LEMMA NextHistoryTypes == HistoryTypes /\ [HistoryNext]_historyVars => HistoryTypes'
<1> SUFFICES ASSUME HistoryTypes, [HistoryNext]_historyVars PROVE HistoryTypes'
  OBVIOUS
<1>1. CASE UNCHANGED historyVars
  BY <1>1 DEF HistoryTypes, HistoryTypeOK, Places, Newest, historyVars, postVars, rowVars,
              writerVars,
              importVars
<1>2. CASE Publish \/ Watching
  BY <1>2, ChannelTypes, WriterTypes DEF Watching
<1>3. CASE ImportStart \/ Importing \/ ImportDies
  BY <1>3, ImportTypes, ReportTypes, WriterTypes DEF Importing
<1> QED BY <1>1, <1>2, <1>3 DEF HistoryNext

\* The variables keep their types, for any channel, limits and faults.
THEOREM HistoryTypeCorrect == HistorySpec => []HistoryTypeOK
<1>1. HistoryTypes => HistoryTypeOK
  BY DEF HistoryTypes
<1> QED BY <1>1, InitHistoryTypes, NextHistoryTypes, PTL DEF HistorySpec

-----------------------------------------------------------------------------
(* The import leaves no hole.                                              *)

\* What the importer has passed is observed; only the post it is at may be not.
Passed(m) == m >= at[Importer] /\ (m = at[Importer] => stage[Importer] \in {"idle", "cursor"})

\* All of them down to the cursor, and in a run down to the place of the run.
NoHole ==
  /\ cursor # 0 => \A m \in cursor..top : <<Importer, m>> \in observed
  /\ import = "posts" => \A m \in 1..top : Passed(m) => <<Importer, m>> \in observed

LEMMA InitHole == HistoryInit => NoHole
  BY DEF HistoryInit, NoHole, Passed

\* Nothing is lost when no more posts count as passed than before.
LEMMA HoleStays ==
  ASSUME NoHole, UNCHANGED <<cursor, top>>, observed \subseteq observed',
         import' = "posts" => import = "posts",
         \A m \in 1..top : Passed(m)' => Passed(m)
  PROVE  NoHole'
  BY DEF NoHole

\* The steps of the watcher, and those of the importer that pass no post.
LEMMA OthersHole ==
  ASSUME HistoryTypes, NoHole,
         \/ Publish \/ Watching \/ ImportRaw \/ ImportThrough \/ ReadPoints \/ ReadLegacy
         \/ SaveSnapshot \/ Analyse(Importer) \/ KeepReading(Importer)
  PROVE  NoHole'
<1>1. /\ UNCHANGED <<cursor, top, at[Importer]>> /\ observed \subseteq observed'
      /\ import' = "posts" => import = "posts"
      /\ stage'[Importer] \in {"idle", "cursor"} => stage[Importer] \in {"idle", "cursor"}
  <2> USE DEF HistoryTypes, HistoryTypeOK, Goes, postVars, rowVars, writerVars, importVars
  <2>1. CASE Publish \/ ImportThrough \/ ReadPoints \/ ReadLegacy \/ SaveSnapshot
    BY <2>1 DEF Publish, ImportThrough, ReadPoints, ReadLegacy, SaveSnapshot
  <2>2. CASE WatchPost \/ AlertRecorded \/ ImportRaw
    BY <2>2 DEF WatchPost, AlertRecorded, ImportRaw
  <2>3. ASSUME NEW a \in Writers, Analyse(a)
        PROVE  /\ UNCHANGED <<cursor, top, at[Importer], observed, import>>
               /\ a = Watcher => stage'[Importer] = stage[Importer]
               /\ a = Importer => stage'[Importer] \in {"keep", "raw"}
    <3>1. UNCHANGED <<cursor, top, at, observed, import>>
      BY <2>3 DEF Analyse
    <3>2. stage' \in {[stage EXCEPT ![a] = IF a = Watcher THEN "observe" ELSE "raw"],
                      [stage EXCEPT ![a] = "keep"]}
      BY <2>3 DEF Analyse
    <3> QED BY <3>1, <3>2
  <2>4. ASSUME NEW a \in Writers, KeepReading(a)
        PROVE  /\ UNCHANGED <<cursor, top, at[Importer], observed, import>>
               /\ a = Watcher => stage'[Importer] = stage[Importer]
               /\ a = Importer => stage'[Importer] \in {"keep", "raw"}
    BY <2>4 DEF KeepReading
  <2>5. CASE Observe(Watcher)
    <3>1. UNCHANGED <<cursor, top, at, import>> /\ observed' = observed \union {RowOf(Watcher)}
      BY <2>5 DEF Observe
    <3>2. \E s : stage' = [stage EXCEPT ![Watcher] = s]
      BY <2>5 DEF Observe
    <3> QED BY <3>1, <3>2
  <2> QED BY <2>1, <2>2, <2>3, <2>4, <2>5 DEF Watching
<1>2. \A m \in 1..top : Passed(m)' => Passed(m)
  BY <1>1 DEF Passed
<1> QED BY <1>1, <1>2, HoleStays

\* The steps of the importer that move it.
LEMMA ImportHole ==
  ASSUME HistoryTypes, NoHole,
         ImportStart \/ ImportPost \/ Observe(Importer) \/ ImportCursor \/ ImportDies
  PROVE  NoHole'
<1> USE DEF HistoryTypes, HistoryTypeOK, Places
<1>1. CASE ImportStart
  <2>1. /\ at'[Importer] = (IF cursor = 0 THEN Newest + 1 ELSE cursor)
        /\ top' = (IF cursor = 0 THEN Newest ELSE top)
        /\ UNCHANGED <<cursor, observed>>
    BY <1>1 DEF ImportStart, rowVars
  <2>2. CASE cursor = 0
    BY HistoryAssumption, <2>1, <2>2 DEF NoHole, Passed
  <2>3. CASE cursor # 0
    BY <2>1, <2>3 DEF NoHole, Passed
  <2> QED BY <2>2, <2>3
<1>2. CASE ImportPost
  <2>1. /\ at'[Importer] = at[Importer] - 1 /\ stage'[Importer] = "analyse"
        /\ stage[Importer] = "idle" /\ import = "posts" /\ at[Importer] \in 1..top + 1
        /\ UNCHANGED <<cursor, observed, top, import>>
    BY <1>2 DEF ImportPost, Goes, rowVars
  <2>2. \A m \in 1..top : Passed(m)' => Passed(m)
    BY <2>1 DEF Passed
  <2> QED BY <2>1, <2>2, HoleStays
<1>3. CASE Observe(Importer)
  <2>1. /\ observed' = observed \union {<<Importer, at[Importer]>>}
        /\ UNCHANGED <<cursor, top, import, at>>
    BY <1>3 DEF Observe, RowOf, importVars
  <2>2. \A m \in 1..top : Passed(m)' => Passed(m) \/ m = at[Importer]
    BY <2>1 DEF Passed
  <2> QED BY <2>1, <2>2 DEF NoHole
<1>4. CASE ImportCursor
  <2>1. /\ cursor' = at[Importer] /\ stage[Importer] = "cursor" /\ at[Importer] \in 1..top
        /\ import = "posts" /\ UNCHANGED <<observed, top, import, at>>
    BY <1>4 DEF ImportCursor, rowVars
  <2>2. \A m \in at[Importer]..top : <<Importer, m>> \in observed
    <3>1. top \in Nat /\ at[Importer] \in 1..top
      BY <2>1
    <3>2. \A m \in at[Importer]..top : m \in 1..top /\ m >= at[Importer]
      BY ONLY <3>1
    <3> QED BY <2>1, <3>2 DEF NoHole, Passed
  <2>3. \A m \in 1..top : Passed(m)' => m \in at[Importer]..top
    BY <2>1 DEF Passed
  <2> QED BY <2>1, <2>2, <2>3 DEF NoHole
<1>5. CASE ImportDies
  BY <1>5 DEF ImportDies, NoHole, rowVars
<1> QED BY <1>1, <1>2, <1>3, <1>4, <1>5

LEMMA NextHole == HistoryTypes /\ NoHole /\ [HistoryNext]_historyVars => NoHole'
<1> SUFFICES ASSUME HistoryTypes, NoHole, [HistoryNext]_historyVars PROVE NoHole'
  OBVIOUS
<1>1. CASE UNCHANGED historyVars
  BY <1>1 DEF NoHole, Passed, historyVars, rowVars, writerVars, importVars
<1> QED BY <1>1, OthersHole, ImportHole DEF HistoryNext, Importing

\* An observed post has its raw row before.
RawFirst ==
  /\ observed \subseteq raw
  /\ stage[Watcher] # "idle" => RowOf(Watcher) \in raw
  /\ stage[Importer] = "observe" => RowOf(Importer) \in raw

LEMMA InitRaw == HistoryInit => RawFirst
  BY DEF HistoryInit, RawFirst

LEMMA NextRaw == HistoryTypes /\ RawFirst /\ [HistoryNext]_historyVars => RawFirst'
<1> SUFFICES ASSUME HistoryTypes, RawFirst, [HistoryNext]_historyVars PROVE RawFirst'
  OBVIOUS
<1> USE DEF HistoryTypes, HistoryTypeOK, Goes
<1>1. CASE UNCHANGED historyVars \/ Publish \/ ImportStart \/ ImportThrough \/ ReadPoints
           \/ ReadLegacy \/ SaveSnapshot
  <2>1. UNCHANGED <<raw, observed, stage, at[Watcher]>> /\ (import # "off" => at' = at)
    BY <1>1 DEF historyVars, rowVars, writerVars, Publish, ImportStart, ImportThrough,
                ReadPoints, ReadLegacy, SaveSnapshot
  <2>2. stage[Importer] # "idle" => at' = at
    BY <2>1
  <2> QED BY <2>1, <2>2 DEF RawFirst, RowOf
<1>2. CASE WatchPost \/ AlertRecorded
  <2>1. CASE WatchPost
    <3>1. /\ raw' = raw \union {<<Watcher, seen + 1>>} /\ at' = [at EXCEPT ![Watcher] = seen + 1]
          /\ stage' = [stage EXCEPT ![Watcher] = "analyse"] /\ observed' = observed
      BY <2>1 DEF WatchPost
    <3> QED BY <3>1 DEF RawFirst, RowOf
  <2>2. CASE AlertRecorded
    <3>1. stage' = [stage EXCEPT ![Watcher] = "idle"] /\ UNCHANGED <<raw, observed, at>>
      BY <2>2 DEF AlertRecorded, rowVars
    <3> QED BY <3>1 DEF RawFirst, RowOf
  <2> QED BY <1>2, <2>1, <2>2
<1>3. ASSUME NEW a \in Writers, Analyse(a) \/ KeepReading(a) PROVE RawFirst'
  <2>1. UNCHANGED <<raw, observed, at>> /\ stage[a] # "idle"
    BY <1>3 DEF Analyse, KeepReading, rowVars
  <2>2. stage' \in {[stage EXCEPT ![a] = IF a = Watcher THEN "observe" ELSE "raw"],
                    [stage EXCEPT ![a] = "keep"]}
    BY <1>3 DEF Analyse, KeepReading
  <2> QED BY <2>1, <2>2 DEF RawFirst, RowOf
<1>4. ASSUME NEW a \in Writers, Observe(a) PROVE RawFirst'
  <2>1. /\ observed' = observed \union {RowOf(a)} /\ UNCHANGED <<raw, at>>
        /\ stage[a] = "observe" /\ RowOf(a) \in raw
    BY <1>4 DEF Observe, RawFirst
  <2>2. \E s \in {"idle", "alert", "cursor"} : stage' = [stage EXCEPT ![a] = s]
    <3>1. stage' = [stage EXCEPT ![a] =
                      IF a = Importer THEN "cursor"
                      ELSE IF Matches(at[a], reading[a]) THEN "alert" ELSE "idle"]
      BY <1>4 DEF Observe
    <3> QED BY <3>1
  <2> QED BY <2>1, <2>2 DEF RawFirst, RowOf
<1>5. CASE ImportPost \/ ImportRaw \/ ImportCursor \/ ImportDies
  <2>1. CASE ImportPost
    <3>1. /\ stage' = [stage EXCEPT ![Importer] = "analyse"] /\ at'[Watcher] = at[Watcher]
          /\ UNCHANGED <<raw, observed>>
      BY <2>1 DEF ImportPost, rowVars
    <3> QED BY <3>1 DEF RawFirst, RowOf
  <2>2. CASE ImportRaw
    <3>1. /\ stage' = [stage EXCEPT ![Importer] = "observe"]
          /\ raw' = raw \union {RowOf(Importer)} /\ UNCHANGED <<observed, at>>
      BY <2>2 DEF ImportRaw
    <3> QED BY <3>1 DEF RawFirst, RowOf
  <2>3. CASE ImportCursor \/ ImportDies
    <3>1. stage' = [stage EXCEPT ![Importer] = "idle"] /\ UNCHANGED <<raw, observed, at>>
      BY <2>3 DEF ImportCursor, ImportDies, rowVars
    <3> QED BY <3>1 DEF RawFirst, RowOf
  <2> QED BY <1>5, <2>1, <2>2, <2>3
<1> QED BY <1>1, <1>2, <1>3, <1>4, <1>5 DEF HistoryNext, Watching, Importing

\* Down to its cursor the import has observed every post, whatever the limits and
\* wherever runs break off, and every observation has its raw post.
THEOREM ImportHasNoHole == HistorySpec => []ImportedDownToCursor
<1>1. NoHole /\ RawFirst => ImportedDownToCursor
  BY DEF NoHole, RawFirst, ImportedDownToCursor
<1> QED
  BY <1>1, InitHistoryTypes, NextHistoryTypes, InitHole, NextHole, InitRaw, NextRaw, PTL
  DEF HistorySpec

-----------------------------------------------------------------------------
(* The import moves on.                                                    *)

\* The ground that ImportGetsThrough gains: the cursor moves to the next older post
\* and never back, and where the import began is settled with the first post.  No
\* run, however it ends, undoes what an earlier one has passed.
CursorMovesDown ==
  [][/\ cursor # 0 => cursor' \in {cursor, cursor - 1} /\ top' = top
     /\ cursor = 0 => cursor' \in {0, top}]_historyVars

\* A run is at the cursor between two posts, and one below with a post in hand.
AtCursor ==
  import = "posts" =>
    at[Importer] = (IF cursor = 0 THEN top + 1 ELSE cursor)
                     - (IF stage[Importer] = "idle" THEN 0 ELSE 1)

\* One step keeps AtCursor and moves the cursor as it should.
LEMMA NextAtCursor ==
  ASSUME HistoryTypes, AtCursor, [HistoryNext]_historyVars
  PROVE  /\ AtCursor'
         /\ cursor # 0 => cursor' \in {cursor, cursor - 1} /\ top' = top
         /\ cursor = 0 => cursor' \in {0, top}
<1> USE DEF HistoryTypes, HistoryTypeOK, Places, Goes, postVars, rowVars, writerVars, importVars
<1>1. CASE UNCHANGED historyVars \/ Publish \/ ImportThrough \/ ReadPoints \/ ReadLegacy
           \/ SaveSnapshot
  <2>1. UNCHANGED <<cursor, top, at, stage>> /\ (import' = "posts" => import = "posts")
    BY <1>1 DEF historyVars, Publish, ImportThrough, ReadPoints, ReadLegacy, SaveSnapshot
  <2> QED BY <2>1 DEF AtCursor
<1>2. CASE WatchPost \/ AlertRecorded \/ ImportRaw
  <2>1. /\ UNCHANGED <<cursor, top, import, at[Importer]>>
        /\ stage'[Importer] = "idle" <=> stage[Importer] = "idle"
    BY <1>2 DEF WatchPost, AlertRecorded, ImportRaw
  <2> QED BY <2>1 DEF AtCursor
<1>3. ASSUME NEW a \in Writers, Analyse(a) \/ KeepReading(a) \/ Observe(a)
      PROVE  /\ UNCHANGED <<cursor, top, import, at>>
             /\ stage'[Importer] = "idle" <=> stage[Importer] = "idle"
  <2>1. UNCHANGED <<cursor, top, import, at>> /\ stage[a] # "idle"
    BY <1>3 DEF Analyse, KeepReading, Observe
  <2>2. \E s \in {"keep", "observe", "raw", "idle", "alert", "cursor"} :
          stage' = [stage EXCEPT ![a] = s] /\ (a = Importer => s # "idle")
    <3>1. CASE Analyse(a)
      <4>1. \/ stage' = [stage EXCEPT ![a] = IF a = Watcher THEN "observe" ELSE "raw"]
            \/ stage' = [stage EXCEPT ![a] = "keep"]
        BY <3>1 DEF Analyse
      <4> QED BY <4>1
    <3>2. CASE KeepReading(a)
      BY <3>2 DEF KeepReading
    <3>3. CASE Observe(a)
      <4>1. stage' = [stage EXCEPT ![a] =
                        IF a = Importer THEN "cursor"
                        ELSE IF Matches(at[a], reading[a]) THEN "alert" ELSE "idle"]
        BY <3>3 DEF Observe
      <4> QED BY <4>1
    <3> QED BY <1>3, <3>1, <3>2, <3>3
  <2> QED BY <2>1, <2>2
<1>4. CASE Watching \/ Analyse(Importer) \/ KeepReading(Importer) \/ Observe(Importer)
  <2>1. CASE WatchPost \/ AlertRecorded
    BY <1>2, <2>1
  <2>2. CASE \E a \in Writers : Analyse(a) \/ KeepReading(a) \/ Observe(a)
    BY <1>3, <2>2 DEF AtCursor
  <2> QED BY <1>4, <2>1, <2>2 DEF Watching, Writers
<1>5. CASE ImportStart
  BY <1>5 DEF ImportStart, AtCursor
<1>6. CASE ImportPost
  BY <1>6 DEF ImportPost, AtCursor
<1>7. CASE ImportCursor
  <2>1. /\ cursor' = at[Importer] /\ top' = top /\ at' = at /\ import' = import
        /\ import = "posts" /\ stage[Importer] = "cursor" /\ stage'[Importer] = "idle"
        /\ at[Importer] \in 1..top + 1
    BY <1>7 DEF ImportCursor
  <2> QED BY <2>1 DEF AtCursor
<1>8. CASE ImportDies
  BY <1>8 DEF ImportDies, AtCursor
<1> QED
  BY <1>1, <1>2, <1>4, <1>5, <1>6, <1>7, <1>8 DEF HistoryNext, Importing

\* The cursor only moves to the next older post, whatever breaks runs off.
THEOREM ImportMovesOn == HistorySpec => CursorMovesDown
<1>1. HistoryInit => AtCursor
  BY DEF HistoryInit, AtCursor
<1>2. HistoryTypes /\ AtCursor /\ [HistoryNext]_historyVars => AtCursor'
  BY NextAtCursor
<1>3. HistoryTypes /\ AtCursor /\ [HistoryNext]_historyVars
        => [/\ cursor # 0 => cursor' \in {cursor, cursor - 1} /\ top' = top
            /\ cursor = 0 => cursor' \in {0, top}]_historyVars
  BY NextAtCursor
<1> QED
  BY <1>1, <1>2, <1>3, InitHistoryTypes, NextHistoryTypes, PTL DEF HistorySpec, CursorMovesDown

-----------------------------------------------------------------------------
(* What is counted.                                                        *)

\* What has been read for a snapshot counts nothing twice, and with the points
\* everything that was imported.
Imported == {row \in matched : row[1] = Importer}

ReportSound ==
  /\ \A r \in {snapshot, report} : \A m \in r.legacy : \A row \in r.points : row[2] # m
  /\ import = "legacy" => report.legacy = {}
  /\ import \in {"legacy", "save"} => Imported \subseteq report.points
  /\ import # "off" => ~done
  /\ import = "off" /\ done => Imported \subseteq snapshot.points

LEMMA InitReport == HistoryInit => ReportSound
  BY DEF HistoryInit, ReportSound, NoTrend, Imported

\* Only the importer's own observations change what it imported.
LEMMA ImportedStays ==
  ASSUME HistoryTypes, [HistoryNext]_historyVars, ~Observe(Importer)
  PROVE  Imported' = Imported
<1>1. CASE matched' = matched
  BY <1>1 DEF Imported
<1>2. CASE Observe(Watcher)
  <2>1. matched' \in {matched \union {<<Watcher, at[Watcher]>>},
                      matched \ {<<Watcher, at[Watcher]>>}}
    BY <1>2 DEF Observe, RowOf
  <2> QED BY <2>1 DEF Imported
<1>3. matched' = matched \/ Observe(Watcher)
  BY DEF HistoryNext, Watching, Importing, historyVars, rowVars, Publish, WatchPost, AlertRecorded,
         Analyse, KeepReading, ImportStart, ImportPost, ImportRaw, ImportCursor, ImportThrough,
         ReadPoints, ReadLegacy, SaveSnapshot, ImportDies
<1> QED BY <1>1, <1>2, <1>3

LEMMA ReportSteps ==
  ASSUME HistoryTypes, ReportSound, Imported' = Imported, ReadPoints \/ ReadLegacy \/ SaveSnapshot
  PROVE  ReportSound'
<1>1. CASE ReadPoints
  <2>1. /\ report' = [points |-> matched, legacy |-> {}] /\ import' = "legacy"
        /\ UNCHANGED <<snapshot, done>> /\ import = "points"
    BY <1>1 DEF ReadPoints
  <2> QED BY <2>1 DEF ReportSound, Imported
<1>2. CASE ReadLegacy
  <2>1. /\ import = "legacy" /\ import' = "save" /\ UNCHANGED <<snapshot, done>>
        /\ report' = [report EXCEPT !.legacy = Legacy(report.points)]
    BY <1>2 DEF ReadLegacy
  <2>2. report'.points = report.points /\ report'.legacy = Legacy(report.points)
    BY <2>1 DEF HistoryTypes, HistoryTypeOK, Trend
  <2>3. \A m \in report'.legacy : \A row \in report'.points : row[2] # m
    <3>1. \A row \in report.points : row[2] \in Int
      BY DEF HistoryTypes, HistoryTypeOK, Trend, Row, Posts
    <3>2. alerts \subseteq Int
      BY DEF HistoryTypes, HistoryTypeOK, Posts
    <3> QED BY <2>2, <3>1, <3>2 DEF Legacy
  <2> QED BY <2>1, <2>2, <2>3 DEF ReportSound
<1>3. CASE SaveSnapshot
  <2>1. /\ import = "save" /\ import' = "off" /\ snapshot' = report /\ report' = NoTrend
    BY <1>3 DEF SaveSnapshot
  <2> QED BY <2>1 DEF ReportSound, NoTrend
<1> QED BY <1>1, <1>2, <1>3

LEMMA NextReport == HistoryTypes /\ ReportSound /\ [HistoryNext]_historyVars => ReportSound'
<1> SUFFICES ASSUME HistoryTypes, ReportSound, [HistoryNext]_historyVars PROVE ReportSound'
  OBVIOUS
<1>1. CASE Observe(Importer)
  <2>1. import = "posts" /\ UNCHANGED <<import, done, snapshot, report>>
    BY <1>1 DEF Observe, HistoryTypes, HistoryTypeOK, importVars
  <2> QED BY <2>1 DEF ReportSound
<1>2. CASE ~Observe(Importer)
  <2>1. Imported' = Imported
    BY <1>2, ImportedStays
  <2>2. CASE ReadPoints \/ ReadLegacy \/ SaveSnapshot
    BY <2>1, <2>2, ReportSteps
  <2>3. CASE ImportStart
    BY <2>1, <2>3 DEF ImportStart, ReportSound
  <2>4. CASE ImportDies
    BY <2>1, <2>4 DEF ImportDies, ReportSound, NoTrend
  <2>5. CASE ImportThrough
    BY <2>1, <2>5 DEF ImportThrough, ReportSound
  <2>6. CASE UNCHANGED <<import, done, snapshot, report>>
    BY <2>1, <2>6 DEF ReportSound
  <2>7. CASE UNCHANGED historyVars \/ Publish \/ Watching \/ ImportPost \/ ImportRaw \/ ImportCursor
             \/ Analyse(Importer) \/ KeepReading(Importer)
    <3>1. UNCHANGED <<import, done, snapshot, report>>
      BY <2>7 DEF historyVars, importVars, Watching, Publish, WatchPost, AlertRecorded, Analyse,
                  KeepReading, Observe, ImportPost, ImportRaw, ImportCursor
    <3> QED BY <3>1, <2>6
  <2> QED BY <1>2, <2>2, <2>3, <2>4, <2>5, <2>7 DEF HistoryNext, Importing
<1> QED BY <1>1, <1>2

\* No snapshot counts a post as an alert from before the observations and as an
\* observation.
THEOREM NothingCountsTwice == HistorySpec => []LegacyApart
<1>1. ReportSound => LegacyApart
  BY DEF ReportSound, LegacyApart
<1> QED BY <1>1, InitHistoryTypes, NextHistoryTypes, InitReport, NextReport, PTL DEF HistorySpec

\* After a run that got to its end all that was imported is in the snapshot.
THEOREM ImportsAreCounted == HistorySpec => []ImportIsCounted
<1>1. ReportSound => ImportIsCounted
  BY DEF ReportSound, ImportIsCounted, Imported
<1> QED BY <1>1, InitHistoryTypes, NextHistoryTypes, InitReport, NextReport, PTL DEF HistorySpec

-----------------------------------------------------------------------------
\* A row that once had the hash of its image never loses it, and with it the way
\* to the stored reading: importing a post again without its image keeps it
\* (coalesce, store.py:114).
HashIsKept == [][hashed \subseteq hashed']_historyVars

\* No step of the watcher or the importer takes the hash from a row, whatever
\* is imported again and wherever runs break off.
THEOREM HashStays == HistorySpec => HashIsKept
<1>1. [HistoryNext]_historyVars => [hashed \subseteq hashed']_historyVars
  BY DEF HistoryNext, Watching, Importing, historyVars, rowVars, Publish, WatchPost, AlertRecorded,
         Analyse, KeepReading, Observe, ImportStart, ImportPost, ImportRaw, ImportCursor,
         ImportThrough, ReadPoints, ReadLegacy, SaveSnapshot, ImportDies
<1> QED BY <1>1, PTL DEF HistorySpec, HashIsKept

-----------------------------------------------------------------------------
(* Failover: types.                                                        *)

\* The standby never takes the first steps of a new poller.
StandbyHasOffset == place[Standby] # "init" /\ (place[Primary] = "init" => offset[Primary] = -1)

FailoverTypes == FailoverTypeOK /\ StandbyHasOffset

LEMMA InitFailoverTypes == FailoverInit => FailoverTypes
  BY FailoverAssumption
  DEF FailoverInit, FailoverTypes, FailoverTypeOK, StandbyHasOffset

LEMMA SendTypes == ASSUME FailoverTypes, SendUpdate PROVE FailoverTypes'
<1> USE FailoverAssumption DEF FailoverTypes, FailoverTypeOK, StandbyHasOffset
<1>1. /\ newest' = newest + 1 /\ newest' \in 0..MaxUpdates
      /\ UNCHANGED <<confirmed, place, offset, current, upTo, pastState, starts>>
  BY DEF SendUpdate
<1>2. failures' \in 0..MaxFailures
  BY DEF SendUpdate, Fails
<1>3. hopeless' \subseteq 1..newest'
  <2>1. hopeless \subseteq 1..newest' /\ newest + 1 \in 1..newest'
    BY <1>1
  <2>2. hopeless' \subseteq hopeless \union {newest + 1}
    BY DEF SendUpdate
  <2> QED BY <2>1, <2>2
<1> QED BY <1>1, <1>2, <1>3 DEF pastState, handoverState

LEMMA StartTypes ==
  ASSUME FailoverTypes, StandbyStarts \/ PrimaryStarts
  PROVE  FailoverTypes'
<1> USE FailoverAssumption DEF FailoverTypes, FailoverTypeOK, StandbyHasOffset, Moves,
        telegramState, pastState, handoverState, boundState
<1>1. CASE StandbyStarts
  BY <1>1 DEF StandbyStarts
<1>2. CASE PrimaryStarts
  BY <1>2 DEF PrimaryStarts
<1> QED BY <1>1, <1>2

LEMMA PollTypes == ASSUME FailoverTypes, NEW p \in Pollers, Polling(p) PROVE FailoverTypes'
<1> USE FailoverAssumption DEF FailoverTypes, FailoverTypeOK, StandbyHasOffset, Moves, Leaves,
        telegramState, pastState, handoverState, boundState, Updates
<1>1. CASE Initializes(p)
  <2>1. p = Primary
    BY <1>1 DEF Initializes
  <2>2. place' = [place EXCEPT ![Primary] = "ask",
                    ![Standby] = IF @ # "asked" THEN @ ELSE "off"]
    BY <1>1, <2>1 DEF Initializes, Requests, Other
  <2>3. /\ offset' \in [Pollers -> -1..newest + 1] /\ offset'[Standby] = offset[Standby]
        /\ confirmed' \in 0..newest /\ skipped' \subseteq Updates
    <3>1. CASE confirmed < newest
      <4>1. /\ offset' = [offset EXCEPT ![Primary] = newest + 1] /\ confirmed' = newest - 1
            /\ skipped' = skipped \union confirmed + 1 .. newest
        BY <1>1, <2>1, <3>1 DEF Initializes
      <4> QED BY <3>1, <4>1
    <3>2. CASE ~(confirmed < newest)
      <4>1. UNCHANGED <<offset, confirmed, skipped>>
        BY <1>1, <3>2 DEF Initializes
      <4> QED BY <4>1
    <3> QED BY <3>1, <3>2
  <2>4. UNCHANGED <<newest, hopeless, current, upTo, handled, twice, broken, untold, overlap,
                    boundState>>
    BY <1>1 DEF Initializes
  <2>5. /\ place'[Primary] = "ask" /\ place'[Standby] \in {place[Standby], "off"}
        /\ place'[Standby] # place[Standby] => place[Standby] = "asked"
        /\ DOMAIN place' = Pollers
        /\ place' \in [Pollers -> {"off", "init", "ask", "asked", "handle", "store", "pause"}]
    BY <2>2
  <2>6. place[Primary] = "init"
    BY <1>1, <2>1 DEF Initializes
  <2>7. StandbyHasOffset'
    BY <2>5
  <2>8. \A q \in Pollers :
          /\ place'[q] \in {"handle", "store"} <=> current'[q] # 0
          /\ current'[q] <= upTo'[q]
          /\ q = Standby /\ place'[q] # "off" => offset'[q] # -1
    BY <2>3, <2>4, <2>5, <2>6
  <2> QED BY <2>3, <2>4, <2>5, <2>7, <2>8
<1>2. CASE Asks(p)
  <2>1. KnownTo(p) \in confirmed..newest
    BY DEF KnownTo
  <2> QED BY <1>2, <2>1 DEF Asks, Requests, Other
<1>3. CASE Answered(p)
  BY <1>3 DEF Answered
<1>4. CASE Handles(p)
  BY <1>4 DEF Handles
<1>5. CASE Stores(p)
  BY <1>5 DEF Stores
<1>6. CASE PauseEnds(p)
  BY <1>6 DEF PauseEnds
<1>7. CASE Refused(p)
  BY <1>7 DEF Refused
<1> QED BY <1>1, <1>2, <1>3, <1>4, <1>5, <1>6, <1>7 DEF Polling

LEMMA FailTypes ==
  ASSUME FailoverTypes, NEW p \in Pollers, Raises(p) \/ Dies(p)
  PROVE  FailoverTypes'
<1> USE FailoverAssumption
    DEF FailoverTypes, FailoverTypeOK, StandbyHasOffset, Moves, Leaves, Fails,
        telegramState, pastState, handoverState, boundState, Updates
<1>1. CASE Raises(p)
  BY <1>1 DEF Raises
<1>2. CASE Dies(p)
  <2>1. /\ place' = [place EXCEPT ![p] = "off"]
        /\ current' = [current EXCEPT ![p] = 0] /\ upTo' = [upTo EXCEPT ![p] = 0]
        /\ failures' \in 0..MaxFailures
        /\ UNCHANGED <<newest, confirmed, hopeless, offset, handled, twice, overlap, skipped,
                       starts>>
    BY <1>2 DEF Dies
  <2>2. broken' \in [Pollers -> SUBSET Updates] /\ untold' \subseteq Updates
    <3>1. \A u \in 0..newest : u # 0 => u \in Updates
      OBVIOUS
    <3>2. broken' = [broken EXCEPT ![p] = IF current[p] = 0 THEN @ ELSE @ \union {current[p]}]
          /\ untold' = untold \union {u \in handled[p] : u > confirmed}
      BY <1>2 DEF Dies
    <3>3. broken[p] \subseteq Updates /\ handled[p] \subseteq Updates /\ current[p] \in 0..newest
      OBVIOUS
    <3>4. IF current[p] = 0 THEN TRUE ELSE current[p] \in Updates
      BY <3>1, <3>3
    <3> HIDE DEF Updates
    <3> QED BY <3>2, <3>3, <3>4
  <2> QED BY <2>1, <2>2
<1> QED BY <1>1, <1>2

LEMMA NextFailoverTypes == FailoverTypes /\ [FailoverNext]_failoverVars => FailoverTypes'
<1> SUFFICES ASSUME FailoverTypes, [FailoverNext]_failoverVars PROVE FailoverTypes'
  OBVIOUS
<1>1. CASE UNCHANGED failoverVars
  BY <1>1 DEF FailoverTypes, FailoverTypeOK, StandbyHasOffset, failoverVars,
              telegramState, pastState,
              handoverState, boundState
<1> QED
  BY <1>1, SendTypes, StartTypes, PollTypes, FailTypes DEF FailoverNext

\* The variables keep their types, for any number of starts and failures.
THEOREM FailoverTypeCorrect == FailoverSpec => []FailoverTypeOK
<1>1. FailoverTypes => FailoverTypeOK
  BY DEF FailoverTypes
<1> QED BY <1>1, InitFailoverTypes, NextFailoverTypes, PTL DEF FailoverSpec

-----------------------------------------------------------------------------
(* What is forgotten was handled.                                          *)

Covered(u) == u \in handled[Primary] \union handled[Standby] \union skipped

\* Everything below an offset, and below the place in a batch, is covered.
NothingLost ==
  /\ \A u \in 1..confirmed : Covered(u)
  /\ \A p \in Pollers :
       /\ \A u \in 1..offset[p] - 1 : Covered(u)
       /\ \A u \in 1..current[p] - 1 : Covered(u)
       /\ place[p] = "store" => Covered(current[p])

LEMMA InitLost == FailoverInit => NothingLost
  BY DEF FailoverInit, NothingLost

\* What is covered stays covered.
LEMMA CoveredStays ==
  ASSUME \A p \in Pollers : handled[p] \subseteq handled'[p], skipped \subseteq skipped'
  PROVE  \A u : Covered(u) => Covered(u)'
  BY DEF Covered

LEMMA PollLost ==
  ASSUME FailoverTypes, NothingLost, NEW p \in Pollers, Polling(p)
  PROVE  NothingLost'
<1> USE DEF FailoverTypes, FailoverTypeOK
<1>1. newest \in Nat /\ confirmed \in 0..newest /\ offset[p] \in -1..newest + 1
      /\ current[p] \in 0..newest /\ upTo[p] \in 0..newest
  BY FailoverAssumption
<1>2. CASE Initializes(p)
  <2>1. p = Primary /\ current[p] = 0
    BY <1>2 DEF Initializes, StandbyHasOffset
  <2>2. UNCHANGED <<handled, current>> /\ place'[Primary] = "ask"
        /\ place'[Standby] \in {place[Standby], "off"}
    BY <1>2, <2>1 DEF Initializes, Requests, Other
  <2>3. CASE confirmed < newest
    <3>1. /\ offset' = [offset EXCEPT ![Primary] = newest + 1] /\ confirmed' = newest - 1
          /\ skipped' = skipped \union confirmed + 1 .. newest
      BY <1>2, <2>1, <2>3 DEF Initializes
    <3>2. \A u \in 1..newest : Covered(u)'
      BY <1>1, <2>2, <3>1 DEF NothingLost, Covered
    <3>3. \A u : Covered(u) => Covered(u)'
      BY <2>2, <3>1 DEF Covered
    <3> QED BY <1>1, <2>1, <2>2, <3>1, <3>2, <3>3 DEF NothingLost
  <2>4. CASE ~(confirmed < newest)
    <3>1. UNCHANGED <<offset, confirmed, skipped>>
      BY <1>2, <2>4 DEF Initializes
    <3> QED BY <2>2, <3>1 DEF NothingLost, Covered
  <2> QED BY <2>3, <2>4
<1>3. CASE Asks(p)
  <2>1. UNCHANGED <<handled, skipped, offset, current>> /\ confirmed' = KnownTo(p)
        /\ \A q \in Pollers : place'[q] = "store" => place[q] = "store"
    BY <1>3 DEF Asks, Requests, Other, pastState, handoverState
  <2>2. \A u \in 1..KnownTo(p) : Covered(u)
    BY <1>1 DEF KnownTo, NothingLost
  <2> QED BY <2>1, <2>2 DEF NothingLost, Covered
<1>4. CASE Answered(p)
  <2>1. UNCHANGED <<handled, skipped, offset, confirmed>>
        /\ current' = [current EXCEPT ![p] = confirmed + 1]
        /\ place' = [place EXCEPT ![p] = "handle"]
    BY <1>4 DEF Answered, Moves, telegramState
  <2> QED BY <1>1, <2>1 DEF NothingLost, Covered
<1>5. CASE Handles(p)
  <2>1. UNCHANGED <<skipped, offset, confirmed, current>>
        /\ handled' = [handled EXCEPT ![p] = @ \union {current[p]}]
        /\ place' = [place EXCEPT ![p] = "store"]
    BY <1>5 DEF Handles, Moves, telegramState, handoverState
  <2>2. \A u : Covered(u) => Covered(u)'
    BY <2>1, CoveredStays
  <2>3. Covered(current[p])'
    BY <2>1 DEF Covered
  <2> QED BY <2>1, <2>2, <2>3 DEF NothingLost
<1>6. CASE Stores(p)
  <2>1. UNCHANGED <<handled, skipped, confirmed>>
        /\ offset' = [offset EXCEPT ![p] = current[p] + 1]
        /\ current' \in {[current EXCEPT ![p] = @ + 1], [current EXCEPT ![p] = 0]}
        /\ place' \in {[place EXCEPT ![p] = "handle"], [place EXCEPT ![p] = "pause"]}
    BY <1>6 DEF Stores, Moves, Leaves, telegramState, pastState, handoverState
  <2>2. \A u \in 1..current[p] : Covered(u)
    BY <1>1, <1>6 DEF Stores, NothingLost
  <2>3. \A q \in Pollers : \A u \in 1..offset'[q] - 1 : Covered(u)
    BY <1>1, <2>1, <2>2 DEF NothingLost
  <2>4. \A q \in Pollers : \A u \in 1..current'[q] - 1 : Covered(u)
    BY <1>1, <2>1, <2>2 DEF NothingLost
  <2>5. \A q \in Pollers : place'[q] = "store" => q # p /\ current'[q] = current[q] /\ place[q] = "store"
    BY <2>1
  <2>6. \A u : Covered(u) => Covered(u)'
    BY <2>1 DEF Covered
  <2> QED BY <2>1, <2>3, <2>4, <2>5, <2>6 DEF NothingLost
<1>7. CASE PauseEnds(p)
  BY <1>7 DEF PauseEnds, Moves, NothingLost, Covered, telegramState, pastState, handoverState
<1>8. CASE Refused(p)
  <2>1. /\ UNCHANGED <<confirmed, handled, skipped, offset>>
        /\ current' = [current EXCEPT ![p] = 0] /\ place' = [place EXCEPT ![p] = "pause"]
    BY <1>8 DEF Refused, Leaves, Moves, telegramState, handoverState
  <2> QED BY <2>1 DEF NothingLost, Covered
<1> QED BY <1>2, <1>3, <1>4, <1>5, <1>6, <1>7, <1>8 DEF Polling

LEMMA NextLost ==
  FailoverTypes /\ NothingLost /\ [FailoverNext]_failoverVars => NothingLost'
<1> SUFFICES ASSUME FailoverTypes, NothingLost, [FailoverNext]_failoverVars PROVE NothingLost'
  OBVIOUS
<1> USE DEF telegramState, pastState, handoverState
<1>1. CASE UNCHANGED failoverVars
  BY <1>1 DEF NothingLost, Covered, failoverVars
<1>2. CASE SendUpdate
  BY <1>2 DEF SendUpdate, NothingLost, Covered
<1>3. CASE StandbyStarts
  <2>1. /\ UNCHANGED <<confirmed, handled, skipped, current>>
        /\ \A p \in Pollers : offset'[p] \in {offset[p], 0}
        /\ \A p \in Pollers : place'[p] = "store" => place[p] = "store"
    BY <1>3 DEF StandbyStarts, Moves, FailoverTypes, FailoverTypeOK
  <2> QED BY <2>1 DEF NothingLost, Covered
<1>4. CASE PrimaryStarts
  BY <1>4 DEF PrimaryStarts, Moves, NothingLost, Covered, FailoverTypes, FailoverTypeOK
<1>5. ASSUME NEW p \in Pollers, Raises(p) \/ Dies(p) PROVE NothingLost'
  <2>1. /\ UNCHANGED <<confirmed, handled, skipped, offset>>
        /\ current' = [current EXCEPT ![p] = 0]
        /\ place' \in {[place EXCEPT ![p] = "pause"], [place EXCEPT ![p] = "off"]}
    BY <1>5 DEF Raises, Dies, Leaves, Moves
  <2> QED BY <2>1 DEF NothingLost, Covered, FailoverTypes, FailoverTypeOK
<1> QED BY <1>1, <1>2, <1>3, <1>4, <1>5, PollLost DEF FailoverNext

\* Whatever Telegram forgets, whoever confirmed it and however often the two were
\* started, stopped or interrupted, was handled or was passed over at the first
\* start of the primary.
THEOREM NothingIsLost == FailoverSpec => []OutageLosesNothing
<1>1. FailoverInit => FailoverTypes /\ NothingLost
  BY InitFailoverTypes, InitLost
<1>2. FailoverTypes /\ NothingLost /\ [FailoverNext]_failoverVars => (FailoverTypes /\ NothingLost)'
  BY NextFailoverTypes, NextLost
<1>3. NothingLost => OutageLosesNothing
  BY DEF NothingLost, Covered, OutageLosesNothing
<1> QED BY <1>1, <1>2, <1>3, PTL DEF FailoverSpec

-----------------------------------------------------------------------------
(* What takes effect twice.                                                *)

\* What a poller has handled without interruption lies below its offset, but for
\* the update it has yet to store; it asks for and handles only what does not.
OwnMarks ==
  \A p \in Pollers :
    /\ twice[p] \subseteq broken[p]
    /\ \A u \in handled[p] \ broken[p] : u < offset[p] \/ (place[p] = "store" /\ u = current[p])
    /\ place[p] = "asked" => offset[p] <= confirmed + 1
    /\ place[p] \in {"handle", "store"} => offset[p] <= current[p]

InHand(p) == {u \in 1..upTo[p] : current[p] # 0 /\ current[p] <= u}
Caused(q) == overlap \union untold \union broken[q]

\* What a poller has in hand the other has neither handled nor in hand, unless a
\* cause is on record; a poller that is gone has left nothing Telegram still has.
SharedMarks ==
  \A p \in Pollers : \A q \in Pollers :
    p # q =>
      /\ handled[p] \intersect handled[q] \subseteq Caused(p) \union Caused(q)
      /\ InHand(p) \intersect handled[q] \subseteq Caused(q)
      /\ InHand(p) \intersect InHand(q) \subseteq overlap
      /\ place[q] = "off" =>
           \A u \in handled[q] \ (untold \union broken[q]) : u <= confirmed

CauseInv == OwnMarks /\ SharedMarks

LEMMA InitCauses == FailoverInit => CauseInv
  BY DEF FailoverInit, CauseInv, OwnMarks, SharedMarks, InHand

LEMMA AskCauses ==
  ASSUME FailoverTypes, CauseInv, NEW p \in Pollers, Initializes(p) \/ Asks(p)
  PROVE  CauseInv'
<1> USE DEF FailoverTypes, FailoverTypeOK
<1>1. /\ UNCHANGED <<current, upTo, handled, twice, broken, untold, overlap>>
      /\ place[p] \in {"init", "ask"} /\ place'[p] \in {"ask", "asked"}
      /\ \A q \in Pollers : q # p =>
           \/ place'[q] = place[q]
           \/ place[q] = "asked" /\ place'[q] \in {"off", "pause"}
      /\ place'[p] = "asked" => Asks(p)
  BY DEF Initializes, Asks, Requests, Other, pastState, handoverState
<1>2. newest \in Nat /\ confirmed \in 0..newest /\ confirmed' \in 0..newest
      /\ confirmed <= confirmed'
      /\ offset[p] \in -1..newest + 1 /\ offset'[p] \in -1..newest + 1 /\ offset[p] <= offset'[p]
      /\ \A q \in Pollers : q # p => offset'[q] = offset[q]
  <2>1. CASE Asks(p)
    <3>1. confirmed' = KnownTo(p) /\ offset' = offset
      BY <2>1 DEF Asks
    <3> QED BY <3>1, FailoverAssumption DEF KnownTo
  <2>2. CASE Initializes(p)
    <3>1. \/ confirmed' = confirmed /\ offset' = offset
          \/ /\ confirmed < newest /\ confirmed' = newest - 1
             /\ offset' = [offset EXCEPT ![p] = newest + 1]
      BY <2>2 DEF Initializes
    <3> QED BY <3>1, FailoverAssumption
  <2> QED BY <2>1, <2>2
<1>3. Asks(p) => offset'[p] <= confirmed' + 1
  BY <1>2 DEF Asks, KnownTo
<1>4. OwnMarks'
  <2> SUFFICES ASSUME NEW q \in Pollers
               PROVE  /\ twice'[q] \subseteq broken'[q]
                      /\ \A u \in handled'[q] \ broken'[q] :
                           u < offset'[q] \/ (place'[q] = "store" /\ u = current'[q])
                      /\ place'[q] = "asked" => offset'[q] <= confirmed' + 1
                      /\ place'[q] \in {"handle", "store"} => offset'[q] <= current'[q]
    BY DEF OwnMarks
  <2>1. CASE q # p
    BY <1>1, <1>2, <2>1 DEF CauseInv, OwnMarks
  <2>2. CASE q = p
    <3>1. \A u \in handled[p] \ broken[p] : u < offset[p] /\ u \in Nat
      BY <1>1 DEF CauseInv, OwnMarks, Updates
    <3>2. \A u \in handled[p] \ broken[p] : u < offset'[p]
      BY <1>2, <3>1
    <3> QED BY <1>1, <1>3, <2>2, <3>2 DEF CauseInv, OwnMarks
  <2> QED BY <2>1, <2>2
<1>5. ASSUME NEW q \in Pollers, place'[q] = "off",
             NEW u \in handled[q] \ (untold \union broken[q])
      PROVE  u <= confirmed'
  <2>1. q # p /\ u \in Nat
    BY <1>1, <1>5 DEF Updates
  <2>2. CASE place[q] = "off"
    BY <1>2, <1>5, <2>1, <2>2 DEF CauseInv, SharedMarks
  <2>3. CASE place[q] = "asked"
    BY <1>2, <1>5, <2>1, <2>3 DEF CauseInv, OwnMarks
  <2> QED BY <1>1, <1>5, <2>1, <2>2, <2>3
<1>6. SharedMarks'
  BY <1>1, <1>5 DEF CauseInv, SharedMarks, InHand, Caused
<1> QED BY <1>4, <1>6 DEF CauseInv

LEMMA BatchCauses ==
  ASSUME FailoverTypes, CauseInv, NEW p \in Pollers, Answered(p)
  PROVE  CauseInv'
<1> USE DEF FailoverTypes, FailoverTypeOK
<1>1. /\ UNCHANGED <<newest, confirmed, offset, handled, twice, broken, untold>>
      /\ place[p] = "asked" /\ place' = [place EXCEPT ![p] = "handle"]
      /\ current' = [current EXCEPT ![p] = confirmed + 1]
      /\ upTo' = [upTo EXCEPT ![p] = newest]
      /\ overlap' = IF place[Other(p)] = "off" THEN overlap
                    ELSE overlap \union confirmed + 1 .. newest
  BY DEF Answered, Moves, telegramState
<1>2. newest \in Nat /\ confirmed \in 0..newest /\ offset[p] \in -1..newest + 1
  BY FailoverAssumption
<1>3. OwnMarks'
  BY <1>1, <1>2 DEF CauseInv, OwnMarks
<1>4. InHand(p)' = confirmed + 1 .. newest
  BY <1>1, <1>2 DEF InHand
<1>5. \A q \in Pollers : q # p => InHand(q)' = InHand(q) /\ q = Other(p)
  BY <1>1 DEF InHand, Other
<1>6. overlap \subseteq overlap' /\ \A q \in Pollers : Caused(q) \subseteq Caused(q)'
  BY <1>1 DEF Caused
<1>7. ASSUME NEW q \in Pollers, q # p
      PROVE  /\ InHand(p)' \intersect handled[q] \subseteq Caused(q)'
             /\ InHand(p)' \intersect InHand(q) \subseteq overlap'
  <2>1. CASE place[q] # "off"
    BY <1>1, <1>4, <1>5, <1>7, <2>1 DEF Caused
  <2>2. CASE place[q] = "off"
    <3>1. InHand(q) = {}
      BY <2>2 DEF InHand
    <3>2. \A u \in handled[q] \ (untold \union broken[q]) : u <= confirmed
      BY <1>7, <2>2 DEF CauseInv, SharedMarks
    <3>3. \A u \in confirmed + 1 .. newest : ~(u <= confirmed)
      BY <1>2
    <3> QED BY <1>1, <1>4, <3>1, <3>2, <3>3 DEF Caused
  <2> QED BY <2>1, <2>2
<1>8. SharedMarks'
  <2> SUFFICES ASSUME NEW r \in Pollers, NEW q \in Pollers, r # q
               PROVE  /\ handled'[r] \intersect handled'[q] \subseteq Caused(r)' \union Caused(q)'
                      /\ InHand(r)' \intersect handled'[q] \subseteq Caused(q)'
                      /\ InHand(r)' \intersect InHand(q)' \subseteq overlap'
                      /\ place'[q] = "off" =>
                           \A u \in handled'[q] \ (untold' \union broken'[q]) : u <= confirmed'
    BY DEF SharedMarks
  <2>1. handled'[r] \intersect handled'[q] \subseteq Caused(r)' \union Caused(q)'
    BY <1>1, <1>6 DEF CauseInv, SharedMarks
  <2>2. InHand(r)' \intersect handled'[q] \subseteq Caused(q)'
    <3>1. CASE r = p
      BY <1>1, <1>7, <3>1
    <3>2. CASE r # p
      BY <1>1, <1>5, <1>6, <3>2 DEF CauseInv, SharedMarks
    <3> QED BY <3>1, <3>2
  <2>3. InHand(r)' \intersect InHand(q)' \subseteq overlap'
    <3>1. r = p \/ q = p
      OBVIOUS
    <3> QED BY <1>5, <1>7, <3>1
  <2>4. place'[q] = "off" =>
          \A u \in handled'[q] \ (untold' \union broken'[q]) : u <= confirmed'
    BY <1>1 DEF CauseInv, SharedMarks
  <2> QED BY <2>1, <2>2, <2>3, <2>4
<1> QED BY <1>3, <1>8 DEF CauseInv

LEMMA HandleCauses ==
  ASSUME FailoverTypes, CauseInv, NEW p \in Pollers, Handles(p)
  PROVE  CauseInv'
<1> USE DEF FailoverTypes, FailoverTypeOK
<1>1. /\ UNCHANGED <<newest, confirmed, offset, current, upTo, broken, untold, overlap>>
      /\ place[p] = "handle" /\ place' = [place EXCEPT ![p] = "store"]
      /\ handled' = [handled EXCEPT ![p] = @ \union {current[p]}]
      /\ twice' = [twice EXCEPT ![p] = IF current[p] \in handled[p] THEN @ \union {current[p]}
                                       ELSE @]
  BY DEF Handles, Moves, telegramState, handoverState
<1>2. current[p] # 0 /\ current[p] \in Nat /\ offset[p] \in Int /\ offset[p] <= current[p]
  BY <1>1 DEF CauseInv, OwnMarks
<1>3. current[p] \in handled[p] => current[p] \in broken[p]
  BY <1>1, <1>2 DEF CauseInv, OwnMarks
<1>4. OwnMarks'
  BY <1>1, <1>3 DEF CauseInv, OwnMarks
<1>5. current[p] \in InHand(p)
  BY <1>2 DEF InHand
<1>6. \A q \in Pollers : InHand(q)' = InHand(q) /\ Caused(q)' = Caused(q)
  BY <1>1 DEF InHand, Caused
<1>7. SharedMarks'
  <2> SUFFICES ASSUME NEW r \in Pollers, NEW q \in Pollers, r # q
               PROVE  /\ handled'[r] \intersect handled'[q] \subseteq Caused(r) \union Caused(q)
                      /\ InHand(r) \intersect handled'[q] \subseteq Caused(q)
                      /\ InHand(r) \intersect InHand(q) \subseteq overlap
                      /\ place'[q] = "off" =>
                           \A u \in handled'[q] \ (untold \union broken[q]) : u <= confirmed
    BY <1>1, <1>6 DEF SharedMarks
  <2>1. /\ handled[r] \intersect handled[q] \subseteq Caused(r) \union Caused(q)
        /\ InHand(r) \intersect handled[q] \subseteq Caused(q)
        /\ InHand(q) \intersect handled[r] \subseteq Caused(r)
        /\ InHand(r) \intersect InHand(q) \subseteq overlap
        /\ overlap \subseteq Caused(q)
    BY DEF CauseInv, SharedMarks, Caused
  <2>2. CASE q = p
    BY <1>1, <1>5, <2>1, <2>2
  <2>3. CASE r = p
    <3>1. q # p
      BY <2>3
    <3> QED BY <1>1, <1>5, <2>1, <2>3, <3>1 DEF CauseInv, SharedMarks
  <2> QED BY <2>2, <2>3
<1> QED BY <1>4, <1>7 DEF CauseInv

LEMMA StoreCauses ==
  ASSUME FailoverTypes, CauseInv, NEW p \in Pollers, Stores(p) \/ PauseEnds(p)
  PROVE  CauseInv'
<1> USE DEF FailoverTypes, FailoverTypeOK
<1>1. /\ UNCHANGED <<confirmed, handled, twice, broken, untold, overlap>>
      /\ place' \in {[place EXCEPT ![p] = "handle"], [place EXCEPT ![p] = "pause"],
                     [place EXCEPT ![p] = "ask"]}
      /\ place[p] \in {"store", "pause"}
  BY DEF Stores, PauseEnds, Moves, Leaves, telegramState, pastState, handoverState
<1>2. /\ current[p] \in Nat /\ upTo[p] \in Nat /\ offset[p] \in Int
      /\ \A u \in handled[p] : u \in Nat
  BY DEF Updates
<1>3. \/ /\ Stores(p) /\ place[p] = "store"
         /\ offset' = [offset EXCEPT ![p] = current[p] + 1]
         /\ \/ /\ place'[p] = "handle" /\ current[p] < upTo[p]
               /\ current' = [current EXCEPT ![p] = @ + 1] /\ upTo' = upTo
            \/ /\ place'[p] = "pause"
               /\ current' = [current EXCEPT ![p] = 0] /\ upTo' = [upTo EXCEPT ![p] = 0]
      \/ /\ place[p] = "pause" /\ place'[p] = "ask" /\ UNCHANGED <<offset, current, upTo>>
  BY DEF Stores, PauseEnds, Moves, Leaves
<1>4. OwnMarks'
  <2> SUFFICES ASSUME NEW q \in Pollers
               PROVE  /\ twice'[q] \subseteq broken'[q]
                      /\ \A u \in handled'[q] \ broken'[q] :
                           u < offset'[q] \/ (place'[q] = "store" /\ u = current'[q])
                      /\ place'[q] = "asked" => offset'[q] <= confirmed' + 1
                      /\ place'[q] \in {"handle", "store"} => offset'[q] <= current'[q]
    BY DEF OwnMarks
  <2>1. CASE q # p
    BY <1>1, <1>3, <2>1 DEF CauseInv, OwnMarks
  <2>2. CASE q = p
    BY <1>1, <1>2, <1>3, <2>2 DEF CauseInv, OwnMarks
  <2> QED BY <2>1, <2>2
<1>5. \A q \in Pollers : InHand(q)' \subseteq InHand(q) /\ Caused(q)' = Caused(q)
  BY <1>1, <1>2, <1>3 DEF InHand, Caused
<1>6. SharedMarks'
  BY <1>1, <1>5 DEF CauseInv, SharedMarks
<1> QED BY <1>4, <1>6 DEF CauseInv

\* A failure, of a hopeless update or another call, puts on record what the poller
\* was at, a death also what Telegram had not been told of.
LEMMA FailCauses ==
  ASSUME FailoverTypes, CauseInv, NEW p \in Pollers, Raises(p) \/ Dies(p) \/ Refused(p)
  PROVE  CauseInv'
<1> USE DEF FailoverTypes, FailoverTypeOK
<1>1. /\ UNCHANGED <<confirmed, offset, handled, twice, overlap>>
      /\ place' \in {[place EXCEPT ![p] = "pause"], [place EXCEPT ![p] = "off"]}
      /\ current' = [current EXCEPT ![p] = 0] /\ upTo' = [upTo EXCEPT ![p] = 0]
      /\ broken' = [broken EXCEPT ![p] = IF current[p] = 0 THEN @ ELSE @ \union {current[p]}]
      /\ untold \subseteq untold'
  <2>1. CASE Raises(p)
    BY <2>1 DEF Raises, Leaves, Moves, telegramState, handoverState
  <2>2. CASE Dies(p)
    BY <2>2 DEF Dies, Leaves, Moves, telegramState
  <2>3. CASE Refused(p)
    <3>1. current[p] # 0
      BY <2>3 DEF Refused
    <3> QED BY <2>3, <3>1 DEF Refused, Leaves, Moves, telegramState, handoverState
  <2> QED BY <2>1, <2>2, <2>3
<1>2. place'[p] = "off" => untold' = untold \union {u \in handled[p] : u > confirmed}
  BY DEF Raises, Dies, Refused, Leaves, Moves
<1>3. OwnMarks'
  <2> SUFFICES ASSUME NEW q \in Pollers
               PROVE  /\ twice'[q] \subseteq broken'[q]
                      /\ \A u \in handled'[q] \ broken'[q] :
                           u < offset'[q] \/ (place'[q] = "store" /\ u = current'[q])
                      /\ place'[q] = "asked" => offset'[q] <= confirmed' + 1
                      /\ place'[q] \in {"handle", "store"} => offset'[q] <= current'[q]
    BY DEF OwnMarks
  <2>1. CASE q # p
    BY <1>1, <2>1 DEF CauseInv, OwnMarks
  <2>2. CASE q = p
    BY <1>1, <2>2 DEF CauseInv, OwnMarks
  <2> QED BY <2>1, <2>2
<1>4. \A q \in Pollers : InHand(q)' \subseteq InHand(q) /\ Caused(q) \subseteq Caused(q)'
  BY <1>1 DEF InHand, Caused
<1>5. ASSUME NEW q \in Pollers, place'[q] = "off",
             NEW u \in handled[q] \ (untold' \union broken'[q])
      PROVE  u <= confirmed
  <2>1. u \in Nat /\ confirmed \in Nat
    BY <1>5 DEF Updates
  <2>2. CASE q = p
    BY <1>2, <1>5, <2>1, <2>2
  <2>3. CASE q # p
    <3>1. place[q] = "off" /\ u \in handled[q] \ (untold \union broken[q])
      BY <1>1, <1>5, <2>3
    <3> QED BY <2>3, <3>1 DEF CauseInv, SharedMarks
  <2> QED BY <2>2, <2>3
<1>6. SharedMarks'
  BY <1>1, <1>4, <1>5 DEF CauseInv, SharedMarks
<1> QED BY <1>3, <1>6 DEF CauseInv

LEMMA NextCauses == FailoverTypes /\ CauseInv /\ [FailoverNext]_failoverVars => CauseInv'
<1> SUFFICES ASSUME FailoverTypes, CauseInv, [FailoverNext]_failoverVars PROVE CauseInv'
  OBVIOUS
<1> USE DEF telegramState, pastState, handoverState
<1>1. CASE UNCHANGED failoverVars
  BY <1>1 DEF CauseInv, OwnMarks, SharedMarks, InHand, Caused, failoverVars
<1>2. CASE SendUpdate
  BY <1>2 DEF SendUpdate, CauseInv, OwnMarks, SharedMarks, InHand, Caused
<1>3. CASE StandbyStarts \/ PrimaryStarts
  <2>1. /\ UNCHANGED <<confirmed, current, upTo, handled, twice, broken, untold, overlap>>
        /\ \E p \in Pollers :
             /\ place[p] = "off"
             /\ place' \in {[place EXCEPT ![p] = "init"], [place EXCEPT ![p] = "ask"]}
             /\ offset' = [offset EXCEPT ![p] = IF @ = -1 /\ p = Standby THEN 0 ELSE @]
    BY <1>3 DEF StandbyStarts, PrimaryStarts, Moves, FailoverTypes, FailoverTypeOK
  <2>2. OwnMarks'
    BY <2>1 DEF CauseInv, OwnMarks, FailoverTypes, FailoverTypeOK, Updates
  <2>3. SharedMarks'
    BY <2>1 DEF CauseInv, SharedMarks, InHand, Caused, FailoverTypes, FailoverTypeOK
  <2> QED BY <2>2, <2>3 DEF CauseInv
<1> QED
  BY <1>1, <1>2, <1>3, AskCauses, BatchCauses, HandleCauses, StoreCauses, FailCauses
  DEF FailoverNext, Polling

\* However many updates, starts and failures there are: a poller repeats only what
\* it was interrupted in, and what both have handled was handed out while both were
\* at work, or one of them was interrupted in it, or died with it.
THEOREM RepeatsHaveCauses == FailoverSpec => []RepeatHasCause
<1>1. FailoverInit => FailoverTypes /\ CauseInv
  BY InitFailoverTypes, InitCauses
<1>2. FailoverTypes /\ CauseInv /\ [FailoverNext]_failoverVars => (FailoverTypes /\ CauseInv)'
  BY NextFailoverTypes, NextCauses
<1>3. CauseInv => RepeatHasCause
  BY DEF CauseInv, OwnMarks, SharedMarks, Caused, RepeatHasCause
<1> QED BY <1>1, <1>2, <1>3, PTL DEF FailoverSpec

-----------------------------------------------------------------------------
(* The two side by side.                                                   *)

\* A behaviour of the two is, seen alone, one of each.
LEMMA EachAlone == Spec => HistorySpec /\ FailoverSpec
<1>1. Init => HistoryInit /\ FailoverInit
  BY DEF Init
<1>2. [Next]_partVars => [HistoryNext]_historyVars /\ [FailoverNext]_failoverVars
  BY DEF Next, InHistory, InFailover, partVars
<1> QED BY <1>1, <1>2, PTL DEF Spec, HistorySpec, FailoverSpec

\* Neither the import nor the standby disturbs the types of the other.
THEOREM OperationsTypeCorrect == Spec => []TypeOK
<1>1. HistoryTypeOK /\ FailoverTypeOK => TypeOK
  BY DEF TypeOK
<1> QED BY <1>1, EachAlone, HistoryTypeCorrect, FailoverTypeCorrect, PTL

\* Nor what is proved of it: the import leaves no hole, counts nothing twice and
\* everything it got through, and the handover loses no update and repeats none
\* without a cause.
THEOREM OperationsAreSafe ==
  Spec => /\ []ImportedDownToCursor /\ []LegacyApart /\ []ImportIsCounted
          /\ []OutageLosesNothing /\ []RepeatHasCause
BY EachAlone, ImportHasNoHole, NothingCountsTwice, ImportsAreCounted, NothingIsLost,
   RepeatsHaveCauses, PTL

=============================================================================
