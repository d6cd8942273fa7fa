------------------------- MODULE SourceWatcherProofs ------------------------
(***************************************************************************)
(* Proofs about SourceWatcher, for any channel, contents, settings and     *)
(* number of faults: the types, what a recorded alert stands for, what may *)
(* be sent twice, that the cursor passes no matching post and none gets    *)
(* out of reach, that the availability row catches up, and what the order  *)
(* of the parser's rules comes to.  For the cursor the store calls of the  *)
(* queue must not raise: where one does it is not true.                    *)
(***************************************************************************)
EXTENDS SourceWatcher, SequenceTheorems, Induction, TLAPS

-----------------------------------------------------------------------------
(* Lemmas about the operators.                                             *)

\* A channel that does not fail has reached somebody.
LEMMA ChannelReaches ==
  ASSUME NEW ch \in Channels, NEW o \in ChannelSend(ch)
  PROVE  o.raises \in BOOLEAN /\ (~o.raises => o.reached # {})
<1>1. CASE ch = Telegram
  <2>1. PICK reached \in SUBSET EndpointsOf(Telegram) :
          \E taken \in SUBSET reached : o = Outcome(reached, taken = {})
    BY <1>1 DEF ChannelSend, TelegramSend
  <2>2. PICK taken \in SUBSET reached : o = Outcome(reached, taken = {})
    BY <2>1
  <2>3. o.raises = (taken = {}) /\ o.reached = reached
    BY <2>2 DEF Outcome
  <2> QED BY <2>3
<1>2. CASE ch # Telegram
  <2>1. o \in SerialSend(ch)
    BY <1>2 DEF ChannelSend
  <2>2. o.raises = TRUE \/ (o.raises = FALSE /\ o.reached = EndpointsOf(ch))
    BY <2>1 DEF SerialSend, Outcome
  <2>3. <<ch, 1>> \in EndpointsOf(ch)
    BY NotifiersAssumption DEF EndpointsOf
  <2> QED BY <2>2, <2>3
<1> QED BY <1>1, <1>2

\* A send that does not fail has reached somebody, if any channel takes it.
LEMMA SendReaches ==
  ASSUME NEW some \in SUBSET Channels, NEW silent \in BOOLEAN,
         NEW o \in Sends(some, silent), ~o.raises,
         Eligible(some, silent) # {}
  PROVE  o.reached # {}
<1> DEFINE eligible == Eligible(some, silent)
<1>1. PICK f \in [eligible -> UNION {ChannelSend(ch) : ch \in eligible}] :
        /\ \A ch \in eligible : f[ch] \in ChannelSend(ch)
        /\ o = Outcome(UNION {f[ch].reached : ch \in eligible},
                       eligible # {} /\ \A ch \in eligible : f[ch].raises)
  BY DEF Sends
<1>2. /\ o.reached = UNION {f[ch].reached : ch \in eligible}
      /\ o.raises = (eligible # {} /\ \A ch \in eligible : f[ch].raises)
  BY <1>1 DEF Outcome
<1>3. PICK ch \in eligible : ~f[ch].raises
  BY <1>2
<1>4. ch \in Channels /\ f[ch] \in ChannelSend(ch)
  BY <1>1, <1>3 DEF Eligible
<1>5. f[ch].reached # {}
  BY <1>3, <1>4, ChannelReaches
<1> QED BY <1>2, <1>5

-----------------------------------------------------------------------------
(* Types.                                                                  *)

LEMMA EmptyFunction == ASSUME NEW S PROVE << >> \in [1..0 -> S]
  OBVIOUS

LEMMA AppendFunction ==
  ASSUME NEW n \in Nat, NEW S, NEW s \in [1..n -> S], NEW c \in S
  PROVE  /\ Append(s, c) \in [1..n + 1 -> S]
         /\ \A i \in 1..n : Append(s, c)[i] = s[i]
<1>1. s \in Seq(S) /\ Len(s) = n
  OBVIOUS
<1>2. Append(s, c) \in Seq(S) /\ Len(Append(s, c)) = n + 1
  BY <1>1, AppendProperties
<1>3. Append(s, c) \in [1..n + 1 -> S]
  BY <1>2, LenProperties
<1> QED BY <1>1, <1>3, AppendProperties

LEMMA InitType == Init => TypeOK
<1> SUFFICES ASSUME Init PROVE TypeOK
  OBVIOUS
<1>1. content \in [1..posted -> Contents]
  BY EmptyFunction DEF Init
<1> QED BY <1>1, WatcherAssumption DEF Init, TypeOK, Stages

\* A post comes in.
LEMMA PostType == ASSUME TypeOK, Post PROVE TypeOK'
<1> USE DEF TypeOK
<1>1. /\ posted \in Nat /\ posted' = posted + 1 /\ posted' \in 0..MaxPost
      /\ UNCHANGED <<queueMode, channels, durableVars, mode, at, upto, workVars,
                     sentVars, dropped, faults>>
  BY WatcherAssumption DEF Post
<1>2. content' \in [1..posted' -> Contents]
  BY <1>1, AppendFunction DEF Post
<1>3. updates' \in Seq(1..posted')
  <2>1. updates \in Seq(1..posted')
    BY <1>1, SeqMonotonic
  <2>2. posted + 1 \in 1..posted'
    BY <1>1
  <2>3. Append(updates, posted + 1) \in Seq(1..posted')
    BY <2>1, <2>2, AppendProperties
  <2> QED BY <2>1, <2>3 DEF Post
<1> QED BY <1>1, <1>2, <1>3 DEF durableVars, workVars, sentVars

\* What the client does keeps the types.
LEMMA WatchType == ASSUME TypeOK, Watch PROVE TypeOK'
<1> USE DEF TypeOK, givenVars, durableVars, workVars, sentVars
<1>1. CASE Start
  BY <1>1 DEF Start
<1>2. CASE Fetch
  <2>1. Newest(HistoryLimit) \in 0..posted
    BY WatcherAssumption DEF Newest
  <2>2. at' \in 0..posted
    BY <1>2, <2>1 DEF Fetch
  <2>3. dropped' = dropped \/ dropped' = dropped \union 1..Newest(HistoryLimit)
    BY <1>2 DEF Fetch
  <2>4. dropped' \subseteq 1..posted
    <3>1. 1..Newest(HistoryLimit) \subseteq 1..posted
      BY <2>1
    <3> QED BY <2>3, <3>1
  <2> QED BY <1>2, <2>2, <2>4 DEF Fetch
<1>3. CASE DeliverHistory
  BY <1>3 DEF DeliverHistory, Stages
<1>4. CASE GoLive
  BY <1>4 DEF GoLive
<1>5. CASE DeliverUpdate
  <2>1. Head(updates) \in 1..posted /\ Tail(updates) \in Seq(1..posted)
    BY <1>5, HeadTailProperties DEF DeliverUpdate
  <2> QED BY <1>5, <2>1 DEF DeliverUpdate, Stages
<1>6. CASE Disconnect
  BY <1>6 DEF Disconnect
<1> QED BY <1>1, <1>2, <1>3, <1>4, <1>5, <1>6 DEF Watch

LEMMA ReachesType ==
  ASSUME TypeOK, cur # 0, NEW some, Reaches(some)
  PROVE  told' \subseteq 1..posted /\ again' \subseteq told'
<1>1. cur \in 1..posted /\ told \subseteq 1..posted /\ again \subseteq told
  BY DEF TypeOK
<1>2. CASE UNCHANGED <<told, again>>
  BY <1>1, <1>2
<1>3. CASE /\ told' = told \union {cur}
           /\ again' = IF cur \in told THEN again \union {cur} ELSE again
  BY <1>1, <1>3
<1> QED BY <1>2, <1>3 DEF Reaches

LEMMA AvailabilityType ==
  ASSUME NEW S, NEW b \in BOOLEAN, NEW x \in S
  PROVE  [open |-> b, by |-> x] \in [open : BOOLEAN, by : S]
  OBVIOUS

\* The handling of a post keeps the types.
LEMMA HandleType == ASSUME TypeOK, Handle PROVE TypeOK'
<1> USE DEF TypeOK, givenVars, durableVars, clientVars, workVars, sentVars,
            Goto, Finish, AfterPost, Stages
<1>1. CASE Classify
  <2>1. avail' \in [open : BOOLEAN, by : 0..posted]
    <3>1. \/ avail' = avail
          \/ avail' = [open |-> TRUE, by |-> cur]
          \/ avail' = [open |-> FALSE, by |-> cur]
      BY <1>1 DEF Classify
    <3>2. cur \in 0..posted /\ avail \in [open : BOOLEAN, by : 0..posted]
      OBVIOUS
    <3> QED BY ONLY <3>1, <3>2, AvailabilityType
  <2>2. stage' \in Stages /\ cur' \in 0..posted /\ (cur' = 0 <=> stage' = "none")
    BY <1>1 DEF Classify
  <2> QED BY <1>1, <2>1, <2>2 DEF Classify
<1>2. CASE Dedupe
  BY <1>2 DEF Dedupe
<1>3. CASE Enqueue
  BY <1>3 DEF Enqueue
<1>4. CASE RecordAlert
  BY <1>4 DEF RecordAlert
<1>5. CASE SendOthers
  <2>1. told' \subseteq 1..posted /\ again' \subseteq told'
    BY <1>5, ReachesType DEF SendOthers
  <2> QED BY <1>5, <2>1 DEF SendOthers
<1>6. CASE SendDirect
  <2>1. told' \subseteq 1..posted /\ again' \subseteq told'
    BY <1>6, ReachesType DEF SendDirect
  <2>2. excused' \subseteq 1..posted
    <3>1. cur \in 1..posted
      BY <1>6 DEF SendDirect
    <3>2. excused' = excused \/ excused' = excused \union {cur}
      BY <1>6 DEF SendDirect
    <3> QED BY <3>1, <3>2
  <2>3. (stage' = "none" /\ cur' = 0) \/ (stage' = "record" /\ cur' = cur /\ cur # 0)
    BY <1>6 DEF SendDirect
  <2> QED BY <1>6, <2>1, <2>2, <2>3 DEF SendDirect
<1>7. CASE Advance
  BY <1>7 DEF Advance
<1> QED BY <1>1, <1>2, <1>3, <1>4, <1>5, <1>6, <1>7 DEF Handle

\* So do the faults.
LEMMA FaultType == ASSUME TypeOK, StoreRaises \/ Crash PROVE TypeOK'
<1> USE DEF TypeOK, givenVars, durableVars, clientVars, workVars, sentVars, Finish, Stages
<1>1. faults' \in 0..MaxFaults
  BY WatcherAssumption DEF StoreRaises, Crash
<1>2. excused' \subseteq 1..posted
  <2>1. excused \union {cur} \subseteq 1..posted \/ stage = "none"
    OBVIOUS
  <2> QED BY <2>1 DEF StoreRaises, Crash, Interrupted
<1>3. CASE StoreRaises
  BY <1>1, <1>2, <1>3 DEF StoreRaises
<1>4. CASE Crash
  <2>1. told' \subseteq 1..posted /\ again' \subseteq told'
    BY <1>4, ReachesType DEF Crash
  <2>2. updates' \in Seq(1..posted)
    BY <1>4 DEF Crash
  <2> QED BY <1>1, <1>2, <1>4, <2>1, <2>2 DEF Crash
<1> QED BY <1>3, <1>4

LEMMA NextType == TypeOK /\ [Next]_vars => TypeOK'
<1> SUFFICES ASSUME TypeOK, [Next]_vars PROVE TypeOK'
  OBVIOUS
<1>1. CASE UNCHANGED vars
  BY <1>1 DEF TypeOK, vars, givenVars, durableVars, clientVars, workVars, sentVars
<1> QED
  BY <1>1, PostType, WatchType, HandleType, FaultType DEF Next

\* Every variable keeps its type, whatever the channel posts and wherever the
\* watcher is stopped.
THEOREM TypeCorrect == Spec => []TypeOK
  BY InitType, NextType, PTL DEF Spec

-----------------------------------------------------------------------------
(* What a recorded alert stands for, and what is sent twice.               *)

\* The stages of the two modes; what is on its way to be recorded is not there.
StageFits ==
  /\ stage \in {"enqueue", "others", "advance"} => queueMode
  /\ stage = "send" => ~queueMode
  /\ stage \in {"enqueue", "record", "send"} => cur \notin alerted

\* With the queue: jobs before the record, the record before the other channels.
QueueSide ==
  queueMode =>
    /\ alerted \subseteq enqueued
    /\ stage \in {"record", "others"} => cur \in enqueued
    /\ told \subseteq alerted /\ again = {}
    /\ stage = "others" => cur \in alerted \ told

Recording == IF stage = "record" THEN {cur} ELSE {}
Heard(m) == Eligible(channels, SilentAlert(m)) # {} => m \in told

\* Without: what somebody has received and what is recorded, but for the post in
\* between, differ only where a fault has been.
DirectSide ==
  ~queueMode =>
    /\ told \subseteq alerted \union excused \union Recording
    /\ again \subseteq excused
    /\ \A m \in alerted \union Recording : Heard(m)

AlertInv == StageFits /\ QueueSide /\ DirectSide

LEMMA InitAlerts == Init => AlertInv
  BY DEF Init, AlertInv, StageFits, QueueSide, DirectSide, Recording

\* What a post says does not change.
LEMMA PostsStay ==
  ASSUME TypeOK, Post, NEW m \in 1..posted
  PROVE  SilentAlert(m)' = SilentAlert(m) /\ Kind(m)' = Kind(m)
<1>1. posted \in Nat /\ content \in [1..posted -> Contents]
  BY WatcherAssumption DEF TypeOK
<1>2. content'[m] = content[m]
  BY <1>1, AppendFunction DEF Post
<1> QED BY <1>2 DEF SilentAlert, Kind

LEMMA PostAlerts == ASSUME TypeOK, AlertInv, Post PROVE AlertInv'
<1>1. UNCHANGED <<queueMode, channels, durableVars, workVars, sentVars>>
  BY DEF Post
<1>2. StageFits' /\ QueueSide'
  BY <1>1 DEF AlertInv, StageFits, QueueSide, durableVars, workVars, sentVars
<1>3. ASSUME ~queueMode, NEW m \in alerted \union Recording PROVE Heard(m)'
  <2>1. m \in 1..posted
    BY <1>3 DEF TypeOK, Recording
  <2>2. Heard(m)
    BY <1>3 DEF AlertInv, DirectSide
  <2> QED BY <1>1, <2>1, <2>2, PostsStay DEF Heard, sentVars
<1>4. DirectSide'
  BY <1>1, <1>3 DEF AlertInv, DirectSide, Recording, durableVars, workVars, sentVars
<1> QED BY <1>2, <1>4 DEF AlertInv

\* What is not done for the post at hand leaves the alerts alone.
LEMMA IdleAlerts ==
  ASSUME AlertInv, UNCHANGED <<givenVars, alerted, enqueued, sentVars>>,
         \/ stage' \in {"none", "read", "dedupe"} /\ stage # "record"
         \/ stage' = "advance" /\ stage # "record" /\ queueMode
         \/ UNCHANGED workVars
  PROVE  AlertInv'
<1> USE DEF givenVars, sentVars, workVars
<1>1. StageFits'
  BY DEF AlertInv, StageFits
<1>2. QueueSide'
  BY DEF AlertInv, QueueSide
<1>3. Recording' = Recording
  BY DEF Recording
<1>4. \A m : Heard(m)' = Heard(m)
  BY DEF Heard, SilentAlert
<1>5. DirectSide'
  BY <1>3, <1>4 DEF AlertInv, DirectSide
<1> QED BY <1>1, <1>2, <1>5 DEF AlertInv

LEMMA WatchAlerts == ASSUME TypeOK, AlertInv, Watch PROVE AlertInv'
<1> USE DEF durableVars
<1>1. CASE Start
  BY <1>1, IdleAlerts DEF Start
<1>2. CASE Fetch
  BY <1>2, IdleAlerts DEF Fetch
<1>3. CASE DeliverHistory
  BY <1>3, IdleAlerts DEF DeliverHistory, TypeOK
<1>4. CASE GoLive
  BY <1>4, IdleAlerts DEF GoLive
<1>5. CASE DeliverUpdate
  BY <1>5, IdleAlerts DEF DeliverUpdate, TypeOK
<1>6. CASE Disconnect
  BY <1>6, IdleAlerts DEF Disconnect
<1> QED BY <1>1, <1>2, <1>3, <1>4, <1>5, <1>6 DEF Watch

\* With the queue: each write comes after the one that it vouches for.
LEMMA QueueAlerts ==
  ASSUME TypeOK, AlertInv, Classify \/ Dedupe \/ Enqueue \/ Advance
  PROVE  AlertInv'
<1> USE DEF Goto, Finish, AfterPost
<1>1. CASE Classify
  <2>1. \/ stage' \in {"none", "dedupe"}
        \/ stage' = "advance" /\ queueMode
    BY <1>1 DEF Classify
  <2> QED BY <1>1, <2>1, IdleAlerts DEF Classify
<1>2. CASE Dedupe
  <2>1. CASE cur \in alerted
    BY <1>2, <2>1, IdleAlerts DEF Dedupe, durableVars
  <2>2. CASE cur \notin alerted
    <3>1. /\ stage' = IF queueMode THEN "enqueue" ELSE "send"
          /\ cur' = cur /\ stage = "dedupe"
          /\ UNCHANGED <<givenVars, durableVars, sentVars>>
      BY <1>2, <2>2 DEF Dedupe
    <3>2. StageFits' /\ QueueSide'
      BY <2>2, <3>1 DEF AlertInv, StageFits, QueueSide, givenVars, durableVars, sentVars
    <3>3. \A m : Heard(m)' = Heard(m)
      BY <3>1 DEF Heard, SilentAlert, givenVars, sentVars
    <3>4. Recording' = Recording
      BY <3>1 DEF Recording
    <3>5. DirectSide'
      BY <3>1, <3>3, <3>4 DEF AlertInv, DirectSide, givenVars, durableVars, sentVars
    <3> QED BY <3>2, <3>5 DEF AlertInv
  <2> QED BY <2>1, <2>2
<1>3. CASE Enqueue
  <2>1. queueMode /\ cur' = cur /\ stage' = "record"
    BY <1>3 DEF Enqueue, AlertInv, StageFits
  <2> QED
    BY <1>3, <2>1
    DEF Enqueue, AlertInv, StageFits, QueueSide, DirectSide, givenVars, sentVars
<1>4. CASE Advance
  BY <1>4, IdleAlerts DEF Advance
<1> QED BY <1>1, <1>2, <1>3, <1>4

LEMMA RecordAlerts == ASSUME TypeOK, AlertInv, RecordAlert PROVE AlertInv'
<1>1. /\ stage = "record" /\ alerted' = alerted \union {cur}
      /\ UNCHANGED <<givenVars, enqueued, sentVars>>
      /\ IF queueMode THEN stage' = "others" /\ cur' = cur ELSE stage' = "none"
  BY DEF RecordAlert, Goto, Finish
<1> USE DEF givenVars, sentVars
<1>2. StageFits'
  BY <1>1 DEF StageFits
<1>3. QueueSide'
  BY <1>1 DEF AlertInv, StageFits, QueueSide
<1>4. \A m : Heard(m)' = Heard(m)
  BY <1>1 DEF Heard, SilentAlert
<1>5. ~queueMode => Recording' = {} /\ Recording = {cur}
  BY <1>1 DEF Recording
<1>6. DirectSide'
  BY <1>1, <1>4, <1>5 DEF AlertInv, DirectSide
<1> QED BY <1>2, <1>3, <1>6 DEF AlertInv

\* Whom the post at hand reaches is all that is added.
LEMMA ReachesOnly ==
  ASSUME NEW some, Reaches(some)
  PROVE  /\ told \subseteq told' /\ told' \subseteq told \union {cur}
         /\ some # {} => cur \in told'
         /\ again' \subseteq again \union (IF cur \in told THEN {cur} ELSE {})
<1>1. CASE some = {}
  BY <1>1 DEF Reaches
<1>2. CASE some # {}
  BY <1>2 DEF Reaches
<1> QED BY <1>1, <1>2

LEMMA OthersAlerts == ASSUME TypeOK, AlertInv, SendOthers PROVE AlertInv'
<1>1. /\ stage = "others" /\ stage' = "advance" /\ queueMode
      /\ UNCHANGED <<cur, givenVars, durableVars, excused>>
  BY DEF SendOthers, Goto, AlertInv, StageFits
<1>2. PICK o \in Sends(channels \ {Telegram}, SilentAlert(cur)) : Reaches(o.reached)
  BY DEF SendOthers
<1>3. told' \subseteq told \union {cur} /\ again' \subseteq again
  BY <1>1, <1>2, ReachesOnly DEF AlertInv, QueueSide
<1>4. cur \in alerted
  BY <1>1 DEF AlertInv, QueueSide
<1> QED
  BY <1>1, <1>3, <1>4 DEF AlertInv, StageFits, QueueSide, DirectSide, givenVars, durableVars

LEMMA DirectAlerts == ASSUME TypeOK, AlertInv, SendDirect PROVE AlertInv'
<1>1. stage = "send" /\ ~queueMode /\ cur \notin alerted /\ UNCHANGED <<givenVars, durableVars>>
  BY DEF SendDirect, AlertInv, StageFits
<1>2. PICK o \in Sends(channels, SilentAlert(cur)) :
        /\ Reaches(o.reached)
        /\ IF o.raises
           THEN Finish /\ excused' = excused \union {cur}
           ELSE Goto("record") /\ UNCHANGED excused
  BY DEF SendDirect
<1>3. /\ told \subseteq told' /\ told' \subseteq told \union {cur}
      /\ again' \subseteq again \union (IF cur \in told THEN {cur} ELSE {})
  BY <1>2, ReachesOnly
<1>4. told \subseteq alerted \union excused /\ again \subseteq excused
  BY <1>1 DEF AlertInv, DirectSide, Recording
<1>5. again' \subseteq excused'
  BY <1>1, <1>2, <1>3, <1>4
<1>6. \A m : Heard(m) => Heard(m)'
  BY <1>1, <1>3 DEF Heard, SilentAlert, givenVars
<1>7. \A m \in alerted : Heard(m)'
  BY <1>1, <1>6 DEF AlertInv, DirectSide
<1> USE DEF givenVars, durableVars
<1>8. CASE o.raises
  <2>1. stage' = "none" /\ excused' = excused \union {cur}
    BY <1>2, <1>8 DEF Finish
  <2>2. Recording' = {}
    BY <2>1 DEF Recording
  <2>3. DirectSide'
    BY <1>1, <1>3, <1>4, <1>5, <1>7, <2>1, <2>2 DEF DirectSide
  <2> QED BY <1>1, <2>1, <2>3 DEF AlertInv, StageFits, QueueSide
<1>9. CASE ~o.raises
  <2>1. stage' = "record" /\ cur' = cur /\ excused' = excused
    BY <1>2, <1>9 DEF Goto
  <2>2. Recording' = {cur}
    BY <2>1 DEF Recording
  <2>3. Heard(cur)'
    <3>1. channels \in SUBSET Channels /\ SilentAlert(cur) \in BOOLEAN
      BY WatcherAssumption DEF TypeOK, SilentAlert, Silent, Says
    <3>2. Eligible(channels, SilentAlert(cur)) # {} => o.reached # {}
      BY <1>9, <3>1, SendReaches
    <3>3. o.reached # {} => cur \in told'
      BY <1>2, ReachesOnly
    <3>4. SilentAlert(cur)' = SilentAlert(cur)
      BY <1>1, <2>1 DEF SilentAlert
    <3> QED BY <1>1, <2>1, <3>2, <3>3, <3>4 DEF Heard
  <2>4. DirectSide'
    BY <1>1, <1>3, <1>4, <1>5, <1>7, <2>1, <2>2, <2>3 DEF DirectSide
  <2> QED BY <1>1, <2>1, <2>4 DEF AlertInv, StageFits, QueueSide
<1> QED BY <1>8, <1>9

\* A fault while a post is sent or recorded is an excuse for sending it again.
LEMMA FaultAlerts == ASSUME TypeOK, AlertInv, StoreRaises \/ Crash PROVE AlertInv'
<1>1. stage' = "none" /\ UNCHANGED <<givenVars, durableVars>> /\ excused' = Interrupted
  BY DEF StoreRaises, Crash, Finish
<1>2. \/ UNCHANGED <<told, again>>
      \/ /\ stage \in {"others", "send"}
         /\ told \subseteq told' /\ told' \subseteq told \union {cur}
         /\ again' \subseteq again \union (IF cur \in told THEN {cur} ELSE {})
  BY ReachesOnly DEF StoreRaises, Crash
<1>3. excused \subseteq excused'
  BY <1>1 DEF Interrupted
<1> USE DEF givenVars, durableVars
<1>4. StageFits'
  BY <1>1 DEF StageFits
<1>5. QueueSide'
  <2> SUFFICES ASSUME queueMode
               PROVE  told' \subseteq alerted /\ again' = {}
    BY <1>1 DEF QueueSide, AlertInv
  <2>1. stage # "send"
    BY DEF AlertInv, StageFits
  <2> QED BY <1>2, <2>1 DEF AlertInv, QueueSide
<1>6. DirectSide'
  <2> SUFFICES ASSUME ~queueMode PROVE DirectSide'
    BY <1>1 DEF DirectSide
  <2>1. stage # "others"
    BY DEF AlertInv, StageFits
  <2>2. stage \in {"send", "record"} => excused' = excused \union {cur}
    BY <1>1 DEF Interrupted
  <2>3. Recording \subseteq excused'
    BY <2>2 DEF Recording
  <2>4. told \subseteq alerted \union excused' /\ again \subseteq excused'
    BY <1>3, <2>3 DEF AlertInv, DirectSide
  <2>5. told' \subseteq alerted \union excused' /\ again' \subseteq excused'
    BY <1>2, <2>1, <2>2, <2>4
  <2>6. \A m : Heard(m) => Heard(m)'
    BY <1>1, <1>2 DEF Heard, SilentAlert
  <2>7. Recording' = {}
    BY <1>1 DEF Recording
  <2> QED BY <1>1, <2>5, <2>6, <2>7 DEF AlertInv, DirectSide
<1> QED BY <1>4, <1>5, <1>6 DEF AlertInv

LEMMA NextAlerts == TypeOK /\ AlertInv /\ [Next]_vars => AlertInv'
<1> SUFFICES ASSUME TypeOK, AlertInv, [Next]_vars PROVE AlertInv'
  OBVIOUS
<1>1. CASE UNCHANGED vars
  BY <1>1, IdleAlerts DEF vars, durableVars
<1>2. CASE Handle
  BY <1>2, QueueAlerts, RecordAlerts, OthersAlerts, DirectAlerts DEF Handle
<1> QED
  BY <1>1, <1>2, PostAlerts, WatchAlerts, FaultAlerts DEF Next

LEMMA Alerts == Spec => [](TypeOK /\ AlertInv)
<1>1. Init => TypeOK /\ AlertInv
  BY InitType, InitAlerts
<1>2. TypeOK /\ AlertInv /\ [Next]_vars => (TypeOK /\ AlertInv)'
  BY NextType, NextAlerts
<1> QED BY <1>1, <1>2, PTL DEF Spec

\* With the queue an alert that is suppressed from now on has its jobs; without
\* it somebody has received it, if any channel takes alerts of its kind.
THEOREM RecordedAlertsAreBacked == Spec => []RecordedIsBacked
<1>1. TypeOK /\ AlertInv => RecordedIsBacked
  BY DEF AlertInv, QueueSide, DirectSide, Heard, RecordedIsBacked
<1> QED BY <1>1, Alerts, PTL

\* An alert is repeated only where a fault excuses it, and never on the other
\* channels of the queue.
THEOREM RepeatsAreExcused == Spec => []RepeatedOnlyByFault
<1>1. TypeOK /\ AlertInv => RepeatedOnlyByFault
  BY DEF AlertInv, QueueSide, DirectSide, RepeatedOnlyByFault
<1> QED BY <1>1, Alerts, PTL

-----------------------------------------------------------------------------
(* What the cursor may pass.                                               *)

Covered(m) == Kind(m) = "open" => m \in enqueued \union dropped
Waits(m) == \E i \in 1..Len(updates) : updates[i] = m

Passed ==
  /\ \A m \in 1..cursor : Covered(m)
  /\ stage = "advance" => Covered(cur)

Ascending ==
  \A i \in 1..Len(updates) : \A j \in 1..Len(updates) : i < j => updates[i] < updates[j]

\* The catch-up has covered what it has delivered, and what came after its page
\* waits behind the lock.
CatchingUp ==
  /\ cur \in {0, at}
  /\ \A m \in 1..at : m = cur \/ Covered(m)
  /\ \A m \in upto + 1 .. posted : Waits(m)

\* A live watcher has before it what it has not covered.
Living ==
  /\ \A m \in 1..posted : m = cur \/ Waits(m) \/ Covered(m)
  /\ \A i \in 1..Len(updates) : cur < updates[i]

CursorInv ==
  /\ ~queueMode => cursor = 0
  /\ queueMode =>
       /\ Passed /\ Ascending
       /\ mode # "closing"
       /\ mode \in {"down", "fetch"} => cur = 0
       /\ mode = "catchUp" => CatchingUp
       /\ mode = "live" => Living

LEMMA InitCursor == Init => CursorInv
  BY DEF Init, CursorInv, Passed, Ascending

\* A post comes in: it waits, and what was said of the others stays true.
LEMMA PostCursor == ASSUME TypeOK, CursorInv, queueMode, Post PROVE CursorInv'
<1>1. /\ posted \in Nat /\ posted' = posted + 1
      /\ updates \in Seq(1..posted) /\ cur \in 0..posted /\ cursor \in 0..posted
      /\ at \in 0..posted /\ upto \in 0..posted
      /\ UNCHANGED <<queueMode, channels, cursor, enqueued, mode, at, upto, cur, stage, dropped>>
      /\ cur = 0 <=> stage = "none"
  BY WatcherAssumption DEF TypeOK, Post, durableVars, workVars
<1>2. \A m \in 1..posted : Covered(m)' = Covered(m)
  BY <1>1, PostsStay DEF Covered
<1>3. Passed'
  BY <1>1, <1>2 DEF CursorInv, Passed
<1>4. CASE mode = "down"
  <2>1. updates' = updates
    BY <1>4 DEF Post
  <2> QED BY <1>1, <1>3, <1>4, <2>1 DEF CursorInv, Ascending
<1>5. CASE mode # "down"
  <2>1. /\ Len(updates') = Len(updates) + 1
        /\ \A i \in 1..Len(updates) : updates'[i] = updates[i]
        /\ updates'[Len(updates) + 1] = posted + 1
    <3>1. updates' = Append(updates, posted + 1) /\ updates \in Seq(Nat) /\ posted + 1 \in Nat
      BY <1>1, <1>5 DEF Post
    <3> QED BY <3>1, AppendProperties
  <2>2. Len(updates) \in Nat /\ \A i \in 1..Len(updates) : updates[i] \in 1..posted
    BY <1>1
  <2>3. Ascending'
    BY <1>1, <2>1, <2>2 DEF CursorInv, Ascending
  <2>4. \A m : Waits(m) => Waits(m)'
    BY <2>1, <2>2 DEF Waits
  <2> DEFINE n == Len(updates) + 1
  <2>5. \A m : m = posted + 1 => Waits(m)'
    <3>1. n \in 1..Len(updates')
      BY <2>1, <2>2
    <3> QED BY <2>1, <3>1 DEF Waits
  <2>6. ASSUME mode = "catchUp" PROVE CatchingUp'
    <3>1. \A m \in upto + 1 .. posted + 1 : Waits(m)'
      <4> SUFFICES ASSUME NEW m \in upto + 1 .. posted + 1 PROVE Waits(m)'
        OBVIOUS
      <4>1. m \in upto + 1 .. posted \/ m = posted + 1
        BY <1>1
      <4> QED BY <2>4, <2>5, <2>6, <4>1 DEF CursorInv, CatchingUp
    <3> QED BY <1>1, <1>2, <2>6, <3>1 DEF CursorInv, CatchingUp
  <2>7. ASSUME mode = "live" PROVE Living'
    <3>1. \A i \in 1..Len(updates') : cur < updates'[i]
      BY <1>1, <2>1, <2>2, <2>7 DEF CursorInv, Living
    <3>2. \A m \in 1..posted : m = cur \/ Waits(m)' \/ Covered(m)'
      BY <1>2, <2>4, <2>7 DEF CursorInv, Living
    <3>3. \A m \in 1..posted + 1 : m \in 1..posted \/ m = posted + 1
      BY <1>1
    <3> QED BY <1>1, <2>5, <3>1, <3>2, <3>3 DEF Living
  <2> QED BY <1>1, <1>3, <2>3, <2>6, <2>7 DEF CursorInv
<1> QED BY <1>4, <1>5

\* The client: the history starts behind what is covered, and updates are taken
\* in the order of the posts.
LEMMA WatchCursor == ASSUME TypeOK, CursorInv, queueMode, Watch PROVE CursorInv'
<1>1. /\ posted \in Nat /\ updates \in Seq(1..posted) /\ cur \in 0..posted
      /\ at \in 0..posted /\ upto \in 0..posted /\ cursor \in 0..posted
      /\ cur = 0 <=> stage = "none"
  BY WatcherAssumption DEF TypeOK
<1>2. UNCHANGED <<posted, content, queueMode, cursor, enqueued>> /\ dropped \subseteq dropped'
  BY DEF Watch, Start, Fetch, DeliverHistory, GoLive, DeliverUpdate, Disconnect,
         givenVars, durableVars
<1>3. \A m : Covered(m) => Covered(m)'
  BY <1>2 DEF Covered, Kind
<1>4. CASE Start
  BY <1>2, <1>4 DEF Start, CursorInv, Passed, Ascending, Covered, Kind, workVars
<1>5. CASE Fetch
  <2>1. mode' = "catchUp" /\ cur = 0 /\ cur' = 0 /\ stage' = stage /\ upto' = posted
        /\ updates' = updates
    BY <1>5 DEF Fetch, CursorInv, workVars
  <2>2. \A m \in 1..at' : Covered(m)'
    <3>1. CASE cursor > 0
      BY <1>3, <1>5, <3>1 DEF Fetch, CursorInv, Passed
    <3>2. CASE ~(cursor > 0)
      BY <1>5, <3>2 DEF Fetch, Covered
    <3> QED BY <3>1, <3>2
  <2>3. CatchingUp'
    BY <1>1, <1>2, <2>1, <2>2 DEF CatchingUp
  <2>4. Passed' /\ Ascending'
    BY <1>1, <1>2, <1>3, <2>1 DEF CursorInv, Passed, Ascending
  <2> QED BY <1>2, <2>1, <2>3, <2>4 DEF CursorInv
<1>6. CASE DeliverHistory
  <2>1. /\ mode = "catchUp" /\ mode' = mode /\ cur = 0 /\ at' = at + 1 /\ cur' = at + 1
        /\ stage' = "read" /\ UNCHANGED <<updates, upto, dropped>>
    BY <1>6 DEF DeliverHistory
  <2>2. CatchingUp'
    BY <1>1, <1>2, <1>3, <2>1 DEF CursorInv, CatchingUp, Waits
  <2>3. Passed' /\ Ascending'
    BY <1>2, <1>3, <2>1 DEF CursorInv, Passed, Ascending
  <2> QED BY <1>2, <2>1, <2>2, <2>3 DEF CursorInv
<1>7. CASE GoLive
  <2>1. /\ mode = "catchUp" /\ mode' = "live" /\ cur = 0 /\ at = upto
        /\ UNCHANGED <<updates, cur, stage, dropped>>
    BY <1>7 DEF GoLive, workVars
  <2>2. \A i \in 1..Len(updates) : updates[i] \in 1..posted
    BY <1>1
  <2>3. Living'
    BY <1>1, <1>2, <1>3, <2>1, <2>2 DEF CursorInv, CatchingUp, Living, Waits
  <2>4. Passed' /\ Ascending'
    BY <1>1, <1>2, <1>3, <2>1 DEF CursorInv, Passed, Ascending
  <2> QED BY <1>2, <2>1, <2>3, <2>4 DEF CursorInv
<1>8. CASE DeliverUpdate
  <2>1. /\ mode = "live" /\ mode' = mode /\ cur = 0 /\ updates # << >>
        /\ cur' = Head(updates) /\ updates' = Tail(updates)
        /\ stage' = "read"
    BY <1>8 DEF DeliverUpdate, CursorInv
  <2>2. /\ Len(updates) \in Nat \ {0} /\ Len(updates') = Len(updates) - 1
        /\ cur' = updates[1]
        /\ \A i \in 1..Len(updates') : updates'[i] = updates[i + 1]
        /\ \A i \in 1..Len(updates) : updates[i] \in 1..posted
    BY <1>1, <2>1, HeadTailProperties
  <2>3. Ascending'
    <3> SUFFICES ASSUME NEW i \in 1..Len(updates'), NEW j \in 1..Len(updates'), i < j
                 PROVE  updates'[i] < updates'[j]
      BY DEF Ascending
    <3>1. i + 1 \in 1..Len(updates) /\ j + 1 \in 1..Len(updates) /\ i + 1 < j + 1
      BY <2>2
    <3> QED BY <2>2, <3>1 DEF CursorInv, Ascending
  <2>4. \A i \in 1..Len(updates') : cur' < updates'[i]
    BY <2>2 DEF CursorInv, Ascending
  <2>5. \A m : Waits(m) => m = cur' \/ Waits(m)'
    <3> SUFFICES ASSUME NEW m, NEW i \in 1..Len(updates), updates[i] = m, m # cur'
                 PROVE  Waits(m)'
      BY DEF Waits
    <3>1. i - 1 \in 1..Len(updates') /\ updates'[i - 1] = m
      BY <2>2
    <3> QED BY <3>1 DEF Waits
  <2>6. \A m \in 1..posted : m = cur' \/ Waits(m)' \/ Covered(m)'
    BY <1>3, <2>1, <2>5 DEF CursorInv, Living
  <2>7. Living'
    BY <1>2, <2>4, <2>6 DEF Living
  <2>8. Passed'
    BY <1>2, <1>3, <2>1 DEF CursorInv, Passed
  <2> QED BY <1>2, <2>1, <2>3, <2>7, <2>8 DEF CursorInv
<1>9. CASE Disconnect
  BY <1>9 DEF Disconnect, CursorInv
<1> QED BY <1>4, <1>5, <1>6, <1>7, <1>8, <1>9 DEF Watch

\* The post at hand is covered before the cursor is moved to it.
LEMMA HandleCursor ==
  ASSUME TypeOK, AlertInv, CursorInv, queueMode, Handle PROVE CursorInv'
<1>1. /\ cur \in 0..posted /\ cursor \in 0..posted /\ posted \in Nat
      /\ cur = 0 <=> stage = "none"
  BY WatcherAssumption DEF TypeOK
<1>2. UNCHANGED <<posted, content, queueMode, mode, updates, at, upto, dropped>>
      /\ enqueued \subseteq enqueued'
  BY DEF Handle, Classify, Dedupe, Enqueue, RecordAlert, SendOthers, SendDirect, Advance,
         givenVars, durableVars, clientVars
<1>3. \A m : Covered(m) => Covered(m)'
  BY <1>2 DEF Covered, Kind
<1>4. cur # 0
  BY <1>1 DEF Handle, Classify, Dedupe, Enqueue, RecordAlert, SendOthers, SendDirect, Advance
\* A step that keeps the post and the cursor.
<1>5. ASSUME cur' = cur, cursor' = cursor, stage' = "advance" => Covered(cur)
      PROVE  CursorInv'
  BY <1>2, <1>3, <1>5 DEF CursorInv, Passed, Ascending, CatchingUp, Living, Waits
<1>6. CASE Classify
  <2>1. cur' = cur /\ cursor' = cursor /\ (stage' = "advance" => Kind(cur) # "open")
    BY <1>6 DEF Classify, AfterPost, Goto
  <2> QED BY <1>5, <2>1 DEF Covered
<1>7. CASE Dedupe
  <2>1. cur' = cur /\ cursor' = cursor /\ (stage' = "advance" => cur \in alerted)
    BY <1>7 DEF Dedupe, AfterPost, Goto, durableVars
  <2> QED BY <1>5, <2>1 DEF AlertInv, QueueSide, Covered
<1>8. CASE Enqueue
  BY <1>5, <1>8 DEF Enqueue, Goto
<1>9. CASE RecordAlert
  BY <1>5, <1>9 DEF RecordAlert, Goto
<1>10. CASE SendOthers
  <2>1. cur' = cur /\ cursor' = cursor /\ cur \in alerted
    BY <1>10 DEF SendOthers, Goto, durableVars, AlertInv, QueueSide
  <2> QED BY <1>5, <2>1 DEF AlertInv, QueueSide, Covered
<1>11. CASE SendDirect
  BY <1>11 DEF SendDirect, AlertInv, StageFits
<1>12. CASE Advance
  <2>1. /\ stage' = "none" /\ cur' = 0 /\ Covered(cur)
        /\ cursor' = IF cursor < cur THEN cur ELSE cursor
    BY <1>12 DEF Advance, Finish, CursorInv, Passed
  <2>2. mode \in {"catchUp", "live"}
    BY <1>4 DEF CursorInv, TypeOK
  <2>3. \A m \in 1..cur : Covered(m)
    <3>1. CASE mode = "catchUp"
      BY <1>4, <2>1, <3>1 DEF CursorInv, CatchingUp
    <3>2. CASE mode = "live"
      <4>1. \A m \in 1..cur : ~Waits(m)
        BY <1>1, <3>2 DEF CursorInv, Living, Waits, TypeOK
      <4> QED BY <1>1, <2>1, <3>2, <4>1 DEF CursorInv, Living
    <3> QED BY <2>2, <3>1, <3>2
  <2>4. Passed'
    <3>1. \A m \in 1..cursor' : Covered(m)
      BY <1>1, <2>1, <2>3 DEF CursorInv, Passed
    <3> QED BY <1>3, <2>1, <3>1 DEF Passed
  <2>5. mode = "catchUp" => CatchingUp'
    BY <1>2, <1>3, <2>1 DEF CursorInv, CatchingUp, Waits
  <2>6. mode = "live" => Living'
    <3>1. \A i \in 1..Len(updates) : 0 < updates[i]
      BY DEF TypeOK
    <3> QED BY <1>2, <1>3, <2>1, <3>1 DEF CursorInv, Living, Waits
  <2> QED BY <1>2, <2>1, <2>2, <2>4, <2>5, <2>6 DEF CursorInv, Ascending
<1> QED BY <1>6, <1>7, <1>8, <1>9, <1>10, <1>11, <1>12 DEF Handle

\* A crash leaves the cursor where it is and starts with an empty hand.
LEMMA CrashCursor == ASSUME CursorInv, queueMode, Crash PROVE CursorInv'
<1>1. /\ mode' = "down" /\ cur' = 0 /\ stage' = "none" /\ updates' = << >>
      /\ UNCHANGED <<posted, content, queueMode, cursor, enqueued, dropped>>
  BY DEF Crash, Finish, givenVars, durableVars
<1>2. \A m : Covered(m) => Covered(m)'
  BY <1>1 DEF Covered, Kind
<1> QED BY <1>1, <1>2 DEF CursorInv, Passed, Ascending

\* Without the queue the cursor is not used.
LEMMA DirectCursor ==
  ASSUME AlertInv, CursorInv, ~queueMode, [Next]_vars PROVE CursorInv'
<1>1. stage # "advance"
  BY DEF AlertInv, StageFits
<1>2. UNCHANGED <<queueMode, cursor>>
  BY <1>1 DEF Next, vars, Post, Watch, Start, Fetch, DeliverHistory, GoLive, DeliverUpdate,
       Disconnect, Handle, Classify, Dedupe, Enqueue, RecordAlert, SendOthers, SendDirect,
       Advance, StoreRaises, Crash, givenVars, durableVars
<1> QED BY <1>2 DEF CursorInv

\* What EveryPostEnqueued needs of every state, besides fairness: a matching post
\* that is not in the outbox is still ahead.  A stopped watcher will ask for it, since
\* its cursor is below; one that catches up has it in its page or behind the lock;
\* a live one has it among its updates, unless it is the post at hand.
NothingOutOfReach ==
  queueMode =>
    \A m \in 1..posted :
      \/ Covered(m) \/ m = cur \/ Waits(m)
      \/ mode \in {"down", "fetch"} /\ m > cursor
      \/ mode = "catchUp" /\ at < m /\ m <= upto

\* Where no store call of the queue raises, the types, the account of the alerts
\* and the place of the cursor hold together.
LEMMA Cursor ==
  ASSUME FailIn \subseteq {FALSE} \X {"catchUp", "live"}
  PROVE  Spec => [](TypeOK /\ AlertInv /\ CursorInv)
<1> DEFINE Inv == TypeOK /\ AlertInv /\ CursorInv
<1>1. Init => Inv
  BY InitType, InitAlerts, InitCursor
<1>2. Inv /\ [Next]_vars => Inv'
  <2> SUFFICES ASSUME TypeOK, AlertInv, CursorInv, [Next]_vars PROVE CursorInv'
    BY NextType, NextAlerts
  <2>1. CASE ~queueMode
    BY <2>1, DirectCursor
  <2>2. CASE queueMode
    <3>1. ~StoreRaises
      BY <2>2 DEF StoreRaises
    <3>2. CASE UNCHANGED vars
      BY <3>2 DEF vars, givenVars, durableVars, clientVars, workVars, CursorInv, Passed,
                  Ascending, CatchingUp, Living, Waits, Covered, Kind
    <3> QED
      BY <2>2, <3>1, <3>2, PostCursor, WatchCursor, HandleCursor, CrashCursor DEF Next
  <2> QED BY <2>1, <2>2
<1> QED BY <1>1, <1>2, PTL DEF Spec

\* Where no store call of the queue raises, the cursor passes no matching post that
\* is not in the outbox, however often the watcher is stopped and whatever order
\* history and live updates come in.
THEOREM CursorPassesNothing ==
  ASSUME FailIn \subseteq {FALSE} \X {"catchUp", "live"}
  PROVE  Spec => []NoPostSkipped
<1>1. TypeOK /\ AlertInv /\ CursorInv => NoPostSkipped
  <2> SUFFICES ASSUME TypeOK, CursorInv, NEW m \in 1..cursor, Kind(m) = "open"
               PROVE  m \in enqueued \union dropped
    BY DEF NoPostSkipped
  <2> QED BY DEF CursorInv, Passed, Covered
<1> QED BY <1>1, Cursor, PTL

\* Under the same assumption no matching post ever gets out of reach of the steps
\* that put it in the outbox: not by a crash, not between history and live updates.
THEOREM PostsStayInReach ==
  ASSUME FailIn \subseteq {FALSE} \X {"catchUp", "live"}
  PROVE  Spec => []NothingOutOfReach
<1>1. TypeOK /\ AlertInv /\ CursorInv => NothingOutOfReach
  <2> SUFFICES ASSUME TypeOK, CursorInv, queueMode, NEW m \in 1..posted
               PROVE  \/ Covered(m) \/ m = cur \/ Waits(m)
                      \/ mode \in {"down", "fetch"} /\ m > cursor
                      \/ mode = "catchUp" /\ at < m /\ m <= upto
    BY DEF NothingOutOfReach
  <2>1. posted \in Nat /\ cursor \in 0..posted /\ at \in 0..posted /\ upto \in 0..posted
    BY WatcherAssumption DEF TypeOK
  <2>2. CASE mode \in {"down", "fetch"}
    <3>1. CASE m <= cursor
      BY <2>1, <3>1 DEF CursorInv, Passed
    <3>2. CASE m > cursor
      BY <2>2, <3>2
    <3> QED BY <2>1, <3>1, <3>2
  <2>3. CASE mode = "catchUp"
    <3>1. CASE m <= at
      BY <2>1, <2>3, <3>1 DEF CursorInv, CatchingUp
    <3>2. CASE m > upto
      BY <2>1, <2>3, <3>2 DEF CursorInv, CatchingUp
    <3>3. CASE at < m /\ m <= upto
      BY <2>3, <3>3
    <3> QED BY <2>1, <3>1, <3>2, <3>3
  <2>4. CASE mode = "live"
    BY <2>4 DEF CursorInv, Living
  <2> QED BY <2>2, <2>3, <2>4 DEF CursorInv, TypeOK
<1> QED BY <1>1, Cursor, PTL

-----------------------------------------------------------------------------
(* What the availability row speaks of.                                    *)

Speaks(m) == Kind(m) \in {"open", "closed"} /\ m \notin dropped

\* The posts before the live updates: those of them are consecutive.
Seen == posted - Len(updates)

\* What post m says is in the row, or comes yet: as a live update, in the history
\* or from the post at hand.  A live update overwrites the row with an older post
\* only where all that is newer comes after it.
ShownOrComing(m) ==
  \/ m <= avail.by \/ m > Seen
  \/ mode = "catchUp" /\ at < m /\ m <= upto
  \/ m = cur /\ stage = "read"

AvailInv ==
  /\ Seen \in Nat
  /\ \A i \in 1..Len(updates) : updates[i] = Seen + i
  /\ mode # "closing"
  /\ mode = "down" => updates = << >>
  /\ mode \in {"down", "fetch"} => cursor = 0 /\ cur = 0
  /\ mode = "catchUp" => cur \in {0, at} /\ at <= upto /\ Seen <= upto
  /\ mode = "live" => cur \in {0, Seen}
  /\ mode \in {"catchUp", "live"} =>
       \A m \in 1..posted : Speaks(m) => ShownOrComing(m)

AvailUnlessFault == faults = 0 => AvailInv

LEMMA InitAvail == Init => AvailInv
  BY DEF Init, AvailInv, Seen

LEMMA PostAvail == ASSUME TypeOK, AvailInv, Post PROVE AvailInv'
<1>1. /\ posted \in Nat /\ posted' = posted + 1 /\ updates \in Seq(1..posted)
      /\ upto \in 0..posted
      /\ UNCHANGED <<cursor, avail, mode, at, upto, cur, stage, dropped>>
  BY WatcherAssumption DEF TypeOK, Post, durableVars, workVars
<1>2. \A m \in 1..posted : Speaks(m)' = Speaks(m)
  BY <1>1, PostsStay DEF Speaks
<1>3. CASE mode = "down"
  <2>1. updates' = << >>
    BY <1>3 DEF Post, AvailInv
  <2> QED BY <1>1, <1>3, <2>1 DEF AvailInv, Seen
<1>4. CASE mode # "down"
  <2>1. /\ Len(updates') = Len(updates) + 1
        /\ \A i \in 1..Len(updates) : updates'[i] = updates[i]
        /\ updates'[Len(updates) + 1] = posted + 1
    <3>1. updates' = Append(updates, posted + 1) /\ updates \in Seq(Nat) /\ posted + 1 \in Nat
      BY <1>1, <1>4 DEF Post
    <3> QED BY <3>1, AppendProperties
  <2>2. Len(updates) \in Nat
    BY <1>1
  <2>3. Seen' = Seen
    BY <1>1, <2>1, <2>2 DEF Seen
  <2>4. \A i \in 1..Len(updates') : updates'[i] = Seen' + i
    <3> SUFFICES ASSUME NEW i \in 1..Len(updates') PROVE updates'[i] = Seen' + i
      OBVIOUS
    <3>1. CASE i \in 1..Len(updates)
      BY <2>1, <2>3, <3>1 DEF AvailInv
    <3>2. CASE i = Len(updates) + 1
      BY <1>1, <2>1, <2>2, <2>3, <3>2 DEF Seen
    <3> QED BY <2>1, <2>2, <3>1, <3>2
  <2>5. ASSUME mode \in {"catchUp", "live"}, NEW m \in 1..posted', Speaks(m)'
        PROVE  ShownOrComing(m)'
    <3>1. CASE m \in 1..posted
      BY <1>1, <1>2, <2>3, <2>5, <3>1 DEF AvailInv, ShownOrComing
    <3>2. CASE m = posted + 1
      BY <1>1, <2>2, <2>3, <3>2 DEF ShownOrComing, Seen
    <3> QED BY <1>1, <3>1, <3>2
  <2> QED BY <1>1, <1>4, <2>3, <2>4, <2>5 DEF AvailInv
<1> QED BY <1>3, <1>4

LEMMA WatchAvail == ASSUME TypeOK, AvailInv, Watch PROVE AvailInv'
<1>1. /\ posted \in Nat /\ updates \in Seq(1..posted) /\ cur \in 0..posted
      /\ at \in 0..posted /\ upto \in 0..posted /\ avail.by \in 0..posted
      /\ cur = 0 <=> stage = "none"
  BY WatcherAssumption DEF TypeOK
<1>2. UNCHANGED <<posted, content, cursor, avail>> /\ dropped \subseteq dropped'
  BY DEF Watch, Start, Fetch, DeliverHistory, GoLive, DeliverUpdate, Disconnect,
         givenVars, durableVars
<1>3. \A m : Speaks(m)' => Speaks(m)
  BY <1>2 DEF Speaks, Kind
<1>4. CASE Start
  BY <1>2, <1>4 DEF Start, AvailInv, Seen, workVars
<1>5. CASE Fetch
  <2>1. /\ mode' = "catchUp" /\ cur = 0 /\ cur' = 0 /\ upto' = posted /\ updates' = updates
        /\ at' = Newest(HistoryLimit) /\ dropped' = dropped \union 1..Newest(HistoryLimit)
    BY <1>5 DEF Fetch, AvailInv, workVars
  <2>2. at' \in 0..posted
    BY <1>1, <2>1, WatcherAssumption DEF Newest
  <2>3. \A m \in 1..posted : Speaks(m)' => m > at'
    BY <1>1, <2>1, <2>2 DEF Speaks
  <2>4. Seen' = Seen /\ Seen <= posted
    BY <1>1, <1>2, <2>1 DEF Seen
  <2> QED BY <1>1, <1>2, <2>1, <2>2, <2>3, <2>4 DEF AvailInv, ShownOrComing
<1>6. CASE DeliverHistory
  <2>1. /\ mode = "catchUp" /\ mode' = mode /\ cur = 0 /\ at' = at + 1 /\ cur' = at + 1
        /\ at < upto /\ stage' = "read" /\ UNCHANGED <<upto, updates>>
    BY <1>6 DEF DeliverHistory
  <2>2. Seen' = Seen
    BY <1>2, <2>1 DEF Seen
  <2>3. ASSUME NEW m \in 1..posted, Speaks(m)' PROVE ShownOrComing(m)'
    <3>1. ShownOrComing(m)
      BY <1>3, <2>1, <2>3 DEF AvailInv
    <3> QED BY <1>1, <1>2, <2>1, <2>2, <3>1 DEF ShownOrComing
  <2> QED BY <1>1, <1>2, <2>1, <2>2, <2>3 DEF AvailInv
<1>7. CASE GoLive
  <2>1. /\ mode = "catchUp" /\ mode' = "live" /\ cur = 0 /\ at = upto
        /\ UNCHANGED <<cur, stage, updates>>
    BY <1>7 DEF GoLive, workVars
  <2>2. Seen' = Seen
    BY <1>2, <2>1 DEF Seen
  <2>3. ASSUME NEW m \in 1..posted, Speaks(m)' PROVE ShownOrComing(m)'
    <3>1. ShownOrComing(m)
      BY <1>3, <2>1, <2>3 DEF AvailInv
    <3> QED BY <1>1, <1>2, <2>1, <2>2, <3>1 DEF ShownOrComing
  <2> QED BY <1>1, <1>2, <2>1, <2>2, <2>3 DEF AvailInv
<1>8. CASE DeliverUpdate
  <2>1. /\ mode = "live" /\ mode' = mode /\ cur = 0 /\ updates # << >> /\ stage = "none"
        /\ cur' = Head(updates) /\ updates' = Tail(updates) /\ stage' = "read"
    BY <1>1, <1>8 DEF DeliverUpdate, AvailInv
  <2>2. /\ Len(updates) \in Nat \ {0} /\ Head(updates) = updates[1]
        /\ Len(updates') = Len(updates) - 1
        /\ \A i \in 1..Len(updates') : updates'[i] = updates[i + 1]
    BY <1>1, <2>1, HeadTailProperties
  <2>3. cur' = Seen + 1 /\ Seen' = Seen + 1
    BY <1>1, <1>2, <2>1, <2>2 DEF AvailInv, Seen
  <2>4. \A i \in 1..Len(updates') : updates'[i] = Seen' + i
    BY <1>1, <2>2, <2>3 DEF AvailInv
  <2>5. ASSUME NEW m \in 1..posted, Speaks(m)' PROVE ShownOrComing(m)'
    <3>1. ShownOrComing(m) /\ Seen \in Nat
      BY <1>3, <2>1, <2>5 DEF AvailInv
    <3>2. m <= avail.by \/ m > Seen
      BY <2>1, <3>1 DEF ShownOrComing
    <3> QED BY <1>1, <1>2, <2>1, <2>3, <3>1, <3>2 DEF ShownOrComing
  <2> QED BY <1>1, <1>2, <2>1, <2>3, <2>4, <2>5 DEF AvailInv
<1>9. CASE Disconnect
  BY <1>9 DEF Disconnect, AvailInv
<1> QED BY <1>4, <1>5, <1>6, <1>7, <1>8, <1>9 DEF Watch

LEMMA HandleAvail == ASSUME TypeOK, AvailInv, Handle PROVE AvailInv'
<1>1. /\ posted \in Nat /\ updates \in Seq(1..posted) /\ cur \in 1..posted
      /\ at \in 0..posted /\ upto \in 0..posted /\ avail.by \in 0..posted
  BY WatcherAssumption
  DEF TypeOK, Handle, Classify, Dedupe, Enqueue, RecordAlert, SendOthers, SendDirect, Advance
<1>2. /\ UNCHANGED <<posted, content, mode, updates, at, upto, dropped>>
      /\ cur' \in {0, cur}
  BY DEF Handle, Classify, Dedupe, Enqueue, RecordAlert, SendOthers, SendDirect, Advance,
         Goto, Finish, AfterPost, givenVars, clientVars
<1>3. mode \in {"catchUp", "live"}
  BY <1>1 DEF AvailInv, TypeOK
<1>4. Seen' = Seen /\ \A m : Speaks(m)' = Speaks(m)
  BY <1>2 DEF Seen, Speaks, Kind
<1>5. ASSUME NEW m \in 1..posted, Speaks(m)' PROVE ShownOrComing(m)'
  <2>1. ShownOrComing(m) /\ Seen \in Nat
    BY <1>3, <1>4, <1>5 DEF AvailInv
  <2>2. CASE Classify
    <3>1. CASE Kind(cur) \notin {"open", "closed"}
      <4>1. avail' = avail /\ m # cur
        BY <1>4, <1>5, <2>2, <3>1 DEF Classify, Speaks
      <4> QED BY <1>2, <1>4, <2>1, <4>1 DEF ShownOrComing
    <3>2. CASE Kind(cur) \in {"open", "closed"}
      <4>1. avail'.by = cur
        BY <2>2, <3>2 DEF Classify
      <4> QED BY <1>1, <1>2, <1>3, <1>4, <2>1, <4>1 DEF ShownOrComing, AvailInv
    <3> QED BY <3>1, <3>2
  <2>3. CASE ~Classify
    <3>1. UNCHANGED avail /\ stage # "read"
      BY <2>3
      DEF Handle, Dedupe, Enqueue, RecordAlert, SendOthers, SendDirect, Advance, durableVars
    <3> QED BY <1>2, <1>4, <2>1, <3>1 DEF ShownOrComing
  <2> QED BY <2>2, <2>3
<1> QED BY <1>1, <1>2, <1>3, <1>4, <1>5 DEF AvailInv

LEMMA NextAvail == TypeOK /\ AvailUnlessFault /\ [Next]_vars => AvailUnlessFault'
<1> SUFFICES ASSUME TypeOK, AvailUnlessFault, [Next]_vars, faults' = 0 PROVE AvailInv'
  BY DEF AvailUnlessFault
<1>1. CASE UNCHANGED vars
  BY <1>1
  DEF vars, givenVars, durableVars, clientVars, workVars, AvailUnlessFault, AvailInv, Seen,
      Speaks, ShownOrComing, Kind
<1>2. CASE StoreRaises \/ Crash
  <2>1. faults' # 0
    BY <1>2, WatcherAssumption DEF StoreRaises, Crash, TypeOK
  <2> QED BY <2>1
<1>3. CASE Post \/ Watch \/ Handle
  <2>1. faults = 0
    BY <1>3
    DEF Post, Watch, Start, Fetch, DeliverHistory, GoLive, DeliverUpdate, Disconnect,
        Handle, Classify, Dedupe, Enqueue, RecordAlert, SendOthers, SendDirect, Advance
  <2> QED BY <1>3, <2>1, PostAvail, WatchAvail, HandleAvail DEF AvailUnlessFault
<1> QED BY <1>1, <1>2, <1>3 DEF Next

\* While nothing fails, /current speaks of the newest post that says anything
\* once the watcher is live and has caught up, although late updates repeat posts
\* that are older than the row.
THEOREM AvailabilityIsCurrent == Spec => []AvailabilityCatchesUp
<1>1. TypeOK /\ AvailUnlessFault => AvailabilityCatchesUp
  <2> SUFFICES ASSUME TypeOK, AvailInv, mode = "live", cur = 0, updates = << >>,
                      NEW m \in 1..posted, Speaks(m)
               PROVE  avail.by >= m
    BY DEF AvailUnlessFault, AvailabilityCatchesUp, AvailabilityIsNewest, Speaks
  <2>1. posted \in Nat /\ Seen = posted /\ avail.by \in 0..posted
    BY WatcherAssumption DEF TypeOK, Seen
  <2>2. ShownOrComing(m)
    BY DEF AvailInv
  <2> QED BY <2>1, <2>2 DEF ShownOrComing
<1>2. Init => AvailUnlessFault
  BY InitAvail DEF AvailUnlessFault
<1> QED BY <1>1, <1>2, NextAvail, TypeCorrect, PTL DEF Spec

-----------------------------------------------------------------------------
(* What the rules of the parser and of the image layouts come to.          *)

\* Nothing fits, or the rule that decides is the first one that does.
LEMMA FirstFitDecides ==
  ASSUME NEW rules, DOMAIN rules \in SUBSET Nat, NEW otherwise
  PROVE  \/ /\ \A i \in DOMAIN rules : ~rules[i].when
            /\ FirstFit(rules, otherwise) = otherwise
         \/ \E i \in DOMAIN rules :
              /\ rules[i].when /\ \A j \in DOMAIN rules : j < i => ~rules[j].when
              /\ FirstFit(rules, otherwise) = rules[i].gives
<1> DEFINE fits == {i \in DOMAIN rules : rules[i].when}
<1>1. CASE fits = {}
  BY <1>1 DEF FirstFit
<1>2. CASE fits # {}
  <2>1. fits \in SUBSET Nat
    OBVIOUS
  <2>2. \E i \in fits : \A j \in fits : i <= j
    <3> HIDE DEF fits
    <3> QED BY <1>2, <2>1, LeastNumber
  <2> DEFINE i == CHOOSE k \in fits : \A j \in fits : k <= j
  <2>3. i \in fits /\ \A j \in fits : i <= j
    <3> HIDE DEF fits
    <3> QED BY <2>2
  <2>4. FirstFit(rules, otherwise) = rules[i].gives
    BY <1>2 DEF FirstFit
  <2> HIDE DEF i
  <2>5. i \in DOMAIN rules /\ \A j \in DOMAIN rules : j < i => ~rules[j].when
    BY <2>1, <2>3
  <2> QED BY <2>3, <2>4, <2>5
<1> QED BY <1>1, <1>2

\* The vetoes one by one.
LEMMA VetoList ==
  ASSUME NEW c
  PROVE  /\ DOMAIN Vetoes(c) = 1..9
         /\ (Vetoes(c)[1].when <=> Says(c, {"na"}))
         /\ Vetoes(c)[1].gives = "closed"
         /\ (Vetoes(c)[2].when <=> Says(c, {"spam"}))
         /\ Vetoes(c)[2].gives = "noise"
         /\ (Vetoes(c)[3].when <=> (Says(c, {"booked"}) /\ ~Says(c, {"positive"})))
         /\ Vetoes(c)[3].gives = "noise"
         /\ (Vetoes(c)[4].when <=> Says(c, {"suppress"}))
         /\ Vetoes(c)[4].gives = "closed"
         /\ (Vetoes(c)[5].when <=> Says(c, {"admin"}))
         /\ Vetoes(c)[5].gives = "noise"
         /\ (Vetoes(c)[6].when
               <=> (Says(c, {"rule", "helper"}) /\ ~Says(c, {"silent", "loud", "positive"})))
         /\ Vetoes(c)[6].gives = "noise"
         /\ (Vetoes(c)[7].when <=> Says(c, {"invalid"}))
         /\ Vetoes(c)[7].gives = "closed"
         /\ (Vetoes(c)[8].when <=> Says(c, {"question"}))
         /\ Vetoes(c)[8].gives = "noise"
         /\ (Vetoes(c)[9].when <=> c.layout \in UnbookableLayouts)
         /\ Vetoes(c)[9].gives = "closed"
<1>1. (Vetoes(c)[1].when <=> Says(c, {"na"})) /\ Vetoes(c)[1].gives = "closed"
  BY DEF Vetoes
<1>2. (Vetoes(c)[2].when <=> Says(c, {"spam"})) /\ Vetoes(c)[2].gives = "noise"
  BY DEF Vetoes
<1>3. /\ (Vetoes(c)[3].when
         <=> (Says(c, {"booked"}) /\ ~Says(c, {"positive"})))
      /\ Vetoes(c)[3].gives = "noise"
  BY DEF Vetoes
<1>4. (Vetoes(c)[4].when <=> Says(c, {"suppress"})) /\ Vetoes(c)[4].gives = "closed"
  BY DEF Vetoes
<1>5. (Vetoes(c)[5].when <=> Says(c, {"admin"})) /\ Vetoes(c)[5].gives = "noise"
  BY DEF Vetoes
<1>6. /\ (Vetoes(c)[6].when
         <=> (Says(c, {"rule", "helper"}) /\ ~Says(c, {"silent", "loud", "positive"})))
      /\ Vetoes(c)[6].gives = "noise"
  BY DEF Vetoes
<1>7. (Vetoes(c)[7].when <=> Says(c, {"invalid"})) /\ Vetoes(c)[7].gives = "closed"
  BY DEF Vetoes
<1>8. (Vetoes(c)[8].when <=> Says(c, {"question"})) /\ Vetoes(c)[8].gives = "noise"
  BY DEF Vetoes
<1>9. (Vetoes(c)[9].when <=> c.layout \in UnbookableLayouts) /\ Vetoes(c)[9].gives = "closed"
  BY DEF Vetoes
<1>10. DOMAIN Vetoes(c) = 1..9
  BY DEF Vetoes
<1> QED BY <1>1, <1>2, <1>3, <1>4, <1>5, <1>6, <1>7, <1>8, <1>9, <1>10

\* A verdict is that of the first veto, or of what the post has to show.
LEMMA VerdictDecides ==
  ASSUME NEW c
  PROVE  \/ /\ \A i \in 1..9 : ~Vetoes(c)[i].when
            /\ Verdict(c) = IF Opens(c) THEN "open" ELSE "noise"
         \/ \E i \in 1..9 :
              /\ Vetoes(c)[i].when /\ \A j \in 1..9 : j < i => ~Vetoes(c)[j].when
              /\ Verdict(c) = Vetoes(c)[i].gives
<1> DEFINE open == IF Opens(c) THEN "open" ELSE "noise"
           vetoes == Vetoes(c)
<1>1. DOMAIN vetoes = 1..9 /\ Verdict(c) = FirstFit(vetoes, open) /\ 1..9 \in SUBSET Nat
  BY VetoList DEF Verdict
<1> HIDE DEF open, vetoes
<1>2. \/ /\ \A i \in 1..9 : ~vetoes[i].when
         /\ FirstFit(vetoes, open) = open
      \/ \E i \in 1..9 :
              /\ vetoes[i].when /\ \A j \in 1..9 : j < i => ~vetoes[j].when
              /\ FirstFit(vetoes, open) = vetoes[i].gives
  BY <1>1, FirstFitDecides
<1> QED BY <1>1, <1>2 DEF open, vetoes

\* Whatever a post says and shows, its verdict is as intended.
LEMMA VerdictsAsIntended == ASSUME NEW c \in Content PROVE Intended(c, Verdict(c))
<1> DEFINE denied == Says(c, Denials) \/ c.layout \in UnbookableLayouts
           shown == Doubtful(c) \/ c.layout = "bookable"
                      \/ Says(c, {"positive", "loud", "silent"})
           distracted == Says(c, Distractions)
           unclear == Says(c, Distractions \union {"booked", "rule", "helper"})
<1>1. /\ Says(c, {"na"}) \/ Says(c, {"suppress"}) \/ Says(c, {"invalid"}) <=> Says(c, Denials)
      /\ Says(c, {"spam"}) \/ Says(c, {"admin"}) \/ Says(c, {"question"}) <=> distracted
      /\ distracted \/ Says(c, {"booked"}) \/ Says(c, {"rule", "helper"}) <=> unclear
  BY DEF Says, Denials, Distractions
<1>2. Opens(c) => shown
  BY DEF Opens, TextOpens, ImageOpens, Says
<1>3. CASE /\ \A i \in 1..9 : ~Vetoes(c)[i].when
           /\ Verdict(c) = IF Opens(c) THEN "open" ELSE "noise"
  <2>0. /\ ~Vetoes(c)[1].when /\ ~Vetoes(c)[2].when /\ ~Vetoes(c)[4].when /\ ~Vetoes(c)[5].when
        /\ ~Vetoes(c)[7].when /\ ~Vetoes(c)[8].when /\ ~Vetoes(c)[9].when
    BY <1>3
  <2>1. ~denied /\ ~distracted
    BY <1>1, <2>0, VetoList
  <2> QED BY <1>2, <1>3, <2>1 DEF Intended
<1>4. ASSUME NEW i \in 1..9, Vetoes(c)[i].when, \A j \in 1..9 : j < i => ~Vetoes(c)[j].when,
             Verdict(c) = Vetoes(c)[i].gives
      PROVE  Intended(c, Verdict(c))
  <2>1. CASE i \in {1, 4, 7, 9}
    <3>1. denied /\ Verdict(c) = "closed"
      <4> HIDE DEF denied
      <4>1. i = 1 => denied /\ Verdict(c) = "closed"
        BY <1>1, <1>4, VetoList DEF denied
      <4>2. i = 4 => denied /\ Verdict(c) = "closed"
        BY <1>1, <1>4, VetoList DEF denied
      <4>3. i = 7 => denied /\ Verdict(c) = "closed"
        BY <1>1, <1>4, VetoList DEF denied
      <4>4. i = 9 => denied /\ Verdict(c) = "closed"
        BY <1>4, VetoList DEF denied
      <4> QED BY <2>1, <4>1, <4>2, <4>3, <4>4
    <3> QED BY <3>1 DEF Intended
  <2>2. CASE i \in {2, 3, 5, 6, 8}
    <3>1. unclear /\ Verdict(c) = "noise"
      <4> HIDE DEF distracted, unclear
      <4>1. i = 2 => unclear /\ Verdict(c) = "noise"
        BY <1>1, <1>4, VetoList
      <4>2. i = 3 => unclear /\ Verdict(c) = "noise"
        BY <1>1, <1>4, VetoList
      <4>3. i = 5 => unclear /\ Verdict(c) = "noise"
        BY <1>1, <1>4, VetoList
      <4>4. i = 6 => unclear /\ Verdict(c) = "noise"
        BY <1>1, <1>4, VetoList
      <4>5. i = 8 => unclear /\ Verdict(c) = "noise"
        BY <1>1, <1>4, VetoList
      <4> QED BY <2>2, <4>1, <4>2, <4>3, <4>4, <4>5
    <3> QED BY <3>1 DEF Intended
  <2> QED BY <2>1, <2>2
<1> QED BY <1>3, <1>4, VerdictDecides

\* The rules for the layout one by one.
LEMMA LayoutRuleList ==
  ASSUME NEW marks
  PROVE  /\ DOMAIN LayoutRules(marks) = 1..7
         /\ (LayoutRules(marks)[1].when <=> "submitDisabled" \in marks)
         /\ LayoutRules(marks)[1].gives = "ghost_or_unbookable"
         /\ (LayoutRules(marks)[2].when <=> "ghost" \in marks)
         /\ LayoutRules(marks)[2].gives = "potential_ghost"
         /\ (LayoutRules(marks)[3].when
               <=> ({"ofc", "count"} \subseteq marks /\ "consular" \notin marks))
         /\ LayoutRules(marks)[3].gives = "partial_ofc_only"
         /\ (LayoutRules(marks)[4].when
               <=> ("count" \in marks /\ ("calendar" \in marks \/ "times" \in marks)))
         /\ LayoutRules(marks)[4].gives = "bookable"
         /\ (LayoutRules(marks)[5].when <=> {"times", "submit"} \subseteq marks)
         /\ LayoutRules(marks)[5].gives = "bookable"
         /\ (LayoutRules(marks)[6].when
               <=> ("calendar" \in marks /\ "times" \notin marks /\ "count" \notin marks))
         /\ LayoutRules(marks)[6].gives = "ghost_or_unbookable"
         /\ (LayoutRules(marks)[7].when <=> "text" \in marks)
         /\ LayoutRules(marks)[7].gives = "unavailable_or_unknown"
<1>1. (LayoutRules(marks)[1].when
         <=> "submitDisabled" \in marks)
      /\ LayoutRules(marks)[1].gives = "ghost_or_unbookable"
  BY DEF LayoutRules
<1>2. (LayoutRules(marks)[2].when
         <=> "ghost" \in marks)
      /\ LayoutRules(marks)[2].gives = "potential_ghost"
  BY DEF LayoutRules
<1>3. (LayoutRules(marks)[3].when
         <=> ({"ofc", "count"} \subseteq marks /\ "consular" \notin marks))
      /\ LayoutRules(marks)[3].gives = "partial_ofc_only"
  BY DEF LayoutRules
<1>4. (LayoutRules(marks)[4].when
         <=> ("count" \in marks /\ ("calendar" \in marks \/ "times" \in marks)))
      /\ LayoutRules(marks)[4].gives = "bookable"
  BY DEF LayoutRules
<1>5. (LayoutRules(marks)[5].when
         <=> {"times", "submit"} \subseteq marks)
      /\ LayoutRules(marks)[5].gives = "bookable"
  BY DEF LayoutRules
<1>6. (LayoutRules(marks)[6].when
         <=> ("calendar" \in marks /\ "times" \notin marks /\ "count" \notin marks))
      /\ LayoutRules(marks)[6].gives = "ghost_or_unbookable"
  BY DEF LayoutRules
<1>7. (LayoutRules(marks)[7].when
         <=> "text" \in marks)
      /\ LayoutRules(marks)[7].gives = "unavailable_or_unknown"
  BY DEF LayoutRules
<1>8. DOMAIN LayoutRules(marks) = 1..7
  BY DEF LayoutRules
<1> QED BY <1>1, <1>2, <1>3, <1>4, <1>5, <1>6, <1>7, <1>8

LEMMA LayoutDecides ==
  ASSUME NEW marks
  PROVE  \/ /\ \A i \in 1..7 : ~LayoutRules(marks)[i].when
            /\ LayoutOf(marks) = "unread"
         \/ \E i \in 1..7 :
              /\ LayoutRules(marks)[i].when
              /\ \A j \in 1..7 : j < i => ~LayoutRules(marks)[j].when
              /\ LayoutOf(marks) = LayoutRules(marks)[i].gives
<1> DEFINE rules == LayoutRules(marks)
           unread == "unread"
<1>1. DOMAIN rules = 1..7 /\ LayoutOf(marks) = FirstFit(rules, unread) /\ 1..7 \in SUBSET Nat
  BY LayoutRuleList DEF LayoutOf
<1> HIDE DEF rules, unread
<1>2. \/ /\ \A i \in 1..7 : ~rules[i].when
         /\ FirstFit(rules, unread) = unread
      \/ \E i \in 1..7 :
              /\ rules[i].when /\ \A j \in 1..7 : j < i => ~rules[j].when
              /\ FirstFit(rules, unread) = rules[i].gives
  BY <1>1, FirstFitDecides
<1> QED BY <1>1, <1>2 DEF rules, unread

\* Whatever is read in an image, its layout is as intended.
LEMMA LayoutsAsIntended ==
  ASSUME NEW marks \in SUBSET Marks, Readable(marks) PROVE LayoutIntended(marks)
<1>1. CASE \A i \in 1..7 : ~LayoutRules(marks)[i].when
  <2>1. marks = {}
    BY <1>1, LayoutRuleList DEF Readable
  <2>2. LayoutOf(marks) = "unread"
    BY <1>1, LayoutDecides
  <2> QED BY <2>1, <2>2 DEF LayoutIntended
<1>2. ASSUME NEW i \in 1..7, LayoutRules(marks)[i].when,
             \A j \in 1..7 : j < i => ~LayoutRules(marks)[j].when,
             LayoutOf(marks) = LayoutRules(marks)[i].gives
      PROVE  LayoutIntended(marks)
  <2>0. "text" \in marks
    BY <1>2, LayoutRuleList DEF Readable
  <2>1. CASE i = 1
    BY <1>2, <2>0, <2>1, LayoutRuleList DEF LayoutIntended, UnbookableLayouts
  <2>2. CASE i = 2
    BY <1>2, <2>0, <2>2, LayoutRuleList DEF LayoutIntended, UnbookableLayouts
  <2>3. CASE i = 3
    BY <1>2, <2>0, <2>3, LayoutRuleList DEF LayoutIntended, UnbookableLayouts
  <2>4. CASE i = 4
    BY <1>2, <2>0, <2>4, LayoutRuleList DEF LayoutIntended, UnbookableLayouts
  <2>5. CASE i = 5
    BY <1>2, <2>0, <2>5, LayoutRuleList DEF LayoutIntended, UnbookableLayouts
  <2>6. CASE i = 6
    BY <1>2, <2>0, <2>6, LayoutRuleList DEF LayoutIntended, UnbookableLayouts
  <2>7. CASE i = 7
    BY <1>2, <2>0, <2>7, LayoutRuleList DEF LayoutIntended, UnbookableLayouts
  <2> QED BY <2>1, <2>2, <2>3, <2>4, <2>5, <2>6, <2>7
<1> QED BY <1>1, <1>2, LayoutDecides

\* For every content of a post and every set of marks in an image: the order of the
\* rules gives the verdict and the layout that are intended.
THEOREM RulesComeOut == Spec => []RulesAreIntended
<1>1. VerdictIsIntended
  BY VerdictsAsIntended DEF VerdictIsIntended
<1>2. LayoutIsIntended
  BY LayoutsAsIntended DEF LayoutIsIntended
<1>3. RulesAreIntended
  BY <1>1, <1>2 DEF RulesAreIntended
<1> QED BY <1>3, PTL

=============================================================================
