-------------------------- MODULE BotUpdatesProofs --------------------------
(***************************************************************************)
(* Proofs about the updates the bot handles, for any senders, requests,    *)
(* configuration and number of faults: the types, that no update is lost   *)
(* or takes effect again without a mishap, and that a revocation and a     *)
(* /forget stay in force.  All rest on one fact: the update in hand is the *)
(* next one after the stored offset and what Telegram has forgotten, and   *)
(* that place never goes back.                                             *)
(***************************************************************************)
EXTENDS BotListenerProofs, SequenceTheorems

USE DEF telegramVars, tableVars, loopVars, pastVars

-----------------------------------------------------------------------------
(* The place in the queue.                                                 *)

\* The update that is handed out next, or is in hand.
NextUp == IF offset > confirmed + 1 THEN offset ELSE confirmed + 1

InHand == {"handle", "llm", "notice", "stream", "reply", "ack"}

Queue ==
  /\ updates \in Seq(Requests) /\ Len(updates) <= MaxUpdate
  /\ confirmed \in 0..Len(updates) /\ offset \in 0..Len(updates) + 1
  /\ pc \in Places /\ enabled \in BOOLEAN
  /\ cur \in 0..upto /\ upto \in 0..Len(updates)
  /\ cur # 0 <=> pc \in InHand
  /\ cur # 0 => cur = NextUp

LEMMA InitQueue == Init => Queue
<1> SUFFICES ASSUME Init PROVE Queue
  OBVIOUS
<1>1. updates \in Seq(Requests) /\ Len(updates) = 0
  BY DEF Init
<1>2. confirmed = 0 /\ offset = 0 /\ pc = "down" /\ enabled = FALSE /\ cur = 0 /\ upto = 0
  BY DEF Init
<1>3. Len(updates) <= MaxUpdate /\ cur \in 0..upto /\ upto \in 0..Len(updates)
      /\ confirmed \in 0..Len(updates) /\ offset \in 0..Len(updates) + 1
  BY <1>1, <1>2, ListenerAssumption
<1>4. pc \in Places /\ pc \notin InHand
  BY <1>2 DEF Places, InHand
<1> QED BY <1>1, <1>2, <1>3, <1>4 DEF Queue

\* The handlers and their awaits do not move it.
StillInHand ==
  /\ UNCHANGED <<updates, confirmed, offset, enabled, cur, upto>>
  /\ pc \in InHand /\ pc' \in InHand

LEMMA HandlersStay ==
  ASSUME Ignore \/ HandleLater \/ Forget \/ Manage \/ ChatAnswers \/ ChatFails \/ NoticeSent
         \/ StreamEnds \/ StreamBreaks \/ ReplySent
  PROVE  StillInHand
<1>1. CASE HandleLater
  <2>1. \A cmd \in DOMAIN FirstAwait : FirstAwait[cmd] \in InHand
    BY DEF FirstAwait, InHand
  <2> QED BY <1>1, <2>1 DEF HandleLater, StillInHand, InHand
<1> QED
  BY <1>1 DEF StillInHand, InHand, Ignore, Forget, Manage, ChatAnswers, ChatFails, NoticeSent,
              StreamEnds, StreamBreaks, ReplySent

\* Where the update in hand is given up, or there is none.
LEMMA HandsEmpty ==
  ASSUME Queue, UNCHANGED <<updates, offset>>, enabled' \in BOOLEAN,
         confirmed' \in confirmed..Len(updates), cur' = 0, upto' = 0, pc' \in Places \ InHand
  PROVE  Queue' /\ NextUp' >= NextUp
<1>1. Len(updates) \in Nat
  BY DEF Queue
<1>2. cur' \in 0..upto' /\ upto' \in 0..Len(updates)'
  BY <1>1
<1>3. PICK k \in confirmed..Len(updates) : confirmed' = k
  OBVIOUS
<1>4. confirmed \in Nat /\ offset \in Nat /\ k \in 0..Len(updates) /\ k >= confirmed
  BY <1>1 DEF Queue
<1>5. NextUp' >= NextUp
  <2>1. NextUp' = IF offset > k + 1 THEN offset ELSE k + 1
    BY <1>3 DEF NextUp
  <2>2. NextUp = IF offset > confirmed + 1 THEN offset ELSE confirmed + 1
    BY DEF NextUp
  <2> QED BY ONLY <1>4, <2>1, <2>2
<1> QED BY <1>2, <1>3, <1>4, <1>5 DEF Queue

LEMMA NextQueue == Queue /\ [Next]_vars => Queue' /\ NextUp' >= NextUp
<1> SUFFICES ASSUME Queue, [Next]_vars PROVE Queue' /\ NextUp' >= NextUp
  OBVIOUS
<1> USE ListenerAssumption DEF Queue, Places, InHand, NextUp, Stop
<1>1. CASE Send
  <2>1. PICK r \in Requests : updates' = Append(updates, r)
    BY <1>1 DEF Send
  <2>2. updates' \in Seq(Requests) /\ Len(updates') = Len(updates) + 1 /\ Len(updates') <= MaxUpdate
    BY <1>1, <2>1, AppendProperties DEF Send
  <2>3. UNCHANGED <<confirmed, offset, pc, enabled, cur, upto>>
    BY <1>1 DEF Send
  <2> QED BY <2>2, <2>3
<1>2. CASE Block \/ TaskEnds
  BY <1>2 DEF Block, TaskEnds
<1>3. CASE Start
  BY <1>3 DEF Start
<1>4. CASE Run \/ RunReturns \/ BackoffEnds \/ SleepEnds
  BY <1>4 DEF Run, RunReturns, BackoffEnds, SleepEnds, vars
<1>5. CASE Initialize
  BY <1>5 DEF Initialize
<1>6. CASE InitializeFails
  <2>1. confirmed' = confirmed \/ (confirmed + 1 <= Len(updates) - 1 /\ confirmed' = Len(updates) - 1)
    BY <1>6 DEF InitializeFails, Older
  <2>2. pc = "init" /\ pc' = "backoff" /\ UNCHANGED <<updates, offset, enabled, cur, upto>>
    BY <1>6 DEF InitializeFails
  <2> QED BY <2>1, <2>2
<1>7. CASE Poll
  <2>1. pc = "poll" /\ confirmed' = NextUp - 1 /\ UNCHANGED <<updates, offset, enabled>>
    BY <1>7 DEF Poll
  <2>2. \/ NextUp <= Len(updates) /\ pc' = "handle" /\ cur' = NextUp /\ upto' = Len(updates)
        \/ pc' = "sleep" /\ cur' = 0 /\ upto' = 0
    BY <1>7 DEF Poll
  <2> QED BY <2>1, <2>2
<1>8. CASE PollFails
  <2>1. confirmed' \in {confirmed, NextUp - 1} /\ UNCHANGED <<updates, offset, enabled>>
        /\ pc' = "sleep" /\ cur' = 0 /\ upto' = 0
    BY <1>8 DEF PollFails
  <2>2. confirmed' \in confirmed..Len(updates)
    BY <2>1
  <2> QED BY <2>1, <2>2, HandsEmpty
<1>9. CASE StillInHand
  BY <1>9 DEF StillInHand
<1>10. CASE SendRefused \/ HandlerRaises \/ HandlingFails
  BY <1>10 DEF SendRefused, HandlerRaises, HandlingFails
<1>11. CASE Acknowledge
  BY <1>11 DEF Acknowledge
<1>12. CASE Crash
  <2>1. pc' = "down" /\ cur' = 0 /\ upto' = 0 /\ enabled' = FALSE
        /\ UNCHANGED <<updates, confirmed, offset>>
    BY <1>12 DEF Crash
  <2>2. confirmed' \in confirmed..Len(updates) /\ pc' \in Places \ InHand
    BY <2>1
  <2> QED BY <2>1, <2>2, HandsEmpty
<1>13. CASE UNCHANGED vars
  BY <1>13 DEF vars
<1> QED
  BY <1>1, <1>2, <1>3, <1>4, <1>5, <1>6, <1>7, <1>8, <1>9, <1>10, <1>11, <1>12, <1>13, HandlersStay
  DEF Next, Listener, Begin, Handle, Await, Faulty

LEMMA QueueInvariance == Spec => []Queue
  BY InitQueue, NextQueue, PTL DEF Spec

\* Only three steps move the place in the queue.
LEMMA PlaceMoves ==
  ASSUME Queue, [Next]_vars
  PROVE  NextUp' = NextUp \/ Initialize \/ InitializeFails \/ Acknowledge
<1>1. CASE Poll
  <2>1. offset' = offset /\ confirmed' = NextUp - 1 /\ NextUp \in Nat
    BY <1>1 DEF Poll, NextUp, Queue
  <2>2. NextUp' = IF offset > NextUp THEN offset ELSE NextUp
    BY <2>1 DEF NextUp
  <2>3. ~(offset > NextUp)
    BY DEF NextUp, Queue
  <2> QED BY <2>2, <2>3
<1>2. CASE PollFails
  <2>1. offset' = offset /\ (confirmed' = NextUp - 1 \/ confirmed' = confirmed) /\ NextUp \in Nat
    BY <1>2 DEF PollFails, NextUp, Queue
  <2>2. CASE confirmed' = confirmed
    BY <2>1, <2>2 DEF NextUp
  <2>3. CASE confirmed' = NextUp - 1
    <3>1. NextUp' = IF offset > NextUp THEN offset ELSE NextUp
      BY <2>1, <2>3 DEF NextUp
    <3>2. ~(offset > NextUp)
      BY DEF NextUp, Queue
    <3> QED BY <3>1, <3>2
  <2> QED BY <2>1, <2>2, <2>3
<1>3. CASE StillInHand
  BY <1>3 DEF StillInHand, NextUp
<1>4. CASE UNCHANGED vars \/ Send \/ Block \/ TaskEnds \/ Start \/ Run \/ RunReturns \/ BackoffEnds
           \/ SleepEnds \/ SendRefused \/ HandlerRaises \/ HandlingFails \/ Crash
  <2>1. UNCHANGED <<offset, confirmed>>
    BY <1>4 DEF vars, Send, Block, TaskEnds, Start, Run, RunReturns, BackoffEnds, SleepEnds,
                SendRefused, HandlerRaises, HandlingFails, Crash
  <2> QED BY <2>1 DEF NextUp
<1> QED
  BY <1>1, <1>2, <1>3, <1>4, HandlersStay DEF Next, Listener, Begin, Handle, Await, Faulty

-----------------------------------------------------------------------------
(* No update is lost.                                                      *)

Told(u) == u \in answered \union passed

\* All updates before the place got what they were to get, and so did the one
\* in hand when only its offset is missing.
AllTold ==
  /\ \A u \in Sent : u < NextUp => Told(u)
  /\ pc \in {"stream", "ack"} => Told(cur)

LEMMA InitTold == Init => AllTold
  BY DEF Init, AllTold, Sent

\* What was told stays told, and the last await comes after the telling.
LEMMA TellingStays ==
  ASSUME [Next]_vars
  PROVE  /\ \A u : Told(u) => Told(u)'
         /\ Sent # Sent' => UNCHANGED <<offset, confirmed>> /\ Send
         /\ pc' \in {"stream", "ack"} => Told(cur)' \/ (cur' = cur /\ pc \in {"stream", "ack"})
<1> USE DEF Told, Sent, Stop
<1>1. CASE Send \/ Block \/ UNCHANGED vars
  BY <1>1 DEF Send, Block, vars
<1>2. CASE Begin
  BY <1>2 DEF Begin, Start, Run, RunReturns, Initialize, BackoffEnds, Poll, SleepEnds, vars
<1>3. CASE Ignore \/ Forget \/ Manage
  BY <1>3 DEF Ignore, Forget, Manage
<1>4. CASE HandleLater
  <2>1. /\ Request.cmd \in DOMAIN FirstAwait /\ pc' = FirstAwait[Request.cmd]
        /\ UNCHANGED <<updates, answered, cur>>
        /\ passed' = IF Request.cmd = "silent" THEN passed \union {cur} ELSE passed
    BY <1>4 DEF HandleLater
  <2>2. Request.cmd # "silent" => pc' \notin {"stream", "ack"}
    BY <2>1 DEF FirstAwait
  <2> QED BY <2>1, <2>2
<1>5. CASE ChatAnswers \/ ChatFails \/ NoticeSent \/ TaskEnds \/ StreamEnds \/ ReplySent
  BY <1>5 DEF ChatAnswers, ChatFails, NoticeSent, TaskEnds, StreamEnds, ReplySent
<1>6. CASE SendRefused \/ HandlingFails \/ Acknowledge
  BY <1>6 DEF SendRefused, HandlingFails, Acknowledge
<1>7. CASE Faulty
  BY <1>7 DEF Faulty, InitializeFails, PollFails, StreamBreaks, HandlerRaises, HandlingFails, Crash
<1> QED
  BY <1>1, <1>2, <1>3, <1>4, <1>5, <1>6, <1>7 DEF Next, Listener, Handle, Await

LEMMA NextTold == Queue /\ AllTold /\ [Next]_vars => AllTold'
<1> SUFFICES ASSUME Queue, AllTold, [Next]_vars PROVE AllTold'
  OBVIOUS
<1>1. Len(updates) \in Nat /\ confirmed \in 0..Len(updates) /\ offset \in 0..Len(updates) + 1
      /\ NextUp \in 1..Len(updates) + 1
  BY DEF Queue, NextUp
<1>2. pc' \in {"stream", "ack"} => Told(cur)'
  <2>1. pc \in {"stream", "ack"} => Told(cur)
    BY DEF AllTold
  <2>2. \A u : Told(u) => Told(u)'
    BY TellingStays
  <2>3. ASSUME cur' = cur, Told(cur) PROVE Told(cur)'
    BY <2>2, <2>3 DEF Told
  <2> QED BY <2>1, <2>3, TellingStays
<1>3. ASSUME NEW u \in Sent', u < NextUp' PROVE Told(u)'
  <2>1. u \in Sent /\ u < NextUp => Told(u)'
    BY TellingStays DEF AllTold
  <2>2. CASE Send
    <3>1. NextUp' = NextUp /\ updates' \in Seq(Requests) /\ Len(updates') = Len(updates) + 1
      <4>1. PICK r \in Requests : updates' = Append(updates, r)
        BY <2>2 DEF Send
      <4> QED BY <2>2, <4>1, AppendProperties DEF Send, NextUp, Queue
    <3> QED BY <1>1, <1>3, <2>1, <3>1 DEF Sent
  <2>3. CASE Initialize
    <3>1. CASE confirmed < Len(updates)
      <4>1. u \in Sent /\ passed' = passed \union Older \union {Len(updates)}
        BY <1>3, <2>3, <3>1 DEF Initialize, Sent
      <4>2. CASE u > confirmed
        BY <1>1, <4>1, <4>2 DEF Sent, Older, Told
      <4>3. CASE ~(u > confirmed)
        BY <1>1, <2>1, <4>1, <4>3 DEF Sent, NextUp
      <4> QED BY <4>2, <4>3
    <3>2. CASE ~(confirmed < Len(updates))
      <4>1. UNCHANGED <<updates, offset, confirmed>>
        BY <2>3, <3>2 DEF Initialize
      <4> QED BY <1>3, <2>1, <4>1 DEF Sent, NextUp
    <3> QED BY <3>1, <3>2
  <2>4. CASE InitializeFails
    <3>1. u \in Sent /\ offset' = offset
      BY <1>3, <2>4 DEF InitializeFails, Sent
    <3>2. CASE confirmed' = confirmed
      BY <1>3, <2>1, <3>1, <3>2 DEF NextUp
    <3>3. CASE confirmed' # confirmed
      <4>1. passed' = passed \union Older /\ confirmed' = Len(updates) - 1
        BY <2>4, <3>3 DEF InitializeFails
      <4>2. NextUp' = IF offset > Len(updates) THEN offset ELSE Len(updates)
        BY <1>1, <3>1, <4>1 DEF NextUp
      <4>3. u < NextUp \/ u \in Older
        BY <1>1, <1>3, <3>1, <4>2 DEF NextUp, Older, Sent
      <4> QED BY <2>1, <3>1, <4>1, <4>3 DEF Told
    <3> QED BY <3>2, <3>3
  <2>5. CASE Acknowledge
    <3>1. u \in Sent /\ offset' = cur + 1 /\ confirmed' = confirmed /\ cur = NextUp /\ Told(cur)
      BY <1>3, <2>5 DEF Acknowledge, Queue, AllTold, Sent, InHand
    <3>2. NextUp' = NextUp + 1
      BY <1>1, <3>1 DEF NextUp
    <3>3. u < NextUp \/ u = cur
      BY <1>1, <1>3, <3>1, <3>2 DEF Sent
    <3> QED BY <2>1, <3>1, <3>3, TellingStays
  <2>6. CASE NextUp' = NextUp /\ ~Send
    BY <1>3, <2>1, <2>6, TellingStays
  <2> QED BY <2>2, <2>3, <2>4, <2>5, <2>6, PlaceMoves
<1> QED BY <1>2, <1>3 DEF AllTold

\* Whatever the stored offset has left behind or Telegram has forgotten got a
\* message that Telegram accepted, or was to get none, through crashes, failed
\* calls and refused messages (bot_listener.py:190-193).
THEOREM NothingIsLost == Spec => []NoUpdateLost
<1>1. Queue /\ AllTold => NoUpdateLost
  BY DEF Queue, AllTold, NoUpdateLost, NextUp, Told, Sent
<1> QED BY <1>1, QueueInvariance, InitTold, NextTold, PTL DEF Spec

-----------------------------------------------------------------------------
(* No update takes effect again without a mishap.                          *)

Counted == [Ids2Send -> 0..MaxCount]

\* Places where the update in hand may have taken effect.
Late == {"stream", "reply", "ack"}

\* From the place on every effect was followed by a mishap, but for the update in
\* hand once it is past its effect.
Excused ==
  /\ effects \in Counted /\ mishaps \in Counted
  /\ \A u \in Ids2Send : effects[u] <= 1 + mishaps[u]
  /\ \A u \in Ids2Send :
       u >= NextUp /\ ~(u = cur /\ pc \in Late) => effects[u] <= mishaps[u]

LEMMA InitExcused == Init => Excused
  BY ListenerAssumption DEF Init, Excused, Counted

\* A counter goes up by one until it stops.
LEMMA CountOne ==
  ASSUME NEW f \in Counted, NEW u \in Ids2Send
  PROVE  /\ Count(f, u) \in Counted
         /\ Count(f, u)[u] = IF f[u] < MaxCount THEN f[u] + 1 ELSE MaxCount
         /\ \A v \in Ids2Send \ {u} : Count(f, u)[v] = f[v]
<1>1. f[u] \in 0..MaxCount /\ MaxCount \in Nat
  BY ListenerAssumption DEF Counted
<1>2. (IF f[u] < MaxCount THEN f[u] + 1 ELSE f[u]) \in 0..MaxCount
  BY <1>1
<1> QED BY <1>1, <1>2 DEF Count, Counted

LEMMA HandIsSent == ASSUME Queue, cur # 0 PROVE cur \in Ids2Send /\ cur = NextUp
  BY ListenerAssumption DEF Queue, Ids2Send

\* The steps of a handler before its effect.
LEMMA EffectExcused ==
  ASSUME Queue, Excused, NextUp' = NextUp, cur' = cur, pc \in InHand \ Late, pc' \in Late,
         mishaps' = mishaps, effects' \in {effects, Count(effects, cur)}
  PROVE  Excused'
<1>1. cur \in Ids2Send /\ cur = NextUp
  BY HandIsSent DEF Queue
<1>2. effects[cur] <= mishaps[cur] /\ effects[cur] \in 0..MaxCount /\ mishaps[cur] \in 0..MaxCount
  BY <1>1 DEF Excused, Counted, Ids2Send
<1>3. effects' \in Counted /\ effects'[cur] <= 1 + mishaps[cur]
      /\ \A v \in Ids2Send \ {cur} : effects'[v] = effects[v]
  <2>1. CASE effects' = effects
    BY <1>2, <2>1 DEF Excused
  <2>2. CASE effects' = Count(effects, cur)
    <3>1. effects \in Counted /\ MaxCount \in Nat
      BY ListenerAssumption DEF Excused
    <3>2. effects'[cur] = IF effects[cur] < MaxCount THEN effects[cur] + 1 ELSE MaxCount
      BY <1>1, <2>2, <3>1, CountOne
    <3>3. effects' \in Counted /\ \A v \in Ids2Send \ {cur} : effects'[v] = effects[v]
      BY <1>1, <2>2, <3>1, CountOne
    <3>4. effects'[cur] <= 1 + mishaps[cur]
      BY <1>2, <3>1, <3>2
    <3> QED BY <3>3, <3>4
  <2> QED BY <2>1, <2>2
<1> QED BY <1>1, <1>3 DEF Excused

\* A mishap is put on the account of the update in hand.
LEMMA MishapExcused ==
  ASSUME Queue, Excused, NextUp' = NextUp, cur' = 0, effects' = effects,
         mishaps' = IF cur = 0 THEN mishaps ELSE Count(mishaps, cur)
  PROVE  Excused'
<1>1. CASE cur = 0
  BY <1>1 DEF Excused, Ids2Send
<1>2. CASE cur # 0
  <2>1. cur \in Ids2Send
    BY <1>2, HandIsSent
  <2>2. effects[cur] <= 1 + mishaps[cur] /\ effects[cur] \in 0..MaxCount
        /\ mishaps[cur] \in 0..MaxCount /\ MaxCount \in Nat
    BY <2>1, ListenerAssumption DEF Excused, Counted
  <2>3. /\ mishaps' \in Counted /\ effects[cur] <= mishaps'[cur]
        /\ mishaps'[cur] \in 0..MaxCount
        /\ \A v \in Ids2Send \ {cur} : mishaps'[v] = mishaps[v]
    <3>1. mishaps' = Count(mishaps, cur)
      BY <1>2
    <3>2. mishaps \in Counted
      BY DEF Excused
    <3>3. mishaps'[cur] = IF mishaps[cur] < MaxCount THEN mishaps[cur] + 1 ELSE MaxCount
      BY <2>1, <3>1, <3>2, CountOne
    <3>4. mishaps' \in Counted /\ \A v \in Ids2Send \ {cur} : mishaps'[v] = mishaps[v]
      BY <2>1, <3>1, <3>2, CountOne
    <3> QED BY <2>2, <3>3, <3>4
  <2>4. \A v \in Ids2Send : effects[v] <= 1 + mishaps'[v]
    BY <2>2, <2>3 DEF Excused
  <2>5. \A v \in Ids2Send : v >= NextUp => effects[v] <= mishaps'[v]
    BY <2>3 DEF Excused
  <2> QED BY <2>3, <2>4, <2>5 DEF Excused
<1> QED BY <1>1, <1>2

\* All other steps leave the counters alone.
LEMMA QuietExcused ==
  ASSUME Queue, Excused, UNCHANGED <<effects, mishaps>>,
         NEW k \in Nat, NextUp' = k, k >= NextUp,
         pc \in Late => (cur' = cur /\ pc' \in Late) \/ k > cur
  PROVE  Excused'
<1>1. effects \in Counted /\ mishaps \in Counted /\ UNCHANGED <<effects, mishaps>>
  BY DEF Excused
<1>2. ASSUME NEW u \in Ids2Send, u >= k, ~(u = cur' /\ pc' \in Late)
      PROVE  effects[u] <= mishaps[u]
  <2>1. NextUp \in Int /\ u \in Int /\ cur \in Int
    BY ListenerAssumption DEF Ids2Send, Queue, NextUp
  <2>2. u >= NextUp /\ ~(u = cur /\ pc \in Late)
    BY <1>2, <2>1
  <2> QED BY <2>2 DEF Excused
<1> QED BY <1>1, <1>2 DEF Excused

LEMMA PlaceNumber == Queue => NextUp \in Nat
  BY DEF Queue, NextUp

LEMMA LengthNumber == Queue => Len(updates) \in Nat
  BY DEF Queue

LEMMA NextExcused == Queue /\ Excused /\ [Next]_vars => Excused'
<1> SUFFICES ASSUME Queue, Excused, [Next]_vars PROVE Excused'
  OBVIOUS
<1> USE DEF InHand, Late, Stop
<1>1. PICK k \in Nat : NextUp' = k /\ k >= NextUp
  <2>1. Queue' /\ NextUp' >= NextUp
    BY NextQueue
  <2>2. (Queue => NextUp \in Nat)'
    BY PlaceNumber, PTL
  <2> QED BY <2>1, <2>2
<1>2. CASE ChatAnswers \/ NoticeSent
  <2>1. /\ cur' = cur /\ UNCHANGED <<offset, confirmed>> /\ effects' = Count(effects, cur)
        /\ mishaps' = mishaps /\ pc \in InHand \ Late /\ pc' \in Late
    BY <1>2 DEF ChatAnswers, NoticeSent
  <2>2. NextUp' = NextUp
    BY <2>1 DEF NextUp
  <2> QED BY <2>1, <2>2, EffectExcused
<1>3. CASE Forget \/ Manage
  <2>1. /\ cur' = cur /\ UNCHANGED <<offset, confirmed>>
        /\ effects' \in {effects, Count(effects, cur)}
        /\ mishaps' = mishaps /\ pc \in InHand \ Late /\ pc' \in Late
    BY <1>3 DEF Forget, Manage
  <2>2. NextUp' = NextUp
    BY <2>1 DEF NextUp
  <2> QED BY <2>1, <2>2, EffectExcused
<1>4. CASE SendRefused \/ HandlerRaises \/ HandlingFails \/ Crash
  <2>1. /\ cur' = 0 /\ UNCHANGED <<offset, confirmed, effects>>
        /\ mishaps' = IF cur = 0 THEN mishaps ELSE Count(mishaps, cur)
    BY <1>4 DEF SendRefused, HandlerRaises, HandlingFails, Crash, Queue
  <2>2. NextUp' = NextUp
    BY <2>1 DEF NextUp
  <2> QED BY <2>1, <2>2, MishapExcused
<1>5. CASE Acknowledge
  <2>1. UNCHANGED <<effects, mishaps, confirmed>> /\ offset' = cur + 1 /\ cur = NextUp
    BY <1>5, HandIsSent DEF Acknowledge, Queue
  <2>2. k > cur
    <3>1. NextUp' = IF cur + 1 > confirmed + 1 THEN cur + 1 ELSE confirmed + 1
      BY <2>1 DEF NextUp
    <3>2. cur \in Nat /\ confirmed \in Nat /\ cur > confirmed
      BY <2>1 DEF Queue, NextUp
    <3>3. k = IF cur + 1 > confirmed + 1 THEN cur + 1 ELSE confirmed + 1
      BY <1>1, <3>1
    <3> QED BY ONLY <3>2, <3>3
  <2> QED BY <1>1, <2>1, <2>2, QuietExcused
<1>6. CASE \/ Send \/ Block \/ UNCHANGED vars \/ StreamEnds \/ StreamBreaks \/ ReplySent \/ TaskEnds
           \/ Start \/ Run \/ RunReturns \/ Initialize \/ BackoffEnds \/ Poll \/ SleepEnds
           \/ InitializeFails \/ PollFails \/ Ignore \/ HandleLater \/ ChatFails
  <2>1. UNCHANGED <<effects, mishaps>>
    BY <1>6 DEF Send, Block, vars, StreamEnds, StreamBreaks, ReplySent, TaskEnds, Start, Run,
                RunReturns, Initialize, BackoffEnds, Poll, SleepEnds, InitializeFails, PollFails,
                Ignore, HandleLater, ChatFails
  <2>2. pc \in Late => cur' = cur /\ pc' \in Late
    BY <1>6 DEF Send, Block, vars, StreamEnds, StreamBreaks, ReplySent, TaskEnds, Start, Run,
                RunReturns, Initialize, BackoffEnds, Poll, SleepEnds, InitializeFails, PollFails,
                Ignore, HandleLater, ChatFails
  <2> QED BY <1>1, <2>1, <2>2, QuietExcused
<1> QED
  BY <1>2, <1>3, <1>4, <1>5, <1>6 DEF Next, Listener, Begin, Handle, Await, Faulty

\* An update takes effect again only if something went wrong while that very
\* update was handled, never because of another one of its batch.
THEOREM RepeatsAreMishaps == Spec => []RepeatedOnlyByMishap
<1>1. Excused => RepeatedOnlyByMishap
  BY DEF Excused, RepeatedOnlyByMishap
<1> QED BY <1>1, QueueInvariance, InitExcused, NextExcused, PTL DEF Spec

-----------------------------------------------------------------------------
(* A revocation stays in force.                                            *)

\* No row of the table rev speaks against.
InForce(T, rev) ==
  \A r \in T : (r.name # None => rev[r.name] = 0) /\ (r.name = None => rev[r.chat] = 0)

\* A binding fills in a chat beside a username.
LEMMA BindInForce ==
  ASSUME NEW T, T \subseteq Row, NEW rev, InForce(T, rev), NEW chat, NEW name
  PROVE  InForce(Bind(T, chat, name), rev)
<1> DEFINE New(r) == IF r.name = name /\ name # None /\ r.chat = None
                     THEN [r EXCEPT !.chat = chat] ELSE r
<1>1. ASSUME NEW r \in T
      PROVE  (New(r).name # None => rev[New(r).name] = 0) /\ (New(r).name = None => rev[New(r).chat] = 0)
  <2>1. CASE New(r) = r
    BY <2>1 DEF InForce
  <2>2. CASE New(r) # r
    <3>1. New(r) = [r EXCEPT !.chat = chat] /\ r.name # None
      BY <2>2
    <3>2. New(r).name = r.name
      BY <3>1 DEF Row
    <3> QED BY <3>1, <3>2 DEF InForce
  <2> QED BY <2>1, <2>2
<1>2. Bind(T, chat, name) = T \/ Bind(T, chat, name) = {New(r) : r \in T}
  BY DEF Bind
<1> HIDE DEF New
<1> QED BY <1>1, <1>2 DEF InForce

\* Whoever is let in again is no longer revoked.
LEMMA EnsureInForce ==
  ASSUME NEW T, T \subseteq Row, NEW rev, InForce(T, rev), NEW id \in Ids, rev[id] = 0, NEW owner
  PROVE  InForce(Ensure(T, id, owner), rev)
<1>1. CASE Find(T, id) = {}
  <2>1. Ensure(T, id, owner) = T \union {Fresh(id, owner)}
    BY <1>1 DEF Ensure
  <2>2. /\ Fresh(id, owner).name = IF id \in Names THEN id ELSE None
        /\ Fresh(id, owner).chat = IF id \in Chats THEN id ELSE None
    BY DEF Fresh
  <2>3. \/ id \in Names /\ id # None
        \/ id \in Chats /\ id \notin Names
    BY UsersAssumption DEF Ids
  <2> QED BY <2>1, <2>2, <2>3 DEF InForce
<1>2. CASE Find(T, id) # {}
  <2> DEFINE New(r) == IF r \in Find(T, id) THEN [r EXCEPT !.owner = @ \/ owner] ELSE r
  <2>1. Ensure(T, id, owner) = {New(r) : r \in T}
    BY <1>2 DEF Ensure
  <2>2. ASSUME NEW r \in T PROVE New(r).name = r.name /\ New(r).chat = r.chat
    BY <2>2 DEF Row
  <2> HIDE DEF New
  <2> QED BY <2>1, <2>2 DEF InForce
<1> QED BY <1>1, <1>2

\* What is left after a removal holds none of the removed identifiers.
LEMMA RemovalInForce ==
  ASSUME NEW T, Proper(T), NEW rev, InForce(T, rev), NEW id, NEW rev2,
         \A i \in Ids \ Held(Removable(T, id)) : rev2[i] = rev[i]
  PROVE  InForce(T \ Removable(T, id), rev2)
<1> DEFINE D == Removable(T, id)
<1>1. SUFFICES ASSUME NEW r \in T \ D
               PROVE  (r.name # None => rev2[r.name] = 0) /\ (r.name = None => rev2[r.chat] = 0)
  BY DEF InForce
<1>2. /\ r \in Row /\ D \subseteq T /\ D \subseteq Row
      /\ (r.name # None => r.name \in Names) /\ (r.chat # None => r.chat \in Chats)
      /\ (r.name = None => r.chat # None)
  BY DEF Proper, Removable, Find, Row
<1>3. \A s \in D : s.name \in Names \union {None} /\ s.chat \in Chats \union {None}
  BY <1>2 DEF Row
<1>4. \A s \in D : (r.name # None => s.name # r.name) /\ (r.chat # None => s.chat # r.chat)
  BY <1>2 DEF Proper, Unique
<1>5. Held(D) = ({s.chat : s \in D} \union {s.name : s \in D}) \ {None}
  BY DEF Held
<1> HIDE DEF D
<1>6. r.name # None => r.name \in Ids \ Held(D)
  BY <1>2, <1>3, <1>4, <1>5, UsersAssumption DEF Ids
<1>7. r.name = None => r.chat \in Ids \ Held(D)
  BY <1>2, <1>3, <1>4, <1>5, UsersAssumption DEF Ids
<1> QED BY <1>6, <1>7 DEF InForce, D

\* A start seeds whoever the configuration names, revoked or not.
LEMMA SeedInForce ==
  ASSUME NEW T, T \subseteq Row, NEW rev, InForce(T, rev), NEW rev2,
         \A i \in Ids : rev2[i] = IF i \in Seeded THEN 0 ELSE rev[i]
  PROVE  InForce(Seed(T), rev2)
<1>1. Seeded \subseteq Ids
  BY UsersAssumption DEF Seeded, Owners, Ids
<1>2. ASSUME NEW id \in Seeded PROVE InForce({Fresh(id, id \in Owners)}, rev2)
  <2>1. id \in Ids /\ rev2[id] = 0
    BY <1>1, <1>2
  <2>2. /\ Fresh(id, id \in Owners).name = IF id \in Names THEN id ELSE None
        /\ Fresh(id, id \in Owners).chat = IF id \in Chats THEN id ELSE None
    BY DEF Fresh
  <2> QED BY <2>1, <2>2, UsersAssumption DEF InForce, Ids
<1>3. ASSUME NEW r \in T
      PROVE  InForce({[r EXCEPT !.owner = @ \/ r.chat \in Owners \/ r.name \in Owners]}, rev2)
  <2> DEFINE s == [r EXCEPT !.owner = @ \/ r.chat \in Owners \/ r.name \in Owners]
  <2>1. s.name = r.name /\ s.chat = r.chat /\ r \in Row
    BY DEF Row
  <2>2. (r.name # None => r.name \in Ids) /\ (r.name = None => r.chat \in Ids)
    BY <2>1 DEF Row, Ids
  <2> HIDE DEF s
  <2>3. InForce({s}, rev2)
    BY <2>1, <2>2 DEF InForce
  <2> QED BY <2>3 DEF s
<1>4. SUFFICES ASSUME NEW x \in Seed(T)
               PROVE  (x.name # None => rev2[x.name] = 0) /\ (x.name = None => rev2[x.chat] = 0)
  BY DEF InForce
<1>5. \/ \E r \in T : x = [r EXCEPT !.owner = @ \/ r.chat \in Owners \/ r.name \in Owners]
      \/ \E id \in Seeded : x = Fresh(id, id \in Owners)
  BY DEF Seed
<1>6. InForce({x}, rev2)
  BY <1>2, <1>3, <1>5
<1> QED BY <1>6 DEF InForce

\* Revocations are of updates up to the place, the one at the place being a
\* /revoke: an /allow that comes again is older than none of them.
Revocations ==
  /\ InForce(users, revoked)
  /\ \A id \in Ids :
       /\ revoked[id] \in 0..Len(updates)
       /\ revoked[id] # 0 =>
            revoked[id] <= NextUp /\ updates[revoked[id]].cmd = "revoke"
  /\ DOMAIN revoked = Ids

LEMMA InitRevocations == Init => Revocations
  BY DEF Init, Revocations, InForce

\* Neither the table nor the queue loses anything.
LEMMA RevocationsStay ==
  ASSUME Queue, Queue', Revocations, InForce(users', revoked'), DOMAIN revoked' = Ids,
         NEW k \in Nat, NextUp' = k, k >= NextUp,
         Len(updates') >= Len(updates), \A v \in Sent : updates'[v] = updates[v],
         \A id \in Ids : revoked'[id] \in {0, revoked[id]}
  PROVE  Revocations'
<1>1. NextUp \in Nat /\ Len(updates) \in Nat
  BY PlaceNumber DEF Queue
<1>2. PICK n \in Nat : Len(updates') = n
  <2>1. (Queue => Len(updates) \in Nat)'
    BY LengthNumber, PTL
  <2> QED BY <2>1
<1>3. ASSUME NEW id \in Ids
      PROVE  /\ revoked'[id] \in 0..n
             /\ revoked'[id] # 0 => revoked'[id] <= k /\ updates'[revoked'[id]].cmd = "revoke"
  <2>1. CASE revoked'[id] = 0
    BY <1>2, <2>1
  <2>2. CASE revoked'[id] # 0
    <3>1. revoked'[id] = revoked[id] /\ revoked[id] # 0
      BY <2>2
    <3>2. revoked[id] \in 1..Len(updates) /\ revoked[id] <= NextUp
          /\ updates[revoked[id]].cmd = "revoke"
      BY <1>1, <3>1 DEF Revocations
    <3>3. updates'[revoked[id]] = updates[revoked[id]]
      BY <3>2 DEF Sent
    <3>4. revoked[id] \in 0..n /\ revoked[id] <= k
      <4>1. n >= Len(updates)
        BY <1>2
      <4>2. k >= NextUp
        OBVIOUS
      <4> QED BY ONLY <1>1, <1>2, <3>2, <4>1, <4>2, k \in Nat
    <3> QED BY <3>1, <3>2, <3>3, <3>4
  <2> QED BY <2>1, <2>2
<1> QED BY <1>2, <1>3 DEF Revocations

\* The queue between two steps: longer at most by one update.
LEMMA QueueGrows ==
  ASSUME Queue, [Next]_vars
  PROVE  /\ Len(updates') >= Len(updates)
         /\ \A v \in Sent : updates'[v] = updates[v]
<1>1. CASE Send
  <2>1. PICK r \in Requests : updates' = Append(updates, r)
    BY <1>1 DEF Send
  <2> QED BY <2>1, AppendProperties DEF Queue, Sent
<1>2. CASE ~Send
  <2>1. updates' = updates
    BY <1>2 DEF Next, vars, Block, Listener, Begin, Handle, Await, Faulty, Start, Run, RunReturns,
                Initialize, BackoffEnds, Poll, SleepEnds, Ignore, HandleLater, Forget, Manage,
                ChatAnswers, ChatFails, NoticeSent, TaskEnds, StreamEnds, ReplySent, SendRefused,
                Acknowledge, InitializeFails, PollFails, StreamBreaks, HandlerRaises,
                HandlingFails, Crash
  <2> QED BY <2>1 DEF Queue
<1> QED BY <1>1, <1>2

\* /allow and /revoke.
LEMMA ManageRevocations ==
  ASSUME UInv, Queue, Queue', Revocations, Manage PROVE Revocations'
<1>1. /\ pc = "handle" /\ Request.cmd \in {"allow", "revoke"} /\ Request = updates[cur]
      /\ UNCHANGED <<updates, offset, confirmed, cur>>
  BY DEF Manage, Request
<1>2. /\ cur = NextUp /\ cur \in 1..Len(updates) /\ NextUp' = NextUp /\ NextUp \in Nat
  BY <1>1, PlaceNumber DEF Queue, InHand, NextUp
<1>3. Proper(Bound)
  BY <1>1, BoundGood
<1>4. InForce(Bound, revoked)
  BY BindInForce DEF Bound, Revocations, UInv, Proper
<1>5. CASE users' = Bound /\ revoked' = revoked
  BY <1>1, <1>2, <1>4, <1>5 DEF Revocations
<1>6. CASE /\ Request.cmd = "allow"
           /\ users' = Ensure(Bound, Request.id, Request.owner)
           /\ revoked' = [revoked EXCEPT ![Request.id] = IF @ < cur THEN 0 ELSE @]
           /\ IsOwner(Bound, Sender.chat, Sender.name)
  <2>0. Request.id \in Ids
    BY <1>1, <1>6, RequestInHand DEF Manage
  <2>1. revoked[Request.id] < cur
    <3>1. CASE revoked[Request.id] = 0
      BY <1>2, <3>1
    <3>2. CASE revoked[Request.id] # 0
      <4>1. revoked[Request.id] <= NextUp /\ updates[revoked[Request.id]].cmd = "revoke"
            /\ revoked[Request.id] \in 0..Len(updates)
        BY <2>0, <3>2 DEF Revocations
      <4>2. revoked[Request.id] # cur
        BY <1>1, <1>6, <4>1
      <4> QED BY <1>2, <4>1, <4>2
    <3> QED BY <3>1, <3>2
  <2>2. revoked' = [revoked EXCEPT ![Request.id] = 0]
    BY <1>6, <2>1
  <2>3. InForce(Bound, revoked')
    <3>1. \A r \in Bound : (r.name # None => r.name \in Ids) /\ (r.name = None => r.chat \in Ids)
      BY <1>3 DEF Proper, Row, Ids
    <3> QED BY <1>4, <2>2, <3>1 DEF InForce, Revocations
  <2>4. InForce(users', revoked')
    BY <1>3, <1>6, <2>0, <2>2, <2>3, EnsureInForce DEF Proper, Revocations
  <2>5. \A id \in Ids : revoked'[id] \in {0, revoked[id]}
    BY <2>2 DEF Revocations
  <2> QED BY <1>1, <1>2, <2>2, <2>4, <2>5 DEF Revocations
<1>7. CASE /\ Request.cmd = "revoke"
           /\ users' = Bound \ Removable(Bound, Request.id)
           /\ revoked' = [id \in Ids |-> IF id \in Held(Removable(Bound, Request.id)) THEN cur
                                         ELSE revoked[id]]
  <2>1. InForce(users', revoked')
    BY <1>3, <1>4, <1>7, RemovalInForce
  <2>2. \A id \in Ids : revoked'[id] \in {cur, revoked[id]}
    BY <1>7
  <2>3. updates[cur].cmd = "revoke"
    BY <1>1, <1>7
  <2> QED BY <1>1, <1>2, <1>7, <2>1, <2>2, <2>3 DEF Revocations
<1> QED BY <1>5, <1>6, <1>7, <1>1 DEF Manage

LEMMA NextRevocations ==
  UInv /\ Queue /\ Revocations /\ [Next]_vars => Revocations'
<1> SUFFICES ASSUME UInv, Queue, Revocations, [Next]_vars PROVE Revocations'
  OBVIOUS
<1>1. Queue' /\ NextUp' >= NextUp
  BY NextQueue
<1>2. PICK k \in Nat : NextUp' = k /\ k >= NextUp
  <2>1. (Queue => NextUp \in Nat)'
    BY PlaceNumber, PTL
  <2> QED BY <1>1, <2>1
<1>3. CASE Manage
  BY <1>1, <1>3, ManageRevocations
<1>4. CASE Start
  <2>1. users' = Seed(users) /\ revoked' = [id \in Ids |-> IF id \in Seeded THEN 0 ELSE revoked[id]]
    BY <1>4 DEF Start
  <2>2. InForce(users', revoked')
    BY <2>1, SeedInForce DEF Revocations, UInv, Proper
  <2>3. DOMAIN revoked' = Ids /\ \A id \in Ids : revoked'[id] \in {0, revoked[id]}
    BY <2>1
  <2> QED BY <1>1, <1>2, <2>2, <2>3, QueueGrows, RevocationsStay
<1>5. CASE ~Manage /\ ~Start
  <2>1. revoked' = revoked /\ (users' = users \/ (users' = Bound /\ pc = "handle"))
    BY <1>5 DEF Next, vars, Send, Block, Listener, Begin, Handle, Await, Faulty, Run, RunReturns,
                Initialize, BackoffEnds, Poll, SleepEnds, Ignore, HandleLater, Forget,
                ChatAnswers, ChatFails, NoticeSent, TaskEnds, StreamEnds, ReplySent, SendRefused,
                Acknowledge, InitializeFails, PollFails, StreamBreaks, HandlerRaises,
                HandlingFails, Crash
  <2>2. InForce(Bound, revoked)
    BY BindInForce DEF Bound, Revocations, UInv, Proper
  <2>3. InForce(users', revoked')
    BY <2>1, <2>2 DEF Revocations
  <2>4. DOMAIN revoked' = Ids /\ \A id \in Ids : revoked'[id] \in {0, revoked[id]}
    BY <2>1 DEF Revocations
  <2> QED BY <1>1, <1>2, <2>3, <2>4, QueueGrows, RevocationsStay
<1> QED BY <1>3, <1>4, <1>5

\* Whoever was revoked is in only through a later update or a start that seeds
\* them, never through an earlier /allow that is repeated.
THEOREM RevocationsStand == Spec => []RevokedStaysOut
<1>1. Revocations => RevokedStaysOut
  BY DEF Revocations, InForce, RevokedStaysOut
<1>2. Spec => []UInv
  BY InitUInv, NextUInv, PTL DEF Spec
<1> QED BY <1>1, <1>2, QueueInvariance, InitRevocations, NextRevocations, PTL DEF Spec

-----------------------------------------------------------------------------
(* What was forgotten stays forgotten.                                     *)

Entries == Ids2Send \X {"user", "assistant"}

\* Trimming adds nothing and leaves the limit.
LEMMA NewestRows ==
  ASSUME NEW S, NEW rows \in Seq(S), NEW n \in Nat
  PROVE  /\ Newest(rows, n) \in Seq(S) /\ Len(Newest(rows, n)) <= n
         /\ \A i \in DOMAIN Newest(rows, n) : \E j \in DOMAIN rows : Newest(rows, n)[i] = rows[j]
<1>1. CASE Len(rows) > n
  <2> DEFINE m == Len(rows) - n + 1
  <2>1. m \in Int /\ Len(rows) \in Int /\ \A i \in m..Len(rows) : rows[i] \in S
    BY <1>1
  <2>2. Newest(rows, n) = SubSeq(rows, m, Len(rows))
    BY <1>1 DEF Newest
  <2>3. /\ SubSeq(rows, m, Len(rows)) \in Seq(S)
        /\ Len(SubSeq(rows, m, Len(rows))) = IF m <= Len(rows) THEN Len(rows) - m + 1 ELSE 0
        /\ \A i \in 1 .. Len(rows) - m + 1 : SubSeq(rows, m, Len(rows))[i] = rows[m + i - 1]
    BY <2>1, SubSeqProperties
  <2>4. Len(SubSeq(rows, m, Len(rows))) = n
    BY <1>1, <2>3
  <2>5. ASSUME NEW i \in DOMAIN SubSeq(rows, m, Len(rows))
        PROVE  \E j \in DOMAIN rows : SubSeq(rows, m, Len(rows))[i] = rows[j]
    <3>1. i \in 1..n
      BY <2>3, <2>4, <2>5
    <3>2. m + i - 1 \in DOMAIN rows /\ i \in 1 .. Len(rows) - m + 1
      BY <1>1, <3>1
    <3> QED BY <2>3, <3>2
  <2> HIDE DEF m
  <2> QED BY <2>2, <2>3, <2>4, <2>5
<1>2. CASE ~(Len(rows) > n)
  BY <1>2 DEF Newest
<1> QED BY <1>1, <1>2

\* An exchange puts its own two rows into the history of its chat and no others
\* into any.
LEMMA ExchangeRows ==
  ASSUME history \in [Chats -> Seq(Entries)], NEW u \in Ids2Send, Chat(u) \in Chats,
         \A c \in Chats : Len(history[c]) <= Keep
  PROVE  /\ Exchange(u) \in [Chats -> Seq(Entries)]
         /\ \A c \in Chats : Len(Exchange(u)[c]) <= Keep
         /\ \A c \in Chats : \A i \in DOMAIN Exchange(u)[c] :
              \/ c = Chat(u) /\ Exchange(u)[c][i][1] = u
              \/ \E j \in DOMAIN history[c] : Exchange(u)[c][i] = history[c][j]
<1> DEFINE new == <<<<u, "user">>, <<u, "assistant">>>>
           all == history[Chat(u)] \o new
<1>1. Keep \in Nat
  BY ListenerAssumption DEF Keep
<1>2. new \in Seq(Entries) /\ Len(new) = 2 /\ \A i \in 1..2 : new[i][1] = u
  BY DEF Entries
<1> HIDE DEF new
<1>3. history[Chat(u)] \in Seq(Entries)
  OBVIOUS
<1>4. /\ all \in Seq(Entries)
      /\ \A j \in DOMAIN all :
           all[j][1] = u \/ \E i \in DOMAIN history[Chat(u)] : all[j] = history[Chat(u)][i]
  <2> DEFINE h == history[Chat(u)]
  <2>1. h \in Seq(Entries)
    BY <1>3
  <2> HIDE DEF h
  <2>2. /\ h \o new \in Seq(Entries) /\ Len(h \o new) = Len(h) + 2
        /\ \A j \in 1 .. Len(h) + 2 : (h \o new)[j] = IF j <= Len(h) THEN h[j] ELSE new[j - Len(h)]
    <3>1. new \in Seq(Entries)
      BY <1>2
    <3>2. /\ h \o new \in Seq(Entries) /\ Len(h \o new) = Len(h) + Len(new)
          /\ \A j \in 1 .. Len(h) + Len(new) :
               (h \o new)[j] = IF j <= Len(h) THEN h[j] ELSE new[j - Len(h)]
      BY ONLY <2>1, <3>1, ConcatProperties
    <3> QED BY <1>2, <3>2
  <2>3. DOMAIN (h \o new) = 1 .. Len(h) + 2 /\ DOMAIN h = 1..Len(h) /\ Len(h) \in Nat
    BY <2>1, <2>2
  <2>4. ASSUME NEW j \in DOMAIN (h \o new)
        PROVE  (h \o new)[j][1] = u \/ \E i \in DOMAIN h : (h \o new)[j] = h[i]
    <3>1. CASE j <= Len(h)
      BY <2>2, <2>3, <2>4, <3>1
    <3>2. CASE ~(j <= Len(h))
      <4>1. j - Len(h) \in 1..2 /\ (h \o new)[j] = new[j - Len(h)]
        BY <2>2, <2>3, <2>4, <3>2
      <4> QED BY <1>2, <4>1
    <3> QED BY <3>1, <3>2
  <2> QED BY <2>2, <2>4 DEF h
<1>5. Exchange(u) = [history EXCEPT ![Chat(u)] = Newest(all, Keep)]
  BY DEF Exchange, new
<1> HIDE DEF all
<1>6. /\ Newest(all, Keep) \in Seq(Entries) /\ Len(Newest(all, Keep)) <= Keep
      /\ \A i \in DOMAIN Newest(all, Keep) : \E j \in DOMAIN all : Newest(all, Keep)[i] = all[j]
  BY <1>1, <1>4, NewestRows
<1>7. \A i \in DOMAIN Newest(all, Keep) :
        \/ Newest(all, Keep)[i][1] = u
        \/ \E j \in DOMAIN history[Chat(u)] : Newest(all, Keep)[i] = history[Chat(u)][j]
  BY <1>4, <1>6
<1> QED BY <1>5, <1>6, <1>7

\* A task goes on after its stream only where the stream broke.
Memory ==
  /\ history \in [Chats -> Seq(Entries)]
  /\ \A c \in Chats : Len(history[c]) <= Keep
  /\ \A c \in Chats : \A i \in DOMAIN history[c] : history[c][i][1] <= Len(updates)
  /\ forgot \in [Chats -> 0..MaxUpdate]
  /\ \A c \in Chats : forgot[c] <= NextUp
  /\ running \subseteq Sent /\ broken \subseteq Sent
  /\ \A u \in running : u \in broken \/ (u = cur /\ pc = "stream")
  /\ ForgottenStaysForgotten

LEMMA InitMemory == Init => Memory
<1> SUFFICES ASSUME Init PROVE Memory
  OBVIOUS
<1>1. history = [c \in Chats |-> << >>] /\ forgot = [c \in Chats |-> 0]
      /\ running = {} /\ broken = {} /\ confirmed = 0 /\ offset = 0
  BY DEF Init
<1>2. \A c \in Chats : history[c] = << >> /\ history[c] \in Seq(Entries)
                      /\ Len(history[c]) = 0 /\ DOMAIN history[c] = {}
  <2>1. \A s \in Seq(Entries) : s = << >> => Len(s) = 0 /\ DOMAIN s = {}
    OBVIOUS
  <2>2. << >> \in Seq(Entries)
    OBVIOUS
  <2> QED BY <1>1, <2>1, <2>2
<1>3. Keep \in Nat /\ NextUp = 1 /\ MaxUpdate \in Nat
  BY <1>1, ListenerAssumption DEF Keep, NextUp
<1>4. history \in [Chats -> Seq(Entries)] /\ forgot \in [Chats -> 0..MaxUpdate]
  BY <1>1, <1>2, <1>3
<1> QED BY <1>1, <1>2, <1>3, <1>4 DEF Memory, ForgottenStaysForgotten

\* The chat of an update that was sent.
LEMMA ChatKnown == ASSUME Queue, NEW u \in Sent PROVE Chat(u) \in Chats /\ u \in Ids2Send
<1>1. updates[u] \in Requests
  BY DEF Queue, Sent
<1>2. u \in Ids2Send
  BY ListenerAssumption DEF Queue, Sent, Ids2Send
<1> QED BY <1>1, <1>2, ListenerAssumption DEF Chat, Senders

\* Two exchanges: one of the update in hand, one of a task.
LEMMA ExchangeMemory ==
  ASSUME Queue, Memory, NEW u \in Sent, u \in broken \/ u = NextUp,
         history' = Exchange(u), UNCHANGED <<updates, forgot, broken, offset, confirmed>>,
         running' \subseteq running,
         \A v \in running' : v \in broken \/ (v = cur' /\ pc' = "stream")
  PROVE  Memory'
<1>1. Chat(u) \in Chats /\ u \in Ids2Send /\ u <= Len(updates)
  BY ChatKnown DEF Sent, Queue
<1>2. /\ history' \in [Chats -> Seq(Entries)]
      /\ \A c \in Chats : Len(history'[c]) <= Keep
      /\ \A c \in Chats : \A i \in DOMAIN history'[c] :
           \/ c = Chat(u) /\ history'[c][i][1] = u
           \/ \E j \in DOMAIN history[c] : history'[c][i] = history[c][j]
  BY <1>1, ExchangeRows DEF Memory
<1>3. \A c \in Chats : \A i \in DOMAIN history'[c] : history'[c][i][1] <= Len(updates)
  BY <1>1, <1>2 DEF Memory
<1>4. ASSUME NEW c \in Chats, NEW i \in DOMAIN history'[c], history'[c][i][1] < forgot[c]
      PROVE  history'[c][i][1] \in broken
  <2>1. CASE c = Chat(u) /\ history'[c][i][1] = u
    <3>1. forgot[c] <= NextUp /\ u < forgot[c] /\ forgot[c] \in Nat /\ NextUp \in Nat /\ u \in Nat
      BY <1>1, <1>4, <2>1, PlaceNumber, ListenerAssumption DEF Memory, Ids2Send
    <3>2. u # NextUp
      BY <3>1
    <3> QED BY <2>1, <3>2
  <2>2. CASE \E j \in DOMAIN history[c] : history'[c][i] = history[c][j]
    BY <1>4, <2>2 DEF Memory, ForgottenStaysForgotten
  <2> QED BY <1>2, <2>1, <2>2
<1>5. NextUp' = NextUp /\ Sent' = Sent
  BY DEF NextUp, Sent
<1> QED BY <1>2, <1>3, <1>4, <1>5 DEF Memory, ForgottenStaysForgotten

\* Steps that leave the rows alone.
LEMMA QuietMemory ==
  ASSUME Queue, Memory, UNCHANGED <<history, forgot>>,
         Len(updates') >= Len(updates), NextUp' >= NextUp, NEW n \in Nat, Len(updates') = n,
         NEW k \in Nat, NextUp' = k,
         broken \subseteq broken', broken' \subseteq Sent, running' \subseteq Sent,
         \A v \in running' : v \in broken' \/ (v = cur' /\ pc' = "stream")
  PROVE  Memory'
<1>1. Len(updates) \in Nat /\ n >= Len(updates) /\ NextUp \in Nat /\ k >= NextUp
  BY PlaceNumber DEF Queue
<1>2. Sent \subseteq Sent'
  BY <1>1 DEF Sent
<1>3. \A c \in Chats : forgot[c] <= k
  <2> SUFFICES ASSUME NEW c \in Chats PROVE forgot[c] <= k
    OBVIOUS
  <2>1. forgot[c] \in Nat /\ forgot[c] <= NextUp
    BY ListenerAssumption DEF Memory
  <2> QED BY ONLY <1>1, <2>1, k \in Nat
<1>4. \A c \in Chats : \A i \in DOMAIN history[c] : history[c][i][1] <= n
  <2> SUFFICES ASSUME NEW c \in Chats, NEW i \in DOMAIN history[c] PROVE history[c][i][1] <= n
    OBVIOUS
  <2>1. history[c] \in Seq(Entries)
    BY DEF Memory
  <2>2. history[c][i] \in Entries
    BY <2>1
  <2>3. history[c][i][1] \in Nat /\ history[c][i][1] <= Len(updates)
    BY <2>2, ListenerAssumption DEF Entries, Ids2Send, Memory
  <2> QED BY ONLY <1>1, <2>3, n \in Nat
<1>5. ForgottenStaysForgotten'
  BY DEF Memory, ForgottenStaysForgotten
<1> QED BY <1>2, <1>3, <1>4, <1>5 DEF Memory

LEMMA NextMemory == Queue /\ Memory /\ [Next]_vars => Memory'
<1> SUFFICES ASSUME Queue, Memory, [Next]_vars PROVE Memory'
  OBVIOUS
<1>1. Queue' /\ NextUp' >= NextUp
  BY NextQueue
<1>2. PICK k \in Nat : NextUp' = k
  <2>1. (Queue => NextUp \in Nat)'
    BY PlaceNumber, PTL
  <2> QED BY <1>1, <2>1
<1>3. PICK n \in Nat : Len(updates') = n
  <2>1. (Queue => Len(updates) \in Nat)'
    BY LengthNumber, PTL
  <2> QED BY <1>1, <2>1
<1>4. cur # 0 => cur \in Sent /\ cur = NextUp /\ cur \in 1..MaxUpdate
  BY ListenerAssumption DEF Queue, Sent
<1>5. \A v \in running : v \in broken \/ (v = cur /\ pc = "stream")
  BY DEF Memory
<1>6. running \subseteq Sent /\ broken \subseteq Sent
  BY DEF Memory
<1>7. CASE Forget
  <2>1. /\ history' = [history EXCEPT ![Chat(cur)] = << >>]
        /\ forgot' = [forgot EXCEPT ![Chat(cur)] = cur]
        /\ UNCHANGED <<updates, running, broken, offset, confirmed, cur>>
        /\ pc = "handle"
    BY <1>7 DEF Forget, Sender, Request, Chat
  <2>2. Chat(cur) \in Chats /\ cur = NextUp /\ cur \in 1..MaxUpdate
    BY <1>4, <2>1, ChatKnown DEF Queue, InHand
  <2>3. NextUp' = NextUp /\ Sent' = Sent
    BY <2>1 DEF NextUp, Sent
  <2>4. \A v \in running : v \in broken
    BY <1>5, <2>1
  <2>5. /\ << >> \in Seq(Entries) /\ Len(<< >>) <= Keep /\ DOMAIN << >> = {}
    <3>1. \A s \in Seq(Entries) : s = << >> => Len(s) = 0 /\ DOMAIN s = {}
      OBVIOUS
    <3>2. << >> \in Seq(Entries) /\ Keep \in Nat
      BY ListenerAssumption DEF Keep
    <3> QED BY <3>1, <3>2
  <2>6. /\ history' \in [Chats -> Seq(Entries)] /\ forgot' \in [Chats -> 0..MaxUpdate]
        /\ \A c \in Chats : Len(history'[c]) <= Keep /\ forgot'[c] <= NextUp
        /\ \A c \in Chats : \A i \in DOMAIN history'[c] :
             c # Chat(cur) /\ history'[c] = history[c] /\ forgot'[c] = forgot[c]
    <3>1. history' \in [Chats -> Seq(Entries)] /\ forgot' \in [Chats -> 0..MaxUpdate]
      BY <2>1, <2>2, <2>5 DEF Memory
    <3>2. ASSUME NEW c \in Chats
          PROVE  /\ Len(history'[c]) <= Keep /\ forgot'[c] <= NextUp
                 /\ \A i \in DOMAIN history'[c] :
                      c # Chat(cur) /\ history'[c] = history[c] /\ forgot'[c] = forgot[c]
      <4>1. CASE c = Chat(cur)
        <5>1. history'[c] = << >> /\ forgot'[c] = cur
          BY <2>1, <4>1 DEF Memory
        <5> QED BY <2>2, <2>5, <5>1, PlaceNumber
      <4>2. CASE c # Chat(cur)
        BY <2>1, <4>2 DEF Memory
      <4> QED BY <4>1, <4>2
    <3> QED BY <3>1, <3>2
  <2> QED BY <2>1, <2>3, <2>4, <2>6 DEF Memory, ForgottenStaysForgotten
<1>8. CASE ChatAnswers
  <2>1. /\ pc = "llm" /\ history' = Exchange(cur)
        /\ UNCHANGED <<updates, forgot, broken, running, offset, confirmed>>
    BY <1>8 DEF ChatAnswers
  <2>2. cur \in Sent /\ cur = NextUp
    BY <1>4, <2>1 DEF Queue, InHand
  <2>3. \A v \in running' : v \in broken
    BY <1>5, <2>1
  <2> QED BY <2>1, <2>2, <2>3, ExchangeMemory
<1>9. CASE TaskEnds
  <2>1. PICK u \in running : running' = running \ {u} /\ (history' = history \/ history' = Exchange(u))
    BY <1>9 DEF TaskEnds
  <2>2. UNCHANGED <<updates, forgot, broken, offset, confirmed, cur, pc>>
    BY <1>9 DEF TaskEnds
  <2>3. u \in Sent /\ (u \in broken \/ u = NextUp)
    BY <1>4, <1>5, <1>6 DEF Queue, InHand
  <2>4. \A v \in running' : v \in broken \/ (v = cur' /\ pc' = "stream")
    BY <1>5, <2>1, <2>2
  <2>5. CASE history' = history
    <3>1. NextUp' = NextUp /\ Sent' = Sent
      BY <2>2 DEF NextUp, Sent
    <3> QED BY <2>1, <2>2, <2>4, <2>5, <3>1 DEF Memory, ForgottenStaysForgotten
  <2>6. CASE history' = Exchange(u)
    BY <2>1, <2>2, <2>3, <2>4, <2>6, ExchangeMemory
  <2> QED BY <2>1, <2>5, <2>6
<1>10. CASE ~Forget /\ ~ChatAnswers /\ ~TaskEnds
  <2>1. UNCHANGED <<history, forgot>>
    BY <1>10 DEF Next, vars, Send, Block, Listener, Begin, Handle, Await, Faulty, Start, Run,
                 RunReturns, Initialize, BackoffEnds, Poll, SleepEnds, Ignore, HandleLater, Manage,
                 ChatFails, NoticeSent, StreamEnds, ReplySent, SendRefused, Acknowledge,
                 InitializeFails, PollFails, StreamBreaks, HandlerRaises, HandlingFails, Crash
  <2>2. /\ broken \subseteq broken' /\ broken' \subseteq Sent /\ running' \subseteq Sent
        /\ \A v \in running' : v \in broken' \/ (v = cur' /\ pc' = "stream")
    <3>1. CASE NoticeSent
      <4>1. cur \in Sent
        BY <1>4, <3>1 DEF NoticeSent, Queue, InHand
      <4> QED BY <1>5, <1>6, <3>1, <4>1 DEF NoticeSent
    <3>2. CASE StreamBreaks
      <4>1. cur \in Sent
        BY <1>4, <3>2 DEF StreamBreaks, Queue, InHand
      <4> QED BY <1>5, <1>6, <3>2, <4>1 DEF StreamBreaks
    <3>3. CASE StreamEnds
      BY <1>5, <1>6, <3>3 DEF StreamEnds
    <3>4. CASE Crash
      BY <1>6, <3>4 DEF Crash
    <3>5. CASE /\ UNCHANGED <<running, broken>>
               /\ pc = "stream" => pc' = "stream" /\ cur' = cur
      BY <1>5, <1>6, <3>5
    <3>6. CASE ~NoticeSent /\ ~StreamBreaks /\ ~StreamEnds /\ ~Crash
      <4>1. UNCHANGED <<running, broken>> /\ (pc = "stream" => pc' = "stream" /\ cur' = cur)
        BY <1>10, <3>6
        DEF Next, vars, Send, Block, Listener, Begin, Handle, Await, Faulty, Start, Run,
            RunReturns, Initialize, BackoffEnds, Poll, SleepEnds, Ignore, HandleLater, Manage,
            ChatFails, ReplySent, SendRefused, Acknowledge, InitializeFails, PollFails,
            HandlerRaises, HandlingFails
      <4> QED BY <3>5, <4>1
    <3> QED BY <3>1, <3>2, <3>3, <3>4, <3>6
  <2> QED BY <1>1, <1>2, <1>3, <2>1, <2>2, QueueGrows, QuietMemory
<1> QED BY <1>7, <1>8, <1>9, <1>10

\* /forget is final: the history of a chat holds later exchanges only, unless the
\* stream of a question broke and its task was still at work.
THEOREM ForgottenForGood == Spec => []ForgottenStaysForgotten
<1>1. Memory => ForgottenStaysForgotten
  BY DEF Memory
<1> QED BY <1>1, QueueInvariance, InitMemory, NextMemory, PTL DEF Spec

-----------------------------------------------------------------------------
(* Types.                                                                  *)

\* What remains of the types.
Marks ==
  /\ blocked \subseteq Chats /\ faults \in 0..MaxFaults
  /\ answered \subseteq Sent /\ passed \subseteq Sent
  /\ revoked \in [Ids -> 0..MaxUpdate]

LEMMA InitMarks == Init => Marks
  BY ListenerAssumption DEF Init, Marks

LEMMA NextMarks == Queue /\ Marks /\ [Next]_vars => Marks'
<1> SUFFICES ASSUME Queue, Marks, [Next]_vars PROVE Marks'
  OBVIOUS
<1>1. Sent \subseteq Sent'
  <2>1. (Queue => Len(updates) \in Nat)' /\ Queue'
    BY LengthNumber, NextQueue, PTL
  <2>2. PICK n \in Nat : Len(updates') = n
    BY <2>1
  <2>3. Len(updates) \in Nat /\ n >= Len(updates)
    BY <2>2, QueueGrows DEF Queue
  <2> QED BY <2>2, <2>3 DEF Sent
<1>2. cur # 0 => cur \in Sent
  BY DEF Queue, Sent
<1>3. answered' \subseteq Sent
  <2>1. answered' = answered \/ (cur # 0 /\ answered' = answered \union {cur})
    BY DEF Queue, InHand, Next, vars, Send, Block, Listener, Begin, Handle, Await, Faulty, Start,
           Run, RunReturns, Initialize, BackoffEnds, Poll, SleepEnds, Ignore, HandleLater, Forget,
           Manage, ChatAnswers, ChatFails, NoticeSent, TaskEnds, StreamEnds, ReplySent, SendRefused,
           Acknowledge, InitializeFails, PollFails, StreamBreaks, HandlerRaises,
           HandlingFails, Crash
  <2> QED BY <1>2, <2>1 DEF Marks
<1>4. passed' \subseteq Sent
  <2>1. CASE Initialize \/ InitializeFails
    <3>1. Len(updates) \in Nat /\ confirmed \in Nat
      BY DEF Queue
    <3>2. Older \subseteq Sent
      BY <3>1 DEF Older, Sent
    <3>3. confirmed < Len(updates) => Len(updates) \in Sent
      BY <3>1 DEF Sent
    <3>4. CASE Initialize
      BY <3>2, <3>3, <3>4 DEF Initialize, Marks
    <3>5. CASE InitializeFails
      BY <3>2, <3>5 DEF InitializeFails, Marks
    <3> QED BY <2>1, <3>4, <3>5
  <2>2. CASE ~Initialize /\ ~InitializeFails
    <3>1. passed' = passed \/ (cur # 0 /\ passed' = passed \union {cur})
      BY <2>2 DEF Queue, InHand, Next, vars, Send, Block, Listener, Begin, Handle, Await, Faulty,
           Start, Run, RunReturns, BackoffEnds, Poll, SleepEnds, Ignore, HandleLater, Forget,
           Manage, ChatAnswers, ChatFails, NoticeSent, TaskEnds, StreamEnds, ReplySent, SendRefused,
           Acknowledge, PollFails, StreamBreaks, HandlerRaises, HandlingFails, Crash
    <3> QED BY <1>2, <3>1 DEF Marks
  <2> QED BY <2>1, <2>2
<1>5. blocked' \subseteq Chats
  <2>1. blocked' = blocked \/ Block
    BY DEF Next, vars, Send, Listener, Begin, Handle, Await, Faulty, Start,
           Run, RunReturns, Initialize, BackoffEnds, Poll, SleepEnds, Ignore, HandleLater, Forget,
           Manage, ChatAnswers, ChatFails, NoticeSent, TaskEnds, StreamEnds, ReplySent, SendRefused,
           Acknowledge, InitializeFails, PollFails, StreamBreaks, HandlerRaises,
           HandlingFails, Crash
  <2> QED BY <2>1, ListenerAssumption DEF Block, Marks
<1>6. faults' \in 0..MaxFaults
  <2>1. faults' = faults \/ (faults < MaxFaults /\ faults' = faults + 1)
    BY DEF Next, vars, Send, Block, Listener, Begin, Handle, Await, Faulty, Start,
           Run, RunReturns, Initialize, BackoffEnds, Poll, SleepEnds, Ignore, HandleLater, Forget,
           Manage, ChatAnswers, ChatFails, NoticeSent, TaskEnds, StreamEnds, ReplySent, SendRefused,
           Acknowledge, InitializeFails, PollFails, StreamBreaks, HandlerRaises,
           HandlingFails, Crash
  <2> QED BY <2>1, ListenerAssumption DEF Marks
<1>7. revoked' \in [Ids -> 0..MaxUpdate]
  <2>1. cur \in 0..MaxUpdate
    BY ListenerAssumption DEF Queue
  <2>2. CASE Start
    BY <2>2, ListenerAssumption DEF Start, Marks
  <2>3. CASE Manage
    <3>1. \/ revoked' = revoked
          \/ revoked' = [revoked EXCEPT ![Request.id] = IF @ < cur THEN 0 ELSE @]
          \/ revoked' = [id \in Ids |-> IF id \in Held(Removable(Bound, Request.id)) THEN cur
                                       ELSE revoked[id]]
      BY <2>3 DEF Manage
    <3> QED BY <2>1, <3>1, ListenerAssumption DEF Marks
  <2>4. CASE ~Start /\ ~Manage
    <3>1. revoked' = revoked
      BY <2>4 DEF Next, vars, Send, Block, Listener, Begin, Handle, Await, Faulty, Run, RunReturns,
                  Initialize, BackoffEnds, Poll, SleepEnds, Ignore, HandleLater, Forget,
                  ChatAnswers, ChatFails, NoticeSent, TaskEnds, StreamEnds, ReplySent, SendRefused,
                  Acknowledge, InitializeFails, PollFails, StreamBreaks, HandlerRaises,
                  HandlingFails, Crash
    <3> QED BY <3>1 DEF Marks
  <2> QED BY <2>2, <2>3, <2>4
<1> QED BY <1>1, <1>3, <1>4, <1>5, <1>6, <1>7 DEF Marks

\* The variables keep their types: an update is in hand exactly between poll and
\* acknowledgement, and no history has more rows than it may.
THEOREM TypeCorrect == Spec => []TypeOK
<1>1. UInv /\ Queue /\ Excused /\ Memory /\ Marks => TypeOK
  <2> SUFFICES ASSUME UInv, Queue, Excused, Memory, Marks PROVE TypeOK
    OBVIOUS
  <2>1. \A c \in Chats : history[c] \in Seq(Sent \X {"user", "assistant"}) /\ Len(history[c]) <= Keep
    <3> SUFFICES ASSUME NEW c \in Chats PROVE history[c] \in Seq(Sent \X {"user", "assistant"})
      BY DEF Memory
    <3>1. history[c] \in Seq(Entries) /\ \A i \in DOMAIN history[c] : history[c][i][1] <= Len(updates)
      BY DEF Memory
    <3>2. \A i \in 1..Len(history[c]) : history[c][i] \in Sent \X {"user", "assistant"}
      <4> SUFFICES ASSUME NEW i \in 1..Len(history[c])
                   PROVE  history[c][i] \in Sent \X {"user", "assistant"}
        OBVIOUS
      <4>1. history[c][i] \in Entries /\ history[c][i][1] <= Len(updates)
        BY <3>1
      <4>2. history[c][i][1] \in Sent
        BY <4>1, ListenerAssumption DEF Entries, Ids2Send, Sent, Queue
      <4> QED BY <4>1, <4>2 DEF Entries
    <3> QED BY <3>1, <3>2
  <2>2. /\ users \subseteq Row /\ effects \in [Ids2Send -> 0..MaxCount]
        /\ mishaps \in [Ids2Send -> 0..MaxCount]
    BY DEF UInv, Proper, Excused, Counted
  <2> QED BY <2>1, <2>2 DEF TypeOK, Queue, Memory, Marks, InHand
<1>2. Spec => []UInv
  BY InitUInv, NextUInv, PTL DEF Spec
<1>3. Spec => []Queue
  BY QueueInvariance
<1>4. Spec => []Excused
  BY <1>3, InitExcused, NextExcused, PTL DEF Spec
<1>5. Spec => []Memory
  BY <1>3, InitMemory, NextMemory, PTL DEF Spec
<1>6. Spec => []Marks
  BY <1>3, InitMarks, NextMarks, PTL DEF Spec
<1> QED BY <1>1, <1>2, <1>3, <1>4, <1>5, <1>6, PTL

=============================================================================
