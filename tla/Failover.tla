------------------------------ MODULE Failover ------------------------------
(***************************************************************************)
(* The two pollers of one Telegram bot: the primary (bot_listener.py) and  *)
(* the standby that is started during an outage of it                      *)
(* (management/telegram-failover.py).                                      *)
(*                                                                         *)
(* Each has a database of its own and so an offset of its own; all they    *)
(* share is what Telegram keeps: the updates nobody has confirmed, and the *)
(* rule that of two getUpdates under way the older is answered with 409.   *)
(* The standby takes that for the return of the primary and ends.          *)
(*                                                                         *)
(* What is done with an update is in BotListener, here it is one step.     *)
(* Some updates are hopeless: whoever handles them, the handler raises,    *)
(* mostly because Telegram refuses the answer to a chat that blocked the   *)
(* bot.  Nothing ever acknowledges those.                                  *)
(*                                                                         *)
(* A poll lasts 30 seconds and the pause after it 10, so that the polls of *)
(* two idle pollers always meet; a poll that ends without updates and the  *)
(* next one are therefore one.                                             *)
(***************************************************************************)
EXTENDS Integers

CONSTANTS
  MaxUpdates,   \* bound: updates sent to the bot
  MaxStarts,    \* bound: starts of each poller
  MaxFailures   \* bound: crashes, failed calls and hopeless updates together

ASSUME FailoverAssumption ==
  MaxUpdates \in Nat /\ MaxStarts \in Nat /\ MaxFailures \in Nat

Primary == "primary"
Standby == "standby"
Pollers == {Primary, Standby}
Other(p) == IF p = Primary THEN Standby ELSE Primary
Updates == 1..MaxUpdates

VARIABLES
  newest,     \* updates sent so far, numbered from 1
  confirmed,  \* Telegram has forgotten those up to this one
  hopeless,   \* those whose handling raises at every attempt, by either poller
  place,      \* per poller: "off", "init", "ask", "asked", "handle", "store", "pause"
  offset,     \* per poller: its stored offset, -1 when there is none
  current,    \* per poller: the update it handles, 0 when none
  upTo,       \* per poller: the last one of its batch
  handled,    \* history variable: per poller, the updates that took effect
  twice,      \* history variable: per poller, those that did so again
  broken,     \* history variable: per poller, those it was interrupted in
  untold,     \* history variable: what a poller had handled when it died, but
              \* Telegram had not been told of
  overlap,    \* history variable: what was handed to a poller while the other
              \* was at work
  skipped,    \* history variable: what the first start of the primary passes over
  starts,     \* per poller: how often it was started
  failures

telegramState == <<newest, confirmed, hopeless>>
handoverState == <<untold, overlap, skipped>>
pastState == <<handled, twice, broken, handoverState>>
boundState == <<starts, failures>>
failoverVars == <<telegramState, place, offset, current, upTo, pastState, boundState>>

FailoverTypeOK ==
  /\ newest \in 0..MaxUpdates /\ confirmed \in 0..newest /\ hopeless \subseteq 1..newest
  /\ place \in [Pollers -> {"off", "init", "ask", "asked", "handle", "store", "pause"}]
  /\ offset \in [Pollers -> -1..newest + 1]
  /\ current \in [Pollers -> 0..newest] /\ upTo \in [Pollers -> 0..newest]
  /\ \A p \in Pollers :
       /\ place[p] \in {"handle", "store"} <=> current[p] # 0
       /\ current[p] <= upTo[p]
       /\ p = Standby /\ place[p] # "off" => offset[p] # -1
  /\ handled \in [Pollers -> SUBSET Updates] /\ twice \in [Pollers -> SUBSET Updates]
  /\ broken \in [Pollers -> SUBSET Updates]
  /\ untold \subseteq Updates /\ overlap \subseteq Updates /\ skipped \subseteq Updates
  /\ starts \in [Pollers -> 0..MaxStarts] /\ failures \in 0..MaxFailures

FailoverInit ==
  /\ newest = 0 /\ confirmed = 0 /\ hopeless = {}
  /\ place = [p \in Pollers |-> "off"]
  /\ offset = [p \in Pollers |-> -1]
  /\ current = [p \in Pollers |-> 0] /\ upTo = [p \in Pollers |-> 0]
  /\ handled = [p \in Pollers |-> {}] /\ twice = [p \in Pollers |-> {}]
  /\ broken = [p \in Pollers |-> {}]
  /\ untold = {} /\ overlap = {} /\ skipped = {}
  /\ starts = [p \in Pollers |-> 0] /\ failures = 0

Moves(p, to) == place' = [place EXCEPT ![p] = to]
Leaves(p, to) ==
  /\ Moves(p, to)
  /\ current' = [current EXCEPT ![p] = 0]
  /\ upTo' = [upTo EXCEPT ![p] = 0]
Fails == failures < MaxFailures /\ failures' = failures + 1

\* What the request of p confirms: everything below its offset.
KnownTo(p) == IF offset[p] > confirmed + 1 THEN offset[p] - 1 ELSE confirmed

-----------------------------------------------------------------------------
SendUpdate ==
  /\ newest < MaxUpdates
  /\ newest' = newest + 1
  /\ \/ UNCHANGED <<hopeless, failures>>
     \/ /\ Fails
        /\ hopeless' = hopeless \union {newest + 1}
  /\ UNCHANGED <<confirmed, place, offset, current, upTo, pastState, starts>>

\* Mutant: the standby starts as the primary does.
StandbyStartsFresh ==
  /\ place[Standby] = "off"
  /\ starts[Standby] < MaxStarts
  /\ starts' = [starts EXCEPT ![Standby] = @ + 1]
  /\ Moves(Standby, IF offset[Standby] = -1 THEN "init" ELSE "ask")
  /\ UNCHANGED <<telegramState, offset, current, upTo, pastState, failures>>

\* main of telegram-failover.py: an offset of 0 in the place of none, so that
\* what was sent during the outage is not taken for old.
StandbyStarts ==
  /\ place[Standby] = "off"
  /\ starts[Standby] < MaxStarts
  /\ starts' = [starts EXCEPT ![Standby] = @ + 1]
  /\ offset' = [offset EXCEPT ![Standby] = IF @ = -1 THEN 0 ELSE @]
  /\ Moves(Standby, "ask")
  /\ UNCHANGED <<telegramState, current, upTo, pastState, failures>>

\* run of bot_listener.py.
PrimaryStarts ==
  /\ place[Primary] = "off"
  /\ starts[Primary] < MaxStarts
  /\ starts' = [starts EXCEPT ![Primary] = @ + 1]
  /\ Moves(Primary, IF offset[Primary] = -1 THEN "init" ELSE "ask")
  /\ UNCHANGED <<telegramState, offset, current, upTo, pastState, failures>>

\* Mutant: 409 is one error among others for both pollers.
RequestsRegardless(p, to) ==
  place' = [place EXCEPT ![p] = to,
              ![Other(p)] = IF @ = "asked" THEN "pause" ELSE @]

\* A request of p is on its way: a poll of the other one ends with 409.  The
\* primary pauses and asks again, the standby ends for good (PrimaryPollerActive,
\* exit code 0).
Requests(p, to) ==
  place' = [place EXCEPT ![p] = to,
              ![Other(p)] = IF @ # "asked" THEN @
                            ELSE IF p = Primary THEN "off" ELSE "pause"]

\* _initialize_offset: getUpdates with offset -1 returns the newest update, which
\* then counts as handled, and makes Telegram forget the ones before it.
Initializes(p) ==
  /\ place[p] = "init"
  /\ Requests(p, "ask")
  /\ IF confirmed < newest
     THEN /\ offset' = [offset EXCEPT ![p] = newest + 1]
          /\ confirmed' = newest - 1
          /\ skipped' = IF p = Primary THEN skipped \union confirmed + 1 .. newest ELSE skipped
     ELSE UNCHANGED <<offset, confirmed, skipped>>
  /\ UNCHANGED <<newest, hopeless, current, upTo, handled, twice, broken, untold, overlap,
                 boundState>>

\* Mutant: the offset is not sent.
AsksWithoutOffset(p) ==
  /\ place[p] = "ask"
  /\ Requests(p, "asked")
  /\ UNCHANGED <<telegramState, offset, current, upTo, pastState, boundState>>

\* getUpdates: what is below the offset is forgotten.
Asks(p) ==
  /\ place[p] = "ask"
  /\ Requests(p, "asked")
  /\ confirmed' = KnownTo(p)
  /\ UNCHANGED <<newest, hopeless, offset, current, upTo, pastState, boundState>>

\* The batch: everything Telegram still has.
Answered(p) ==
  /\ place[p] = "asked"
  /\ confirmed < newest
  /\ Moves(p, "handle")
  /\ current' = [current EXCEPT ![p] = confirmed + 1]
  /\ upTo' = [upTo EXCEPT ![p] = newest]
  /\ overlap' = IF place[Other(p)] = "off" THEN overlap
                ELSE overlap \union confirmed + 1 .. newest
  /\ UNCHANGED <<telegramState, offset, handled, twice, broken, untold, skipped, boundState>>

\* _handle_update up to its effect.
Handles(p) ==
  /\ place[p] = "handle"
  /\ handled' = [handled EXCEPT ![p] = @ \union {current[p]}]
  /\ twice' = [twice EXCEPT ![p] = IF current[p] \in handled[p] THEN @ \union {current[p]}
                                   ELSE @]
  /\ Moves(p, "store")
  /\ UNCHANGED <<telegramState, offset, current, upTo, broken, handoverState, boundState>>

\* Mutant: the offset of the whole batch is stored with its first update.
StoresAhead(p) ==
  /\ place[p] = "store"
  /\ current[p] \notin hopeless
  /\ offset' = [offset EXCEPT ![p] = upTo[p] + 1]
  /\ IF current[p] < upTo[p]
     THEN /\ Moves(p, "handle")
          /\ current' = [current EXCEPT ![p] = @ + 1]
          /\ UNCHANGED upTo
     ELSE Leaves(p, "pause")
  /\ UNCHANGED <<telegramState, pastState, boundState>>

\* The offset after the update, then the next one of the batch.
Stores(p) ==
  /\ place[p] = "store"
  /\ current[p] \notin hopeless
  /\ offset' = [offset EXCEPT ![p] = current[p] + 1]
  /\ IF current[p] < upTo[p]
     THEN /\ Moves(p, "handle")
          /\ current' = [current EXCEPT ![p] = @ + 1]
          /\ UNCHANGED upTo
     ELSE Leaves(p, "pause")
  /\ UNCHANGED <<telegramState, pastState, boundState>>

PauseEnds(p) ==
  /\ place[p] = "pause"
  /\ Moves(p, "ask")
  /\ UNCHANGED <<telegramState, offset, current, upTo, pastState, boundState>>

\* The handler of a hopeless update raises, before or after its effect: the batch
\* is given up and comes again after the pause.
Refused(p) ==
  /\ place[p] \in {"handle", "store"}
  /\ current[p] \in hopeless
  /\ Leaves(p, "pause")
  /\ broken' = [broken EXCEPT ![p] = @ \union {current[p]}]
  /\ UNCHANGED <<telegramState, offset, handled, twice, handoverState, boundState>>

\* Another call raises, before or after the update took effect: the batch is given up.
Raises(p) ==
  /\ place[p] \in {"asked", "handle", "store"}
  /\ Fails
  /\ Leaves(p, "pause")
  /\ broken' = [broken EXCEPT ![p] = IF current[p] = 0 THEN @ ELSE @ \union {current[p]}]
  /\ UNCHANGED <<telegramState, offset, handled, twice, handoverState, starts>>

\* The process or its host dies.
Dies(p) ==
  /\ place[p] # "off"
  /\ Fails
  /\ Leaves(p, "off")
  /\ broken' = [broken EXCEPT ![p] = IF current[p] = 0 THEN @ ELSE @ \union {current[p]}]
  /\ untold' = untold \union {u \in handled[p] : u > confirmed}
  /\ UNCHANGED <<telegramState, offset, handled, twice, overlap, skipped, starts>>

-----------------------------------------------------------------------------
Polling(p) ==
  \/ Initializes(p) \/ Asks(p) \/ Answered(p) \/ Handles(p) \/ Refused(p) \/ Stores(p)
  \/ PauseEnds(p)

FailoverNext ==
  \/ SendUpdate \/ StandbyStarts \/ PrimaryStarts
  \/ \E p \in Pollers : Polling(p) \/ Raises(p) \/ Dies(p)

FailoverSpec == FailoverInit /\ [][FailoverNext]_failoverVars

\* Each process goes on as long as it lives.  Nobody is bound to start one.
FailoverFairness == \A p \in Pollers : WF_failoverVars(Polling(p))

-----------------------------------------------------------------------------
(* Properties.                                                             *)

\* What Telegram has forgotten was handled by one of the two, whoever told it to
\* forget, or was pending when the primary started for the first time: a standby
\* is there to "process pending outage messages rather than dropping the newest
\* one" (telegram-failover.py:62), and the primary comes back with an old offset.
OutageLosesNothing ==
  \A u \in 1..confirmed : u \in handled[Primary] \union handled[Standby] \union skipped

\* A poller repeats an update only where it was interrupted itself: whatever the
\* other one confirms, it never goes back.  Both handle an update only if it was
\* handed out while both were at work, if one was interrupted in it, or if one died
\* before it told Telegram: a standby that waits when the primary comes back hands
\* over without a trace.
RepeatHasCause ==
  /\ \A p \in Pollers : twice[p] \subseteq broken[p]
  /\ handled[Primary] \intersect handled[Standby]
       \subseteq overlap \union untold \union broken[Primary] \union broken[Standby]

\* What holds up everybody behind it: hopeless, and pending.
Stuck == {v \in hopeless : v > confirmed}

\* Once the primary is there for good, the standby goes away in the end
\* (PrimaryPollerActive, telegram-failover.py:78-84), unless an update is stuck:
\* then every poll of either is answered at once, and no two need ever meet.
StandbyYields ==
  <>[](place[Primary] # "off") => <>[](place[Standby] = "off") \/ <>[](Stuck # {})

\* A poller that stays is enough, whichever of the two it is and however often
\* calls failed before: each update that is sent takes effect in the end, here or
\* there, unless it is stuck itself or behind one that is (bot_listener.py:190-193).
EveryUpdateServed ==
  (\E p \in Pollers : <>[](place[p] # "off")) =>
    <>[](\A u \in 1..newest :
           \/ u \in handled[Primary] \union handled[Standby] \union skipped
           \/ \E v \in Stuck : v <= u)

=============================================================================
