----------------------------- MODULE BotListener ----------------------------
(***************************************************************************)
(* The Telegram bot of bot_listener.py: supervised start, long polling     *)
(* with a stored update offset, and the handling of one update at a time.  *)
(*                                                                         *)
(* A handler runs without a pause up to its next await: authorisation, the *)
(* binding of the chat and /allow, /revoke or /forget are one step.  Then  *)
(* come the awaits: a message to Telegram, an answer of the language       *)
(* model, the stream of an A2A task, the offset.  The commands that only   *)
(* read are one request, "read"; /talos, /campaign and voice notes, which  *)
(* announce a task and start it, are "task"; /ask is the same with a chat  *)
(* exchange at its end; plain text is "chat"; "malformed" is a command     *)
(* whose handler raises before it has done anything, "/rpc 1".  An         *)
(* identifier of None in /allow and /revoke is one that names nobody, "@". *)
(* Telegram is external.                                                   *)
(***************************************************************************)
EXTENDS BotUsers, Integers, Sequences

CONSTANTS
  Requests,      \* what may be sent: [cmd, from, id, owner]
  Enabled,       \* what the configuration may say at a start, of BOOLEAN
  HistoryLimit,  \* OLLAMA_CHAT_HISTORY_MESSAGES
  MayBlock,      \* chats that may block the bot
  Unsendable,    \* requests for which the bot composes a message that Telegram
                 \* takes for a bad request: "/campaign a_b" with its Markdown
  MaxUpdate,     \* bound: updates sent
  MaxFaults,     \* bound: crashes, failed calls and broken streams together
  MaxCount       \* bound: where the two counters per update stop counting

Senders == [chat : Chats, name : Names \union {None}, private : BOOLEAN]
Commands ==
  {"read", "silent", "chat", "ask", "task", "malformed", "forget", "allow", "revoke"}

ASSUME ListenerAssumption ==
  /\ Requests \subseteq [cmd : Commands, from : Senders, id : Ids \union {None}, owner : BOOLEAN]
  /\ Enabled \subseteq BOOLEAN /\ Enabled # {}
  /\ HistoryLimit \in Nat
  /\ MayBlock \subseteq Chats
  /\ Unsendable \subseteq Requests
  /\ MaxUpdate \in Nat /\ MaxFaults \in Nat /\ MaxCount \in Nat \ {0}

VARIABLES
  updates,    \* updates of the bot so far, their ids being 1, 2, ...
  confirmed,  \* Telegram has forgotten the updates up to this one
  blocked,    \* chats that refuse messages of the bot
  offset,     \* bot_state telegram_bot_update_offset, 0 when there is none
  users,      \* telegram_bot_users
  history,    \* telegram_chat_messages, per chat: <<update, role>> rows
  enabled,    \* TELEGRAM_ALERT_ENABLED with a token, as read at the start; FALSE
              \* while the process is down
  pc,         \* what the listener is about to do or waits for
  cur,        \* the update it handles, 0 when none
  upto,       \* the last update of the batch it got
  running,    \* updates whose A2A task or answer is under way
  effects,    \* history variable: how often each update took effect
  mishaps,    \* history variable: what went wrong while each was handled
  answered,   \* history variable: updates Telegram accepted a message for
  passed,     \* history variable: updates that get none
  revoked,    \* history variable: per identifier the update that revoked it, 0
              \* when none did or a later one allowed it
  forgot,     \* history variable: the last /forget of each chat
  broken,     \* history variable: updates whose stream broke
  faults

telegramVars == <<updates, confirmed, blocked>>
tableVars == <<offset, users, history>>
loopVars == <<enabled, pc, cur, upto, running>>
pastVars == <<effects, mishaps, answered, passed, revoked, forgot, broken>>
vars == <<telegramVars, tableVars, loopVars, pastVars, faults>>

Sent == 1..Len(updates)
Ids2Send == 1..MaxUpdate
Chat(u) == updates[u].from.chat
Refuses(u) == Chat(u) \in blocked \/ updates[u] \in Unsendable
Count(f, u) == [f EXCEPT ![u] = IF @ < MaxCount THEN @ + 1 ELSE @]

Init ==
  /\ updates = << >> /\ confirmed = 0 /\ blocked = {}
  /\ offset = 0 /\ users = {}
  /\ history = [c \in Chats |-> << >>]
  /\ enabled = FALSE
  /\ pc = "down" /\ cur = 0 /\ upto = 0 /\ running = {}
  /\ effects = [u \in Ids2Send |-> 0] /\ mishaps = [u \in Ids2Send |-> 0]
  /\ answered = {} /\ passed = {} /\ broken = {}
  /\ revoked = [id \in Ids |-> 0]
  /\ forgot = [c \in Chats |-> 0]
  /\ faults = 0

-----------------------------------------------------------------------------
(* Telegram and the people who write.                                      *)

Send ==
  /\ Len(updates) < MaxUpdate
  /\ \E r \in Requests : updates' = Append(updates, r)
  /\ UNCHANGED <<confirmed, blocked, tableVars, loopVars, pastVars, faults>>

\* Somebody has blocked the bot: Telegram answers 403 to every message for the
\* chat.  It shows when the bot is about to write there, and not before.
Block ==
  /\ pc \in {"reply", "notice"}
  /\ Chat(cur) \in MayBlock \ blocked
  /\ blocked' = blocked \union {Chat(cur)}
  /\ UNCHANGED <<updates, confirmed, tableVars, loopVars, pastVars, faults>>

-----------------------------------------------------------------------------
(* Start and polling.                                                      *)

Stop == pc' = "sleep" /\ cur' = 0 /\ upto' = 0

\* The process starts: the settings are read, the users are seeded.
Start ==
  /\ pc = "down"
  /\ pc' = "call"
  /\ enabled' \in Enabled
  /\ users' = Seed(users)
  /\ revoked' = [id \in Ids |-> IF id \in Seeded THEN 0 ELSE revoked[id]]
  /\ UNCHANGED <<telegramVars, offset, history, cur, upto, running, effects,
                 mishaps, answered, passed, forgot, broken, faults>>

\* supervise calls run(), which does not reach an await before the offset has
\* to be fetched or the first poll is on its way.
Run ==
  /\ pc = "call"
  /\ enabled /\ users # {}
  /\ pc' = IF offset = 0 THEN "init" ELSE "poll"
  /\ UNCHANGED <<telegramVars, tableVars, enabled, cur, upto, running, pastVars, faults>>

\* A disabled listener returns at once and is called again at once: between
\* the two there is no await, and nothing has changed.
RunReturns ==
  /\ pc = "call"
  /\ ~enabled \/ users = {}
  /\ UNCHANGED vars

\* What getUpdates with offset -1 makes Telegram forget.
Older == confirmed + 1 .. Len(updates) - 1

\* _initialize_offset: the newest update counts as handled.
Initialize ==
  /\ pc = "init"
  /\ pc' = "poll"
  /\ IF confirmed < Len(updates)
     THEN /\ offset' = Len(updates) + 1
          /\ confirmed' = Len(updates) - 1
          /\ passed' = passed \union Older \union {Len(updates)}
     ELSE UNCHANGED <<offset, confirmed, passed>>
  /\ UNCHANGED <<updates, blocked, users, history, enabled, cur, upto, running,
                 effects, mishaps, answered, revoked, forgot, broken, faults>>

\* The request fails, before or after Telegram has served it; run() ends and
\* supervise waits.
InitializeFails ==
  /\ pc = "init"
  /\ faults < MaxFaults
  /\ faults' = faults + 1
  /\ pc' = "backoff"
  /\ \/ UNCHANGED <<confirmed, passed>>
     \/ /\ Older # {}
        /\ confirmed' = Len(updates) - 1
        /\ passed' = passed \union Older
  /\ UNCHANGED <<updates, blocked, tableVars, enabled, cur, upto, running, effects,
                 mishaps, answered, revoked, forgot, broken>>

BackoffEnds ==
  /\ pc = "backoff"
  /\ pc' = "call"
  /\ UNCHANGED <<telegramVars, tableVars, enabled, cur, upto, running, pastVars, faults>>

\* Mutant: the id after the stored offset is asked for.
PollAhead ==
  /\ pc = "poll"
  /\ LET known == IF offset > confirmed + 1 THEN offset ELSE confirmed
     IN  /\ confirmed' = known
         /\ IF known < Len(updates)
            THEN pc' = "handle" /\ cur' = known + 1 /\ upto' = Len(updates)
            ELSE Stop
  /\ UNCHANGED <<updates, blocked, tableVars, enabled, running, pastVars, faults>>

\* Mutant: the offset is not sent, so that Telegram never forgets.
PollFromStart ==
  /\ pc = "poll"
  /\ IF confirmed < Len(updates)
     THEN pc' = "handle" /\ cur' = confirmed + 1 /\ upto' = Len(updates)
     ELSE Stop
  /\ UNCHANGED <<telegramVars, tableVars, enabled, running, pastVars, faults>>

\* getUpdates is answered: the offset confirms what is below it, the batch is
\* everything else.
Poll ==
  /\ pc = "poll"
  /\ LET known == IF offset > confirmed + 1 THEN offset - 1 ELSE confirmed
     IN  /\ confirmed' = known
         /\ IF known < Len(updates)
            THEN pc' = "handle" /\ cur' = known + 1 /\ upto' = Len(updates)
            ELSE Stop
  /\ UNCHANGED <<updates, blocked, tableVars, enabled, running, pastVars, faults>>

\* getUpdates raises; what the offset confirmed may be forgotten all the same.
PollFails ==
  /\ pc = "poll"
  /\ faults < MaxFaults
  /\ faults' = faults + 1
  /\ confirmed' \in {confirmed, IF offset > confirmed + 1 THEN offset - 1 ELSE confirmed}
  /\ Stop
  /\ UNCHANGED <<updates, blocked, tableVars, enabled, running, pastVars>>

SleepEnds ==
  /\ pc = "sleep"
  /\ pc' = "poll"
  /\ UNCHANGED <<telegramVars, tableVars, enabled, cur, upto, running, pastVars, faults>>

-----------------------------------------------------------------------------
(* _handle_update up to its first await.                                   *)

Request == updates[cur]
Sender == Request.from
IsAuthorized == Allowed(users, Sender.chat, Sender.name)
Bound == IF Sender.private THEN Bind(users, Sender.chat, Sender.name) ELSE users

Ignore ==
  /\ pc = "handle"
  /\ ~IsAuthorized
  /\ pc' = "ack"
  /\ passed' = passed \union {cur}
  /\ UNCHANGED <<telegramVars, tableVars, enabled, cur, upto, running, effects,
                 mishaps, answered, revoked, forgot, broken, faults>>

\* Where the handling of a request that changes nothing yet goes on.  A message
\* without text or voice note is not answered.
FirstAwait == [read |-> "reply", chat |-> "llm", ask |-> "notice", task |-> "notice",
               silent |-> "ack"]

HandleLater ==
  /\ pc = "handle"
  /\ IsAuthorized
  /\ Request.cmd \in DOMAIN FirstAwait
  /\ users' = Bound
  /\ pc' = FirstAwait[Request.cmd]
  /\ passed' = IF Request.cmd = "silent" THEN passed \union {cur} ELSE passed
  /\ UNCHANGED <<telegramVars, offset, history, enabled, cur, upto, running, effects,
                 mishaps, answered, revoked, forgot, broken, faults>>

\* clear_chat_history.
Forget ==
  /\ pc = "handle"
  /\ IsAuthorized
  /\ Request.cmd = "forget"
  /\ users' = Bound
  /\ history' = [history EXCEPT ![Sender.chat] = << >>]
  /\ forgot' = [forgot EXCEPT ![Sender.chat] = cur]
  /\ effects' = Count(effects, cur)
  /\ pc' = "reply"
  /\ UNCHANGED <<telegramVars, offset, enabled, cur, upto, running, mishaps,
                 answered, passed, revoked, broken, faults>>

\* The handler of a request that raises, at each attempt, with the users in T:
\* handle_rpc on a payload that is no object, ensure_bot_user without a chat id
\* and a username.
Raising(T, r) ==
  \/ r.cmd = "malformed"
  \/ r.cmd = "allow" /\ r.id = None /\ IsOwner(T, r.from.chat, r.from.name)

\* Nothing but the chat is bound, the batch is given up.
HandlingFails ==
  /\ pc = "handle"
  /\ IsAuthorized
  /\ Raising(Bound, Request)
  /\ users' = Bound
  /\ Stop
  /\ mishaps' = Count(mishaps, cur)
  /\ UNCHANGED <<telegramVars, offset, history, enabled, running, effects, answered,
                 passed, revoked, forgot, broken, faults>>

\* _owner_command with _allow_user or _revoke_user.
Manage ==
  /\ pc = "handle"
  /\ IsAuthorized
  /\ Request.cmd \in {"allow", "revoke"}
  /\ ~Raising(Bound, Request)
  /\ pc' = "reply"
  /\ IF ~IsOwner(Bound, Sender.chat, Sender.name)
     THEN users' = Bound /\ UNCHANGED <<revoked, effects>>
     ELSE /\ effects' = Count(effects, cur)
          /\ IF Request.cmd = "allow"
             THEN /\ users' = Ensure(Bound, Request.id, Request.owner)
                  /\ revoked' = [revoked EXCEPT ![Request.id] = IF @ < cur THEN 0 ELSE @]
             ELSE /\ users' = Bound \ Removable(Bound, Request.id)
                  /\ revoked' = [id \in Ids |->
                                   IF id \in Held(Removable(Bound, Request.id)) THEN cur
                                   ELSE revoked[id]]
  /\ UNCHANGED <<telegramVars, offset, history, enabled, cur, upto, running, mishaps,
                 answered, passed, forgot, broken, faults>>

-----------------------------------------------------------------------------
(* The awaits of a handler.                                                *)

Keep == IF HistoryLimit > 2 THEN HistoryLimit ELSE 2
Newest(rows, n) == IF Len(rows) > n THEN SubSeq(rows, Len(rows) - n + 1, Len(rows)) ELSE rows

\* Mutant: nothing is trimmed.
ExchangeUntrimmed(u) ==
  [history EXCEPT ![Chat(u)] = @ \o <<<<u, "user">>, <<u, "assistant">>>>]

\* record_chat_exchange: question and answer go in together, the oldest rows
\* out.
Exchange(u) ==
  [history EXCEPT ![Chat(u)] =
     Newest(@ \o <<<<u, "user">>, <<u, "assistant">>>>, Keep)]

ChatAnswers ==
  /\ pc = "llm"
  /\ pc' = "reply"
  /\ history' = Exchange(cur)
  /\ effects' = Count(effects, cur)
  /\ UNCHANGED <<telegramVars, offset, users, enabled, cur, upto, running, mishaps,
                 answered, passed, revoked, forgot, broken, faults>>

\* Mutant: a call that timed out goes on and records its answer later.
ChatFailsRunningOn ==
  /\ pc = "llm"
  /\ pc' = "reply"
  /\ running' = running \union {cur}
  /\ UNCHANGED <<telegramVars, tableVars, enabled, cur, upto, pastVars, faults>>

\* The model fails or wait_for gives it up, and cancels it.
ChatFails ==
  /\ pc = "llm"
  /\ pc' = "reply"
  /\ UNCHANGED <<telegramVars, tableVars, enabled, cur, upto, running, pastVars, faults>>

\* "Initializing ..." is accepted, the task is submitted.
NoticeSent ==
  /\ pc = "notice"
  /\ ~Refuses(cur)
  /\ pc' = "stream"
  /\ answered' = answered \union {cur}
  /\ running' = running \union {cur}
  /\ effects' = Count(effects, cur)
  /\ UNCHANGED <<telegramVars, tableVars, enabled, cur, upto, mishaps, passed,
                 revoked, forgot, broken, faults>>

\* A task ends by itself; the answer to /ask is an exchange of the chat.
TaskEnds ==
  \E u \in running :
    /\ running' = running \ {u}
    /\ \/ UNCHANGED history
       \/ /\ updates[u].cmd # "task"
          /\ history' = Exchange(u)
    /\ UNCHANGED <<telegramVars, offset, users, enabled, pc, cur, upto, pastVars, faults>>

\* The stream of a task ends with the task.  The edits of the message on the
\* way never raise.
StreamEnds ==
  /\ pc = "stream"
  /\ cur \notin running
  /\ pc' = "ack"
  /\ UNCHANGED <<telegramVars, tableVars, enabled, cur, upto, running, pastVars, faults>>

\* The stream raises: the listener goes on, the task as well.
StreamBreaks ==
  /\ pc = "stream"
  /\ faults < MaxFaults
  /\ faults' = faults + 1
  /\ pc' = "ack"
  /\ broken' = broken \union {cur}
  /\ UNCHANGED <<telegramVars, tableVars, enabled, cur, upto, running, effects,
                 mishaps, answered, passed, revoked, forgot>>

ReplySent ==
  /\ pc = "reply"
  /\ ~Refuses(cur)
  /\ pc' = "ack"
  /\ answered' = answered \union {cur}
  /\ UNCHANGED <<telegramVars, tableVars, enabled, cur, upto, running, effects,
                 mishaps, passed, revoked, forgot, broken, faults>>

\* Mutant: a message that is refused is given up.
SendRefusedSwallowed ==
  /\ pc \in {"reply", "notice"}
  /\ Refuses(cur)
  /\ pc' = "ack"
  /\ UNCHANGED <<telegramVars, tableVars, enabled, cur, upto, running, pastVars, faults>>

\* sendMessage is answered with an error, 403 for the chat or 400 for the text:
\* the batch is given up.
SendRefused ==
  /\ pc \in {"reply", "notice"}
  /\ Refuses(cur)
  /\ Stop
  /\ mishaps' = Count(mishaps, cur)
  /\ UNCHANGED <<telegramVars, tableVars, enabled, running, effects, answered,
                 passed, revoked, forgot, broken, faults>>

\* A call raises that need not: the store in front of the first await, where the
\* chat may be bound already, sendMessage, served or not, the store under
\* submit_task or under the new offset.
HandlerRaises ==
  /\ pc \in {"handle", "reply", "notice", "ack"}
  /\ faults < MaxFaults
  /\ faults' = faults + 1
  /\ Stop
  /\ mishaps' = Count(mishaps, cur)
  /\ \/ UNCHANGED answered
     \/ /\ pc \in {"reply", "notice"} /\ ~Refuses(cur)
        /\ answered' = answered \union {cur}
  /\ \/ UNCHANGED users
     \/ /\ pc = "handle" /\ IsAuthorized
        /\ users' = Bound
  /\ UNCHANGED <<telegramVars, offset, history, enabled, running, effects, passed,
                 revoked, forgot, broken>>

\* Mutant: the offset is stored once per batch.
AcknowledgeBatch ==
  /\ pc = "ack"
  /\ offset' = IF cur < upto THEN offset ELSE cur + 1
  /\ IF cur < upto
     THEN pc' = "handle" /\ cur' = cur + 1 /\ upto' = upto
     ELSE Stop
  /\ UNCHANGED <<telegramVars, users, history, enabled, running, pastVars, faults>>

\* The offset is stored, the next update of the batch is taken.
Acknowledge ==
  /\ pc = "ack"
  /\ offset' = cur + 1
  /\ IF cur < upto
     THEN pc' = "handle" /\ cur' = cur + 1 /\ upto' = upto
     ELSE Stop
  /\ UNCHANGED <<telegramVars, users, history, enabled, running, pastVars, faults>>

\* The process dies and with it the tasks under way.
Crash ==
  /\ pc # "down"
  /\ faults < MaxFaults
  /\ faults' = faults + 1
  /\ pc' = "down" /\ cur' = 0 /\ upto' = 0 /\ running' = {} /\ enabled' = FALSE
  /\ mishaps' = IF cur = 0 THEN mishaps ELSE Count(mishaps, cur)
  /\ UNCHANGED <<telegramVars, tableVars, effects, answered, passed,
                 revoked, forgot, broken>>

-----------------------------------------------------------------------------
Begin == Start \/ Run \/ RunReturns \/ Initialize \/ BackoffEnds \/ Poll \/ SleepEnds
Handle == Ignore \/ HandleLater \/ Forget \/ Manage \/ HandlingFails
Await ==
  \/ ChatAnswers \/ ChatFails \/ NoticeSent \/ TaskEnds \/ StreamEnds
  \/ ReplySent \/ SendRefused \/ Acknowledge
Faulty ==
  InitializeFails \/ PollFails \/ StreamBreaks \/ HandlerRaises \/ Crash

Listener == Begin \/ Handle \/ Await
Next == Send \/ Block \/ Listener \/ Faulty

Spec == Init /\ [][Next]_vars
FairSpec == Spec /\ WF_vars(Listener)

-----------------------------------------------------------------------------
Places == {"down", "call", "init", "backoff", "poll", "sleep", "handle", "llm",
           "notice", "stream", "reply", "ack"}

\* Every variable keeps its type; an update is in hand exactly between poll and
\* acknowledgement, and the history of a chat has at most the rows it may.
TypeOK ==
  /\ updates \in Seq(Requests) /\ Len(updates) <= MaxUpdate
  /\ confirmed \in 0..Len(updates) /\ offset \in 0..Len(updates) + 1
  /\ blocked \subseteq Chats
  /\ users \subseteq Row
  /\ \A c \in Chats : history[c] \in Seq(Sent \X {"user", "assistant"}) /\ Len(history[c]) <= Keep
  /\ enabled \in BOOLEAN /\ pc \in Places
  /\ cur \in 0..upto /\ upto \in 0..Len(updates)
  /\ (cur # 0) <=> pc \in {"handle", "llm", "notice", "stream", "reply", "ack"}
  /\ running \subseteq Sent
  /\ effects \in [Ids2Send -> 0..MaxCount] /\ mishaps \in [Ids2Send -> 0..MaxCount]
  /\ answered \subseteq Sent /\ passed \subseteq Sent /\ broken \subseteq Sent
  /\ revoked \in [Ids -> 0..MaxUpdate]
  /\ forgot \in [Chats -> 0..MaxUpdate]
  /\ faults \in 0..MaxFaults

\* What Telegram has forgotten or the offset has left behind got a message that
\* Telegram accepted, or was not to get one (bot_listener.py:190-193).
NoUpdateLost ==
  \A u \in Sent : u < offset \/ u <= confirmed => u \in answered \union passed

\* An update takes effect again only if something went wrong while that very
\* update was handled, never because of another one of its batch.
RepeatedOnlyByMishap == \A u \in Ids2Send : effects[u] <= 1 + mishaps[u]

\* The unique columns of telegram_bot_users are never hit, however /allow by
\* chat id, /allow by username and bind_bot_user_chat follow on each other.
UsersUnique == Unique(users)

\* "keep your own numeric chat id in TELEGRAM_BOT_OWNER_CHAT_ID as a recovery
\* path" (README.md:352): whoever the configuration makes an owner is one as
\* long as the bot runs.
SeededOwnersOwn ==
  pc # "down" =>
    \A id \in Owners : \E r \in Find(users, id) : r.owner

\* A username that was revoked is out until a later update allows it or a start
\* seeds it; the repetition of an earlier /allow does not bring it back.  A chat
\* id may come back by itself, but only bound to a username that is in.
RevokedStaysOut ==
  \A r \in users :
    /\ r.name # None => revoked[r.name] = 0
    /\ r.name = None => revoked[r.chat] = 0

\* /forget is final: later rows only, unless the stream of the question broke
\* and its task was still at work.
ForgottenStaysForgotten ==
  \A c \in Chats : \A i \in DOMAIN history[c] :
    history[c][i][1] < forgot[c] => history[c][i][1] \in broken

\* An update that can never be acknowledged: Telegram refuses what the bot has to
\* say to it, or its handler raises.
Hopeless(u) ==
  \/ Refuses(u)
  \/ /\ Allowed(users, Chat(u), updates[u].from.name)
     /\ Raising(users, updates[u])

\* Every update is acknowledged in the end, with two exceptions.  The bot may be
\* switched off; and one hopeless update in front, or the update itself, is tried
\* every ten seconds for ever while all behind it wait (bot_listener.py:161-168,
\* 190-193): /allow @ of an owner, a refused text, a sender who blocked the bot.
EveryUpdateHandled ==
  \A u \in Ids2Send :
    \/ u \in Sent ~> \/ u < offset \/ u \in passed
                     \/ pc = "call" /\ ~enabled
    \/ <>[](\E v \in Sent : offset <= v /\ v <= u /\ Hopeless(v))

\* The listener shares the event loop with the source watcher and the outbox
\* publisher: it comes to an await again and again (app.py:141-169).
LoopIsShared == []<>(pc # "call")

=============================================================================
