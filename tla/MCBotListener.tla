---------------------------- MODULE MCBotListener ---------------------------
EXTENDS BotListener

CONSTANTS o, c, n

\* The owner o and a friend with chat c and username n, who write to the bot
\* in private.
Owner == [chat |-> o, name |-> None, private |-> TRUE]
Friend == [chat |-> c, name |-> n, private |-> TRUE]

Ask(who, cmd) == [cmd |-> cmd, from |-> who, id |-> None, owner |-> FALSE]
Admin(cmd, id, owner) == [cmd |-> cmd, from |-> Owner, id |-> id, owner |-> owner]

FriendAsks == {Ask(Friend, cmd) : cmd \in {"chat", "ask", "forget"}}
OwnerAsks == {Admin("allow", c, FALSE), Admin("revoke", c, FALSE), Admin("revoke", o, FALSE)}

\* Updates that can never be acknowledged: /allow @, a campaign whose announcement
\* Telegram refuses.
Refused == {Ask(Owner, "task")}
Odd == {Admin("allow", None, FALSE)} \union Refused

Mixed == FriendAsks \union OwnerAsks \union Odd
Few == {Ask(Owner, "read"), Ask(Owner, "task")}

=============================================================================
