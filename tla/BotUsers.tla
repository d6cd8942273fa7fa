------------------------------ MODULE BotUsers ------------------------------
(***************************************************************************)
(* The table telegram_bot_users (store.py) as a set of rows, and what the  *)
(* bot does with it: seeding at start, /allow, /revoke, the binding of a   *)
(* username to the private chat it writes from, and the match of a sender. *)
(*                                                                         *)
(* A row has a chat id, a username or both.  display_name is wording, and  *)
(* nothing ever clears alerts_enabled.                                     *)
(***************************************************************************)
CONSTANTS
  Chats,       \* numeric chat ids
  Names,       \* normalised usernames
  None,        \* SQL null
  SeedChats,   \* TELEGRAM_ALERT_CHAT_ID
  SeedNames,   \* TELEGRAM_BOT_ALLOWED_USERNAMES
  OwnerChats,  \* TELEGRAM_BOT_OWNER_CHAT_ID
  OwnerNames   \* TELEGRAM_BOT_OWNER_USERNAMES

ASSUME UsersAssumption ==
  /\ Chats \intersect Names = {}
  /\ None \notin Chats \union Names
  /\ SeedChats \subseteq Chats /\ OwnerChats \subseteq Chats
  /\ SeedNames \subseteq Names /\ OwnerNames \subseteq Names

Ids == Chats \union Names
Row == {r \in [chat : Chats \union {None}, name : Names \union {None}, owner : BOOLEAN] :
          r.chat # None \/ r.name # None}

Held(T) == ({r.chat : r \in T} \union {r.name : r \in T}) \ {None}

\* No two rows share a chat id or a username: the two unique columns.
Unique(T) ==
  \A r, s \in T :
    r # s => /\ r.chat = None \/ r.chat # s.chat
             /\ r.name = None \/ r.name # s.name

\* The rows an identifier names: _find_bot_user called with one of the two.
Find(T, id) == {r \in T : (id \in Chats /\ r.chat = id) \/ (id \in Names /\ r.name = id)}

\* A row inserted for an identifier.
Fresh(id, owner) ==
  [chat  |-> IF id \in Chats THEN id ELSE None,
   name  |-> IF id \in Names THEN id ELSE None,
   owner |-> owner]

\* ensure_bot_user with one identifier.  It never takes ownership away.
Ensure(T, id, owner) ==
  IF Find(T, id) = {} THEN T \union {Fresh(id, owner)}
  ELSE {IF r \in Find(T, id) THEN [r EXCEPT !.owner = @ \/ owner] ELSE r : r \in T}

\* Mutant: owners are not spared.
RemovableOwners(T, id) == Find(T, id)

\* The rows remove_bot_user deletes.
Removable(T, id) == {r \in Find(T, id) : ~r.owner}

\* Mutant: the chat may already have a row of its own.
BindAlways(T, chat, name) ==
  {IF r.name = name /\ name # None /\ r.chat = None THEN [r EXCEPT !.chat = chat] ELSE r : r \in T}

\* bind_bot_user_chat.
Bind(T, chat, name) ==
  IF \E r \in T : r.chat = chat THEN T
  ELSE {IF r.name = name /\ name # None /\ r.chat = None THEN [r EXCEPT !.chat = chat] ELSE r : r \in T}

Matches(T, chat, name) == {r \in T : r.chat = chat \/ (name # None /\ r.name = name)}
Allowed(T, chat, name) == Matches(T, chat, name) # {}
IsOwner(T, chat, name) == \E r \in Matches(T, chat, name) : r.owner

Owners == OwnerChats \union OwnerNames
Seeded == SeedChats \union SeedNames \union Owners

\* _seed_bot_users: ensure_bot_user for every configured identifier.  No two of
\* the calls undo each other.
Seed(T) ==
  {[r EXCEPT !.owner = @ \/ r.chat \in Owners \/ r.name \in Owners] : r \in T}
  \union {Fresh(id, id \in Owners) : id \in Seeded \ Held(T)}

=============================================================================
