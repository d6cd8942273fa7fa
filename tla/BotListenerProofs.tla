-------------------------- MODULE BotListenerProofs -------------------------
(***************************************************************************)
(* Proofs about the users of the bot, for any configuration, any senders   *)
(* and any bounds: the unique columns of telegram_bot_users are never hit, *)
(* and who is configured as an owner stays one.  Both rest on lemmas about *)
(* the statements of BotUsers and on a listener that has an update of the  *)
(* queue in hand whenever it handles one.                                  *)
(***************************************************************************)
EXTENDS BotListener, TLAPS

-----------------------------------------------------------------------------
(* The statements on the table.                                            *)

Proper(T) == T \subseteq Row /\ Unique(T)
Owned(T) == \A id \in Owners : \E r \in Find(T, id) : r.owner

\* What remains of a proper table is proper.
LEMMA PartProper == ASSUME NEW T, Proper(T), NEW S, S \subseteq T PROVE Proper(S)
  BY DEF Proper, Unique

\* bind_bot_user_chat writes into one row, and only a chat nobody has.
LEMMA BindProper ==
  ASSUME NEW T, Proper(T), NEW chat \in Chats, NEW name \in Names \union {None}
  PROVE  Proper(Bind(T, chat, name))
<1> DEFINE Hit(r) == r.name = name /\ name # None /\ r.chat = None
           New(r) == IF Hit(r) THEN [r EXCEPT !.chat = chat] ELSE r
<1>1. CASE \E r \in T : r.chat = chat
  BY <1>1 DEF Bind
<1>2. CASE ~\E r \in T : r.chat = chat
  <2>1. Bind(T, chat, name) = {New(r) : r \in T}
    BY <1>2 DEF Bind
  <2>2. ASSUME NEW r \in T
        PROVE  /\ New(r) \in Row
               /\ New(r).name = r.name
               /\ New(r).chat = IF Hit(r) THEN chat ELSE r.chat
    BY UsersAssumption, <2>2 DEF Proper, Row
  <2>3. ASSUME NEW r \in T, NEW s \in T, New(r) # New(s)
        PROVE  /\ New(r).chat = None \/ New(r).chat # New(s).chat
               /\ New(r).name = None \/ New(r).name # New(s).name
    <3>1. r # s
      BY <2>3
    <3>2. /\ r.chat = None \/ r.chat # s.chat
          /\ r.name = None \/ r.name # s.name
      BY <3>1 DEF Proper, Unique
    <3>3. ~(Hit(r) /\ Hit(s))
      BY <3>2
    <3>4. r.chat # chat /\ s.chat # chat
      BY <1>2
    <3> HIDE DEF New
    <3> QED BY <2>2, <3>2, <3>3, <3>4
  <2> HIDE DEF New
  <2> QED BY <2>1, <2>2, <2>3 DEF Proper, Unique
<1> QED BY <1>1, <1>2

\* A row inserted for an identifier nobody has.
LEMMA FreshRow ==
  ASSUME NEW id \in Ids, NEW owner \in BOOLEAN
  PROVE  /\ Fresh(id, owner) \in Row
         /\ Fresh(id, owner).owner = owner
         /\ id \in Chats => Fresh(id, owner).chat = id /\ Fresh(id, owner).name = None
         /\ id \in Names => Fresh(id, owner).name = id /\ Fresh(id, owner).chat = None
  BY UsersAssumption DEF Ids, Fresh, Row

\* ensure_bot_user inserts only what nobody has, and an update keeps both
\* columns.
LEMMA EnsureProper ==
  ASSUME NEW T, Proper(T), NEW id \in Ids, NEW owner \in BOOLEAN
  PROVE  Proper(Ensure(T, id, owner))
<1>1. CASE Find(T, id) = {}
  <2>1. Ensure(T, id, owner) = T \union {Fresh(id, owner)}
    BY <1>1 DEF Ensure
  <2>2. \A r \in T : (id \in Chats => r.chat # id) /\ (id \in Names => r.name # id)
    BY <1>1 DEF Find
  <2> QED BY <2>1, <2>2, FreshRow DEF Proper, Unique, Ids
<1>2. CASE Find(T, id) # {}
  <2> DEFINE New(r) == IF r \in Find(T, id) THEN [r EXCEPT !.owner = @ \/ owner] ELSE r
  <2>1. Ensure(T, id, owner) = {New(r) : r \in T}
    BY <1>2 DEF Ensure
  <2>2. ASSUME NEW r \in T
        PROVE  New(r) \in Row /\ New(r).name = r.name /\ New(r).chat = r.chat
    BY DEF Proper, Row
  <2>3. ASSUME NEW r \in T, NEW s \in T, New(r) # New(s) PROVE r # s
    BY <2>3
  <2> HIDE DEF New
  <2> QED BY <2>1, <2>2, <2>3 DEF Proper, Unique
<1> QED BY <1>1, <1>2

\* _seed_bot_users.
LEMMA SeedProper == ASSUME NEW T, Proper(T) PROVE Proper(Seed(T))
<1> DEFINE New(r) == [r EXCEPT !.owner = @ \/ r.chat \in Owners \/ r.name \in Owners]
           Old == {New(r) : r \in T}
           Added == {Fresh(id, id \in Owners) : id \in Seeded \ Held(T)}
<1>1. Seed(T) = Old \union Added
  BY DEF Seed
<1>2. ASSUME NEW r \in T
      PROVE  New(r) \in Row /\ New(r).name = r.name /\ New(r).chat = r.chat
  BY DEF Proper, Row
<1>3. Seeded \subseteq Ids
  BY UsersAssumption DEF Seeded, Owners, Ids
<1>4. ASSUME NEW s \in Added
      PROVE  \E id \in Seeded \ Held(T) :
               /\ s = Fresh(id, id \in Owners) /\ s \in Row
               /\ (s.chat = id /\ s.name = None) \/ (s.name = id /\ s.chat = None)
  <2>1. PICK id \in Seeded \ Held(T) : s = Fresh(id, id \in Owners)
    OBVIOUS
  <2>2. id \in Ids /\ (id \in Owners) \in BOOLEAN
    BY <1>3
  <2>3. /\ Fresh(id, id \in Owners) \in Row
        /\ id \in Chats => Fresh(id, id \in Owners).chat = id /\ Fresh(id, id \in Owners).name = None
        /\ id \in Names => Fresh(id, id \in Owners).name = id /\ Fresh(id, id \in Owners).chat = None
    BY <2>2, FreshRow, Zenon
  <2>4. id \in Chats \/ id \in Names
    BY <2>2 DEF Ids
  <2> HIDE DEF Added
  <2> QED BY <2>1, <2>3, <2>4, Zenon
<1>5. ASSUME NEW r \in Old, NEW s \in Old, r # s
      PROVE  (r.chat = None \/ r.chat # s.chat) /\ (r.name = None \/ r.name # s.name)
  <2>1. PICK a \in T, b \in T : r = New(a) /\ s = New(b)
    OBVIOUS
  <2> QED BY <2>1, <1>2, <1>5 DEF Proper, Unique
<1>6. ASSUME NEW r \in Old, NEW s \in Added
      PROVE  /\ r.chat = None \/ r.chat # s.chat
             /\ r.name = None \/ r.name # s.name
             /\ s.chat = None \/ r.chat # s.chat
             /\ s.name = None \/ r.name # s.name
  <2>1. PICK a \in T : r = New(a)
    OBVIOUS
  <2>2. a.chat \in Held(T) \union {None} /\ a.name \in Held(T) \union {None}
    BY DEF Held
  <2>3. PICK id \in Seeded \ Held(T) :
          (s.chat = id /\ s.name = None) \/ (s.name = id /\ s.chat = None)
    BY <1>4
  <2> HIDE DEF New
  <2> QED BY <2>1, <2>2, <2>3, <1>2
<1>7. ASSUME NEW r \in Added, NEW s \in Added, r # s
      PROVE  (r.chat = None \/ r.chat # s.chat) /\ (r.name = None \/ r.name # s.name)
  <2>1. PICK i \in Seeded \ Held(T) :
          r = Fresh(i, i \in Owners) /\ ((r.chat = i /\ r.name = None) \/ (r.name = i /\ r.chat = None))
    BY <1>4
  <2>2. PICK j \in Seeded \ Held(T) :
          s = Fresh(j, j \in Owners) /\ ((s.chat = j /\ s.name = None) \/ (s.name = j /\ s.chat = None))
    BY <1>4
  <2>3. i # j /\ i # None /\ j # None
    BY <2>1, <2>2, <1>3, <1>7, UsersAssumption DEF Ids
  <2> QED BY <2>1, <2>2, <2>3
<1>8. Old \subseteq Row
  BY <1>2
<1>9. Added \subseteq Row
  BY <1>4
<1> HIDE DEF Old, Added, New
<1> QED BY <1>1, <1>5, <1>6, <1>7, <1>8, <1>9 DEF Proper, Unique

-----------------------------------------------------------------------------
(* The owners of the configuration.                                        *)

\* The rows that a removal spares are enough.
LEMMA RemovalKeepsOwners ==
  ASSUME NEW T, Owned(T), NEW id PROVE Owned(T \ Removable(T, id))
  BY DEF Owned, Find, Removable

\* The binding of a chat leaves an owner findable: a chat id that is there is
\* not overwritten.
LEMMA BindKeepsOwners ==
  ASSUME NEW T, Proper(T), Owned(T), NEW chat \in Chats, NEW name \in Names \union {None}
  PROVE  Owned(Bind(T, chat, name))
<1>1. CASE \E r \in T : r.chat = chat
  BY <1>1 DEF Bind
<1>2. CASE ~\E r \in T : r.chat = chat
  <2> DEFINE New(r) == IF r.name = name /\ name # None /\ r.chat = None
                       THEN [r EXCEPT !.chat = chat] ELSE r
  <2>1. Bind(T, chat, name) = {New(r) : r \in T}
    BY <1>2 DEF Bind
  <2>2. ASSUME NEW id \in Owners PROVE \E s \in Bind(T, chat, name) :
                 ((id \in Chats /\ s.chat = id) \/ (id \in Names /\ s.name = id)) /\ s.owner
    <3>1. PICK r \in T : ((id \in Chats /\ r.chat = id) \/ (id \in Names /\ r.name = id)) /\ r.owner
      BY <2>2 DEF Owned, Find
    <3>2. /\ New(r).name = r.name
          /\ New(r).owner = r.owner
          /\ r.chat # None => New(r).chat = r.chat
      BY DEF Proper, Row
    <3>3. New(r) \in Bind(T, chat, name)
      BY <2>1
    <3> HIDE DEF New
    <3> QED BY <3>1, <3>2, <3>3, UsersAssumption
  <2> QED BY <2>2 DEF Owned, Find
<1> QED BY <1>1, <1>2

\* ensure_bot_user takes ownership from nobody.
LEMMA EnsureKeepsOwners ==
  ASSUME NEW T, Proper(T), Owned(T), NEW id \in Ids, NEW owner \in BOOLEAN
  PROVE  Owned(Ensure(T, id, owner))
<1>1. CASE Find(T, id) = {}
  BY <1>1 DEF Ensure, Owned, Find
<1>2. CASE Find(T, id) # {}
  <2> DEFINE New(r) == IF r \in Find(T, id) THEN [r EXCEPT !.owner = @ \/ owner] ELSE r
  <2>1. Ensure(T, id, owner) = {New(r) : r \in T}
    BY <1>2 DEF Ensure
  <2>2. ASSUME NEW k \in Owners PROVE \E s \in Ensure(T, id, owner) :
                 ((k \in Chats /\ s.chat = k) \/ (k \in Names /\ s.name = k)) /\ s.owner
    <3>1. PICK r \in T : ((k \in Chats /\ r.chat = k) \/ (k \in Names /\ r.name = k)) /\ r.owner
      BY <2>2 DEF Owned, Find
    <3>2. New(r).name = r.name /\ New(r).chat = r.chat
      BY DEF Proper, Row
    <3>3. New(r).owner
      BY <3>1 DEF Proper, Row
    <3>4. New(r) \in Ensure(T, id, owner)
      BY <2>1
    <3> HIDE DEF New
    <3> QED BY <3>1, <3>2, <3>3, <3>4
  <2> QED BY <2>2 DEF Owned, Find
<1> QED BY <1>1, <1>2

\* The seeding of a start makes every configured owner one, whatever the table
\* held.
LEMMA SeedMakesOwners == ASSUME NEW T, Proper(T) PROVE Owned(Seed(T))
<1> DEFINE New(r) == [r EXCEPT !.owner = @ \/ r.chat \in Owners \/ r.name \in Owners]
<1>1. ASSUME NEW id \in Owners PROVE \E s \in Seed(T) :
               ((id \in Chats /\ s.chat = id) \/ (id \in Names /\ s.name = id)) /\ s.owner
  <2>1. id \in Chats \/ id \in Names
    BY <1>1, UsersAssumption DEF Owners
  <2>2. CASE id \in Held(T)
    <3>1. PICK r \in T : r.chat = id \/ r.name = id
      BY <2>2 DEF Held
    <3>2. r.chat \in Chats \union {None} /\ r.name \in Names \union {None}
      BY DEF Proper, Row
    <3>3. New(r).name = r.name /\ New(r).chat = r.chat
      BY DEF Proper, Row
    <3>4. New(r).owner
      BY <3>1, <1>1 DEF Proper, Row
    <3>5. New(r) \in Seed(T)
      BY DEF Seed
    <3> HIDE DEF New
    <3> QED BY <2>1, <3>1, <3>2, <3>3, <3>4, <3>5, UsersAssumption
  <2>3. CASE id \notin Held(T)
    <3>1. id \in Seeded \ Held(T)
      BY <2>3, <1>1 DEF Seeded
    <3>2. Fresh(id, id \in Owners) \in Seed(T)
      BY <3>1 DEF Seed
    <3>3. Fresh(id, id \in Owners) = Fresh(id, TRUE)
      BY <1>1
    <3>4. id \in Ids /\ TRUE \in BOOLEAN
      BY <2>1 DEF Ids
    <3>5. /\ Fresh(id, TRUE).owner = TRUE
          /\ id \in Chats => Fresh(id, TRUE).chat = id
          /\ id \in Names => Fresh(id, TRUE).name = id
      BY <3>4, FreshRow, Zenon
    <3> QED BY <2>1, <3>2, <3>3, <3>5, Zenon
  <2> QED BY <2>2, <2>3
<1> QED BY <1>1 DEF Owned, Find

-----------------------------------------------------------------------------
(* The listener.                                                           *)

\* The users are proper at all times and owned while the process runs, and an
\* update of the queue is in hand wherever a handler reads one.
UInv ==
  /\ updates \in Seq(Requests)
  /\ confirmed \in Nat /\ offset \in Nat
  /\ upto \in 0..Len(updates) /\ cur \in 0..upto
  /\ pc = "handle" => cur # 0
  /\ Proper(users)
  /\ pc # "down" => Owned(users)

LEMMA InitUInv == Init => UInv
  BY DEF Init, UInv, Proper, Unique

\* What the handlers read of the update in hand.
LEMMA RequestInHand ==
  ASSUME UInv, pc = "handle"
  PROVE  /\ Request \in Requests
         /\ Sender.chat \in Chats /\ Sender.name \in Names \union {None}
         /\ Request.id \in Ids \union {None} /\ Request.owner \in BOOLEAN
         /\ /\ Request.cmd = "allow" /\ ~Raising(Bound, Request)
            /\ IsOwner(Bound, Sender.chat, Sender.name)
            => Request.id \in Ids
<1>1. cur \in 1..Len(updates)
  BY DEF UInv
<1>2. Request \in Requests
  BY <1>1 DEF UInv, Request
<1>3. /\ Sender.chat \in Chats /\ Sender.name \in Names \union {None}
      /\ Request.id \in Ids \union {None} /\ Request.owner \in BOOLEAN
  BY <1>2, ListenerAssumption DEF Sender, Senders
<1> QED BY <1>2, <1>3 DEF Raising, Sender

\* The binding of the sender's chat.
LEMMA BoundGood ==
  ASSUME UInv, pc = "handle" PROVE Proper(Bound) /\ Owned(Bound)
  BY RequestInHand, BindProper, BindKeepsOwners DEF UInv, Bound

\* /allow and /revoke.
LEMMA ManageGood ==
  ASSUME UInv, Manage PROVE Proper(users') /\ Owned(users')
<1>1. pc = "handle" /\ Request.cmd \in {"allow", "revoke"}
  BY DEF Manage
<1>2. Proper(Bound) /\ Owned(Bound) /\ Request.owner \in BOOLEAN
  BY <1>1, BoundGood, RequestInHand
<1>3. \/ users' = Bound
      \/ users' = Ensure(Bound, Request.id, Request.owner) /\ Request.id \in Ids
      \/ users' = Bound \ Removable(Bound, Request.id)
  BY <1>1, RequestInHand DEF Manage
<1>4. ASSUME Request.id \in Ids
      PROVE  /\ Proper(Ensure(Bound, Request.id, Request.owner))
             /\ Owned(Ensure(Bound, Request.id, Request.owner))
  BY <1>2, <1>4, EnsureProper, EnsureKeepsOwners
<1>5. Proper(Bound \ Removable(Bound, Request.id)) /\ Owned(Bound \ Removable(Bound, Request.id))
  BY <1>2, PartProper, RemovalKeepsOwners
<1> QED BY <1>2, <1>3, <1>4, <1>5

\* Every step keeps UInv.
LEMMA NextUInv == UInv /\ [Next]_vars => UInv'
<1> SUFFICES ASSUME UInv, [Next]_vars PROVE UInv'
  OBVIOUS
<1> USE DEF UInv, telegramVars, tableVars, loopVars, pastVars
<1>1. CASE Send
  <2>1. PICK r \in Requests : updates' = Append(updates, r)
    BY <1>1 DEF Send
  <2>2. updates' \in Seq(Requests) /\ Len(updates') = Len(updates) + 1
    BY <2>1
  <2> QED BY <1>1, <2>2 DEF Send
<1>2. CASE Block
  BY <1>2 DEF Block
<1>3. CASE Start
  <2>1. Proper(users') /\ Owned(users')
    BY <1>3, SeedProper, SeedMakesOwners DEF Start
  <2> QED BY <1>3, <2>1 DEF Start
<1>4. CASE Run \/ RunReturns \/ BackoffEnds \/ SleepEnds
  BY <1>4 DEF Run, RunReturns, BackoffEnds, SleepEnds, vars
<1>5. CASE Initialize
  BY <1>5 DEF Initialize
<1>6. CASE InitializeFails
  <2>1. Len(updates) \in Nat
    OBVIOUS
  <2>2. confirmed' \in Nat
    BY <1>6, <2>1 DEF InitializeFails, Older
  <2> QED BY <1>6, <2>2 DEF InitializeFails
<1>7. CASE Poll
  BY <1>7 DEF Poll, Stop
<1>8. CASE PollFails
  BY <1>8 DEF PollFails, Stop
<1>9. CASE Ignore
  BY <1>9 DEF Ignore
<1>10. CASE HandleLater \/ Forget
  <2>1. pc = "handle" /\ users' = Bound
    BY <1>10 DEF HandleLater, Forget
  <2>2. Proper(users') /\ Owned(users')
    BY <2>1, BoundGood
  <2>3. /\ UNCHANGED <<updates, confirmed, offset, cur, upto>>
        /\ pc' # "handle"
    BY <1>10 DEF HandleLater, Forget, FirstAwait
  <2> QED BY <2>2, <2>3
<1>11. CASE Manage
  <2>1. Proper(users') /\ Owned(users')
    BY <1>11, ManageGood
  <2>2. UNCHANGED <<updates, confirmed, offset, cur, upto>> /\ pc' = "reply"
    BY <1>11 DEF Manage
  <2> QED BY <2>1, <2>2
<1>12. CASE ChatAnswers \/ ChatFails \/ NoticeSent \/ TaskEnds \/ StreamEnds \/ StreamBreaks \/ ReplySent
  BY <1>12 DEF ChatAnswers, ChatFails, NoticeSent, TaskEnds, StreamEnds, StreamBreaks, ReplySent
<1>13. CASE SendRefused
  BY <1>13 DEF SendRefused, Stop
<1>14. CASE Acknowledge
  BY <1>14 DEF Acknowledge, Stop
<1>15. CASE Crash
  BY <1>15 DEF Crash
<1>16. CASE UNCHANGED vars
  BY <1>16 DEF vars
<1>17. CASE HandlingFails \/ HandlerRaises
  <2>1. /\ users' = users \/ (users' = Bound /\ pc = "handle")
        /\ pc' = "sleep" /\ cur' = 0 /\ upto' = 0
        /\ UNCHANGED <<updates, confirmed, offset>>
        /\ pc # "down"
    BY <1>17 DEF HandlingFails, HandlerRaises, Stop
  <2>2. Proper(users') /\ Owned(users')
    BY <2>1, BoundGood
  <2> QED BY <2>1, <2>2
<1> QED
  BY <1>1, <1>2, <1>3, <1>4, <1>5, <1>6, <1>7, <1>8, <1>9, <1>10, <1>11, <1>12, <1>13,
     <1>14, <1>15, <1>16, <1>17 DEF Next, Listener, Begin, Handle, Await, Faulty

\* The unique columns of telegram_bot_users are never hit by any sequence of
\* seeding, binding, /allow and /revoke (store.py:493-578).
THEOREM UsersStayUnique == Spec => []UsersUnique
<1>1. UInv => UsersUnique
  BY DEF UInv, Proper, UsersUnique
<1> QED BY <1>1, InitUInv, NextUInv, PTL DEF Spec

\* Whoever the configuration makes an owner is one as long as the bot runs: no
\* /revoke, /allow or binding takes it away (store.py:548-555).
THEOREM OwnersStayOwners == Spec => []SeededOwnersOwn
<1>1. UInv => SeededOwnersOwn
  BY DEF UInv, Owned, SeededOwnersOwn
<1> QED BY <1>1, InitUInv, NextUInv, PTL DEF Spec

=============================================================================
