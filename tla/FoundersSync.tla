----------------------------- MODULE FoundersSync ---------------------------
(***************************************************************************)
(* The WhatsApp watcher (whatsapp_watcher.py) and the extraction of        *)
(* startups (talos_scout.py): a loop that reads the last messages of a     *)
(* group, records the new ones, gives the oldest ones that are not         *)
(* processed to the language model and stores the startups it names.       *)
(*                                                                         *)
(* Messages are numbered as they are sent; those without a text never      *)
(* count.  Each statement on the database is a step, since the process may *)
(* die between any two; the only awaits are the requests.  OpenWA and the  *)
(* model are external.  The vector index is a copy that nothing here reads *)
(* and is left out.                                                        *)
(***************************************************************************)
EXTENDS LlmFallback

CONSTANTS
  Window,      \* messages that one request brings (30)
  BatchLimit,  \* messages that one extraction takes (20)
  MaxMessage,  \* bound: messages sent
  MaxFaults,   \* bound: crashes, statements that raise and odd lists
  MaxCount     \* bound: where the counters per message stop counting

ASSUME SyncAssumption ==
  /\ Window \in Nat \ {0} /\ BatchLimit \in Nat \ {0}
  /\ MaxMessage \in Nat /\ MaxFaults \in Nat /\ MaxCount \in Nat \ {0}

VARIABLES
  sent,       \* messages of the group so far
  odd,        \* those that the model never answers with a list that can be
              \* stored
  recorded,   \* whatsapp_messages
  processed,  \* those of them with processed = 1
  startups,   \* startups: for each message the rows that tell of its startup
  pc,         \* what the loop is about to do or waits for
  resolved,   \* _target_chat_id is known
  fetched,    \* messages of the last request, not yet recorded
  batch,      \* messages given to the model
  todo,       \* startups of the answer, not yet stored
  bad,        \* the item behind them raises
  listed,     \* history variable: messages whose startup the last answer to a
              \* batch of theirs has named
  broken,     \* history variable: how often an extraction of a message ended
              \* after an answer and before the mark
  faults

groupVars == <<sent, odd>>
tableVars == <<recorded, processed, startups>>
loopVars == <<pc, resolved, fetched, batch, todo, bad>>
pastVars == <<listed, broken>>
vars == <<groupVars, tableVars, loopVars, pastVars, callVars, faults>>

Messages == 1..MaxMessage
Count(f, S) == [m \in Messages |-> IF m \in S /\ f[m] < MaxCount THEN f[m] + 1 ELSE f[m]]

Init ==
  /\ sent = 0 /\ odd = {}
  /\ recorded = {} /\ processed = {} /\ startups = [m \in Messages |-> 0]
  /\ pc = "down" /\ resolved = FALSE
  /\ fetched = {} /\ batch = {} /\ todo = {} /\ bad = FALSE
  /\ listed = {} /\ broken = [m \in Messages |-> 0]
  /\ InitCall
  /\ faults = 0

Send ==
  /\ sent < MaxMessage
  /\ sent' = sent + 1
  /\ odd' \in {odd, odd \union {sent + 1}}
  /\ UNCHANGED <<tableVars, loopVars, pastVars, callVars, faults>>

-----------------------------------------------------------------------------
(* sync_now up to the extraction.                                          *)

Start ==
  /\ pc = "down"
  /\ pc' = "poll"
  /\ UNCHANGED <<groupVars, tableVars, resolved, fetched, batch, todo, bad, pastVars, callVars, faults>>

SleepEnds ==
  /\ pc = "sleep"
  /\ pc' = "poll"
  /\ UNCHANGED <<groupVars, tableVars, resolved, fetched, batch, todo, bad, pastVars, callVars, faults>>

\* The chat is found by its name, once for the life of the process.
Resolve ==
  /\ pc = "poll" /\ ~resolved
  /\ resolved' = TRUE
  /\ UNCHANGED <<groupVars, tableVars, pc, fetched, batch, todo, bad, pastVars, callVars, faults>>

\* OpenWA does not answer, or not with the chat.
ResolveFails ==
  /\ pc = "poll" /\ ~resolved
  /\ pc' = "sleep"
  /\ UNCHANGED <<groupVars, tableVars, resolved, fetched, batch, todo, bad, pastVars, callVars, faults>>

LatestOf(n) == {m \in 1..n : m > n - Window}

\* _fetch_chat_messages.
Fetch ==
  /\ pc = "poll" /\ resolved
  /\ pc' = "record"
  /\ fetched' = LatestOf(sent)
  /\ UNCHANGED <<groupVars, tableVars, resolved, batch, todo, bad, pastVars, callVars, faults>>

\* Every endpoint fails: there are no messages, and the extraction goes on.
FetchFails ==
  /\ pc = "poll" /\ resolved
  /\ pc' = "record"
  /\ fetched' = {}
  /\ UNCHANGED <<groupVars, tableVars, resolved, batch, todo, bad, pastVars, callVars, faults>>

\* The next message to record: OpenWA lists them in the order they were sent in.
Earliest == {m \in fetched : \A p \in fetched : m <= p}

\* record_whatsapp_message: a message that is there is left as it is.
Record ==
  /\ pc = "record" /\ fetched # {}
  /\ recorded' = recorded \union Earliest
  /\ fetched' = fetched \ Earliest
  /\ UNCHANGED <<groupVars, processed, startups, pc, resolved, batch, todo, bad, pastVars, callVars, faults>>

\* It swallows what the database raises.
RecordFails ==
  /\ pc = "record" /\ fetched # {}
  /\ faults < MaxFaults
  /\ faults' = faults + 1
  /\ fetched' = fetched \ Earliest
  /\ UNCHANGED <<groupVars, tableVars, pc, resolved, batch, todo, bad, pastVars, callVars>>

-----------------------------------------------------------------------------
(* extract_startups_from_batch.                                            *)

\* Mutant: the newest messages first.
NewestUnprocessed ==
  {m \in recorded \ processed :
     Cardinality({p \in recorded \ processed : p > m}) < BatchLimit}

\* get_unprocessed_whatsapp_messages: by sent_at, with a limit.
OldestUnprocessed ==
  {m \in recorded \ processed :
     Cardinality({p \in recorded \ processed : p < m}) < BatchLimit}

Select ==
  /\ pc = "record" /\ fetched = {}
  /\ batch' = OldestUnprocessed
  /\ IF batch' = {} THEN pc' = "sleep" /\ UNCHANGED callVars
     ELSE pc' = "llm" /\ BeginCall
  /\ UNCHANGED <<groupVars, tableVars, resolved, fetched, todo, bad, pastVars, faults>>

ModelReplies(r) ==
  /\ pc = "llm"
  /\ Reply(r)
  /\ UNCHANGED <<groupVars, tableVars, loopVars, pastVars, faults>>

\* What the extraction leaves behind when it returns.
Return == pc' = "sleep" /\ batch' = {} /\ todo' = {} /\ bad' = FALSE

\* The call raises, or its text is no JSON array: the batch stays as it is.
NoList ==
  /\ pc = "llm" /\ outcome # "none"
  /\ Return /\ NoCall
  /\ UNCHANGED <<groupVars, tableVars, resolved, fetched, pastVars, faults>>

Named == SUBSET batch

Answered(named) ==
  /\ pc' = "store"
  /\ todo' = named
  /\ listed' = (listed \ batch) \union named
  /\ NoCall
  /\ UNCHANGED <<groupVars, recorded, startups, resolved, fetched, batch, broken>>

\* Mutant: the batch is marked before its startups are stored.
ListMarked ==
  /\ pc = "llm" /\ outcome = "text"
  /\ batch \intersect odd = {}
  /\ \E named \in Named : Answered(named)
  /\ processed' = processed \union batch
  /\ UNCHANGED <<bad, faults>>

\* A JSON array of the startups that some messages tell of.  Which ones it
\* names is the model's affair; items without a name are skipped and count as
\* not named.
List ==
  /\ pc = "llm" /\ outcome = "text"
  /\ batch \intersect odd = {}
  /\ \E named \in Named : Answered(named)
  /\ UNCHANGED <<processed, bad, faults>>

\* A JSON array with an item that raises: a score that is no number, a value
\* that is no text.
OddList ==
  /\ pc = "llm" /\ outcome = "text"
  /\ faults < MaxFaults
  /\ faults' = faults + 1
  /\ \E named \in Named : Answered(named)
  /\ bad' = TRUE
  /\ UNCHANGED processed

\* record_startup, committed item by item, in whatever order the model has put
\* them.
Store ==
  /\ pc = "store"
  /\ \E m \in todo : startups' = Count(startups, {m}) /\ todo' = todo \ {m}
  /\ UNCHANGED <<groupVars, recorded, processed, pc, resolved, fetched, batch, bad, pastVars, callVars, faults>>

\* The odd item raises.
StoreOdd ==
  /\ pc = "store" /\ todo = {} /\ bad
  /\ broken' = Count(broken, batch)
  /\ Return
  /\ UNCHANGED <<groupVars, tableVars, resolved, fetched, listed, callVars, faults>>

\* record_startup or the mark raises: the database is locked or full.
StoreRaises ==
  /\ pc = "store" /\ (todo # {} \/ ~bad)
  /\ faults < MaxFaults
  /\ faults' = faults + 1
  /\ broken' = Count(broken, batch)
  /\ Return
  /\ UNCHANGED <<groupVars, tableVars, resolved, fetched, listed, callVars>>

\* Mutant: only the message that the rows refer to is marked.
MarkFirst ==
  /\ pc = "store" /\ todo = {} /\ ~bad
  /\ processed' = processed \union {m \in batch : \A p \in batch : m <= p}
  /\ Return
  /\ UNCHANGED <<groupVars, recorded, startups, resolved, fetched, pastVars, callVars, faults>>

\* mark_whatsapp_messages_processed: the batch, in one statement.
Mark ==
  /\ pc = "store" /\ todo = {} /\ ~bad
  /\ processed' = processed \union batch
  /\ Return
  /\ UNCHANGED <<groupVars, recorded, startups, resolved, fetched, pastVars, callVars, faults>>

\* The process dies.
Crash ==
  /\ pc # "down"
  /\ faults < MaxFaults
  /\ faults' = faults + 1
  /\ pc' = "down" /\ resolved' = FALSE
  /\ fetched' = {} /\ batch' = {} /\ todo' = {} /\ bad' = FALSE
  /\ broken' = IF pc = "store" THEN Count(broken, batch) ELSE broken
  /\ NoCall
  /\ UNCHANGED <<groupVars, tableVars, listed>>

-----------------------------------------------------------------------------
Poll == Start \/ SleepEnds \/ Resolve \/ ResolveFails \/ Fetch \/ FetchFails \/ Record \/ Select
Ask == \E r \in Replies : ModelReplies(r)
Extract == Ask \/ NoList \/ List \/ Store \/ StoreOdd \/ Mark
Fault == RecordFails \/ OddList \/ StoreRaises \/ Crash

Next == Send \/ Poll \/ Extract \/ Fault

Spec == Init /\ [][Next]_vars

\* The loop goes on; OpenWA answers at last, and the model with a text, and with
\* a list where it ever would.
FairSpec ==
  /\ Spec
  /\ WF_vars(Poll \/ Extract)
  /\ SF_vars(Resolve) /\ SF_vars(Fetch)
  /\ SF_vars(ModelReplies("text")) /\ SF_vars(List)

-----------------------------------------------------------------------------
\* Every variable keeps its type, and a call is under way exactly while the
\* loop waits for the model.
TypeOK ==
  /\ sent \in 0..MaxMessage /\ odd \subseteq 1..sent
  /\ recorded \subseteq 1..sent /\ processed \subseteq recorded
  /\ startups \in [Messages -> 0..MaxCount]
  /\ pc \in {"down", "sleep", "poll", "record", "llm", "store"} /\ resolved \in BOOLEAN
  /\ fetched \subseteq 1..sent /\ batch \subseteq recorded \ processed
  /\ todo \subseteq batch /\ bad \in BOOLEAN
  /\ listed \subseteq recorded /\ broken \in [Messages -> 0..MaxCount]
  /\ CallTypeOK /\ (Calling \/ outcome # "none" <=> pc = "llm")
  /\ faults \in 0..MaxFaults

\* A message is processed only when every startup that the answer to its batch
\* named is stored: nothing is lost between the answer and the mark.
ProcessedIsStored == \A m \in processed \intersect listed : startups[m] > 0

\* A startup is stored again only if an extraction of its message broke off
\* between answer and mark.
StoredTwiceHasCause == \A m \in Messages : startups[m] <= 1 + broken[m]

\* The watcher is there to monitor the group (README.md:65): a message is
\* recorded and processed in the end, unless it scrolled out of the window before
\* it was read, or a message that the model cannot cope with is old enough to be
\* in every batch.
EveryMessageExtracted ==
  \A m \in Messages :
    m <= sent ~> \/ m \in processed
                 \/ m \notin recorded /\ sent >= m + Window
                 \/ \E p \in odd \intersect recorded :
                      Cardinality({q \in recorded \ processed : q < p}) < BatchLimit

=============================================================================
