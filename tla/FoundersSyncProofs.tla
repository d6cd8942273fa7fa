------------------------- MODULE FoundersSyncProofs -------------------------
(***************************************************************************)
(* Proofs about FoundersSync and LlmFallback, for any window, batch limit, *)
(* providers and their order, and numbers of messages and faults: no       *)
(* startup is lost between the answer of the model and the mark, and none  *)
(* is stored again without a cause; a call asks the configured providers   *)
(* in their order and gives up after the last; the types, and that a batch *)
(* keeps its limit.                                                        *)
(***************************************************************************)
EXTENDS FoundersSync, SequenceTheorems, FiniteSetTheorems, Induction, TLAPS

USE DEF groupVars, tableVars, loopVars, pastVars

-----------------------------------------------------------------------------
(* What the rest rests on: the tables.                                     *)

\* What the losses and repetitions need of the types: the batch is not processed, and is there only
\* while the loop waits for the model or stores its answer.
Tables ==
  /\ sent \in 0..MaxMessage
  /\ recorded \subseteq 1..sent /\ processed \subseteq recorded
  /\ fetched \subseteq 1..sent
  /\ batch \subseteq recorded \ processed /\ todo \subseteq batch
  /\ batch # {} => pc \in {"llm", "store"}
  /\ startups \in [Messages -> 0..MaxCount] /\ broken \in [Messages -> 0..MaxCount]

\* A counter goes up by one until it stops.
LEMMA CountUp ==
  ASSUME NEW f \in [Messages -> 0..MaxCount], NEW S
  PROVE  /\ Count(f, S) \in [Messages -> 0..MaxCount]
         /\ \A m \in Messages \ S : Count(f, S)[m] = f[m]
         /\ \A m \in Messages \intersect S :
              Count(f, S)[m] = IF f[m] < MaxCount THEN f[m] + 1 ELSE MaxCount
<1>1. MaxCount \in Nat \ {0}
  BY SyncAssumption
<1>2. ASSUME NEW m \in Messages
      PROVE  (IF m \in S /\ f[m] < MaxCount THEN f[m] + 1 ELSE f[m]) \in 0..MaxCount
  BY <1>1
<1> QED BY <1>1, <1>2 DEF Count

LEMMA InitTables == Init => Tables
  BY SyncAssumption DEF Init, Tables

\* The steps that touch no table but what was recorded.
Quiet ==
  Send \/ Start \/ SleepEnds \/ Resolve \/ ResolveFails \/ Fetch \/ FetchFails \/ Record
    \/ Select \/ Ask \/ NoList \/ RecordFails

LEMMA NextTables == Tables /\ [Next]_vars => Tables'
<1> SUFFICES ASSUME Tables, [Next]_vars PROVE Tables'
  OBVIOUS
<1> USE SyncAssumption DEF Tables, Return
<1>1. CASE UNCHANGED vars
  BY <1>1 DEF vars
<1>2. CASE Send
  BY <1>2 DEF Send
<1>3. CASE Start \/ SleepEnds \/ Resolve \/ ResolveFails
  BY <1>3 DEF Start, SleepEnds, Resolve, ResolveFails
<1>4. CASE Fetch \/ FetchFails
  <2>1. LatestOf(sent) \subseteq 1..sent
    BY DEF LatestOf
  <2> QED BY <1>4, <2>1 DEF Fetch, FetchFails
<1>5. CASE Record \/ RecordFails
  BY <1>5 DEF Record, RecordFails, Earliest
<1>6. CASE Select
  <2>1. OldestUnprocessed \subseteq recorded \ processed
    BY DEF OldestUnprocessed
  <2> QED BY <1>6, <2>1 DEF Select
<1>7. CASE Ask \/ NoList
  BY <1>7 DEF Ask, ModelReplies, NoList
<1>8. CASE List \/ OddList
  BY <1>8 DEF List, OddList, Answered, Named
<1>9. CASE Store
  <2>1. PICK m \in todo : startups' = Count(startups, {m}) /\ todo' = todo \ {m}
    BY <1>9 DEF Store
  <2>2. startups' \in [Messages -> 0..MaxCount]
    BY <2>1, CountUp
  <2> QED BY <1>9, <2>1, <2>2 DEF Store
<1>10. CASE StoreOdd \/ StoreRaises \/ Crash
  <2>1. broken' \in [Messages -> 0..MaxCount]
    BY <1>10, CountUp DEF StoreOdd, StoreRaises, Crash
  <2> QED BY <1>10, <2>1 DEF StoreOdd, StoreRaises, Crash
<1>11. CASE Mark
  BY <1>11 DEF Mark
<1> QED
  BY <1>1, <1>2, <1>3, <1>4, <1>5, <1>6, <1>7, <1>8, <1>9, <1>10, <1>11
  DEF Next, Poll, Extract, Fault

LEMMA TablesInvariance == Spec => []Tables
  BY InitTables, NextTables, PTL DEF Spec

-----------------------------------------------------------------------------
(* Nothing is lost between answer and mark.                                *)

\* While an answer is stored, what it named of the batch is stored or waits.
Stored ==
  /\ ProcessedIsStored
  /\ pc = "store" => \A m \in listed \intersect batch : m \in todo \/ startups[m] > 0

LEMMA InitStored == Init => Stored
  BY DEF Init, Stored, ProcessedIsStored

LEMMA NextStored == Tables /\ Tables' /\ Stored /\ [Next]_vars => Stored'
<1> SUFFICES ASSUME Tables, Tables', Stored, [Next]_vars PROVE Stored'
  OBVIOUS
<1> USE DEF Stored, ProcessedIsStored, Return
<1>1. CASE UNCHANGED vars
  BY <1>1 DEF vars
<1>2. CASE Quiet
  <2>1. /\ UNCHANGED <<processed, startups, listed>>
        /\ pc' = "store" => UNCHANGED <<pc, batch, todo>>
    BY <1>2 DEF Quiet, Send, Start, SleepEnds, Resolve, ResolveFails, Fetch, FetchFails, Record,
                Select, Ask, ModelReplies, NoList, RecordFails
  <2> QED BY <2>1
<1>3. CASE List \/ OddList
  <2>1. PICK named \in Named : Answered(named)
    BY <1>3 DEF List, OddList
  <2>2. /\ listed' = (listed \ batch) \union named /\ todo' = named
        /\ UNCHANGED <<startups, batch, processed>>
    BY <1>3, <2>1 DEF List, OddList, Answered
  <2>3. named \subseteq batch
    BY DEF Named
  <2> QED BY <2>2, <2>3 DEF Tables
<1>4. CASE Store
  <2>1. PICK m \in todo : startups' = Count(startups, {m}) /\ todo' = todo \ {m}
    BY <1>4 DEF Store
  <2>2. UNCHANGED <<processed, listed, batch>> /\ pc = "store"
    BY <1>4 DEF Store
  <2>3. todo \subseteq Messages /\ processed \subseteq Messages /\ batch \subseteq Messages
    BY SyncAssumption DEF Tables, Messages
  <2>4. startups'[m] > 0
    BY <2>1, <2>3, CountUp, SyncAssumption DEF Tables
  <2>5. \A p \in Messages \ {m} : startups'[p] = startups[p]
    BY <2>1, CountUp DEF Tables
  <2> QED BY <2>1, <2>2, <2>3, <2>4, <2>5
<1>5. CASE StoreOdd \/ StoreRaises \/ Crash
  BY <1>5 DEF StoreOdd, StoreRaises, Crash
<1>6. CASE Mark
  BY <1>6 DEF Mark
<1> QED BY <1>1, <1>2, <1>3, <1>4, <1>5, <1>6 DEF Next, Poll, Extract, Fault, Quiet

\* A message is processed only when every startup that the answer to its batch
\* named is stored, wherever the process dies and whatever the model answers.
THEOREM NothingIsLost == Spec => []ProcessedIsStored
<1>1. Stored => ProcessedIsStored
  BY DEF Stored
<1> QED BY <1>1, TablesInvariance, InitStored, NextStored, PTL DEF Spec

-----------------------------------------------------------------------------
(* What is stored again.                                                   *)

\* A message that is not processed was stored no more often than its extraction
\* broke off, but for what the answer in hand has just brought.
Paid ==
  /\ StoredTwiceHasCause
  /\ \A m \in Messages \ processed :
       \/ pc = "store" /\ m \in batch \ todo
       \/ startups[m] <= broken[m]

LEMMA InitPaid == Init => Paid
  BY DEF Init, Paid, StoredTwiceHasCause

LEMMA NextPaid == Tables /\ Tables' /\ Paid /\ [Next]_vars => Paid'
<1> SUFFICES ASSUME Tables, Tables', Paid, [Next]_vars PROVE Paid'
  OBVIOUS
<1> USE DEF Paid, StoredTwiceHasCause, Return
<1>0. /\ MaxCount \in Nat \ {0}
      /\ \A m \in Messages : startups[m] \in 0..MaxCount /\ broken[m] \in 0..MaxCount
  BY SyncAssumption DEF Tables
<1>1. CASE UNCHANGED vars
  BY <1>1 DEF vars
<1>2. CASE Quiet
  <2>1. /\ UNCHANGED <<processed, startups, broken>>
        /\ \/ UNCHANGED <<batch, todo, pc>>
           \/ pc # "store"
    BY <1>2 DEF Quiet, Send, Start, SleepEnds, Resolve, ResolveFails, Fetch, FetchFails, Record,
                Select, Ask, ModelReplies, NoList, RecordFails
  <2> QED BY <2>1
<1>3. CASE List \/ OddList
  <2>1. pc = "llm" /\ UNCHANGED <<processed, startups, broken>>
    BY <1>3 DEF List, OddList, Answered
  <2> QED BY <2>1
<1>4. CASE Store
  <2>1. PICK m \in todo : startups' = Count(startups, {m}) /\ todo' = todo \ {m}
    BY <1>4 DEF Store
  <2>2. UNCHANGED <<processed, broken, batch, pc>> /\ pc = "store"
    BY <1>4 DEF Store
  <2>3. m \in Messages \ processed /\ m \in batch
    BY SyncAssumption DEF Tables, Messages
  <2>4. startups[m] <= broken[m]
    BY <2>3
  <2>5. startups'[m] <= 1 + broken[m]
    <3>1. startups'[m] = IF startups[m] < MaxCount THEN startups[m] + 1 ELSE MaxCount
      BY <2>1, <2>3, CountUp DEF Tables
    <3> QED BY <1>0, <2>3, <2>4, <3>1
  <2>6. \A p \in Messages \ {m} : startups'[p] = startups[p]
    BY <2>1, CountUp DEF Tables
  <2> QED BY <2>1, <2>2, <2>3, <2>5, <2>6
<1>5. CASE StoreOdd \/ StoreRaises \/ Crash
  <2>1. UNCHANGED <<processed, startups>>
        /\ \/ broken' = Count(broken, batch)
           \/ broken' = broken /\ pc # "store"
    BY <1>5 DEF StoreOdd, StoreRaises, Crash
  <2>2. CASE broken' = broken /\ pc # "store"
    BY <2>1, <2>2
  <2>3. CASE broken' = Count(broken, batch)
    <3>1. \A m \in Messages \ batch : broken'[m] = broken[m]
      BY <2>3, CountUp DEF Tables
    <3>2. \A m \in Messages \intersect batch :
            broken'[m] = IF broken[m] < MaxCount THEN broken[m] + 1 ELSE MaxCount
      BY <2>3, CountUp DEF Tables
    <3>3. \A m \in Messages : startups[m] <= 1 + broken'[m]
      BY <1>0, <3>1, <3>2
    <3>4. \A m \in Messages \ processed : startups[m] <= broken'[m]
      BY <1>0, <3>1, <3>2
    <3> QED BY <2>1, <3>3, <3>4
  <2> QED BY <2>1, <2>2, <2>3
<1>6. CASE Mark
  <2>1. processed' = processed \union batch /\ UNCHANGED <<startups, broken>>
    BY <1>6 DEF Mark
  <2> QED BY <2>1
<1> QED BY <1>1, <1>2, <1>3, <1>4, <1>5, <1>6 DEF Next, Poll, Extract, Fault, Quiet

\* A startup is stored again only if an extraction of its message broke off
\* between answer and mark, however often batches come again.
THEOREM RepeatsHaveCauses == Spec => []StoredTwiceHasCause
<1>1. Paid => StoredTwiceHasCause
  BY DEF Paid
<1> QED BY <1>1, TablesInvariance, InitPaid, NextPaid, PTL DEF Spec

-----------------------------------------------------------------------------
(* The list of providers.                                                  *)

LEMMA PreferenceIsASequence ==
  /\ Len(Preference) \in Nat \ {0}
  /\ \A name \in Configured : \E i \in 1..Len(Preference) : Preference[i] = name
<1> DEFINE Names == STRING \union Range(Known)
<1>1. Known \in Seq(Names) /\ Len(Known) = 4 /\ Order \in Seq(Names)
  <2>1. Len(Known) = 4 /\ \A i \in 1..4 : Known[i] \in Range(Known)
    BY DEF Known, Range
  <2>2. Known \in Seq(Names)
    BY <2>1 DEF Known
  <2>3. Order \in Seq(Names)
    BY FallbackAssumption, SeqMonotonic
  <2> QED BY <2>1, <2>2, <2>3
<1> HIDE DEF Names
<1>2. /\ Len(Preference) = Len(Order) + 4 /\ Len(Order) \in Nat
      /\ \A i \in 1..Len(Order) + 4 :
           Preference[i] = IF i <= Len(Order) THEN Order[i] ELSE Known[i - Len(Order)]
  <2> HIDE DEF Known
  <2>1. /\ Len(Preference) = Len(Order) + Len(Known)
        /\ \A i \in 1..Len(Order) + Len(Known) :
             Preference[i] = IF i <= Len(Order) THEN Order[i] ELSE Known[i - Len(Order)]
    BY <1>1, ConcatProperties DEF Preference
  <2>2. Len(Order) \in Nat
    BY <1>1, LenProperties
  <2> QED BY <1>1, <2>1, <2>2
<1>3. ASSUME NEW name \in Configured PROVE \E i \in 1..Len(Preference) : Preference[i] = name
  <2>1. PICK i \in 1..4 : Known[i] = name
    BY FallbackAssumption DEF Range, Known
  <2>2. Len(Order) + i \in 1..Len(Order) + 4 /\ Len(Order) + i - Len(Order) = i
    BY <1>2
  <2>3. Preference[Len(Order) + i] = Known[i]
    BY <1>2, <2>2
  <2> QED BY <1>2, <2>1, <2>2, <2>3
<1> QED BY <1>2, <1>3

LEMMA AddedIsAList ==
  ASSUME NEW s \in Seq(Configured), NEW name PROVE AddOnce(s, name) \in Seq(Configured)
  BY AppendProperties DEF AddOnce

\* ListedUpTo is what its definition says, a list of configured providers at each n.
LEMMA ListedUpToStep ==
  /\ ListedUpTo \in [0..Len(Preference) -> Seq(Configured)]
  /\ ListedUpTo[0] = << >>
  /\ \A n \in 1..Len(Preference) : ListedUpTo[n] = AddOnce(ListedUpTo[n - 1], Preference[n])
<1> DEFINE N == Len(Preference)
           step == [p \in Seq(Configured) \X Nat |-> AddOnce(p[1], Preference[p[2]])]
           Defines(f) ==
             f = [n \in 0..N |-> IF n = 0 THEN << >> ELSE AddOnce(f[n - 1], Preference[n])]
<1>1. N \in Nat
  BY PreferenceIsASequence
<1>2. step \in [Seq(Configured) \X Nat -> Seq(Configured)]
  BY AddedIsAList
<1>3. << >> \in Seq(Configured)
  OBVIOUS
<1> DEFINE S == Seq(Configured)
           base == << >>
<1> HIDE DEF step, S, N, base
<1>4. PICK f : Recursion(f, S, N, base, step)
  <2>1. base \in S /\ step \in [S \X Nat -> S]
    BY <1>2, <1>3 DEF S, base
  <2> QED BY ONLY <1>1, <2>1, RecursiveFunction
<1>5. ASSUME NEW n \in 0..N, n # 0 PROVE step[<<f[n - 1], n>>] = AddOnce(f[n - 1], Preference[n])
  <2>1. n \in Nat /\ n - 1 \in 0..N
    BY <1>1, <1>5
  <2>2. f[n - 1] \in Seq(Configured)
    BY <1>4, <2>1 DEF Recursion, S
  <2> QED BY <2>1, <2>2 DEF step
<1>6. Defines(f)
  BY <1>4, <1>5 DEF Recursion, base
<1> USE DEF N
<1>7. Defines(ListedUpTo)
  <2>1. ListedUpTo = CHOOSE g : Defines(g)
    BY DEF ListedUpTo
  <2> HIDE DEF Defines
  <2> QED BY <1>6, <2>1
<1>8. \A n \in 0..N : ListedUpTo[n] \in Seq(Configured)
  <2> DEFINE T == {n \in 0..N : ListedUpTo[n] \in Seq(Configured)}
  <2>1. 0 \in T
    BY <1>1, <1>7
  <2>2. ASSUME NEW n \in 0..N - 1, n \in T PROVE n + 1 \in T
    <3>1. ListedUpTo[n + 1] = AddOnce(ListedUpTo[n], Preference[n + 1])
      BY <1>1, <1>7
    <3>2. ListedUpTo[n + 1] \in Seq(Configured)
      BY <2>2, <3>1, AddedIsAList
    <3> QED BY <1>1, <3>2
  <2> HIDE DEF T
  <2>3. \A n \in 0..N : n \in T
    BY <1>1, <2>1, <2>2, BoundedInduction
  <2> QED BY <2>3 DEF T
<1>9. ListedUpTo = [n \in 0..N |-> ListedUpTo[n]] /\ 0 \in 0..N
  BY <1>1, <1>7
<1>10. ListedUpTo \in [0..N -> Seq(Configured)] /\ ListedUpTo[0] = << >>
  BY <1>7, <1>8, <1>9
<1>11. ASSUME NEW n \in 1..N PROVE ListedUpTo[n] = AddOnce(ListedUpTo[n - 1], Preference[n])
  BY <1>1, <1>7
<1> QED BY <1>10, <1>11

\* What a list has to do with the first n names of the order: it holds the configured
\* ones, each once, and each after all that are named before it.
Lists(s, n) ==
  /\ \A i \in 1..n : Preference[i] \in Configured => \E b \in 1..Len(s) : s[b] = Preference[i]
  /\ \A a, b \in 1..Len(s) : s[a] = s[b] => a = b
  /\ \A a \in 1..Len(s) :
       \E k \in 1..n :
         /\ Preference[k] = s[a]
         /\ \A i \in 1..k :
              Preference[i] \in Configured => \E b \in 1..a : s[b] = Preference[i]

LEMMA ListGrows ==
  ASSUME NEW n \in Nat, NEW s \in Seq(Configured), Lists(s, n)
  PROVE  Lists(AddOnce(s, Preference[n + 1]), n + 1)
<1> DEFINE name == Preference[n + 1]
<1>1. Len(s) \in Nat /\ Range(s) = {s[b] : b \in 1..Len(s)}
  BY DEF Range
<1>2. CASE name \in Configured /\ name \notin Range(s)
  <2> DEFINE t == Append(s, name)
  <2>1. /\ AddOnce(s, name) = t /\ Len(t) = Len(s) + 1 /\ t[Len(s) + 1] = name
        /\ \A b \in 1..Len(s) : t[b] = s[b]
    BY <1>2, AppendProperties DEF AddOnce
  <2>2. \A b \in 1..Len(s) : s[b] # name
    BY <1>1, <1>2
  <2> HIDE DEF t
  <2>3. ASSUME NEW i \in 1..n + 1, Preference[i] \in Configured
        PROVE  \E b \in 1..Len(t) : t[b] = Preference[i]
    <3>1. CASE i = n + 1
      BY <1>1, <2>1, <3>1
    <3>2. CASE i \in 1..n
      <4>1. PICK b \in 1..Len(s) : s[b] = Preference[i]
        BY <2>3, <3>2 DEF Lists
      <4> QED BY <1>1, <2>1, <4>1
    <3> QED BY <3>1, <3>2
  <2>4. ASSUME NEW a \in 1..Len(t), NEW b \in 1..Len(t), t[a] = t[b] PROVE a = b
    <3>1. CASE a \in 1..Len(s) /\ b \in 1..Len(s)
      <4>1. s[a] = s[b]
        BY <2>1, <2>4, <3>1
      <4> QED BY <3>1, <4>1 DEF Lists
    <3>2. CASE a = Len(s) + 1 /\ b \in 1..Len(s)
      <4>1. s[b] = name
        BY <2>1, <2>4, <3>2
      <4> QED BY <2>2, <3>2, <4>1
    <3>3. CASE a \in 1..Len(s) /\ b = Len(s) + 1
      <4>1. s[a] = name
        BY <2>1, <2>4, <3>3
      <4> QED BY <2>2, <3>3, <4>1
    <3>4. /\ a \in 1..Len(s) \/ a = Len(s) + 1
          /\ b \in 1..Len(s) \/ b = Len(s) + 1
      BY <1>1, <2>1, <2>4
    <3> QED BY <3>1, <3>2, <3>3, <3>4
  <2>5. ASSUME NEW a \in 1..Len(t)
        PROVE  \E k \in 1..n + 1 :
                 /\ Preference[k] = t[a]
                 /\ \A i \in 1..k :
                      Preference[i] \in Configured => \E b \in 1..a : t[b] = Preference[i]
    <3>1. CASE a = Len(s) + 1
      <4>1. n + 1 \in 1..n + 1 /\ Preference[n + 1] = t[a] /\ a = Len(t)
        BY <2>1, <3>1
      <4> QED BY <2>3, <4>1
    <3>2. CASE a \in 1..Len(s)
      <4>1. PICK k \in 1..n :
              /\ Preference[k] = s[a]
              /\ \A i \in 1..k :
                   Preference[i] \in Configured => \E b \in 1..a : s[b] = Preference[i]
        BY <3>2 DEF Lists
      <4>2. \A b \in 1..a : b \in 1..Len(s) /\ t[b] = s[b]
        BY <1>1, <2>1, <3>2
      <4>3. k \in 1..n + 1 /\ Preference[k] = t[a]
        BY <3>2, <4>1, <4>2
      <4>4. ASSUME NEW i \in 1..k, Preference[i] \in Configured
            PROVE  \E b \in 1..a : t[b] = Preference[i]
        BY <4>1, <4>2, <4>4
      <4> QED BY <4>3, <4>4
    <3> QED BY <1>1, <2>1, <3>1, <3>2
  <2> QED BY <2>1, <2>3, <2>4, <2>5 DEF Lists
<1>3. CASE ~(name \in Configured /\ name \notin Range(s))
  <2>1. AddOnce(s, name) = s
    BY <1>3 DEF AddOnce
  <2>2. name \in Configured => \E b \in 1..Len(s) : s[b] = name
    BY <1>1, <1>3
  <2> QED BY <2>1, <2>2 DEF Lists
<1> QED BY <1>2, <1>3

\* The providers are the configured ones, each once, in the order of preference.
LEMMA ProvidersAreListed ==
  /\ Providers \in Seq(Configured) /\ Len(Providers) \in Nat \ {0}
  /\ Lists(Providers, Len(Preference))
  /\ {Providers[b] : b \in 1..Len(Providers)} = Configured
<1> DEFINE N == Len(Preference)
           T == {n \in 0..N : Lists(ListedUpTo[n], n)}
<1>1. N \in Nat
  BY PreferenceIsASequence
<1>2. 0 \in T
  BY <1>1, ListedUpToStep DEF Lists
<1>3. ASSUME NEW n \in 0..N - 1, n \in T PROVE n + 1 \in T
  <2>1. n \in Nat /\ n \in 0..N /\ n + 1 \in 1..N /\ n + 1 - 1 = n
    BY <1>1
  <2>2. /\ ListedUpTo[n] \in Seq(Configured) /\ Lists(ListedUpTo[n], n)
        /\ ListedUpTo[n + 1] = AddOnce(ListedUpTo[n], Preference[n + 1])
    BY <1>3, <2>1, ListedUpToStep
  <2>3. Lists(ListedUpTo[n + 1], n + 1)
    BY <2>1, <2>2, ListGrows
  <2> QED BY <2>1, <2>3
<1>4. N \in T
  <2> HIDE DEF N, T
  <2>1. \A n \in 0..N : n \in T
    BY ONLY <1>1, <1>2, <1>3, BoundedInduction
  <2> QED BY <1>1, <2>1
<1>5. Providers \in Seq(Configured) /\ Lists(Providers, N)
  BY <1>1, <1>4, ListedUpToStep DEF Providers
<1>6. \A name \in Configured : \E b \in 1..Len(Providers) : Providers[b] = name
  BY <1>5, PreferenceIsASequence DEF Lists
<1>7. \A b \in 1..Len(Providers) : Providers[b] \in Configured
  BY <1>5, ElementOfSeq
<1>8. Len(Providers) \in Nat \ {0}
  BY <1>5, <1>6, FallbackAssumption
<1> QED BY <1>5, <1>6, <1>7, <1>8

-----------------------------------------------------------------------------
(* A call of the providers.                                                *)

FirstOnes(n) == {Providers[b] : b \in 1..n}

\* Those that were asked are the first ones of the list, up to the one that is
\* asked now.
CallInv ==
  /\ CallTypeOK
  /\ \E n \in 0..Len(Providers) : asked = FirstOnes(n)
  /\ Calling => asked = FirstOnes(at)
  /\ outcome = "failed" => asked = Configured

LEMMA FirstOnesAreConfigured ==
  /\ FirstOnes(0) = {} /\ FirstOnes(1) = {Providers[1]}
  /\ FirstOnes(Len(Providers)) = Configured
  /\ \A n \in 0..Len(Providers) : FirstOnes(n) \subseteq Configured
  /\ \A n \in Nat : FirstOnes(n + 1) = FirstOnes(n) \union {Providers[n + 1]}
<1>1. FirstOnes(Len(Providers)) = Configured
  BY ProvidersAreListed DEF FirstOnes
<1>2. FirstOnes(0) = {} /\ FirstOnes(1) = {Providers[1]}
  BY DEF FirstOnes
<1>3. \A n \in Nat : FirstOnes(n + 1) = FirstOnes(n) \union {Providers[n + 1]}
  BY DEF FirstOnes
<1>4. \A n \in 0..Len(Providers) : FirstOnes(n) \subseteq FirstOnes(Len(Providers))
  BY ProvidersAreListed DEF FirstOnes
<1> QED BY <1>1, <1>2, <1>3, <1>4

LEMMA NoCallInv == NoCall => CallInv'
  BY FirstOnesAreConfigured, ProvidersAreListed DEF NoCall, CallInv, CallTypeOK, Calling

LEMMA InitCallInv == InitCall => CallInv
  BY FirstOnesAreConfigured, ProvidersAreListed DEF InitCall, CallInv, CallTypeOK, Calling

LEMMA BeginCallInv == BeginCall => CallInv' /\ Calling'
<1> SUFFICES ASSUME BeginCall PROVE CallInv' /\ Calling'
  OBVIOUS
<1>1. /\ at' = 1 /\ url' = 1 /\ attempt' = 1 /\ outcome' = "none"
      /\ asked' = FirstOnes(1)
  BY FirstOnesAreConfigured DEF BeginCall
<1>2. 1 \in 0..Len(Providers) /\ 1 \in 1..UrlsOf(Providers[1])
  BY ProvidersAreListed, FallbackAssumption DEF UrlsOf
<1> QED BY <1>1, <1>2, FirstOnesAreConfigured DEF CallInv, CallTypeOK, Calling

LEMMA NextProviderInv ==
  ASSUME CallInv, Calling, NextProvider PROVE CallInv' /\ (Calling' \/ outcome' # "none")
<1>1. at \in 1..Len(Providers) /\ asked = FirstOnes(at) /\ Len(Providers) \in Nat
  BY ProvidersAreListed DEF CallInv, CallTypeOK, Calling
<1>2. CASE at < Len(Providers)
  <2>1. /\ at' = at + 1 /\ url' = 1 /\ attempt' = 1 /\ outcome' = outcome
        /\ asked' = asked \union {Providers[at + 1]}
    BY <1>2 DEF NextProvider
  <2>2. outcome = "none"
    BY DEF CallInv, CallTypeOK
  <2>3. asked' = FirstOnes(at + 1)
    BY <1>1, <2>1, FirstOnesAreConfigured
  <2>4. at + 1 \in 0..Len(Providers) /\ 1 \in 1..UrlsOf(Providers[at + 1])
    BY <1>1, <1>2, FallbackAssumption DEF UrlsOf
  <2>5. at' # 0 /\ outcome' = "none" /\ asked' \subseteq Configured
    BY <1>1, <2>1, <2>2, <2>3, <2>4, FirstOnesAreConfigured
  <2>6. UrlsOf(Providers[at])' = UrlsOf(Providers[at + 1]) /\ at' \in 0..Len(Providers)
    BY <2>1, <2>4
  <2>7. CallTypeOK'
    BY <2>1, <2>4, <2>5, <2>6 DEF CallTypeOK, Calling
  <2>8. asked' = FirstOnes(at)'
    BY <2>1, <2>3
  <2> QED BY <2>5, <2>6, <2>7, <2>8 DEF CallInv, Calling
<1>3. CASE ~(at < Len(Providers))
  <2>1. at = Len(Providers)
    BY <1>1, <1>3
  <2>2. at' = 0 /\ url' = 0 /\ attempt' = 0 /\ outcome' = "failed" /\ asked' = asked
    BY <1>3 DEF NextProvider, EndCall
  <2> QED BY <1>1, <2>1, <2>2, FirstOnesAreConfigured DEF CallInv, CallTypeOK, Calling
<1> QED BY <1>2, <1>3

LEMMA ReplyInv ==
  ASSUME CallInv, NEW r \in Replies, Reply(r) PROVE CallInv' /\ (Calling' \/ outcome' # "none")
<1>1. Calling /\ at \in 1..Len(Providers) /\ Len(Providers) \in Nat
  BY ProvidersAreListed DEF Reply, CallInv, CallTypeOK, Calling
<1>2. ASSUME EndCall("text") \/ EndCall("escaped")
      PROVE  CallInv' /\ (Calling' \/ outcome' # "none")
  BY <1>1, <1>2 DEF EndCall, CallInv, CallTypeOK, Calling
<1>3. CASE Retry
  BY <1>1, <1>3 DEF Retry, CallInv, CallTypeOK, Calling
<1>4. CASE FedoraReply(r) /\ Providers[at] = "fedora"
  <2>1. CASE url < FedoraUrls /\ r # "text"
    <3>1. UNCHANGED <<at, outcome, asked>> /\ url' = url + 1 /\ attempt' = 1
      BY <1>4, <2>1 DEF FedoraReply
    <3>2. url + 1 \in 1..UrlsOf(Providers[at])
      BY <1>1, <1>4, <2>1, FallbackAssumption DEF UrlsOf, CallInv, CallTypeOK
    <3> QED BY <1>1, <3>1, <3>2 DEF CallInv, CallTypeOK, Calling
  <2>2. CASE ~(url < FedoraUrls /\ r # "text")
    BY <1>1, <1>2, <1>4, <2>2, NextProviderInv DEF FedoraReply
  <2> QED BY <2>1, <2>2
<1>5. CASE PlainReply(r)
  BY <1>1, <1>2, <1>5, NextProviderInv DEF PlainReply
<1> QED BY <1>3, <1>4, <1>5 DEF Reply

LEMMA CallIsInOrder == CallInv => FailsOnlyWhenAllFailed
<1> SUFFICES ASSUME CallInv, NEW name \in asked
             PROVE  \E k \in DOMAIN Preference :
                      /\ Preference[k] = name
                      /\ \A i \in 1..k : Preference[i] \in Configured => Preference[i] \in asked
  BY DEF CallInv, FailsOnlyWhenAllFailed
<1>1. PICK n \in 0..Len(Providers) : asked = FirstOnes(n)
  BY DEF CallInv
<1>2. PICK a \in 1..n : Providers[a] = name
  BY <1>1 DEF FirstOnes
<1>3. a \in 1..Len(Providers) /\ Len(Providers) \in Nat
  BY <1>1, <1>2, ProvidersAreListed
<1>4. PICK k \in 1..Len(Preference) :
        /\ Preference[k] = Providers[a]
        /\ \A i \in 1..k :
             Preference[i] \in Configured => \E b \in 1..a : Providers[b] = Preference[i]
  BY <1>3, ProvidersAreListed DEF Lists
<1>5. \A b \in 1..a : Providers[b] \in asked
  BY <1>1, <1>2, <1>3 DEF FirstOnes
<1>6. DOMAIN Preference = 1..Len(Preference)
  BY PreferenceIsASequence
<1> QED BY <1>2, <1>4, <1>5, <1>6

-----------------------------------------------------------------------------
(* The types of it all.                                                    *)

Types ==
  /\ Tables /\ CallInv
  /\ odd \subseteq 1..sent
  /\ pc \in {"down", "sleep", "poll", "record", "llm", "store"} /\ resolved \in BOOLEAN
  /\ bad \in BOOLEAN /\ listed \subseteq recorded
  /\ (Calling \/ outcome # "none") <=> pc = "llm"
  /\ faults \in 0..MaxFaults

LEMMA InitAllTypes == Init => Types
<1> SUFFICES ASSUME Init PROVE Types
  OBVIOUS
<1>1. Tables /\ CallInv
  BY InitTables, InitCallInv DEF Init
<1>2. faults \in 0..MaxFaults
  BY SyncAssumption DEF Init
<1>3. ~(Calling \/ outcome # "none") /\ pc # "llm"
  BY DEF Init, InitCall, Calling
<1> QED BY <1>1, <1>2, <1>3 DEF Init, Types

LEMMA NextFaults == faults \in 0..MaxFaults /\ [Next]_vars => faults' \in 0..MaxFaults
<1> SUFFICES ASSUME faults \in 0..MaxFaults, [Next]_vars PROVE faults' \in 0..MaxFaults
  OBVIOUS
<1>1. faults' = faults \/ (faults < MaxFaults /\ faults' = faults + 1)
  BY DEF vars, Next, Poll, Extract, Fault, Send, Start, SleepEnds, Resolve, ResolveFails, Fetch,
     FetchFails, Record, Select, Ask, ModelReplies, NoList, RecordFails, List, OddList, Answered,
     Store, StoreOdd, StoreRaises, Mark, Crash
<1> QED BY <1>1, SyncAssumption

LEMMA CallStays == CallInv /\ UNCHANGED callVars => CallInv'
  BY DEF callVars, CallInv, CallTypeOK, Calling, FirstOnes

LEMMA CallEnds == NoCall => ~Calling' /\ outcome' = "none"
  BY DEF NoCall, Calling

LEMMA NextAllTypes == Types /\ [Next]_vars => Types'
<1> SUFFICES ASSUME Types, [Next]_vars PROVE Types'
  OBVIOUS
<1>1. Tables' /\ Tables /\ faults' \in 0..MaxFaults
  BY NextTables, NextFaults DEF Types
<1>2. MaxFaults \in Nat /\ MaxMessage \in Nat /\ sent \in Nat
  BY <1>1, SyncAssumption DEF Tables
<1> USE DEF Types, Return
<1>3. UNCHANGED callVars => CallInv' /\ UNCHANGED <<outcome, at>>
  BY CallStays DEF callVars
<1>4. CASE UNCHANGED vars
  BY <1>1, <1>3, <1>4 DEF vars, Calling
<1>5. CASE Send
  BY <1>1, <1>2, <1>3, <1>5 DEF Send, Calling
<1>6. CASE Start \/ SleepEnds \/ Resolve \/ ResolveFails \/ Fetch \/ FetchFails
  BY <1>1, <1>3, <1>6 DEF Start, SleepEnds, Resolve, ResolveFails, Fetch, FetchFails, Calling
<1>7. CASE Record \/ RecordFails
  <2>1. listed \subseteq recorded'
    BY <1>7 DEF Record, RecordFails
  <2> QED BY <1>1, <1>3, <1>7, <2>1 DEF Record, RecordFails, Calling
<1>8. CASE Select
  <2>1. UNCHANGED <<odd, resolved, bad, listed, recorded, sent, faults>>
    BY <1>8 DEF Select
  <2>2. CASE pc' = "sleep" /\ UNCHANGED callVars
    BY <1>1, <1>3, <1>8, <2>1, <2>2 DEF Select, Calling
  <2>3. CASE pc' = "llm" /\ BeginCall
    BY <1>1, <2>1, <2>3, BeginCallInv
  <2> QED BY <1>8, <2>2, <2>3 DEF Select
<1>9. CASE Ask
  <2>1. PICK r \in Replies : ModelReplies(r)
    BY <1>9 DEF Ask
  <2>2. CallInv' /\ (Calling' \/ outcome' # "none")
    BY <2>1, ReplyInv DEF ModelReplies
  <2> QED BY <1>1, <2>1, <2>2 DEF ModelReplies
<1>10. CASE NoList
  BY <1>1, <1>10, NoCallInv, CallEnds DEF NoList
<1>11. CASE List \/ OddList
  <2>1. PICK named \in Named : Answered(named)
    BY <1>11 DEF List, OddList
  <2>2. listed' = (listed \ batch) \union named /\ named \subseteq recorded /\ recorded' = recorded
    BY <1>1, <2>1 DEF Answered, Named, Tables
  <2>3. /\ NoCall /\ pc' = "store" /\ UNCHANGED <<sent, odd, resolved>> /\ bad' \in BOOLEAN
    BY <1>11, <2>1 DEF List, OddList, Answered
  <2> QED BY <1>1, <2>2, <2>3, NoCallInv, CallEnds
<1>12. CASE Store \/ StoreOdd \/ StoreRaises \/ Mark
  BY <1>1, <1>3, <1>12 DEF Store, StoreOdd, StoreRaises, Mark, Calling
<1>13. CASE Crash
  BY <1>1, <1>13, NoCallInv, CallEnds DEF Crash
<1> QED
  BY <1>4, <1>5, <1>6, <1>7, <1>8, <1>9, <1>10, <1>11, <1>12, <1>13
  DEF Next, Poll, Extract, Fault

LEMMA TypesInvariance == Spec => []Types
  BY InitAllTypes, NextAllTypes, PTL DEF Spec

\* Every variable keeps its type, for any providers and any order of them, and a call
\* is under way exactly while the loop waits for the model.
THEOREM TypeCorrect == Spec => []TypeOK
<1>1. Types => TypeOK
  BY DEF Types, TypeOK, Tables, CallInv
<1> QED BY <1>1, TypesInvariance, PTL

\* Whatever is configured and however the order names it, also twice, not at all or
\* wrongly: a call fails only when every configured provider was asked, and none is
\* asked before one that is named before it.
THEOREM ProvidersAskedInOrder == Spec => []FailsOnlyWhenAllFailed
<1>1. Types => FailsOnlyWhenAllFailed
  BY CallIsInOrder DEF Types
<1> QED BY <1>1, TypesInvariance, PTL

-----------------------------------------------------------------------------
(* The size of a batch.                                                    *)

\* What is asked of the model keeps the limit.
BatchKeepsLimit ==
  /\ IsFiniteSet(batch) /\ Cardinality(batch) <= BatchLimit
  /\ pc = "llm" => batch # {}

\* The oldest ones are at most the limit, and some whenever there is any.
LEMMA OldestAreFew ==
  ASSUME Tables
  PROVE  /\ IsFiniteSet(OldestUnprocessed) /\ Cardinality(OldestUnprocessed) <= BatchLimit
         /\ recorded \ processed # {} => OldestUnprocessed # {}
<1> DEFINE S == recorded \ processed
           Before(m) == {p \in S : p < m}
           B == OldestUnprocessed
<1>1. BatchLimit \in Nat \ {0} /\ sent \in Nat /\ S \subseteq 1..sent /\ S \subseteq Nat
  BY SyncAssumption DEF Tables
<1>2. IsFiniteSet(S) /\ \A T \in SUBSET S : IsFiniteSet(T) /\ Cardinality(T) \in Nat
  <2>1. IsFiniteSet(1..sent)
    BY <1>1, FS_Interval
  <2>2. ASSUME NEW T, T \subseteq 1..sent PROVE IsFiniteSet(T) /\ Cardinality(T) \in Nat
    BY <2>1, <2>2, FS_Subset, FS_CardinalityType
  <2> QED BY <1>1, <2>2
<1>3. B \subseteq S /\ \A m \in S : m \in B <=> Cardinality(Before(m)) < BatchLimit
  BY DEF OldestUnprocessed
<1>4. ASSUME S # {} PROVE B # {}
  <2>1. PICK m \in S : \A p \in S : m <= p
    BY <1>1, <1>4, LeastNumber
  <2>2. Before(m) = {}
    BY <1>1, <2>1
  <2> QED BY <1>1, <1>3, <2>1, <2>2, FS_EmptySet
<1>5. ASSUME B # {} PROVE Cardinality(B) <= BatchLimit
  <2> DEFINE Above == {n \in Nat : \A m \in B : m <= n}
  <2>1. Above \in SUBSET Nat /\ sent \in Above
    BY <1>1, <1>3
  <2>2. PICK n \in Above : \A k \in Above : n <= k
    <3> HIDE DEF Above
    <3> QED BY <2>1, LeastNumber
  <2>3. n \in B
    <3> SUFFICES ASSUME n \notin B PROVE FALSE
      OBVIOUS
    <3>1. n # 0 /\ n - 1 \in Nat
      BY <1>1, <1>3, <1>5, <2>2
    <3>2. n - 1 \in Above
      BY <1>1, <1>3, <2>2, <3>1
    <3> QED BY <2>2, <3>1, <3>2
  <2>4. B \subseteq Before(n) \union {n} /\ n \notin Before(n)
    BY <1>1, <1>3, <2>2
  <2>5. /\ IsFiniteSet(Before(n) \union {n})
        /\ Cardinality(Before(n) \union {n}) = Cardinality(Before(n)) + 1
    BY <1>2, <2>4, FS_AddElement
  <2>6. Cardinality(B) <= Cardinality(Before(n) \union {n})
    BY <2>4, <2>5, FS_Subset
  <2>7. Cardinality(Before(n)) < BatchLimit
    BY <1>3, <2>3
  <2> QED BY <1>1, <1>2, <1>3, <2>5, <2>6, <2>7
<1> QED BY <1>1, <1>2, <1>3, <1>4, <1>5, FS_EmptySet

LEMMA NextBatch == Tables /\ Tables' /\ BatchKeepsLimit /\ [Next]_vars => BatchKeepsLimit'
<1> SUFFICES ASSUME Tables, Tables', BatchKeepsLimit, [Next]_vars PROVE BatchKeepsLimit'
  OBVIOUS
<1> USE DEF BatchKeepsLimit, Return
<1>1. Cardinality({}) <= BatchLimit /\ IsFiniteSet({})
  BY FS_EmptySet, SyncAssumption
<1>2. CASE Select
  BY <1>2, OldestAreFew DEF Select
<1>3. CASE ~Select
  <2>1. \/ batch' = batch /\ (pc' = "llm" => pc = "llm")
        \/ batch' = {} /\ pc' # "llm"
    BY <1>3
    DEF vars, Next, Poll, Extract, Fault, Send, Start, SleepEnds, Resolve, ResolveFails, Fetch,
        FetchFails, Record, Ask, ModelReplies, NoList, RecordFails, List, OddList, Answered,
        Store, StoreOdd, StoreRaises, Mark, Crash
  <2> QED BY <1>1, <2>1
<1> QED BY <1>2, <1>3

\* However many messages wait, the model is asked about no more than the limit, and
\* about some whenever it is asked.
THEOREM BatchesKeepLimit == Spec => []BatchKeepsLimit
<1>1. Init => BatchKeepsLimit
  BY FS_EmptySet, SyncAssumption DEF Init, BatchKeepsLimit
<1> QED BY <1>1, TablesInvariance, NextBatch, PTL DEF Spec

=============================================================================
