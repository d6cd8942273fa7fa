------------------------ MODULE TelegramOutboxProofs ------------------------
(***************************************************************************)
(* Proofs about TelegramOutbox, for any messages, recipients, workers,     *)
(* partitions, limits and any number of faults: the types, that rows are   *)
(* closed on evidence and for good, that it implements DeliveryPromise,    *)
(* what a repetition takes, and how the delays of the retries grow.        *)
(***************************************************************************)
EXTENDS TelegramOutbox, FiniteSetTheorems, Induction, TLAPS

(* Two parts of KeepsPromise, for their own sake.                          *)

\* A row is closed as delivered only when Telegram took the message, and as
\* dead only when Telegram answered 400 or 403: no exception, stale read,
\* crash or second worker closes a row without that evidence.
SettledHasEvidence ==
  \A j \in Jobs :
    /\ status[j] = "delivered" => accepted[j] > 0
    /\ status[j] = "dead" => refused[j]

\* A closed row is never reopened, relabelled or rescheduled: not by a late
\* retry, not by a second worker, not by enqueueing the post once more.
SettledIsFinal ==
  [][\A j \in Jobs :
       status[j] \in Settled =>
         /\ status'[j] = status[j]
         /\ attempts'[j] = attempts[j]
         /\ leaseIn'[j] <= leaseIn[j]]_vars

-----------------------------------------------------------------------------

(* The delay after a failure.                                              *)

LEMMA TwoToStep ==
  /\ TwoTo[0] = 1
  /\ \A e \in 1..MaxExp : TwoTo[e] = 2 * TwoTo[e - 1]
  /\ \A e \in 0..MaxExp : TwoTo[e] \in Nat \ {0}
<1> DEFINE S == Nat \ {0}
           step == [p \in S \X Nat |-> 2 * p[1]]
           base == 1
           Defines(f) == f = [e \in 0..MaxExp |-> IF e = 0 THEN 1 ELSE 2 * f[e - 1]]
           T == {e \in 0..MaxExp : TwoTo[e] \in S}
<1>1. MaxExp \in Nat
  BY ConstantAssumption
<1>2. base \in S /\ step \in [S \X Nat -> S]
  OBVIOUS
<1> HIDE DEF S, step, base
<1>3. PICK f : Recursion(f, S, MaxExp, base, step)
  BY ONLY <1>1, <1>2, RecursiveFunction
<1>4. ASSUME NEW e \in 0..MaxExp, e # 0 PROVE step[<<f[e - 1], e>>] = 2 * f[e - 1]
  <2>1. f[e - 1] \in S /\ e \in Nat
    BY <1>1, <1>3, <1>4 DEF Recursion
  <2> QED BY <2>1 DEF step
<1>5. Defines(f)
  BY <1>3, <1>4 DEF Recursion, base
<1>6. Defines(TwoTo)
  <2>1. TwoTo = CHOOSE g : Defines(g)
    BY DEF TwoTo
  <2> HIDE DEF Defines
  <2> QED BY <1>5, <2>1
<1>7. TwoTo[0] = 1 /\ \A e \in 1..MaxExp : TwoTo[e] = 2 * TwoTo[e - 1]
  BY <1>1, <1>6
<1>8. 0 \in T
  BY <1>1, <1>7 DEF S
<1>9. ASSUME NEW e \in 0..MaxExp - 1, e \in T PROVE e + 1 \in T
  <2>1. e + 1 \in 1..MaxExp /\ e + 1 - 1 = e
    BY <1>1
  <2> QED BY <1>7, <1>9, <2>1 DEF S
<1>10. \A e \in 0..MaxExp : e \in T
  <2> HIDE DEF T
  <2> QED BY ONLY <1>1, <1>8, <1>9, BoundedInduction
<1> QED BY <1>7, <1>10 DEF S

LEMMA BackoffType == ASSUME NEW n \in 0..MaxExp PROVE Backoff(n) \in 0..DelayCap
  BY ConstantAssumption, TwoToStep DEF Backoff, Min2

\* For any cap and exponent, a job that has failed once more waits twice as long as
\* before or as long as the cap allows, and never less than a second (where the cap
\* is one at least), so that failures cannot make a worker ask without a pause.
THEOREM DelaysDouble ==
  ASSUME NEW n \in 0..MaxExp, DelayCap > 0
  PROVE  /\ Backoff(n) \in 1..DelayCap
         /\ n < MaxExp => Backoff(n + 1) = Min2(2 * Backoff(n), DelayCap)
<1>1. /\ MaxExp \in Nat /\ DelayCap \in Nat /\ TwoTo[n] \in Nat \ {0}
      /\ Backoff(n) = Min2(TwoTo[n], DelayCap)
  BY ConstantAssumption, TwoToStep DEF Backoff, Min2
<1>2. ASSUME n < MaxExp PROVE Backoff(n + 1) = Min2(2 * TwoTo[n], DelayCap)
  <2>1. n + 1 \in 1..MaxExp /\ n + 1 - 1 = n /\ Min2(n + 1, MaxExp) = n + 1
    BY <1>1, <1>2 DEF Min2
  <2>2. TwoTo[n + 1] = 2 * TwoTo[n]
    BY <2>1, TwoToStep
  <2> QED BY <2>1, <2>2 DEF Backoff
<1> QED BY <1>1, <1>2 DEF Min2

-----------------------------------------------------------------------------

LEMMA InitType == Init => TypeOK
BY ConstantAssumption DEF Init, TypeOK, Statuses, Settled, Steps

LEMMA PublisherType == TypeOK /\ Publisher => TypeOK'
<1> SUFFICES ASSUME TypeOK, Publisher PROVE TypeOK'
  OBVIOUS
<1> USE DEF TypeOK, rowVars, pubVars, workerVars, histVars
<1>1. CASE ScanDue
  BY <1>1 DEF ScanDue, Due
<1>2. ASSUME NEW j \in Jobs, ProduceAcked(j) PROVE TypeOK'
  BY <1>2 DEF ProduceAcked
<1>3. ASSUME NEW j \in Jobs, ProduceFailed(j) PROVE TypeOK'
  BY <1>3 DEF ProduceFailed
<1>4. CASE BufferFull
  BY <1>4 DEF BufferFull
<1>5. ASSUME NEW j \in Jobs, MarkPublished(j) PROVE TypeOK'
  BY <1>5, ConstantAssumption DEF MarkPublished
<1>6. CASE PublisherStops
  BY <1>6 DEF PublisherStops
<1>7. QED
  BY <1>1, <1>2, <1>3, <1>4, <1>5, <1>6 DEF Publisher

LEMMA NextType == TypeOK /\ [Next]_vars => TypeOK'
<1> SUFFICES ASSUME TypeOK, [Next]_vars PROVE TypeOK'
  OBVIOUS
<1> USE DEF rowVars, pubVars, workerVars, histVars
<1>1. ASSUME NEW m \in Messages, NEW to \in SUBSET Recipients, Enqueue(m, to)
      PROVE  TypeOK'
  BY <1>1 DEF Enqueue, TypeOK, Statuses, Settled
<1>2. CASE Publisher
  BY <1>2, PublisherType
<1>3. ASSUME NEW w \in Workers, NEW j \in Jobs, Receive(w, j) PROVE TypeOK'
  BY <1>3, ConstantAssumption DEF Receive, TypeOK, Steps
<1>4. ASSUME NEW w \in Workers, Work(w) PROVE TypeOK'
  <2>0. pc[w] # "idle" => holds[w] \in Jobs
    BY DEF TypeOK
  <2>1. CASE SendAccepted(w)
    BY <2>1, <2>0, ConstantAssumption DEF SendAccepted, Goto, TypeOK, Steps, Timed
  <2>2. CASE SendRejected(w)
    BY <2>2, <2>0, ConstantAssumption DEF SendRejected, Goto, TypeOK, Steps, Timed
  <2>3. CASE SendFailed(w)
    BY <2>3, <2>0, ConstantAssumption DEF SendFailed, Goto, TypeOK, Steps, Timed
  <2>4. CASE MarkDelivered(w)
    BY <2>4, <2>0, ConstantAssumption
       DEF MarkDelivered, Goto, TypeOK, Steps, Timed, Statuses, Settled
  <2>5. CASE MarkDead(w)
    BY <2>5, <2>0, ConstantAssumption
       DEF MarkDead, Goto, TypeOK, Steps, Timed, Statuses, Settled, Min2
  <2>6. CASE RetryRead(w)
    BY <2>6, <2>0, ConstantAssumption DEF RetryRead, Goto, TypeOK, Steps, Timed
  <2>7. CASE RetryWrite(w)
    <3>1. Min2(seen[w] + 1, MaxExp) \in 0..MaxExp
      BY ConstantAssumption DEF TypeOK, Min2
    <3>2. Backoff(Min2(seen[w] + 1, MaxExp)) \in 0..DelayCap
      BY <3>1, BackoffType
    <3> QED
      BY <2>7, <2>0, <3>1, <3>2, ConstantAssumption
         DEF RetryWrite, Goto, TypeOK, Steps, Timed
  <2>8. CASE Commit(w)
    BY <2>8, ConstantAssumption DEF Commit, Release, TypeOK, Steps
  <2> QED
    BY <1>4, <2>1, <2>2, <2>3, <2>4, <2>5, <2>6, <2>7, <2>8 DEF Work
<1>5. ASSUME NEW w \in Workers, Fault(w) PROVE TypeOK'
  <2>0. pc[w] # "idle" => holds[w] \in Jobs
    BY DEF TypeOK
  <2>1. CASE SendAnswerLost(w)
    BY <2>1, <2>0, ConstantAssumption DEF SendAnswerLost, Goto, TypeOK, Steps, Timed
  <2>2. CASE WorkerDies(w)
    BY <2>2, <2>0, ConstantAssumption DEF WorkerDies, Redeliver, Release, TypeOK, Steps
  <2>3. CASE Rebalance(w)
    BY <2>3, <2>0, ConstantAssumption DEF Rebalance, Redeliver, TypeOK, Steps
  <2> QED
    BY <1>5, <2>1, <2>2, <2>3 DEF Fault
<1>6. CASE Tick
  BY <1>6, ConstantAssumption DEF Tick, Left, Min2, TypeOK
<1>7. CASE UNCHANGED vars
  BY <1>7 DEF vars, TypeOK
<1> QED
  BY <1>1, <1>2, <1>3, <1>4, <1>5, <1>6, <1>7 DEF Next

\* Every variable keeps its type; a worker holds a record exactly while it is
\* busy, and the countdowns never leave their ranges.
THEOREM TypeCorrect == Spec => []TypeOK
BY InitType, NextType, PTL DEF Spec

-----------------------------------------------------------------------------
(* The inductive invariant behind the safety properties.                   *)

\* Only one worker that has not lost its record works in a partition.
OneOwner ==
  \A v, w \in Workers :
    v # w /\ holds[v] # NoJob /\ holds[w] # NoJob /\ ~revoked[v] /\ ~revoked[w]
      => PartitionOf[holds[v]] # PartitionOf[holds[w]]

\* An idle worker has nothing to lose; a busy one holds a job with a row.
BusyOnRow ==
  \A w \in Workers :
    /\ pc[w] = "idle" => ~revoked[w]
    /\ pc[w] \notin {"idle", "commit"} => status[holds[w]] # "absent"

\* The answer a worker is about to write down was really given.
AnswerInHand ==
  \A w \in Workers :
    /\ pc[w] = "accepted" => accepted[holds[w]] > 0
    /\ pc[w] = "rejected" => refused[holds[w]]

\* Every acceptance but one has its cause.  The one without is on record, or
\* in the hands of the owner of the record; the owner never sends again
\* before it is.
AcceptanceAccounted ==
  \A j \in Jobs :
    /\ accepted[j] <= causes[j] + 1
    /\ accepted[j] > causes[j] =>
         \/ status[j] \in Settled
         \/ \E w \in Workers : holds[w] = j /\ pc[w] = "accepted" /\ ~revoked[w]
    /\ \A w \in Workers :
         holds[w] = j /\ pc[w] = "send" /\ ~revoked[w] => accepted[j] <= causes[j]

IInv ==
  /\ TypeOK
  /\ OneOwner
  /\ BusyOnRow
  /\ AnswerInHand
  /\ SettledHasEvidence
  /\ AcceptanceAccounted

LEMMA InitIInv == Init => IInv
<1> SUFFICES ASSUME Init PROVE IInv
  OBVIOUS
<1>1. TypeOK
  BY InitType
<1>2. OneOwner /\ BusyOnRow /\ AnswerInHand
  BY DEF Init, OneOwner, BusyOnRow, AnswerInHand
<1>3. SettledHasEvidence /\ AcceptanceAccounted
  BY DEF Init, SettledHasEvidence, AcceptanceAccounted, Settled
<1> QED
  BY <1>1, <1>2, <1>3 DEF IInv

\* Steps that touch neither a worker, nor a status, nor the history.
LEMMA QuietStep ==
  ASSUME IInv, TypeOK',
         UNCHANGED <<status, pc, holds, revoked, accepted, refused, causes>>
  PROVE  IInv'
BY DEF IInv, OneOwner, BusyOnRow, AnswerInHand, SettledHasEvidence, AcceptanceAccounted

LEMMA PublisherIInv == IInv /\ TypeOK' /\ (Publisher \/ Tick) => IInv'
<1> SUFFICES ASSUME IInv, TypeOK', Publisher \/ Tick
             PROVE  UNCHANGED <<status, pc, holds, revoked, accepted, refused, causes>>
  BY QuietStep
<1> QED
  BY DEF Publisher, Tick, ScanDue, ProduceAcked, ProduceFailed, BufferFull, MarkPublished,
         PublisherStops, rowVars, pubVars, workerVars, histVars

LEMMA EnqueueIInv ==
  ASSUME IInv, TypeOK', NEW m \in Messages, NEW to \in SUBSET Recipients, Enqueue(m, to)
  PROVE  IInv'
<1> USE DEF IInv, TypeOK
<1>1. UNCHANGED <<pc, holds, revoked, accepted, refused, causes>>
  BY DEF Enqueue, workerVars, histVars
<1>2. \A j \in Jobs :
        /\ status[j] # "absent" => status'[j] = status[j]
        /\ status'[j] \in {status[j], "pending"}
  BY DEF Enqueue
<1>3. OneOwner'
  BY <1>1 DEF OneOwner
<1>4. BusyOnRow'
  BY <1>1, <1>2 DEF BusyOnRow
<1>5. AnswerInHand'
  BY <1>1 DEF AnswerInHand
<1>6. SettledHasEvidence'
  BY <1>1, <1>2 DEF SettledHasEvidence
<1>7. AcceptanceAccounted'
  BY <1>1, <1>2 DEF AcceptanceAccounted, Settled
<1> QED
  BY <1>3, <1>4, <1>5, <1>6, <1>7

LEMMA ReceiveIInv ==
  ASSUME IInv, TypeOK', NEW w \in Workers, NEW j \in Jobs, Receive(w, j)
  PROVE  IInv'
<1> USE DEF IInv, TypeOK
<1>1. UNCHANGED <<status, revoked, accepted, refused, causes>>
  BY DEF Receive, rowVars, histVars
<1>2. /\ pc[w] = "idle" /\ holds[w] = NoJob /\ ~revoked[w]
      /\ holds' = [holds EXCEPT ![w] = j]
      /\ pc' = [pc EXCEPT ![w] =
                  IF status[j] = "pending" /\ dueIn[j] = 0 THEN "send" ELSE "commit"]
  BY DEF Receive, BusyOnRow
<1>3. \A v \in Workers : holds[v] # NoJob /\ ~revoked[v] => PartitionOf[holds[v]] # PartitionOf[j]
  BY DEF Receive, PartitionFree
<1>4. OneOwner'
  BY <1>1, <1>2, <1>3 DEF OneOwner
<1>5. BusyOnRow'
  BY <1>1, <1>2 DEF BusyOnRow
<1>6. AnswerInHand'
  BY <1>1, <1>2 DEF AnswerInHand
<1>7. SettledHasEvidence'
  BY <1>1 DEF SettledHasEvidence
<1>8. AcceptanceAccounted'
  <2> SUFFICES ASSUME NEW k \in Jobs PROVE
        /\ accepted[k] <= causes[k] + 1
        /\ accepted[k] > causes[k] =>
             \/ status[k] \in Settled
             \/ \E v \in Workers : holds'[v] = k /\ pc'[v] = "accepted" /\ ~revoked[v]
        /\ \A v \in Workers :
             holds'[v] = k /\ pc'[v] = "send" /\ ~revoked[v] => accepted[k] <= causes[k]
    BY <1>1 DEF AcceptanceAccounted
  <2>1. accepted[k] <= causes[k] + 1
    BY DEF AcceptanceAccounted
  <2>2. accepted[k] > causes[k] =>
             \/ status[k] \in Settled
             \/ \E v \in Workers : holds'[v] = k /\ pc'[v] = "accepted" /\ ~revoked[v]
    BY <1>2 DEF AcceptanceAccounted
  <2>3. ASSUME NEW v \in Workers, holds'[v] = k, pc'[v] = "send", ~revoked[v]
        PROVE  accepted[k] <= causes[k]
    <3>1. CASE v # w
      BY <1>2, <2>3, <3>1 DEF AcceptanceAccounted
    <3>2. CASE v = w
      \* The row is pending and nobody else owns the record.
      <4>1. k = j /\ status[j] = "pending"
        BY <1>2, <2>3, <3>2
      <4>2. ~\E u \in Workers : holds[u] = j /\ ~revoked[u]
        BY <1>3, ConstantAssumption
      <4>3. ~(accepted[j] > causes[j])
        BY <4>1, <4>2 DEF AcceptanceAccounted, Settled
      <4>4. accepted[j] \in Nat /\ causes[j] \in Nat
        OBVIOUS
      <4> HIDE DEF IInv, TypeOK
      <4> QED
        BY <4>1, <4>3, <4>4
    <3> QED
      BY <3>1, <3>2
  <2> QED
    BY <2>1, <2>2, <2>3
<1> QED
  BY <1>4, <1>5, <1>6, <1>7, <1>8

\* Telegram's answers.
LEMMA AnswerIInv ==
  ASSUME IInv, TypeOK', NEW w \in Workers,
         SendAccepted(w) \/ SendAnswerLost(w) \/ SendRejected(w) \/ SendFailed(w)
  PROVE  IInv'
<1> USE DEF IInv, TypeOK
<1> DEFINE j == holds[w]
<1>1. /\ UNCHANGED <<status, holds, revoked>>
      /\ pc[w] = "send"
      /\ \E step \in {"accepted", "failed", "rejected"} : pc' = [pc EXCEPT ![w] = step]
  BY DEF SendAccepted, SendAnswerLost, SendRejected, SendFailed, Goto, rowVars
<1>2. j \in Jobs /\ status[j] # "absent"
  BY <1>1 DEF BusyOnRow
<1>3. OneOwner'
  BY <1>1 DEF OneOwner
<1>4. BusyOnRow'
  BY <1>1 DEF BusyOnRow
<1>5. \A k \in Jobs : accepted'[k] >= accepted[k] /\ (refused[k] => refused'[k])
  BY <1>2 DEF SendAccepted, SendAnswerLost, SendRejected, SendFailed, histVars
<1>6. AnswerInHand'
  <2>1. pc'[w] = "accepted" => accepted'[j] > 0
    BY <1>1, <1>2 DEF SendAccepted, SendAnswerLost, SendRejected, SendFailed, Goto
  <2>2. pc'[w] = "rejected" => refused'[j]
    BY <1>1, <1>2 DEF SendAccepted, SendAnswerLost, SendRejected, SendFailed, Goto
  <2> QED
    BY <1>1, <1>5, <2>1, <2>2 DEF AnswerInHand
<1>7. SettledHasEvidence'
  BY <1>1, <1>5 DEF SettledHasEvidence
<1>8. AcceptanceAccounted'
  <2> SUFFICES ASSUME NEW k \in Jobs PROVE
        /\ accepted'[k] <= causes'[k] + 1
        /\ accepted'[k] > causes'[k] =>
             \/ status[k] \in Settled
             \/ \E v \in Workers : holds[v] = k /\ pc'[v] = "accepted" /\ ~revoked[v]
        /\ \A v \in Workers :
             holds[v] = k /\ pc'[v] = "send" /\ ~revoked[v] => accepted'[k] <= causes'[k]
    BY <1>1 DEF AcceptanceAccounted
  <2>1. CASE accepted'[k] - causes'[k] = accepted[k] - causes[k]
    <3>1. \A v \in Workers :
            /\ pc[v] = "accepted" => pc'[v] = "accepted"
            /\ pc'[v] = "send" => pc[v] = "send"
      BY <1>1
    <3>2. /\ accepted'[k] <= causes'[k] + 1 <=> accepted[k] <= causes[k] + 1
          /\ accepted'[k] <= causes'[k] <=> accepted[k] <= causes[k]
          /\ accepted'[k] > causes'[k] <=> accepted[k] > causes[k]
      BY <2>1
    <3> QED
      BY <3>1, <3>2 DEF AcceptanceAccounted
  <2>2. CASE accepted'[k] - causes'[k] # accepted[k] - causes[k]
    \* Only the owner's acceptance tips the balance, and it was even before.
    <3>1. k = j /\ ~revoked[w] /\ SendAccepted(w)
      BY <1>2, <2>2 DEF SendAccepted, SendAnswerLost, SendRejected, SendFailed, histVars
    <3>2. accepted[k] <= causes[k]
      BY <1>1, <3>1 DEF AcceptanceAccounted
    <3>3. accepted'[k] = accepted[k] + 1 /\ causes'[k] = causes[k] /\ pc'[w] = "accepted"
      BY <3>1 DEF SendAccepted, Goto
    <3>4. \A v \in Workers : v # w /\ holds[v] = k => revoked[v]
      BY <3>1, <1>2, ConstantAssumption DEF OneOwner
    <3> QED
      BY <3>1, <3>2, <3>3, <3>4
  <2> QED
    BY <2>1, <2>2
<1> QED
  BY <1>3, <1>4, <1>6, <1>7, <1>8

\* Writing the outcome down.
LEMMA MarkIInv ==
  ASSUME IInv, TypeOK', NEW w \in Workers,
         MarkDelivered(w) \/ MarkDead(w) \/ RetryRead(w) \/ RetryWrite(w)
  PROVE  IInv'
<1> USE DEF IInv, TypeOK
<1> DEFINE j == holds[w]
<1>1. /\ UNCHANGED <<holds, revoked, accepted, refused, causes>>
      /\ pc[w] \in {"accepted", "rejected", "failed", "retryWrite"}
      /\ \E step \in {"commit", "retryWrite"} :
           /\ pc' = [pc EXCEPT ![w] = step]
           /\ step = "retryWrite" => pc[w] # "accepted"
  BY DEF MarkDelivered, MarkDead, RetryRead, RetryWrite, Goto, histVars
<1>2. j \in Jobs /\ status[j] # "absent"
  BY <1>1 DEF BusyOnRow
<1>3. \A k \in Jobs :
        /\ status[k] # "pending" => status'[k] = status[k]
        /\ status[k] = "pending" => status'[k] \in {"pending", "delivered", "dead"}
        /\ status'[k] = "delivered" => status[k] = "delivered" \/ (k = j /\ pc[w] = "accepted")
        /\ status'[k] = "dead" => status[k] = "dead" \/ (k = j /\ pc[w] = "rejected")
  BY <1>2 DEF MarkDelivered, MarkDead, RetryRead, RetryWrite, rowVars
<1>4. OneOwner'
  BY <1>1 DEF OneOwner
<1>5. BusyOnRow'
  <2>1. \A k \in Jobs : status[k] # "absent" => status'[k] # "absent"
    BY <1>3
  <2>2. \A v \in Workers : pc'[v] \notin {"idle", "commit"} => pc[v] \notin {"idle", "commit"}
    BY <1>1
  <2>3. \A v \in Workers : pc[v] # "idle" => holds[v] \in Jobs
    OBVIOUS
  <2> QED
    BY <1>1, <2>1, <2>2, <2>3 DEF BusyOnRow
<1>6. AnswerInHand'
  BY <1>1 DEF AnswerInHand
<1>7. SettledHasEvidence'
  BY <1>1, <1>3 DEF SettledHasEvidence, AnswerInHand
<1>8. AcceptanceAccounted'
  <2> SUFFICES ASSUME NEW k \in Jobs PROVE
        /\ accepted[k] <= causes[k] + 1
        /\ accepted[k] > causes[k] =>
             \/ status'[k] \in Settled
             \/ \E v \in Workers : holds[v] = k /\ pc'[v] = "accepted" /\ ~revoked[v]
        /\ \A v \in Workers :
             holds[v] = k /\ pc'[v] = "send" /\ ~revoked[v] => accepted[k] <= causes[k]
    BY <1>1 DEF AcceptanceAccounted
  <2>1. accepted[k] <= causes[k] + 1
    BY DEF AcceptanceAccounted
  <2>2. ASSUME accepted[k] > causes[k], status'[k] \notin Settled
        PROVE  \E v \in Workers : holds[v] = k /\ pc'[v] = "accepted" /\ ~revoked[v]
    <3>1. status[k] \notin Settled
      BY <1>3, <2>2 DEF Settled
    <3>2. PICK v \in Workers : holds[v] = k /\ pc[v] = "accepted" /\ ~revoked[v]
      BY <2>2, <3>1 DEF AcceptanceAccounted
    <3>3. CASE v = w
      \* The owner has just written the acceptance down.
      <4>1. MarkDelivered(w)
        BY <3>2, <3>3 DEF MarkDelivered, MarkDead, RetryRead, RetryWrite
      <4>2. status'[k] \in Settled
        BY <4>1, <3>1, <3>2, <3>3, <1>2 DEF MarkDelivered, Settled, Statuses
      <4> QED
        BY <4>2, <2>2
    <3> QED
      BY <3>2, <3>3, <1>1
  <2>3. \A v \in Workers :
             holds[v] = k /\ pc'[v] = "send" /\ ~revoked[v] => accepted[k] <= causes[k]
    BY <1>1 DEF AcceptanceAccounted
  <2> QED
    BY <2>1, <2>2, <2>3
<1> QED
  BY <1>4, <1>5, <1>6, <1>7, <1>8

\* Letting go of the record: at the commit, by dying, by a rebalance.
LEMMA LetGoIInv ==
  ASSUME IInv, TypeOK', NEW w \in Workers, Commit(w) \/ WorkerDies(w) \/ Rebalance(w)
  PROVE  IInv'
<1> USE DEF IInv, TypeOK
<1> DEFINE j == holds[w]
<1>1. UNCHANGED <<status, refused>> /\ j \in Jobs
  BY DEF Commit, WorkerDies, Rebalance, rowVars, histVars
<1>2. \/ /\ pc' = [pc EXCEPT ![w] = "idle"]
         /\ holds' = [holds EXCEPT ![w] = NoJob]
         /\ revoked' = [revoked EXCEPT ![w] = FALSE]
      \/ /\ UNCHANGED <<pc, holds>>
         /\ pc[w] # "idle"
         /\ revoked' = [revoked EXCEPT ![w] = TRUE]
  BY DEF Commit, WorkerDies, Rebalance, Release
<1>3. OneOwner'
  BY <1>2 DEF OneOwner
<1>4. BusyOnRow'
  BY <1>1, <1>2 DEF BusyOnRow
<1>5. \A k \in Jobs : accepted'[k] >= accepted[k]
  BY <1>1 DEF Commit, WorkerDies, Rebalance, histVars
<1>6. AnswerInHand'
  BY <1>1, <1>2, <1>5 DEF AnswerInHand
<1>7. SettledHasEvidence'
  BY <1>1, <1>5 DEF SettledHasEvidence
<1>8. AcceptanceAccounted'
  <2> SUFFICES ASSUME NEW k \in Jobs PROVE
        /\ accepted'[k] <= causes'[k] + 1
        /\ accepted'[k] > causes'[k] =>
             \/ status[k] \in Settled
             \/ \E v \in Workers : holds'[v] = k /\ pc'[v] = "accepted" /\ ~revoked'[v]
        /\ \A v \in Workers :
             holds'[v] = k /\ pc'[v] = "send" /\ ~revoked'[v] => accepted'[k] <= causes'[k]
    BY <1>1 DEF AcceptanceAccounted
  <2>1. accepted'[k] - causes'[k] <= accepted[k] - causes[k]
    BY <1>1 DEF Commit, WorkerDies, Rebalance, histVars
  <2>2. accepted'[k] <= causes'[k] + 1
    BY <2>1 DEF AcceptanceAccounted
  <2>3. ASSUME accepted'[k] > causes'[k], status[k] \notin Settled
        PROVE  \E v \in Workers : holds'[v] = k /\ pc'[v] = "accepted" /\ ~revoked'[v]
    <3>1. PICK v \in Workers : holds[v] = k /\ pc[v] = "accepted" /\ ~revoked[v]
      BY <2>1, <2>3 DEF AcceptanceAccounted
    <3>2. CASE v # w
      BY <1>2, <3>1, <3>2
    <3>3. CASE v = w
      \* An owner that lets go of an acceptance not yet written is a cause.
      <4>1. causes'[k] = causes[k] + 1 /\ accepted'[k] = accepted[k]
        BY <3>1, <3>3, <1>1 DEF Commit, WorkerDies, Rebalance
      <4>2. accepted[k] <= causes[k] + 1
        BY DEF AcceptanceAccounted
      <4> QED
        BY <4>1, <4>2, <2>3
    <3> QED
      BY <3>2, <3>3
  <2>4. ASSUME NEW v \in Workers, holds'[v] = k, pc'[v] = "send", ~revoked'[v]
        PROVE  accepted'[k] <= causes'[k]
    <3>1. v # w /\ holds[v] = k /\ pc[v] = "send" /\ ~revoked[v]
      BY <1>2, <2>4
    <3> QED
      BY <2>1, <3>1 DEF AcceptanceAccounted
  <2> QED
    BY <2>2, <2>3, <2>4
<1> QED
  BY <1>3, <1>4, <1>6, <1>7, <1>8

LEMMA NextIInv == IInv /\ [Next]_vars => IInv'
<1> SUFFICES ASSUME IInv, [Next]_vars PROVE IInv'
  OBVIOUS
<1>1. TypeOK'
  BY NextType DEF IInv
<1>2. ASSUME NEW m \in Messages, NEW to \in SUBSET Recipients, Enqueue(m, to)
      PROVE  IInv'
  BY <1>1, <1>2, EnqueueIInv
<1>3. CASE Publisher \/ Tick
  BY <1>1, <1>3, PublisherIInv
<1>4. ASSUME NEW w \in Workers, NEW j \in Jobs, Receive(w, j) PROVE IInv'
  BY <1>1, <1>4, ReceiveIInv
<1>5. ASSUME NEW w \in Workers, Work(w) PROVE IInv'
  BY <1>1, <1>5, AnswerIInv, MarkIInv, LetGoIInv DEF Work
<1>6. ASSUME NEW w \in Workers, Fault(w) PROVE IInv'
  BY <1>1, <1>6, AnswerIInv, LetGoIInv DEF Fault
<1>7. CASE UNCHANGED vars
  BY <1>1, <1>7, QuietStep DEF vars, rowVars, workerVars, histVars
<1> QED
  BY <1>2, <1>3, <1>4, <1>5, <1>6, <1>7 DEF Next

LEMMA Invariance == Spec => []IInv
BY InitIInv, NextIInv, PTL DEF Spec

-----------------------------------------------------------------------------
(* The safety properties, for all values of the constants.                 *)

\* A row is closed only on Telegram's own word.
THEOREM ClosedOnEvidence == Spec => []SettledHasEvidence
<1>1. IInv => SettledHasEvidence
  BY DEF IInv
<1> QED
  BY <1>1, Invariance, PTL

\* However many workers, publications, retries and faults there are, a
\* recipient gets a message at most once more often than the outbox was kept
\* from knowing that it had been taken.
THEOREM DuplicatesHaveCauses == Spec => []DuplicateHasCause
<1>1. IInv => DuplicateHasCause
  BY DEF IInv, TypeOK, AcceptanceAccounted, DuplicateHasCause
<1> QED
  BY <1>1, Invariance, PTL

\* No step reopens, relabels or reschedules a row that is closed.
THEOREM ClosedIsFinal == Spec => SettledIsFinal
<1> DEFINE Final(j) ==
      status[j] \in Settled =>
         /\ status'[j] = status[j]
         /\ attempts'[j] = attempts[j]
         /\ leaseIn'[j] <= leaseIn[j]
<1>1. ASSUME IInv, [Next]_vars, NEW j \in Jobs PROVE Final(j)
  <2> USE DEF Settled, rowVars, pubVars, workerVars, histVars
  <2>0. TypeOK
    BY <1>1 DEF IInv
  <2>1. ASSUME NEW m \in Messages, NEW to \in SUBSET Recipients, Enqueue(m, to)
        PROVE  Final(j)
    BY <2>0, <2>1 DEF Enqueue, TypeOK
  <2>2. CASE Publisher
    BY <2>0, <2>2, ConstantAssumption
       DEF Publisher, ScanDue, ProduceAcked, ProduceFailed, BufferFull, MarkPublished,
           PublisherStops, TypeOK
  <2>3. ASSUME NEW w \in Workers, NEW k \in Jobs, Receive(w, k) PROVE Final(j)
    BY <2>0, <2>3, ConstantAssumption DEF Receive, TypeOK
  <2>4. ASSUME NEW w \in Workers, Work(w) PROVE Final(j)
    <3> USE <2>0, ConstantAssumption DEF TypeOK
    <3>1. CASE MarkDelivered(w)
      BY <3>1 DEF MarkDelivered
    <3>2. CASE MarkDead(w)
      BY <3>2 DEF MarkDead
    <3>3. CASE RetryWrite(w)
      BY <3>3 DEF RetryWrite
    <3>4. CASE SendAccepted(w) \/ SendRejected(w) \/ SendFailed(w) \/ RetryRead(w) \/ Commit(w)
      BY <3>4 DEF SendAccepted, SendRejected, SendFailed, RetryRead, Commit
    <3> QED
      BY <2>4, <3>1, <3>2, <3>3, <3>4 DEF Work
  <2>5. ASSUME NEW w \in Workers, Fault(w) PROVE Final(j)
    BY <2>0, <2>5, ConstantAssumption
       DEF Fault, SendAnswerLost, WorkerDies, Rebalance, TypeOK
  <2>6. CASE Tick
    BY <2>0, <2>6, ConstantAssumption DEF Tick, Left, TypeOK
  <2>7. CASE UNCHANGED vars
    BY <2>0, <2>7, ConstantAssumption DEF vars, TypeOK
  <2> QED
    BY <1>1, <2>1, <2>2, <2>3, <2>4, <2>5, <2>6, <2>7 DEF Next
<1>2. IInv /\ [Next]_vars => [\A j \in Jobs : Final(j)]_vars
  BY <1>1
<1> QED
  BY <1>2, Invariance, PTL DEF Spec, SettledIsFinal

-----------------------------------------------------------------------------
(* What faults can do to a recipient.                                      *)

\* No two workers deliver the same job, unless a rebalance has taken the record
\* from one of them.
SenderIsAlone ==
  \A v, w \in Workers :
    v # w /\ holds[v] = holds[w] /\ holds[w] # NoJob => revoked[v] \/ revoked[w]

\* A message arrives at most once more than there were faults, and so at most once
\* as long as nothing fails, however often its job is published and retried.
RepeatsNeedFaults == \A j \in Jobs : accepted[j] <= 1 + faults

\* Those that may still be told that Telegram took the message, too late.
Astray(j) == {w \in Workers : holds[w] = j /\ pc[w] = "send" /\ revoked[w]}

\* Each cause of a repetition, and each one that may still become one, took a fault.
FaultsAccounted ==
  \A j \in Jobs :
    IsFiniteSet(Astray(j)) /\ causes[j] + Cardinality(Astray(j)) <= faults

LEMMA InitAccounted == Init => FaultsAccounted
<1> SUFFICES ASSUME Init, NEW j \in Jobs
             PROVE  IsFiniteSet(Astray(j)) /\ causes[j] + Cardinality(Astray(j)) <= faults
  BY DEF FaultsAccounted
<1>1. Astray(j) = {} /\ causes[j] = 0 /\ faults = 0
  BY DEF Init, Astray
<1> QED BY <1>1, FS_EmptySet

\* The account of a job when one worker moves.
LEMMA AccountKept ==
  ASSUME TypeOK, TypeOK', FaultsAccounted, NEW w \in Workers, NEW j \in Jobs,
         \A v \in Workers \ {w} : /\ holds'[v] = holds[v] /\ pc'[v] = pc[v]
                                  /\ revoked'[v] = revoked[v],
         NEW was \in 0..1, was = (IF w \in Astray(j) THEN 1 ELSE 0),
         NEW is \in 0..1, is = (IF w \in Astray(j)' THEN 1 ELSE 0),
         causes'[j] + is - faults' <= causes[j] + was - faults
  PROVE  IsFiniteSet(Astray(j)') /\ causes'[j] + Cardinality(Astray(j)') <= faults'
<1> DEFINE A == Astray(j)
           B == Astray(j)'
<1>1. IsFiniteSet(A) /\ Cardinality(A) \in Nat /\ causes[j] + Cardinality(A) <= faults
  BY FS_CardinalityType DEF FaultsAccounted
<1>2. causes[j] \in Nat /\ faults \in Nat /\ causes'[j] \in Nat /\ faults' \in Nat
  BY ConstantAssumption DEF TypeOK
<1>3. \A v : v # w => (v \in B <=> v \in A)
  BY DEF Astray
<1>4. IsFiniteSet(B) /\ Cardinality(B) = Cardinality(A) + is - was
  <2>1. CASE w \in B
    <3>1. B = A \union {w} /\ is = 1
      BY <1>3, <2>1
    <3> QED BY ONLY <1>1, <3>1, was \in 0..1, was = (IF w \in A THEN 1 ELSE 0), FS_AddElement
  <2>2. CASE w \notin B
    <3>1. B = A \ {w} /\ is = 0
      BY <1>3, <2>2
    <3> QED BY ONLY <1>1, <3>1, was \in 0..1, was = (IF w \in A THEN 1 ELSE 0), FS_RemoveElement
  <2> QED BY <2>1, <2>2
<1> HIDE DEF A, B
<1> QED BY <1>1, <1>2, <1>4 DEF A, B

LEMMA NextAccounted ==
  ASSUME IInv, TypeOK', FaultsAccounted, [Next]_vars
  PROVE  FaultsAccounted'
<1> USE DEF rowVars, workerVars, histVars
<1>t. TypeOK /\ BusyOnRow
  BY DEF IInv
<1>1. CASE UNCHANGED <<holds, pc, revoked, causes, faults>>
  BY <1>1 DEF FaultsAccounted, Astray
<1>2. CASE Publisher \/ Tick \/ UNCHANGED vars
           \/ \E m \in Messages : \E to \in SUBSET Recipients : Enqueue(m, to)
  <2>1. UNCHANGED <<holds, pc, revoked, causes, faults>>
    BY <1>2 DEF Publisher, Tick, ScanDue, ProduceAcked, ProduceFailed, BufferFull, MarkPublished,
                PublisherStops, Enqueue, vars
  <2> QED BY <1>1, <2>1
<1>3. ASSUME NEW w \in Workers, Work(w) \/ Fault(w) \/ \E j \in Jobs : Receive(w, j)
      PROVE  FaultsAccounted'
  <2> USE DEF TypeOK
  <2>1. \A v \in Workers \ {w} : /\ holds'[v] = holds[v] /\ pc'[v] = pc[v]
                                 /\ revoked'[v] = revoked[v]
    BY <1>3, <1>t DEF Work, Fault, Receive, SendAccepted, SendRejected, SendFailed, MarkDelivered,
         MarkDead, RetryRead, RetryWrite, Commit, SendAnswerLost, WorkerDies, Rebalance, Goto,
         Release
  <2> SUFFICES ASSUME NEW k \in Jobs
               PROVE  IsFiniteSet(Astray(k)') /\ causes'[k] + Cardinality(Astray(k)') <= faults'
    BY DEF FaultsAccounted
  <2> DEFINE was == IF w \in Astray(k) THEN 1 ELSE 0
             is == IF w \in Astray(k)' THEN 1 ELSE 0
  <2>t. causes[k] \in Nat /\ faults \in Nat /\ was \in 0..1
    BY <1>t, ConstantAssumption
  \* Where the worker does not go on to send, the account of faults decides.
  <2>2. ASSUME w \notin Astray(k)',
               \/ causes'[k] = causes[k] /\ faults' = faults
               \/ causes'[k] \in {causes[k], causes[k] + 1} /\ faults' = faults + 1
               \/ causes'[k] = causes[k] + 1 /\ faults' = faults /\ w \in Astray(k)
        PROVE  causes'[k] + is - faults' <= causes[k] + was - faults
    BY <2>2, <2>t
  <2>3. causes'[k] + is - faults' <= causes[k] + was - faults
    <3>1. CASE \E j \in Jobs : Receive(w, j)
      <4>1. ~revoked'[w] /\ causes' = causes /\ faults' = faults
        BY <1>t, <3>1 DEF Receive, BusyOnRow
      <4> QED BY <2>2, <4>1 DEF Astray
    <3>2. CASE SendAccepted(w)
      <4>1. /\ pc'[w] # "send" /\ pc[w] = "send" /\ faults' = faults
            /\ causes' = [causes EXCEPT ![holds[w]] = IF revoked[w] THEN @ + 1 ELSE @]
        BY <1>t, <3>2 DEF SendAccepted, Goto
      <4>2. CASE revoked[w] /\ holds[w] = k
        BY <1>t, <2>2, <4>1, <4>2 DEF Astray
      <4>3. CASE ~(revoked[w] /\ holds[w] = k)
        BY <1>t, <2>2, <4>1, <4>3 DEF Astray
      <4> QED BY <4>2, <4>3
    <3>3. CASE \/ SendRejected(w) \/ SendFailed(w) \/ MarkDelivered(w) \/ MarkDead(w)
               \/ RetryRead(w) \/ RetryWrite(w) \/ Commit(w)
      <4>1. pc'[w] # "send" /\ causes' = causes /\ faults' = faults
        BY <1>t, <3>3 DEF SendRejected, SendFailed, MarkDelivered, MarkDead, RetryRead, RetryWrite,
                          Commit, Goto, Release
      <4> QED BY <2>2, <4>1 DEF Astray
    <3>4. CASE SendAnswerLost(w) \/ WorkerDies(w)
      <4>1. /\ pc'[w] # "send" /\ faults' = faults + 1
            /\ causes'[k] \in {causes[k], causes[k] + 1}
        BY <1>t, <3>4 DEF SendAnswerLost, WorkerDies, Goto, Release
      <4> QED BY <2>2, <4>1 DEF Astray
    <3>5. CASE Rebalance(w)
      <4>1. /\ UNCHANGED <<pc, holds>> /\ ~revoked[w] /\ faults' = faults + 1
            /\ causes' = [causes EXCEPT ![holds[w]] = IF pc[w] = "accepted" THEN @ + 1 ELSE @]
        BY <3>5 DEF Rebalance
      <4>2. CASE w \in Astray(k)'
        <5>1. pc[w] = "send" /\ causes' = causes /\ is = 1 /\ was = 0
          BY <1>t, <4>1, <4>2 DEF Astray
        <5> QED BY <2>t, <4>1, <5>1
      <4>3. CASE w \notin Astray(k)'
        <5>1. causes'[k] \in {causes[k], causes[k] + 1}
          BY <1>t, <4>1
        <5> QED BY <2>2, <4>1, <4>3, <5>1
      <4> QED BY <4>2, <4>3
    <3> QED BY <1>3, <3>1, <3>2, <3>3, <3>4, <3>5 DEF Work, Fault
  <2>4. was \in 0..1 /\ is \in 0..1
    OBVIOUS
  <2> HIDE DEF TypeOK
  <2> QED BY <1>t, <2>1, <2>3, <2>4, AccountKept
<1> QED BY <1>2, <1>3 DEF Next

\* Two workers have the same job in hand only after a rebalance.
THEOREM DeliveryIsAlone == Spec => []SenderIsAlone
<1>1. IInv => SenderIsAlone
  BY DEF IInv, OneOwner, SenderIsAlone
<1> QED BY <1>1, Invariance, PTL

\* Every repetition has cost a fault of its own.
THEOREM RepeatsCostFaults == Spec => []RepeatsNeedFaults
<1>1. IInv /\ FaultsAccounted => RepeatsNeedFaults
  <2> SUFFICES ASSUME IInv, FaultsAccounted, NEW j \in Jobs PROVE accepted[j] <= 1 + faults
    BY DEF RepeatsNeedFaults
  <2>1. accepted[j] <= causes[j] + 1 /\ accepted[j] \in Nat /\ causes[j] \in Nat /\ faults \in Nat
    BY ConstantAssumption DEF IInv, AcceptanceAccounted, TypeOK
  <2>2. causes[j] + Cardinality(Astray(j)) <= faults /\ Cardinality(Astray(j)) \in Nat
    BY FS_CardinalityType DEF FaultsAccounted
  <2> QED BY <2>1, <2>2
<1>2. IInv /\ FaultsAccounted /\ [Next]_vars => (IInv /\ FaultsAccounted)'
  BY NextIInv, NextAccounted DEF IInv
<1> QED BY <1>1, <1>2, InitIInv, InitAccounted, PTL DEF Spec

-----------------------------------------------------------------------------
(* The outbox implements the promise: initial states map to initial        *)
(* states, steps to steps or stuttering.                                   *)

Taken == {j \in Jobs : accepted[j] > 0}
Turned == {j \in Jobs : refused[j]}

\* What Telegram does with a message is a step of the promise.
LEMMA AnswerSimulation ==
  ASSUME IInv, NEW j \in Jobs, status[j] # "absent",
         UNCHANGED status,
         \/ UNCHANGED refused /\ Taken' \in {Taken, Taken \union {j}}
         \/ UNCHANGED Taken /\ refused' = [refused EXCEPT ![j] = TRUE]
  PROVE  [Delivery!Next]_(Delivery!promiseVars)
<1>1. CASE UNCHANGED refused /\ Taken' = Taken
  BY <1>1 DEF Taken, Delivery!promiseVars
<1>2. CASE UNCHANGED refused /\ Taken' = Taken \union {j}
  <2>1. Delivery!Take(j)
    BY <1>2 DEF Delivery!Take, Taken
  <2> QED
    BY <2>1 DEF Delivery!Next
<1>3. CASE UNCHANGED Taken /\ refused' = [refused EXCEPT ![j] = TRUE]
  <2>1. Turned' = Turned \union {j}
    BY <1>3 DEF IInv, TypeOK, Turned
  <2>2. Delivery!Refuse(j)
    BY <1>3, <2>1 DEF Delivery!Refuse, Taken, Turned
  <2> QED
    BY <2>2 DEF Delivery!Next
<1> QED
  BY <1>1, <1>2, <1>3

LEMMA StepSimulation == IInv /\ [Next]_vars => [Delivery!Next]_(Delivery!promiseVars)
<1> SUFFICES ASSUME IInv, [Next]_vars PROVE [Delivery!Next]_(Delivery!promiseVars)
  OBVIOUS
<1> USE DEF rowVars, pubVars, workerVars, histVars
<1>0. TypeOK
  BY DEF IInv
<1>q. ASSUME UNCHANGED <<status, accepted, refused>>
      PROVE  [Delivery!Next]_(Delivery!promiseVars)
  BY <1>q DEF Delivery!promiseVars
<1>1. ASSUME NEW m \in Messages, NEW to \in SUBSET Recipients, Enqueue(m, to)
      PROVE  [Delivery!Next]_(Delivery!promiseVars)
  <2> DEFINE J == {j \in Jobs : j[1] = m /\ j[2] \in to /\ status[j] = "absent"}
  <2>1. Delivery!Book(J)
    BY <1>1 DEF Enqueue, Delivery!Book
  <2>2. J \in SUBSET Jobs
    OBVIOUS
  <2> QED
    BY <2>1, <2>2 DEF Delivery!Next
<1>2. CASE Publisher \/ Tick
  BY <1>2, <1>q DEF Publisher, Tick, ScanDue, ProduceAcked, ProduceFailed, BufferFull,
         MarkPublished, PublisherStops
<1>3. ASSUME NEW w \in Workers, NEW j \in Jobs, Receive(w, j)
      PROVE  [Delivery!Next]_(Delivery!promiseVars)
  BY <1>3, <1>q DEF Receive
<1>4. ASSUME NEW w \in Workers, Work(w) PROVE [Delivery!Next]_(Delivery!promiseVars)
  <2>1. CASE SendAccepted(w)
    <3>1. holds[w] \in Jobs /\ status[holds[w]] # "absent"
      BY <2>1 DEF SendAccepted, IInv, TypeOK, BusyOnRow
    <3>2. UNCHANGED <<status, refused>> /\ Taken' = Taken \union {holds[w]}
      BY <2>1, <3>1, <1>0 DEF SendAccepted, Taken, TypeOK
    <3> QED
      BY <3>1, <3>2, AnswerSimulation
  <2>2. CASE SendRejected(w)
    <3>1. holds[w] \in Jobs /\ status[holds[w]] # "absent"
      BY <2>2 DEF SendRejected, IInv, TypeOK, BusyOnRow
    <3>2. UNCHANGED <<status, Taken>> /\ refused' = [refused EXCEPT ![holds[w]] = TRUE]
      BY <2>2 DEF SendRejected, Taken
    <3> QED
      BY <3>1, <3>2, AnswerSimulation
  <2>3. CASE SendFailed(w) \/ RetryRead(w) \/ RetryWrite(w) \/ Commit(w)
    BY <2>3, <1>q DEF SendFailed, RetryRead, RetryWrite, Commit
  <2>4. CASE MarkDelivered(w)
    <3>1. holds[w] \in Jobs /\ holds[w] \in Taken
      BY <2>4 DEF MarkDelivered, IInv, TypeOK, AnswerInHand, Taken
    <3>2. CASE status[holds[w]] = "pending"
      <4>1. status' = [status EXCEPT ![holds[w]] = "delivered"] /\ UNCHANGED <<accepted, refused>>
        BY <2>4, <3>2, <1>0, <3>1 DEF MarkDelivered, TypeOK
      <4>2. Delivery!Close(holds[w])
        BY <3>1, <3>2, <4>1 DEF Delivery!Close, Taken
      <4> QED
        BY <3>1, <4>2 DEF Delivery!Next
    <3>3. CASE status[holds[w]] # "pending"
      BY <2>4, <3>3, <1>0, <1>q DEF MarkDelivered, TypeOK
    <3> QED
      BY <3>2, <3>3
  <2>5. CASE MarkDead(w)
    <3>1. holds[w] \in Jobs /\ holds[w] \in Turned
      BY <2>5 DEF MarkDead, IInv, TypeOK, AnswerInHand, Turned
    <3>2. CASE status[holds[w]] = "pending"
      <4>1. status' = [status EXCEPT ![holds[w]] = "dead"] /\ UNCHANGED <<accepted, refused>>
        BY <2>5, <3>2 DEF MarkDead
      <4>2. Delivery!Close(holds[w])
        BY <3>1, <3>2, <4>1 DEF Delivery!Close, Turned
      <4> QED
        BY <3>1, <4>2 DEF Delivery!Next
    <3>3. CASE status[holds[w]] # "pending"
      BY <2>5, <3>3, <1>q DEF MarkDead
    <3> QED
      BY <3>2, <3>3
  <2> QED
    BY <1>4, <2>1, <2>2, <2>3, <2>4, <2>5 DEF Work
<1>5. ASSUME NEW w \in Workers, Fault(w) PROVE [Delivery!Next]_(Delivery!promiseVars)
  <2>1. CASE SendAnswerLost(w) \/ WorkerDies(w)
    <3>1. CASE accepted' = accepted
      BY <2>1, <3>1, <1>q DEF SendAnswerLost, WorkerDies
    <3>2. CASE accepted' # accepted
      <4>1. /\ holds[w] \in Jobs /\ status[holds[w]] # "absent"
            /\ accepted' = [accepted EXCEPT ![holds[w]] = @ + 1]
        BY <2>1, <3>2 DEF SendAnswerLost, WorkerDies, IInv, TypeOK, BusyOnRow
      <4>2. UNCHANGED <<status, refused>> /\ Taken' = Taken \union {holds[w]}
        BY <2>1, <4>1, <1>0 DEF SendAnswerLost, WorkerDies, Taken, TypeOK
      <4> QED
        BY <4>1, <4>2, AnswerSimulation
    <3> QED
      BY <3>1, <3>2
  <2>2. CASE Rebalance(w)
    BY <2>2, <1>q DEF Rebalance
  <2> QED
    BY <1>5, <2>1, <2>2 DEF Fault
<1>6. CASE UNCHANGED vars
  BY <1>6, <1>q DEF vars
<1> QED
  BY <1>1, <1>2, <1>3, <1>4, <1>5, <1>6 DEF Next

\* The outbox, with its publisher, its workers and all their faults, keeps the
\* abstract promise of delivery.
THEOREM OutboxKeepsPromise == Spec => KeepsPromise
<1>1. Init => Delivery!Init
  BY DEF Init, Delivery!Init
<1>2. IInv /\ [Next]_vars => [Delivery!Next]_(Delivery!promiseVars)
  BY StepSimulation
<1> QED
  BY <1>1, <1>2, Invariance, PTL DEF Spec, KeepsPromise, Delivery!Spec

=============================================================================
