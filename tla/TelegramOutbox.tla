--------------------------- MODULE TelegramOutbox ---------------------------
(***************************************************************************)
(* Delivery of Telegram alerts through the SQLite outbox and the Kafka     *)
(* wake-up stream (telegram_queue.py, and the notification_jobs part of    *)
(* store.py).                                                              *)
(*                                                                         *)
(* One asyncio task publishes due jobs, several worker processes consume   *)
(* the records, call the Telegram Bot API and write the outcome back.      *)
(* Every SQLite transaction, every Kafka call and every API call is a step *)
(* of its own, because the processes interleave between them and may die   *)
(* between any two.                                                        *)
(*                                                                         *)
(* Time is kept as countdowns, so no clock has to be bounded: dueIn is     *)
(* next_attempt_at minus now, leaseIn is published_at + 15 s minus now,    *)
(* both cut off at 0 (a published_at that is null and one that has expired *)
(* are both leaseIn = 0: due_telegram_jobs treats them alike).             *)
(***************************************************************************)
EXTENDS Integers, FiniteSets

CONSTANTS
  Messages,     \* source posts that matched
  Recipients,   \* Telegram chat ids
  Workers,      \* delivery worker processes
  PartitionOf,  \* the Kafka partition of each job: its key is the job id
  NoJob,        \* what an idle worker holds
  BatchLimit,   \* rows due_telegram_jobs returns at most (100)
  Lease,        \* seconds a publication silences the publisher (15)
  MaxExp,       \* largest exponent of the retry delay (6)
  DelayCap,     \* largest retry delay (60)
  MaxQueued,    \* bound: records of one job the broker holds; then it refuses
  MaxFaults     \* bound: crashes, rebalances and lost API answers together

Jobs == Messages \X Recipients

ASSUME ConstantAssumption ==
  /\ NoJob \notin Jobs
  /\ BatchLimit \in Nat \ {0}
  /\ Lease \in Nat
  /\ MaxExp \in Nat
  /\ DelayCap \in Nat
  /\ MaxQueued \in Nat
  /\ MaxFaults \in Nat

VARIABLES
  status,     \* notification_jobs.status, "absent" where there is no row
  attempts,   \* notification_jobs.attempts, saturated at MaxExp
  dueIn,      \* seconds until next_attempt_at
  leaseIn,    \* seconds until published_at stops holding the publisher back
  batch,      \* publisher: ids read by due_telegram_jobs, not yet produced
  acked,      \* publisher: ids whose delivery report had no error, not marked
  queued,     \* Kafka: records of the job that no live consumer holds
  pc,         \* worker: where process_telegram_job / run_worker stands
  holds,      \* worker: the job of the record it polled
  revoked,    \* worker: a rebalance gave its record to somebody else
  elapsed,    \* worker: seconds since it read the clock, saturated at DelayCap
  seen,       \* worker: attempts as read by mark_telegram_job_retry
  accepted,   \* history: how often Telegram accepted the job's message
  refused,    \* history: Telegram answered 400 or 403 at least once
  causes,     \* history: acceptances the outbox had no chance to learn in time
  faults      \* faults so far

rowVars    == <<status, attempts, dueIn, leaseIn>>
pubVars    == <<batch, acked>>
workerVars == <<pc, holds, revoked, elapsed, seen>>
histVars   == <<accepted, refused, causes>>
vars == <<rowVars, pubVars, queued, workerVars, histVars, faults>>

Settled == {"delivered", "dead"}
Statuses == {"absent", "pending"} \union Settled
Steps == {"idle", "send", "accepted", "rejected", "failed", "retryWrite", "commit"}

Min2(a, b) == IF a < b THEN a ELSE b
Left(t) == IF t > 0 THEN t - 1 ELSE 0

\* Powers of two, as a recursive function since provers know no exponents.
TwoTo[e \in 0..MaxExp] == IF e = 0 THEN 1 ELSE 2 * TwoTo[e - 1]

\* Mutant: the cap is forgotten.
BackoffUncapped(n) == TwoTo[Min2(n, MaxExp)]

\* store.mark_telegram_job_retry: min(2 ** min(attempts, 6), 60)
Backoff(n) == Min2(TwoTo[Min2(n, MaxExp)], DelayCap)

TypeOK ==
  /\ status \in [Jobs -> Statuses]
  /\ attempts \in [Jobs -> 0..MaxExp]
  /\ dueIn \in [Jobs -> 0..DelayCap]
  /\ leaseIn \in [Jobs -> 0..Lease]
  /\ batch \subseteq Jobs
  /\ acked \subseteq Jobs
  /\ queued \in [Jobs -> Nat]
  /\ pc \in [Workers -> Steps]
  /\ holds \in [Workers -> Jobs \union {NoJob}]
  /\ \A w \in Workers : holds[w] = NoJob <=> pc[w] = "idle"
  /\ revoked \in [Workers -> BOOLEAN]
  /\ elapsed \in [Workers -> 0..DelayCap]
  /\ seen \in [Workers -> 0..MaxExp]
  /\ accepted \in [Jobs -> Nat]
  /\ refused \in [Jobs -> BOOLEAN]
  /\ causes \in [Jobs -> Nat]
  /\ faults \in 0..MaxFaults

Init ==
  /\ status = [j \in Jobs |-> "absent"]
  /\ attempts = [j \in Jobs |-> 0]
  /\ dueIn = [j \in Jobs |-> 0]
  /\ leaseIn = [j \in Jobs |-> 0]
  /\ batch = {}
  /\ acked = {}
  /\ queued = [j \in Jobs |-> 0]
  /\ pc = [w \in Workers |-> "idle"]
  /\ holds = [w \in Workers |-> NoJob]
  /\ revoked = [w \in Workers |-> FALSE]
  /\ elapsed = [w \in Workers |-> 0]
  /\ seen = [w \in Workers |-> 0]
  /\ accepted = [j \in Jobs |-> 0]
  /\ refused = [j \in Jobs |-> FALSE]
  /\ causes = [j \in Jobs |-> 0]
  /\ faults = 0

-----------------------------------------------------------------------------
(* The source watcher's side.                                              *)

\* One transaction inserts the missing rows of every recipient it is given;
\* existing rows, whatever their status, are left alone (insert or ignore).
\* The recipients are those of the moment: a post handled again after a crash
\* may find that the access table has changed.
Enqueue(m, to) ==
  /\ status' = [j \in Jobs |->
                  IF j[1] = m /\ j[2] \in to /\ status[j] = "absent"
                  THEN "pending" ELSE status[j]]
  /\ status' # status
  /\ UNCHANGED <<attempts, dueIn, leaseIn, pubVars, queued, workerVars,
                 histVars, faults>>

-----------------------------------------------------------------------------
(* The publisher task.                                                     *)

\* Mutant: a job is given up without being marked once it has failed often.
DueWhileFewAttempts ==
  {j \in Jobs : /\ status[j] = "pending" /\ dueIn[j] = 0 /\ leaseIn[j] = 0
                /\ attempts[j] = 0}

Due == {j \in Jobs : status[j] = "pending" /\ dueIn[j] = 0 /\ leaseIn[j] = 0}

\* due_telegram_jobs.  The order of the rows beyond the limit is left open.
ScanDue ==
  /\ batch = {} /\ acked = {}
  /\ \E B \in SUBSET Due :
       /\ Cardinality(B) = Min2(Cardinality(Due), BatchLimit)
       /\ B # {}
       /\ batch' = B
  /\ UNCHANGED <<rowVars, acked, queued, workerVars, histVars, faults>>

\* produce() in the publisher's thread, acknowledged by the broker.
ProduceAcked(j) ==
  /\ j \in batch
  /\ queued[j] < MaxQueued
  /\ batch' = batch \ {j}
  /\ acked' = acked \union {j}
  /\ queued' = [queued EXCEPT ![j] = @ + 1]
  /\ UNCHANGED <<rowVars, workerVars, histVars, faults>>

\* produce() whose delivery report is an error or does not come within the
\* flush; the record may be in the log all the same.
ProduceFailed(j) ==
  /\ j \in batch
  /\ batch' = batch \ {j}
  /\ \/ queued' = queued
     \/ queued[j] < MaxQueued /\ queued' = [queued EXCEPT ![j] = @ + 1]
  /\ UNCHANGED <<rowVars, acked, workerVars, histVars, faults>>

\* BufferError: the loop stops, the jobs not yet produced stay unpublished.
BufferFull ==
  /\ batch # {}
  /\ batch' = {}
  /\ UNCHANGED <<rowVars, acked, queued, workerVars, histVars, faults>>

\* mark_telegram_job_published, one transaction per job after the flush.
MarkPublished(j) ==
  /\ batch = {}
  /\ j \in acked
  /\ acked' = acked \ {j}
  /\ leaseIn' = [leaseIn EXCEPT ![j] = IF status[j] = "pending" THEN Lease ELSE @]
  /\ UNCHANGED <<status, attempts, dueIn, batch, queued, workerVars, histVars,
                 faults>>

\* The application dies, or an exception sends the task back to the top of
\* its loop: what it knew of this round is gone, records produced stay.
PublisherStops ==
  /\ batch # {} \/ acked # {}
  /\ batch' = {}
  /\ acked' = {}
  /\ UNCHANGED <<rowVars, queued, workerVars, histVars, faults>>

-----------------------------------------------------------------------------
(* A delivery worker.                                                      *)

\* Steps at which the clock reading of the worker still matters.
Timed == {"send", "failed", "retryWrite"}

\* Worker w goes on to another step with the record it holds.
Goto(w, step) ==
  /\ pc' = [pc EXCEPT ![w] = step]
  /\ elapsed' = [elapsed EXCEPT ![w] = IF step \in Timed THEN @ ELSE 0]
  /\ seen' = [seen EXCEPT ![w] = IF step = "retryWrite" THEN attempts[holds[w]] ELSE 0]
  /\ UNCHANGED <<holds, revoked>>

\* The consumer of a partition hands out its records one at a time.
PartitionFree(j) ==
  \A w \in Workers :
    holds[w] # NoJob /\ ~revoked[w] => PartitionOf[holds[w]] # PartitionOf[j]

\* Mutant: the status of the row is not looked at.
ReceiveAnyStatus(w, j) ==
  /\ pc[w] = "idle"
  /\ queued[j] > 0
  /\ PartitionFree(j)
  /\ queued' = [queued EXCEPT ![j] = @ - 1]
  /\ holds' = [holds EXCEPT ![w] = j]
  /\ pc' = [pc EXCEPT ![w] = IF dueIn[j] = 0 THEN "send" ELSE "commit"]
  /\ elapsed' = [elapsed EXCEPT ![w] = 0]
  /\ UNCHANGED <<rowVars, pubVars, revoked, seen, histVars, faults>>

\* poll() and get_telegram_job: a row that is not there, not pending or not
\* yet due is skipped and its record committed.
Receive(w, j) ==
  /\ pc[w] = "idle"
  /\ queued[j] > 0
  /\ PartitionFree(j)
  /\ queued' = [queued EXCEPT ![j] = @ - 1]
  /\ holds' = [holds EXCEPT ![w] = j]
  /\ pc' = [pc EXCEPT ![w] =
              IF status[j] = "pending" /\ dueIn[j] = 0 THEN "send" ELSE "commit"]
  /\ elapsed' = [elapsed EXCEPT ![w] = 0]
  /\ UNCHANGED <<rowVars, pubVars, revoked, seen, histVars, faults>>

\* send_to returns: Telegram took the message.  When the record has meanwhile
\* been given to another worker, this acceptance is one it cannot know of.
SendAccepted(w) ==
  /\ pc[w] = "send"
  /\ accepted' = [accepted EXCEPT ![holds[w]] = @ + 1]
  /\ causes' = [causes EXCEPT ![holds[w]] = IF revoked[w] THEN @ + 1 ELSE @]
  /\ Goto(w, "accepted")
  /\ UNCHANGED <<rowVars, pubVars, queued, refused, faults>>

\* Telegram took the message but the answer was lost (timeout, reset, 5xx).
SendAnswerLost(w) ==
  /\ pc[w] = "send"
  /\ faults < MaxFaults
  /\ faults' = faults + 1
  /\ accepted' = [accepted EXCEPT ![holds[w]] = @ + 1]
  /\ causes' = [causes EXCEPT ![holds[w]] = @ + 1]
  /\ Goto(w, "failed")
  /\ UNCHANGED <<rowVars, pubVars, queued, refused>>

\* HTTP 400 or 403.
SendRejected(w) ==
  /\ pc[w] = "send"
  /\ refused' = [refused EXCEPT ![holds[w]] = TRUE]
  /\ Goto(w, "rejected")
  /\ UNCHANGED <<rowVars, pubVars, queued, accepted, causes, faults>>

\* Any other HTTP error or exception; the message was not taken.
SendFailed(w) ==
  /\ pc[w] = "send"
  /\ Goto(w, "failed")
  /\ UNCHANGED <<rowVars, pubVars, queued, histVars, faults>>

\* mark_telegram_job_delivered.
MarkDelivered(w) ==
  /\ pc[w] = "accepted"
  /\ status' = [status EXCEPT ![holds[w]] = IF @ = "pending" THEN "delivered" ELSE @]
  /\ Goto(w, "commit")
  /\ UNCHANGED <<attempts, dueIn, leaseIn, pubVars, queued, histVars, faults>>

\* Mutant: "and status = 'pending'" is missing from the update.
MarkDeadUnguarded(w) ==
  /\ pc[w] = "rejected"
  /\ status' = [status EXCEPT ![holds[w]] = "dead"]
  /\ attempts' = [attempts EXCEPT ![holds[w]] = Min2(@ + 1, MaxExp)]
  /\ Goto(w, "commit")
  /\ UNCHANGED <<dueIn, leaseIn, pubVars, queued, histVars, faults>>

\* Mutant: the rejection is counted but the row stays pending.
MarkDeadStaysPending(w) ==
  /\ pc[w] = "rejected"
  /\ attempts' = [attempts EXCEPT ![holds[w]] = Min2(@ + 1, MaxExp)]
  /\ Goto(w, "commit")
  /\ UNCHANGED <<status, dueIn, leaseIn, pubVars, queued, histVars, faults>>

\* mark_telegram_job_dead.
MarkDead(w) ==
  /\ pc[w] = "rejected"
  /\ IF status[holds[w]] = "pending"
     THEN /\ status' = [status EXCEPT ![holds[w]] = "dead"]
          /\ attempts' = [attempts EXCEPT ![holds[w]] = Min2(@ + 1, MaxExp)]
     ELSE UNCHANGED <<status, attempts>>
  /\ Goto(w, "commit")
  /\ UNCHANGED <<dueIn, leaseIn, pubVars, queued, histVars, faults>>

\* mark_telegram_job_retry reads the row outside the transaction that writes it.
RetryRead(w) ==
  /\ pc[w] = "failed"
  /\ Goto(w, IF status[holds[w]] = "pending" THEN "retryWrite" ELSE "commit")
  /\ UNCHANGED <<rowVars, pubVars, queued, histVars, faults>>

\* The delay runs from the clock reading made before the send.
RetryWrite(w) ==
  LET j == holds[w]
      n == Min2(seen[w] + 1, MaxExp)
  IN  /\ pc[w] = "retryWrite"
      /\ IF status[j] = "pending"
         THEN /\ attempts' = [attempts EXCEPT ![j] = n]
              /\ dueIn' = [dueIn EXCEPT ![j] =
                             IF Backoff(n) > elapsed[w] THEN Backoff(n) - elapsed[w]
                             ELSE 0]
              /\ leaseIn' = [leaseIn EXCEPT ![j] = 0]
         ELSE UNCHANGED <<attempts, dueIn, leaseIn>>
      /\ Goto(w, "commit")
      /\ UNCHANGED <<status, pubVars, queued, histVars, faults>>

\* What a worker forgets when it goes back to poll, or when it dies.
Release(w) ==
  /\ pc' = [pc EXCEPT ![w] = "idle"]
  /\ holds' = [holds EXCEPT ![w] = NoJob]
  /\ revoked' = [revoked EXCEPT ![w] = FALSE]
  /\ elapsed' = [elapsed EXCEPT ![w] = 0]
  /\ seen' = [seen EXCEPT ![w] = 0]

\* consumer.commit.  After a rebalance it fails and the process starts anew,
\* or it comes too late for the new owner: the record is in its hands.
Commit(w) ==
  /\ pc[w] = "commit"
  /\ Release(w)
  /\ UNCHANGED <<rowVars, pubVars, queued, histVars, faults>>

\* Back in the hands of the group, unless a rebalance has put it there before.
Redeliver(w) ==
  queued' = [queued EXCEPT ![holds[w]] = IF revoked[w] THEN @ ELSE @ + 1]

\* The process dies, or a store call raises and run_worker ends it; Docker
\* starts another.  A request on its way may still be accepted.
WorkerDies(w) ==
  /\ pc[w] # "idle"
  /\ faults < MaxFaults
  /\ faults' = faults + 1
  /\ Redeliver(w)
  /\ Release(w)
  /\ \/ /\ pc[w] = "send"
        /\ accepted' = [accepted EXCEPT ![holds[w]] = @ + 1]
        /\ causes' = [causes EXCEPT ![holds[w]] = @ + 1]
     \/ /\ causes' = [causes EXCEPT ![holds[w]] =
                        IF pc[w] = "accepted" /\ ~revoked[w] THEN @ + 1 ELSE @]
        /\ UNCHANGED accepted
  /\ UNCHANGED <<rowVars, pubVars, refused>>

\* A rebalance takes the partition from a worker that still works on a record.
Rebalance(w) ==
  /\ pc[w] # "idle"
  /\ ~revoked[w]
  /\ faults < MaxFaults
  /\ faults' = faults + 1
  /\ Redeliver(w)
  /\ revoked' = [revoked EXCEPT ![w] = TRUE]
  /\ causes' = [causes EXCEPT ![holds[w]] = IF pc[w] = "accepted" THEN @ + 1 ELSE @]
  /\ UNCHANGED <<rowVars, pubVars, pc, holds, elapsed, seen, accepted, refused>>

\* One second passes.
Tick ==
  /\ dueIn' = [j \in Jobs |-> Left(dueIn[j])]
  /\ leaseIn' = [j \in Jobs |-> Left(leaseIn[j])]
  /\ elapsed' = [w \in Workers |->
                   IF pc[w] \in Timed THEN Min2(elapsed[w] + 1, DelayCap)
                   ELSE elapsed[w]]
  /\ <<dueIn', leaseIn', elapsed'>> # <<dueIn, leaseIn, elapsed>>
  /\ UNCHANGED <<status, attempts, pubVars, queued, pc, holds, revoked, seen,
                 histVars, faults>>

-----------------------------------------------------------------------------

Publisher ==
  \/ ScanDue
  \/ \E j \in Jobs : ProduceAcked(j)
  \/ \E j \in Jobs : ProduceFailed(j)
  \/ BufferFull
  \/ \E j \in Jobs : MarkPublished(j)
  \/ PublisherStops

\* What a worker does once it holds a record, the answer of Telegram included.
Work(w) ==
  \/ SendAccepted(w)
  \/ SendRejected(w)
  \/ SendFailed(w)
  \/ MarkDelivered(w)
  \/ MarkDead(w)
  \/ RetryRead(w)
  \/ RetryWrite(w)
  \/ Commit(w)

Fault(w) ==
  \/ SendAnswerLost(w)
  \/ WorkerDies(w)
  \/ Rebalance(w)

Next ==
  \/ \E m \in Messages : \E to \in SUBSET Recipients : Enqueue(m, to)
  \/ Publisher
  \/ \E w \in Workers : \E j \in Jobs : Receive(w, j)
  \/ \E w \in Workers : Work(w)
  \/ \E w \in Workers : Fault(w)
  \/ Tick

Spec == Init /\ [][Next]_vars

-----------------------------------------------------------------------------
(* Fairness: what keeps the system moving.                                 *)

\* The publisher's round picks up j.  The rows come ordered by
\* next_attempt_at, so one that stays due is not left out for ever.
ScanFor(j) == ScanDue /\ j \in batch'

\* Telegram's definite answer about j.
Answer(j) == \E w \in Workers : holds[w] = j /\ (SendAccepted(w) \/ SendRejected(w))

\* Time passes, the publisher task and the workers run, the broker does not
\* refuse a job for ever, and a partition hands out its records in order.
RunFairness ==
  /\ WF_vars(Tick)
  /\ WF_vars(\E j \in Jobs : ProduceAcked(j) \/ ProduceFailed(j))
  /\ WF_vars(\E j \in Jobs : MarkPublished(j))
  /\ \A j \in Jobs : SF_vars(ScanFor(j)) /\ SF_vars(ProduceAcked(j))
  /\ \A j \in Jobs : SF_vars(\E w \in Workers : Receive(w, j))
  /\ \A w \in Workers : WF_vars(Work(w))

RunSpec == Spec /\ RunFairness

\* In addition, a job that is tried again and again is answered at last.
LiveSpec == RunSpec /\ \A j \in Jobs : SF_vars(Answer(j))

-----------------------------------------------------------------------------
(* Properties.                                                             *)

\* A recipient gets a message twice only when something kept the outbox from
\* knowing of the first time: a lost answer, a crash or a rebalance between
\* the acceptance and the write.  Publishing a job again (lease expired,
\* delivery report lost, publisher restarted) is never a cause.
DuplicateHasCause == \A j \in Jobs : accepted[j] <= 1 + causes[j]

\* No wake-up is lost for good: whatever the interleaving of publisher and
\* workers does to published_at, a row that stays pending is sent again and
\* again.
NeverForgotten ==
  \A j \in Jobs :
    []<>(status[j] # "pending" \/ \E w \in Workers : holds[w] = j /\ pc[w] = "send")

\* The abstract promise, over the books the outbox keeps.
Delivery == INSTANCE DeliveryPromise WITH
  book <- status,
  taken <- {j \in Jobs : accepted[j] > 0},
  turned <- {j \in Jobs : refused[j]}

\* Every step of the outbox is one the promise allows, or none it can see.
KeepsPromise == Delivery!Spec

\* And every job on the books is closed in the end.
PromiseFulfilled == Delivery!Closed

=============================================================================
