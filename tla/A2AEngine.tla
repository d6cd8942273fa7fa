------------------------------ MODULE A2AEngine -----------------------------
(***************************************************************************)
(* The task engine of the Talos bot (a2a/engine.py, a2a/store.py) as the   *)
(* bot drives it (a2a/rpc.py, bot_listener.py).                            *)
(*                                                                         *)
(* Everything runs on one asyncio loop, so what lies between two awaits is *)
(* one step.  The callers of the engine are all in the bot's update loop,  *)
(* which handles one command at a time: it is the one caller here.  What   *)
(* runs beside it are the coroutines of the tasks it has submitted.        *)
(*                                                                         *)
(* Reports of progress and results go to the task's row in SQLite and, if  *)
(* a stream is open, to the queue of its subscriber.  The row survives a   *)
(* restart; coroutines, events and queues do not.                          *)
(***************************************************************************)
EXTENDS Integers, Sequences

CONSTANTS
  Tasks,       \* task ids
  NoTask,      \* what the idle caller is busy with
  MaxReports,  \* bound: progress reports of one handler
  MaxFaults    \* bound: crashes and raised store calls together

ASSUME EngineAssumption ==
  /\ NoTask \notin Tasks
  /\ MaxReports \in Nat
  /\ MaxFaults \in Nat

VARIABLES
  row,        \* a2a_tasks.state, "absent" where there is no row
  answers,    \* a2a_messages: agent messages of the task
  run,        \* coroutine of the task: "none", "created", "handler" or "done"
  reports,    \* progress reports its handler has made
  cancelled,  \* tasks whose cancel event is set
  completed,  \* tasks whose completion event is set
  call,       \* what the update loop is awaiting
  busyWith,   \* the task of that call
  queue,      \* events in the subscriber's queue: "progress", "message", "terminal"
  verdict,    \* history: state shown to the user at the end of the last call
  faults      \* faults so far

storeVars == <<row, answers>>
loopVars  == <<run, reports, cancelled, completed>>
callVars  == <<call, busyWith, queue, verdict>>
vars == <<storeVars, loopVars, callVars, faults>>

Terminal == {"completed", "failed", "canceled"}
Open == {"submitted", "working"}
States == {"absent"} \union Open \union Terminal

TypeOK ==
  /\ row \in [Tasks -> States]
  /\ answers \in [Tasks -> 0..1]
  /\ run \in [Tasks -> {"none", "created", "handler", "done"}]
  /\ reports \in [Tasks -> 0..MaxReports]
  /\ cancelled \subseteq Tasks
  /\ completed \subseteq Tasks
  /\ call \in {"idle", "attach", "stream", "execute", "wait"}
  /\ busyWith \in Tasks \union {NoTask}
  /\ call = "idle" <=> busyWith = NoTask
  /\ queue \in Seq({"progress", "message", "terminal"})
  /\ verdict \in States \union {"none", "timeout"}
  /\ faults \in 0..MaxFaults

Init ==
  /\ row = [t \in Tasks |-> "absent"]
  /\ answers = [t \in Tasks |-> 0]
  /\ run = [t \in Tasks |-> "none"]
  /\ reports = [t \in Tasks |-> 0]
  /\ cancelled = {}
  /\ completed = {}
  /\ call = "idle"
  /\ busyWith = NoTask
  /\ queue = << >>
  /\ verdict = "none"
  /\ faults = 0

-----------------------------------------------------------------------------
(* The caller.                                                             *)

\* The loop runs the first step of a new coroutine before anything the caller
\* goes on to await can come back.
Ready == \A t \in Tasks : run[t] # "created"

Await(c, t) == call' = c /\ busyWith' = t /\ UNCHANGED <<queue, verdict>>

Return(v) ==
  /\ call' = "idle" /\ busyWith' = NoTask
  /\ queue' = << >>
  /\ verdict' = v

\* create_task, and a coroutine to run it.
Create(t) ==
  /\ row[t] = "absent"
  /\ row' = [row EXCEPT ![t] = "submitted"]
  /\ run' = [run EXCEPT ![t] = "created"]
  /\ UNCHANGED <<answers, reports, cancelled, completed, faults>>

\* SendMessage with returnImmediately: the answer shows the new task.
Submit(t) ==
  /\ call = "idle" /\ Ready
  /\ Create(t)
  /\ Return("submitted")

\* A question: the task is submitted and the progress message edited, before
\* the caller subscribes.
Ask(t) ==
  /\ call = "idle" /\ Ready
  /\ Create(t)
  /\ Await("attach", t)

\* subscribe_task puts its queue on the list and then reads the row; a task
\* that is through already is all the stream has to show.
Subscribe ==
  /\ call = "attach" /\ Ready
  /\ IF row[busyWith] \in Terminal THEN Return(row[busyWith])
     ELSE Await("stream", busyWith)
  /\ UNCHANGED <<storeVars, loopVars, faults>>

\* Mutant: the stream ends with the first event.
StreamNextOnly ==
  /\ call = "stream"
  /\ queue # << >>
  /\ Return(row[busyWith])
  /\ UNCHANGED <<storeVars, loopVars, faults>>

\* The stream hands on the next event.  The terminal one ends it, and the
\* result is read back from the row.
StreamNext ==
  /\ call = "stream"
  /\ queue # << >>
  /\ IF Head(queue) = "terminal" THEN Return(row[busyWith])
     ELSE queue' = Tail(queue) /\ UNCHANGED <<call, busyWith, verdict>>
  /\ UNCHANGED <<storeVars, loopVars, faults>>

\* SendMessage without returnImmediately: the handler runs in the caller, and
\* execute_immediate has set the row to WORKING before it first waits.
Execute(t) ==
  /\ call = "idle" /\ Ready
  /\ row[t] = "absent"
  /\ row' = [row EXCEPT ![t] = "working"]
  /\ run' = [run EXCEPT ![t] = "handler"]
  /\ Await("execute", t)
  /\ UNCHANGED <<answers, reports, cancelled, completed, faults>>

\* wait_task, through "/task wait" or SubscribeToTask, which takes any id.
Wait(t) ==
  /\ call = "idle" /\ Ready
  /\ IF row[t] \in Terminal THEN Return(row[t]) ELSE Await("wait", t)
  /\ UNCHANGED <<storeVars, loopVars, faults>>

WaitDone ==
  /\ call = "wait"
  /\ busyWith \in completed
  /\ Return(row[busyWith])
  /\ UNCHANGED <<storeVars, loopVars, faults>>

WaitTimesOut ==
  /\ call = "wait"
  /\ busyWith \notin completed
  /\ Return("timeout")
  /\ UNCHANGED <<storeVars, loopVars, faults>>

\* Mutant: another spelling of the state than the one TaskState knows.
CancelMisspelt(t) ==
  /\ call = "idle" /\ Ready
  /\ row[t] \in Open
  /\ cancelled' = cancelled \union {t}
  /\ row' = [row EXCEPT ![t] = "cancelled"]
  /\ UNCHANGED <<answers, run, reports, completed, callVars, faults>>

\* cancel_task: sets the event, cancels the coroutine if there is one and
\* writes the row, all before the coroutine gets to see it.
Cancel(t) ==
  /\ call = "idle" /\ Ready
  /\ row[t] \in Open
  /\ cancelled' = cancelled \union {t}
  /\ row' = [row EXCEPT ![t] = "canceled"]
  /\ UNCHANGED <<answers, run, reports, completed, callVars, faults>>

-----------------------------------------------------------------------------
(* The coroutine of a task.                                                *)

\* _emit_stream_response reaches the subscriber, if there is one.
Emit(t, events) ==
  queue' = IF call = "stream" /\ busyWith = t THEN queue \o events ELSE queue

\* The coroutine ends.  One that runs in the caller returns from the call.
End(t, events, v) ==
  /\ run' = [run EXCEPT ![t] = "done"]
  /\ completed' = completed \union {t}
  /\ IF call = "execute" /\ busyWith = t THEN Return(v)
     ELSE Emit(t, events) /\ UNCHANGED <<call, busyWith, verdict>>
  /\ UNCHANGED <<reports, cancelled>>

\* First step of a background task: "Task started", then the handler.
Start(t) ==
  /\ run[t] = "created"
  /\ run' = [run EXCEPT ![t] = "handler"]
  /\ row' = [row EXCEPT ![t] = "working"]
  /\ Emit(t, <<"progress">>)
  /\ UNCHANGED <<answers, reports, cancelled, completed, call, busyWith, verdict, faults>>

\* A cancelled coroutine does not get past the await it is suspended in.
Running(t) == run[t] = "handler" /\ t \notin cancelled

\* The handler reports progress: emit_status writes WORKING.
Report(t) ==
  /\ Running(t)
  /\ reports[t] < MaxReports
  /\ reports' = [reports EXCEPT ![t] = @ + 1]
  /\ row' = [row EXCEPT ![t] = "working"]
  /\ Emit(t, <<"progress">>)
  /\ UNCHANGED <<answers, run, cancelled, completed, call, busyWith, verdict, faults>>

\* Mutant: the end of the task is announced before its answer is written.
SucceedWithoutAnswer(t) ==
  /\ Running(t)
  /\ row' = [row EXCEPT ![t] = "completed"]
  /\ End(t, <<"message", "terminal">>, "completed")
  /\ UNCHANGED <<answers, faults>>

\* Mutant: the handler's coroutine is no longer stopped by a cancellation.
SucceedThoughCancelled(t) ==
  /\ run[t] = "handler"
  /\ answers' = [answers EXCEPT ![t] = 1]
  /\ row' = [row EXCEPT ![t] = "completed"]
  /\ End(t, <<"message", "terminal">>, "completed")
  /\ UNCHANGED faults

\* The handler returns: artifacts, the answer and COMPLETED are written.
Succeed(t) ==
  /\ Running(t)
  /\ answers' = [answers EXCEPT ![t] = 1]
  /\ row' = [row EXCEPT ![t] = "completed"]
  /\ End(t, <<"message", "terminal">>, "completed")
  /\ UNCHANGED faults

\* Mutant: the failure is written but the subscriber is not told.
FailSilently(t) ==
  /\ Running(t)
  /\ row' = [row EXCEPT ![t] = "failed"]
  /\ End(t, << >>, "failed")
  /\ UNCHANGED <<answers, faults>>

\* Mutant: the failure is announced but not written.
FailUnwritten(t) ==
  /\ Running(t)
  /\ End(t, <<"terminal">>, "failed")
  /\ UNCHANGED <<storeVars, faults>>

\* The handler raises: FAILED is written.
Fail(t) ==
  /\ Running(t)
  /\ row' = [row EXCEPT ![t] = "failed"]
  /\ End(t, <<"terminal">>, "failed")
  /\ UNCHANGED <<answers, faults>>

\* CancelledError passes the except clause; finally sets the event.
Stop(t) ==
  /\ run[t] = "handler" /\ t \in cancelled
  /\ End(t, << >>, row[t])
  /\ UNCHANGED <<storeVars, faults>>

-----------------------------------------------------------------------------
(* What goes wrong.                                                        *)

Fault == faults < MaxFaults /\ faults' = faults + 1

\* The first status cannot be written.  It is written outside the try, so the
\* coroutine dies without a word and without setting the event.
StartRaises(t) ==
  /\ Fault
  /\ run[t] = "created"
  /\ run' = [run EXCEPT ![t] = "done"]
  /\ UNCHANGED <<storeVars, reports, cancelled, completed, callVars>>

\* The same in execute_immediate: the error goes back to the caller.
ExecuteRaises(t) ==
  /\ Fault
  /\ call = "idle" /\ Ready
  /\ row[t] = "absent"
  /\ row' = [row EXCEPT ![t] = "submitted"]
  /\ run' = [run EXCEPT ![t] = "done"]
  /\ UNCHANGED <<answers, reports, cancelled, completed, callVars>>

\* COMPLETED cannot be written, or the row not read back after it, but in the
\* except clause FAILED can.  In the second case the row is completed for a moment;
\* no await lies between the two writes, so that nobody in the loop sees it.
SucceedRaises(t) ==
  /\ Fault
  /\ Running(t)
  /\ answers' = [answers EXCEPT ![t] = 1]
  /\ row' = [row EXCEPT ![t] = "failed"]
  /\ End(t, <<"message", "terminal">>, "failed")

\* FAILED cannot be written either, perhaps with the answer already there.  In
\* the background finally still sets the event; execute_immediate does not.
FailRaises(t) ==
  /\ Fault
  /\ Running(t)
  /\ run' = [run EXCEPT ![t] = "done"]
  /\ \E events \in {<< >>, <<"message">>} :
       /\ answers' = IF events = << >> THEN answers ELSE [answers EXCEPT ![t] = 1]
       /\ IF call = "execute" /\ busyWith = t
          THEN Return(row[t]) /\ UNCHANGED completed
          ELSE /\ completed' = completed \union {t}
               /\ Emit(t, events)
               /\ UNCHANGED <<call, busyWith, verdict>>
  /\ UNCHANGED <<row, reports, cancelled>>

\* cancel_task cannot write the row; the coroutine is cancelled all the same.
CancelRaises(t) ==
  /\ Fault
  /\ call = "idle" /\ Ready
  /\ row[t] \in Open
  /\ cancelled' = cancelled \union {t}
  /\ UNCHANGED <<storeVars, run, reports, completed, callVars>>

\* The process dies, perhaps between an answer and its COMPLETED, and is
\* started again.
Crash ==
  /\ Fault
  /\ \/ UNCHANGED answers
     \/ \E t \in Tasks : Running(t) /\ answers' = [answers EXCEPT ![t] = 1]
  /\ run' = [t \in Tasks |-> "none"]
  /\ cancelled' = {}
  /\ completed' = {}
  /\ Return("none")
  /\ UNCHANGED <<row, reports>>

-----------------------------------------------------------------------------

\* The commands of the users.
Command == \E t \in Tasks : Submit(t) \/ Ask(t) \/ Execute(t) \/ Wait(t) \/ Cancel(t)

\* What the loop does of its own accord with the call it is in.
Proceed == Subscribe \/ StreamNext \/ WaitDone

Outcome(t) == Succeed(t) \/ Fail(t) \/ Stop(t)

StoreFault == \E t \in Tasks :
  \/ StartRaises(t) \/ ExecuteRaises(t) \/ SucceedRaises(t)
  \/ FailRaises(t) \/ CancelRaises(t)

Next ==
  \/ Command
  \/ Proceed
  \/ WaitTimesOut
  \/ \E t \in Tasks : Start(t) \/ Report(t) \/ Outcome(t)
  \/ StoreFault
  \/ Crash

Spec == Init /\ [][Next]_vars

\* The loop runs what is ready, and a handler comes to an end: its requests
\* all have timeouts.
FairSpec ==
  /\ Spec
  /\ WF_vars(Proceed)
  /\ \A t \in Tasks : WF_vars(Start(t)) /\ WF_vars(Outcome(t))

-----------------------------------------------------------------------------
(* Properties.                                                             *)

\* Once a task is completed, failed or canceled its row does not change any
\* more: no report, result or exception of a coroutine still to be stopped
\* undoes a cancellation, although update_status writes whatever it is given.
TerminalIsFinal ==
  [][\A t \in Tasks : row[t] \in Terminal => row'[t] = row[t]]_vars

\* COMPLETED is never seen without the answer it announces: a stream that
\* joins late reads the answer from the history.
CompletedHasAnswer == \A t \in Tasks : row[t] = "completed" => answers[t] = 1

\* While nothing fails, a task that looks open has a coroutine that will close
\* it, through every interleaving of cancellations and results.
OpenHasRunner ==
  faults = 0 =>
    \A t \in Tasks : row[t] \in Open => run[t] \in {"created", "handler"}

\* What a reader of the rows sees, who knows of no coroutine, call or fault.
Lifecycle == INSTANCE TaskLifecycle WITH
  state <- row,
  answered <- {t \in Tasks : answers[t] = 1}

\* Whatever coroutines, cancellations, store errors and restarts do, the rows go
\* through the lifecycle of a task: a step moves one task at most and never back,
\* a task is answered once, while it is worked on and before it is completed, and
\* a task that was cancelled is neither answered nor anything else afterwards.
KeepsLifecycle == Lifecycle!Spec

\* A stream that ends shows the user a terminal state, whatever fails beside
\* it; so does a wait that does not time out, while nothing fails.
CallShowsOutcome ==
  [][(call' = "idle" /\ (call = "stream" \/ (call = "wait" /\ faults = 0)))
       => verdict' \in Terminal \union {"timeout", "none"}]_vars

\* subscribe_task "yields StreamResponse chunks until task transitions to
\* terminal state": whatever happens between submission, subscription and the
\* end of the task, the stream comes to an end and the update loop goes on.
StreamEnds == call \in {"attach", "stream"} ~> call = "idle"

\* The same where no store call raises and nothing is restarted meanwhile.
StreamEndsUnlessFault ==
  call \in {"attach", "stream"} ~> (call = "idle" \/ faults > 0)

=============================================================================
