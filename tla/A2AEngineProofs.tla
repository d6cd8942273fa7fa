--------------------------- MODULE A2AEngineProofs --------------------------
(***************************************************************************)
(* Proofs about A2AEngine, for any set of tasks and any bounds: the types, *)
(* that a COMPLETED task has its answer, that a terminal state is final,   *)
(* that the engine implements TaskLifecycle, that an open task is at work  *)
(* while nothing fails, that a call shows the end of its task, and that    *)
(* nobody waits for a task in vain.  They rest on FinalInv: a coroutine    *)
(* that may still write belongs to a row that is at work and unanswered.   *)
(***************************************************************************)
EXTENDS A2AEngine, TLAPS

-----------------------------------------------------------------------------
(* Types.                                                                  *)

LEMMA InitType == Init => TypeOK
  BY EngineAssumption DEF Init, TypeOK, States

LEMMA TailType == ASSUME NEW S, NEW q \in Seq(S), q # << >> PROVE Tail(q) \in Seq(S)
  OBVIOUS

\* What the caller does keeps the types.
LEMMA CallerType == ASSUME TypeOK, Command \/ Proceed \/ WaitTimesOut PROVE TypeOK'
<1> USE EngineAssumption DEF TypeOK, States, Terminal, Open, Return, Await
<1>1. CASE \E t \in Tasks : Submit(t)
  BY <1>1 DEF Submit, Create
<1>2. CASE \E t \in Tasks : Ask(t)
  <2>1. PICK t \in Tasks : Ask(t)
    BY <1>2
  <2>2. call' = "attach" /\ busyWith' = t /\ t # NoTask /\ UNCHANGED <<queue, verdict>>
    BY <2>1 DEF Ask
  <2> QED BY <2>1, <2>2 DEF Ask, Create
<1>3. CASE \E t \in Tasks : Execute(t)
  BY <1>3 DEF Execute
<1>4. CASE \E t \in Tasks : Wait(t)
  <2>1. PICK t \in Tasks : Wait(t)
    BY <1>4
  <2>2. UNCHANGED <<row, answers, run, reports, cancelled, completed, faults>>
    BY <2>1 DEF Wait, storeVars, loopVars
  <2>3. CASE row[t] \in Terminal
    BY <2>1, <2>2, <2>3 DEF Wait
  <2>4. CASE row[t] \notin Terminal
    <3>1. call' = "wait" /\ busyWith' = t /\ t # NoTask /\ UNCHANGED <<queue, verdict>>
      BY <2>1, <2>4 DEF Wait
    <3> QED BY <2>2, <3>1
  <2> QED BY <2>3, <2>4
<1>5. CASE \E t \in Tasks : Cancel(t)
  BY <1>5 DEF Cancel, callVars
<1>6. CASE Subscribe
  <2>1. /\ UNCHANGED <<row, answers, run, reports, cancelled, completed, faults>>
        /\ call = "attach" /\ busyWith \in Tasks
    BY <1>6 DEF Subscribe, storeVars, loopVars
  <2>2. CASE row[busyWith] \in Terminal
    BY <1>6, <2>1, <2>2 DEF Subscribe
  <2>3. CASE row[busyWith] \notin Terminal
    <3>1. call' = "stream" /\ UNCHANGED <<busyWith, queue, verdict>>
      BY <1>6, <2>3 DEF Subscribe
    <3> QED BY <2>1, <3>1
  <2> QED BY <2>2, <2>3
<1>7. CASE StreamNext
  <2> DEFINE Events == {"progress", "message", "terminal"}
  <2>1. queue \in Seq(Events) /\ queue # << >>
    BY <1>7 DEF StreamNext
  <2>2. Tail(queue) \in Seq(Events)
    <3> HIDE DEF Events
    <3> QED BY ONLY <2>1, TailType
  <2>3. UNCHANGED <<row, answers, run, reports, cancelled, completed, faults>>
    BY <1>7 DEF StreamNext, storeVars, loopVars
  <2>4. CASE Head(queue) = "terminal"
    <3>1. call = "stream" /\ row[busyWith] \in States
      BY <1>7 DEF StreamNext
    <3>2. Return(row[busyWith])
      BY <1>7, <2>4 DEF StreamNext
    <3> QED BY <2>3, <3>1, <3>2
  <2>5. CASE Head(queue) # "terminal"
    <3>1. queue' = Tail(queue) /\ UNCHANGED <<call, busyWith, verdict>>
      BY <1>7, <2>5 DEF StreamNext
    <3>2. queue' \in Seq(Events)
      BY ONLY <2>2, <3>1
    <3> QED BY <2>3, <3>1, <3>2
  <2> QED BY <2>4, <2>5
<1>8. CASE WaitDone
  BY <1>8 DEF WaitDone, storeVars, loopVars
<1>9. CASE WaitTimesOut
  BY <1>9 DEF WaitTimesOut, storeVars, loopVars
<1> QED
  BY <1>1, <1>2, <1>3, <1>4, <1>5, <1>6, <1>7, <1>8, <1>9 DEF Command, Proceed

\* The events a coroutine emits are events.
LEMMA EmitType ==
  ASSUME TypeOK, NEW t \in Tasks,
         NEW events \in Seq({"progress", "message", "terminal"}), Emit(t, events)
  PROVE  queue' \in Seq({"progress", "message", "terminal"})
  BY DEF TypeOK, Emit

\* The end of a coroutine keeps the types of what it touches.
LEMMA EndType ==
  ASSUME TypeOK, NEW t \in Tasks,
         NEW events \in Seq({"progress", "message", "terminal"}),
         NEW v \in States, End(t, events, v)
  PROVE  /\ run' \in [Tasks -> {"none", "created", "handler", "done"}]
         /\ reports' \in [Tasks -> 0..MaxReports]
         /\ cancelled' \subseteq Tasks
         /\ completed' \subseteq Tasks
         /\ call' \in {"idle", "attach", "stream", "execute", "wait"}
         /\ busyWith' \in Tasks \union {NoTask}
         /\ (call' = "idle") <=> (busyWith' = NoTask)
         /\ queue' \in Seq({"progress", "message", "terminal"})
         /\ verdict' \in States \union {"none", "timeout"}
<1>1. run' \in [Tasks -> {"none", "created", "handler", "done"}]
      /\ reports' \in [Tasks -> 0..MaxReports]
      /\ cancelled' \subseteq Tasks /\ completed' \subseteq Tasks
  BY DEF TypeOK, End
<1>2. CASE call = "execute" /\ busyWith = t
  BY <1>1, <1>2 DEF TypeOK, End, Return
<1>3. CASE ~(call = "execute" /\ busyWith = t)
  <2>1. Emit(t, events) /\ UNCHANGED <<call, busyWith, verdict>>
    BY <1>3 DEF End
  <2> QED BY <1>1, <2>1, EmitType DEF TypeOK
<1> QED BY <1>2, <1>3

\* What the coroutines do keeps the types.
LEMMA CoroutineType ==
  ASSUME TypeOK, NEW t \in Tasks, Start(t) \/ Report(t) \/ Outcome(t)
  PROVE  TypeOK'
<1> USE EngineAssumption
<1> DEFINE Events == {"progress", "message", "terminal"}
<1>0. << >> \in Seq(Events) /\ <<"progress">> \in Seq(Events)
      /\ <<"terminal">> \in Seq(Events) /\ <<"message", "terminal">> \in Seq(Events)
  OBVIOUS
<1>1. CASE Start(t)
  <2>1. queue' \in Seq(Events)
    BY <1>0, <1>1, EmitType DEF Start
  <2> QED BY <1>1, <2>1 DEF Start, TypeOK, States, Open
<1>2. CASE Report(t)
  <2>1. queue' \in Seq(Events)
    BY <1>0, <1>2, EmitType DEF Report
  <2>2. reports' \in [Tasks -> 0..MaxReports]
    BY <1>2 DEF Report, TypeOK
  <2> QED BY <1>2, <2>1, <2>2 DEF Report, TypeOK, States, Open
<1>3. CASE Succeed(t)
  <2>1. End(t, <<"message", "terminal">>, "completed")
    BY <1>3 DEF Succeed
  <2>2. "completed" \in States
    BY DEF States, Terminal
  <2> HIDE DEF Events
  <2>3. row' \in [Tasks -> States] /\ answers' \in [Tasks -> 0..1] /\ faults' \in 0..MaxFaults
    BY <1>3, <2>2 DEF Succeed, TypeOK
  <2> QED BY <1>0, <2>1, <2>2, <2>3, EndType DEF TypeOK, Events
<1>4. CASE Fail(t)
  <2>1. End(t, <<"terminal">>, "failed")
    BY <1>4 DEF Fail
  <2>2. "failed" \in States
    BY DEF States, Terminal
  <2>3. row' \in [Tasks -> States] /\ answers' \in [Tasks -> 0..1] /\ faults' \in 0..MaxFaults
    BY <1>4, <2>2 DEF Fail, TypeOK
  <2> QED BY <1>0, <2>1, <2>2, <2>3, EndType DEF TypeOK
<1>5. CASE Stop(t)
  <2>1. End(t, << >>, row[t])
    BY <1>5 DEF Stop
  <2>2. row[t] \in States
    BY DEF TypeOK
  <2>3. UNCHANGED <<row, answers, faults>>
    BY <1>5 DEF Stop, storeVars
  <2> QED BY <1>0, <2>1, <2>2, <2>3, EndType DEF TypeOK
<1> QED BY <1>1, <1>2, <1>3, <1>4, <1>5 DEF Outcome

\* Faults keep the types.
LEMMA FaultType == ASSUME TypeOK, StoreFault \/ Crash PROVE TypeOK'
<1> USE EngineAssumption
<1>0. ASSUME Fault PROVE faults' \in 0..MaxFaults
  BY <1>0 DEF Fault, TypeOK
<1>1. CASE Crash
  <2>1. answers' \in [Tasks -> 0..1] /\ faults' \in 0..MaxFaults
    BY <1>0, <1>1 DEF Crash, TypeOK
  <2>2. /\ row' = row /\ reports' = reports
        /\ run' \in [Tasks -> {"none", "created", "handler", "done"}]
        /\ cancelled' = {} /\ completed' = {}
    BY <1>1 DEF Crash
  <2>3. call' = "idle" /\ busyWith' = NoTask /\ queue' = << >> /\ verdict' = "none"
    BY <1>1 DEF Crash, Return
  <2> QED BY <2>1, <2>2, <2>3 DEF TypeOK
<1>2. CASE \E t \in Tasks : StartRaises(t)
  BY <1>0, <1>2 DEF StartRaises, storeVars, callVars, TypeOK
<1>3. CASE \E t \in Tasks : ExecuteRaises(t)
  BY <1>0, <1>3 DEF ExecuteRaises, callVars, TypeOK, States, Open
<1>4. CASE \E t \in Tasks : CancelRaises(t)
  BY <1>0, <1>4 DEF CancelRaises, storeVars, callVars, TypeOK
<1>5. CASE \E t \in Tasks : FailRaises(t)
  <2>1. PICK t \in Tasks : FailRaises(t)
    BY <1>5
  <2>2. /\ UNCHANGED <<row, reports, cancelled>>
        /\ answers' \in [Tasks -> 0..1]
        /\ run' \in [Tasks -> {"none", "created", "handler", "done"}]
        /\ faults' \in 0..MaxFaults
    BY <1>0, <2>1 DEF FailRaises, TypeOK
  <2>3. CASE call = "execute" /\ busyWith = t
    BY <2>1, <2>2, <2>3 DEF FailRaises, Return, TypeOK
  <2>4. CASE ~(call = "execute" /\ busyWith = t)
    <3>1. PICK events \in {<< >>, <<"message">>} : Emit(t, events)
      BY <2>1, <2>4 DEF FailRaises
    <3>2. events \in Seq({"progress", "message", "terminal"})
      <4>1. /\ << >> \in Seq({"progress", "message", "terminal"})
            /\ <<"message">> \in Seq({"progress", "message", "terminal"})
        OBVIOUS
      <4> QED BY <3>1, <4>1
    <3>3. queue' \in Seq({"progress", "message", "terminal"})
      BY <3>1, <3>2, EmitType
    <3> QED BY <2>1, <2>2, <2>4, <3>3 DEF FailRaises, TypeOK
  <2> QED BY <2>3, <2>4
<1>6. CASE \E t \in Tasks : SucceedRaises(t)
  <2>1. PICK t \in Tasks : SucceedRaises(t)
    BY <1>6
  <2>2. End(t, <<"message", "terminal">>, "failed") /\ Fault
    BY <2>1 DEF SucceedRaises
  <2>3. "failed" \in States
        /\ <<"message", "terminal">> \in Seq({"progress", "message", "terminal"})
    BY DEF States, Terminal
  <2>4. row' \in [Tasks -> States] /\ answers' \in [Tasks -> 0..1]
    BY <2>1, <2>3 DEF SucceedRaises, TypeOK
  <2> QED BY <1>0, <2>2, <2>3, <2>4, EndType DEF TypeOK
<1> QED BY <1>1, <1>2, <1>3, <1>4, <1>5, <1>6 DEF StoreFault

LEMMA NextType == TypeOK /\ [Next]_vars => TypeOK'
<1> SUFFICES ASSUME TypeOK, [Next]_vars PROVE TypeOK'
  OBVIOUS
<1>1. CASE UNCHANGED vars
  BY <1>1 DEF vars, storeVars, loopVars, callVars, TypeOK
<1>2. CASE Next
  BY <1>2, CallerType, CoroutineType, FaultType DEF Next
<1> QED BY <1>1, <1>2

\* Every variable of the engine keeps its type.
THEOREM TypeCorrect == Spec => []TypeOK
  BY InitType, NextType, PTL DEF Spec

-----------------------------------------------------------------------------
(* Terminal states are final.                                              *)

\* A coroutine that may still write belongs to a row that is at work and without
\* an answer, and no cancel event is left over for a task to come.
FinalInv ==
  \A t \in Tasks :
    /\ run[t] = "created" => row[t] = "submitted" /\ t \notin cancelled
    /\ Running(t) => row[t] = "working" /\ answers[t] = 0
    /\ row[t] \in {"absent", "submitted"} => answers[t] = 0
    /\ row[t] = "absent" => t \notin cancelled
    /\ row[t] = "completed" => answers[t] = 1

LEMMA InitFinal == Init => FinalInv
  BY DEF Init, FinalInv, Running

\* One step keeps FinalInv and leaves terminal rows alone.
LEMMA NextFinal ==
  ASSUME TypeOK, FinalInv, [Next]_vars
  PROVE  /\ FinalInv'
         /\ \A t \in Tasks : row[t] \in Terminal => row'[t] = row[t]
<1> USE DEF TypeOK, FinalInv, Running, Terminal, Open
<1>1. CASE UNCHANGED vars
  BY <1>1 DEF vars, storeVars, loopVars
<1>2. ASSUME NEW t \in Tasks, Submit(t) \/ Ask(t)
      PROVE  FinalInv' /\ \A s \in Tasks : row[s] \in Terminal => row'[s] = row[s]
  BY <1>2 DEF Submit, Ask, Create
<1>3. ASSUME NEW t \in Tasks, Execute(t)
      PROVE  FinalInv' /\ \A s \in Tasks : row[s] \in Terminal => row'[s] = row[s]
  BY <1>3 DEF Execute
<1>4. CASE Proceed \/ WaitTimesOut \/ \E t \in Tasks : Wait(t)
  BY <1>4 DEF Proceed, Subscribe, StreamNext, WaitDone, WaitTimesOut, Wait,
              storeVars, loopVars
<1>5. ASSUME NEW t \in Tasks, Cancel(t) \/ CancelRaises(t)
      PROVE  FinalInv' /\ \A s \in Tasks : row[s] \in Terminal => row'[s] = row[s]
  BY <1>5 DEF Cancel, CancelRaises, Ready, storeVars
<1>6. ASSUME NEW t \in Tasks, Start(t) \/ Report(t)
      PROVE  FinalInv' /\ \A s \in Tasks : row[s] \in Terminal => row'[s] = row[s]
  BY <1>6 DEF Start, Report
<1>7. ASSUME NEW t \in Tasks, Outcome(t) \/ SucceedRaises(t)
      PROVE  FinalInv' /\ \A s \in Tasks : row[s] \in Terminal => row'[s] = row[s]
  <2>1. CASE Succeed(t)
    BY <2>1 DEF Succeed, End
  <2>2. CASE Fail(t)
    BY <2>2 DEF Fail, End
  <2>3. CASE Stop(t)
    BY <2>3 DEF Stop, End, storeVars
  <2>4. CASE SucceedRaises(t)
    BY <2>4 DEF SucceedRaises, End
  <2> QED BY <1>7, <2>1, <2>2, <2>3, <2>4 DEF Outcome
<1>8. ASSUME NEW t \in Tasks, StartRaises(t) \/ FailRaises(t)
      PROVE  FinalInv' /\ \A s \in Tasks : row[s] \in Terminal => row'[s] = row[s]
  BY <1>8 DEF StartRaises, FailRaises, storeVars
<1>9. ASSUME NEW t \in Tasks, ExecuteRaises(t)
      PROVE  FinalInv' /\ \A s \in Tasks : row[s] \in Terminal => row'[s] = row[s]
  BY <1>9 DEF ExecuteRaises
<1>10. CASE Crash
  BY <1>10 DEF Crash, storeVars
<1>11. CASE Next
  <2> HIDE DEF TypeOK, FinalInv
  <2> QED
    BY <1>11, <1>2, <1>3, <1>4, <1>5, <1>6, <1>7, <1>8, <1>9, <1>10
    DEF Next, Command, StoreFault
<1> QED BY <1>1, <1>11

LEMMA FinalInvariance == Spec => []FinalInv
<1>1. Init => FinalInv
  BY InitFinal
<1>2. TypeOK /\ FinalInv /\ [Next]_vars => FinalInv'
  BY NextFinal
<1> QED BY <1>1, <1>2, TypeCorrect, PTL DEF Spec

\* A task that has reached a terminal state stays in it, whatever coroutines,
\* cancellations, store errors and restarts follow.
THEOREM TerminalStays == Spec => TerminalIsFinal
<1>1. TypeOK /\ FinalInv /\ [Next]_vars
        => [\A t \in Tasks : row[t] \in Terminal => row'[t] = row[t]]_vars
  BY NextFinal
<1> QED BY <1>1, TypeCorrect, FinalInvariance, PTL DEF Spec, TerminalIsFinal

\* COMPLETED is never seen without the answer it announces.
THEOREM CompletedIsAnswered == Spec => []CompletedHasAnswer
<1>1. FinalInv => CompletedHasAnswer
  BY DEF FinalInv, CompletedHasAnswer
<1> QED BY <1>1, FinalInvariance, PTL

-----------------------------------------------------------------------------
(* The lifecycle of a task.                                                *)

\* What the lifecycle knows of the answers.
Answered == {t \in Tasks : answers[t] = 1}

\* Each step of the engine is a step of the lifecycle, or none.
LEMMA StepSimulation ==
  ASSUME TypeOK, FinalInv, [Next]_vars
  PROVE  [Lifecycle!Next]_(Lifecycle!lifecycleVars)
<1>q. ASSUME UNCHANGED <<row, answers>> PROVE [Lifecycle!Next]_(Lifecycle!lifecycleVars)
  <2>1. row' = row /\ Answered' = Answered
    BY <1>q DEF Answered
  <2> QED BY <2>1 DEF Lifecycle!lifecycleVars, Answered
\* The answer of a task that had none is written, or left alone.
<1>a. ASSUME NEW t \in Tasks, answers[t] = 0, answers' = [answers EXCEPT ![t] = 1]
      PROVE  t \notin Answered /\ Answered' = Answered \union {t}
  BY <1>a DEF Answered, TypeOK
<1>u. answers' = answers => Answered' = Answered
  BY DEF Answered
<1>r. ASSUME NEW t \in Tasks, FinalInv, Running(t) PROVE row[t] = "working" /\ answers[t] = 0
  BY <1>r DEF FinalInv
<1>s. ASSUME NEW t \in Tasks,
             \/ Lifecycle!Create(t) \/ Lifecycle!Start(t) \/ Lifecycle!Answer(t)
             \/ Lifecycle!Complete(t) \/ Lifecycle!Fail(t) \/ Lifecycle!Cancel(t)
      PROVE  [Lifecycle!Next]_(Lifecycle!lifecycleVars)
  BY <1>s DEF Lifecycle!Next
<1> USE DEF Lifecycle!Becomes
<1>1. ASSUME NEW t \in Tasks, Submit(t) \/ Ask(t) \/ Execute(t) \/ ExecuteRaises(t)
      PROVE  [Lifecycle!Next]_(Lifecycle!lifecycleVars)
  <2>1. Lifecycle!Create(t)
    BY <1>1, <1>u DEF Submit, Ask, Create, Execute, ExecuteRaises, Lifecycle!Create, Answered
  <2> QED BY <1>s, <2>1
<1>2. CASE Proceed \/ WaitTimesOut \/ \E t \in Tasks : Wait(t) \/ CancelRaises(t)
  <2>1. UNCHANGED <<row, answers>>
    BY <1>2 DEF Proceed, Subscribe, StreamNext, WaitDone, WaitTimesOut, Wait, CancelRaises, storeVars
  <2> QED BY <1>q, <2>1
<1>3. ASSUME NEW t \in Tasks, Cancel(t) PROVE [Lifecycle!Next]_(Lifecycle!lifecycleVars)
  <2>1. Lifecycle!Cancel(t)
    BY <1>3, <1>u DEF Cancel, Open, Lifecycle!Cancel, Answered
  <2> QED BY <1>s, <2>1
<1>4. ASSUME NEW t \in Tasks, Start(t) PROVE [Lifecycle!Next]_(Lifecycle!lifecycleVars)
  <2>1. Lifecycle!Start(t)
    BY <1>4, <1>u DEF Start, FinalInv, Lifecycle!Start, Answered
  <2> QED BY <1>s, <2>1
<1>5. ASSUME NEW t \in Tasks, Report(t) \/ Stop(t) \/ StartRaises(t)
      PROVE  [Lifecycle!Next]_(Lifecycle!lifecycleVars)
  <2>1. row' = row /\ answers' = answers
    BY <1>5, <1>r DEF Report, Stop, StartRaises, storeVars, TypeOK
  <2> QED BY <1>q, <2>1
<1>6. ASSUME NEW t \in Tasks, Succeed(t) PROVE [Lifecycle!Next]_(Lifecycle!lifecycleVars)
  <2>1. Lifecycle!Complete(t)
    BY <1>6, <1>r, <1>a DEF Succeed, Lifecycle!Complete, Answered
  <2> QED BY <1>s, <2>1
<1>7. ASSUME NEW t \in Tasks, Fail(t) \/ SucceedRaises(t)
      PROVE  [Lifecycle!Next]_(Lifecycle!lifecycleVars)
  <2>1. /\ row[t] = "working" /\ answers[t] = 0
        /\ row' = [row EXCEPT ![t] = "failed"]
        /\ answers' = answers \/ answers' = [answers EXCEPT ![t] = 1]
    BY <1>7, <1>r DEF Fail, SucceedRaises
  <2>2. Lifecycle!Fail(t)
    BY <2>1, <1>a, <1>u DEF Lifecycle!Fail, Answered
  <2> QED BY <1>s, <2>2
<1>8. CASE Crash \/ \E t \in Tasks : FailRaises(t)
  <2>1. CASE answers' = answers
    BY <1>8, <1>q, <2>1 DEF Crash, FailRaises
  <2>2. CASE answers' # answers
    <3>1. PICK t \in Tasks : Running(t) /\ answers' = [answers EXCEPT ![t] = 1]
      BY <1>8, <2>2 DEF Crash, FailRaises
    <3>2. Lifecycle!Answer(t)
      BY <1>8, <1>r, <1>a, <3>1 DEF Crash, FailRaises, Lifecycle!Answer, Answered
    <3> QED BY <1>s, <3>2
  <2> QED BY <2>1, <2>2
<1>9. CASE UNCHANGED vars
  BY <1>9, <1>q DEF vars, storeVars
<1> QED
  BY <1>1, <1>2, <1>3, <1>4, <1>5, <1>6, <1>7, <1>8, <1>9 DEF Next, Command, Outcome, StoreFault

\* The engine, with its caller, its coroutines and all their faults, takes each
\* task through the lifecycle and no other way.
THEOREM EngineKeepsLifecycle == Spec => KeepsLifecycle
<1>1. Init => Lifecycle!Init
  BY DEF Init, Lifecycle!Init
<1>2. TypeOK /\ FinalInv /\ [Next]_vars => [Lifecycle!Next]_(Lifecycle!lifecycleVars)
  BY StepSimulation
<1> QED
  BY <1>1, <1>2, TypeCorrect, FinalInvariance, PTL DEF Spec, KeepsLifecycle, Lifecycle!Spec

-----------------------------------------------------------------------------
(* Open tasks are at work.                                                 *)

\* While nothing fails, an open row has its coroutine, and a cancelled task is
\* over: no coroutine can still be stopped that has yet to close its row.
RunInv ==
  faults = 0 =>
    \A t \in Tasks :
      /\ row[t] \in Open => run[t] \in {"created", "handler"}
      /\ t \in cancelled => row[t] \in Terminal

LEMMA InitRun == Init => RunInv
  BY DEF Init, RunInv, Open

\* One step keeps RunInv.
LEMMA NextRun == TypeOK /\ FinalInv /\ RunInv /\ [Next]_vars => RunInv'
<1> SUFFICES ASSUME TypeOK, FinalInv, RunInv, [Next]_vars PROVE RunInv'
  OBVIOUS
<1> USE DEF TypeOK, FinalInv, RunInv, Running, Terminal, Open
<1>1. CASE UNCHANGED vars
  BY <1>1 DEF vars, storeVars, loopVars
<1>2. ASSUME NEW t \in Tasks, Submit(t) \/ Ask(t) PROVE RunInv'
  BY <1>2 DEF Submit, Ask, Create
<1>3. ASSUME NEW t \in Tasks, Execute(t) PROVE RunInv'
  BY <1>3 DEF Execute
<1>4. CASE Proceed \/ WaitTimesOut \/ \E t \in Tasks : Wait(t)
  BY <1>4 DEF Proceed, Subscribe, StreamNext, WaitDone, WaitTimesOut, Wait, storeVars, loopVars
<1>5. ASSUME NEW t \in Tasks, Cancel(t) PROVE RunInv'
  BY <1>5 DEF Cancel
<1>6. ASSUME NEW t \in Tasks, Start(t) \/ Report(t) PROVE RunInv'
  BY <1>6 DEF Start, Report
<1>7. ASSUME NEW t \in Tasks, Outcome(t) PROVE RunInv'
  <2>1. CASE Succeed(t)
    BY <2>1 DEF Succeed, End
  <2>2. CASE Fail(t)
    BY <2>2 DEF Fail, End
  <2>3. CASE Stop(t)
    BY <2>3 DEF Stop, End, storeVars
  <2> QED BY <1>7, <2>1, <2>2, <2>3 DEF Outcome
<1>8. CASE StoreFault \/ Crash
  <2>1. faults' # 0
    BY <1>8 DEF StoreFault, Crash, Fault, StartRaises, ExecuteRaises, SucceedRaises, FailRaises,
                CancelRaises
  <2> QED BY <2>1
<1>9. CASE Next
  <2> HIDE DEF TypeOK, FinalInv, RunInv
  <2> QED BY <1>2, <1>3, <1>4, <1>5, <1>6, <1>7, <1>8, <1>9 DEF Next, Command
<1> QED BY <1>1, <1>9

\* While nothing fails, every task that looks open has a coroutine that will
\* close it, through every interleaving of cancellations and results.
THEOREM OpenIsAtWork == Spec => []OpenHasRunner
<1>1. RunInv => OpenHasRunner
  BY DEF RunInv, OpenHasRunner
<1> QED BY <1>1, InitRun, NextRun, TypeCorrect, FinalInvariance, PTL DEF Spec

-----------------------------------------------------------------------------
(* What the user is shown.                                                 *)

\* The end is announced to a stream only when the row has reached it, and the
\* completion event of a task is set only then, while nothing fails.
ToldInv ==
  /\ call # "stream" => queue = << >>
  /\ \A i \in 1..Len(queue) : queue[i] = "terminal" => row[busyWith] \in Terminal
  /\ faults = 0 => \A t \in completed : row[t] \in Terminal

LEMMA InitTold == Init => ToldInv
  BY DEF Init, ToldInv

\* What is handed on leaves a queue of what was in it.
LEMMA TailOf ==
  ASSUME NEW S, NEW q \in Seq(S), q # << >>
  PROVE  Len(Tail(q)) = Len(q) - 1 /\ \A i \in 1..Len(Tail(q)) : Tail(q)[i] = q[i + 1]
  OBVIOUS

\* A coroutine that emits the terminal event has closed its row.
LEMMA EmitTold ==
  ASSUME TypeOK, FinalInv, ToldInv, [Next]_vars, NEW t \in Tasks,
         NEW events \in Seq({"progress", "message", "terminal"}), Emit(t, events),
         UNCHANGED <<call, busyWith>>,
         \A i \in 1..Len(events) : events[i] = "terminal" => row'[t] \in Terminal
  PROVE  /\ call' # "stream" => queue' = << >>
         /\ \A i \in 1..Len(queue') : queue'[i] = "terminal" => row'[busyWith'] \in Terminal
<1>1. queue \in Seq({"progress", "message", "terminal"})
  BY DEF TypeOK
<1>2. queue # << >> /\ row[busyWith] \in Terminal => row'[busyWith] \in Terminal
  BY <1>1, NextFinal DEF ToldInv, TypeOK
<1>3. CASE call = "stream" /\ busyWith = t
  <2>1. queue' = queue \o events
    BY <1>3 DEF Emit
  <2>2. ASSUME NEW i \in 1..Len(queue'), queue'[i] = "terminal"
        PROVE  row'[busyWith'] \in Terminal
    <3>1. CASE i <= Len(queue)
      <4>1. queue[i] = "terminal" /\ queue # << >> /\ i \in 1..Len(queue)
        BY <1>1, <2>1, <2>2, <3>1
      <4> QED BY <1>2, <4>1 DEF ToldInv
    <3>2. CASE i > Len(queue)
      <4>1. i - Len(queue) \in 1..Len(events) /\ events[i - Len(queue)] = "terminal"
        BY <1>1, <2>1, <2>2, <3>2
      <4> QED BY <1>3, <4>1
    <3> QED BY <1>1, <2>1, <3>1, <3>2
  <2> QED BY <1>3, <2>2
<1>4. CASE ~(call = "stream" /\ busyWith = t)
  <2>1. queue' = queue
    BY <1>4 DEF Emit
  <2>2. \A i \in 1..Len(queue) : queue # << >>
    BY <1>1
  <2> QED BY <1>2, <2>1, <2>2 DEF ToldInv
<1> QED BY <1>3, <1>4

\* The end of a coroutine that has closed its row keeps ToldInv.
LEMMA EndTold ==
  ASSUME TypeOK, FinalInv, ToldInv, [Next]_vars, NEW t \in Tasks,
         NEW events \in Seq({"progress", "message", "terminal"}),
         NEW v, End(t, events, v),
         events # << >> \/ faults' = 0 => row'[t] \in Terminal, faults' = 0 => faults = 0
  PROVE  ToldInv'
<1>1. faults' = 0 => \A s \in completed' : row'[s] \in Terminal
  BY NextFinal DEF End, ToldInv, TypeOK
<1>2. CASE call = "execute" /\ busyWith = t
  BY <1>1, <1>2 DEF End, Return, ToldInv
<1>3. CASE ~(call = "execute" /\ busyWith = t)
  <2>1. Emit(t, events) /\ UNCHANGED <<call, busyWith>>
    BY <1>3 DEF End
  <2>2. \A i \in 1..Len(events) : events # << >>
    OBVIOUS
  <2> QED BY <1>1, <2>1, <2>2, EmitTold DEF ToldInv
<1> QED BY <1>2, <1>3

\* One step keeps ToldInv.
LEMMA NextTold == TypeOK /\ FinalInv /\ RunInv /\ ToldInv /\ [Next]_vars => ToldInv'
<1> SUFFICES ASSUME TypeOK, FinalInv, RunInv, ToldInv, [Next]_vars PROVE ToldInv'
  OBVIOUS
<1>0. /\ \A t \in Tasks : row[t] \in Terminal => row'[t] = row[t]
      /\ busyWith \in Tasks \/ queue = << >>
      /\ queue \in Seq({"progress", "message", "terminal"})
      /\ \A t \in completed : t \in Tasks
  BY NextFinal DEF TypeOK, ToldInv
<1>e. /\ << >> \in Seq({"progress", "message", "terminal"})
      /\ <<"progress">> \in Seq({"progress", "message", "terminal"})
      /\ <<"terminal">> \in Seq({"progress", "message", "terminal"})
      /\ <<"message", "terminal">> \in Seq({"progress", "message", "terminal"})
  OBVIOUS
<1>1. CASE UNCHANGED vars
  BY <1>1 DEF vars, storeVars, loopVars, callVars, ToldInv
\* Nothing is announced while no stream is open.
<1>2. ASSUME queue' = << >>, completed' \subseteq completed, faults' = 0 => faults = 0
      PROVE  ToldInv'
  BY <1>0, <1>2 DEF ToldInv
<1>3. CASE Command \/ Subscribe \/ WaitDone \/ WaitTimesOut \/ Crash
  <2>1. queue' = << >> /\ completed' \subseteq completed /\ (faults' = 0 => faults = 0)
    BY <1>3 DEF Command, Submit, Ask, Execute, Wait, Cancel, Create, Await, Return, Subscribe,
                WaitDone, WaitTimesOut, Crash, Fault, TypeOK, ToldInv, callVars, storeVars, loopVars
  <2> QED BY <1>2, <2>1
<1>4. CASE StreamNext
  <2>1. UNCHANGED <<row, completed, faults>> /\ queue # << >>
    BY <1>4 DEF StreamNext, storeVars, loopVars
  <2>2. CASE Return(row[busyWith])
    BY <1>2, <2>1, <2>2 DEF Return
  <2>3. CASE queue' = Tail(queue) /\ UNCHANGED <<call, busyWith>>
    <3>1. \A i \in 1..Len(queue') : i + 1 \in 1..Len(queue) /\ queue'[i] = queue[i + 1]
      BY <1>0, <2>1, <2>3, TailOf
    <3>2. call = "stream"
      BY <1>4 DEF StreamNext
    <3> QED BY <2>1, <2>3, <3>1, <3>2 DEF ToldInv
  <2> QED BY <1>4, <2>2, <2>3 DEF StreamNext
<1>5. ASSUME NEW t \in Tasks, Start(t) \/ Report(t) PROVE ToldInv'
  <2>1. Emit(t, <<"progress">>) /\ UNCHANGED <<call, busyWith, completed, faults>>
    BY <1>5 DEF Start, Report
  <2>2. \A i \in 1..Len(<<"progress">>) : <<"progress">>[i] # "terminal"
    OBVIOUS
  <2>3. /\ call' # "stream" => queue' = << >>
        /\ \A i \in 1..Len(queue') : queue'[i] = "terminal" => row'[busyWith'] \in Terminal
    BY <1>e, <2>1, <2>2, EmitTold
  <2>4. faults' = 0 => \A s \in completed' : row'[s] \in Terminal
    BY <1>0, <2>1 DEF ToldInv
  <2> QED BY <2>3, <2>4 DEF ToldInv
<1>6. ASSUME NEW t \in Tasks, Outcome(t) \/ SucceedRaises(t) PROVE ToldInv'
  <2>1. CASE Succeed(t)
    BY <1>e, <2>1, EndTold DEF Succeed, TypeOK, Terminal
  <2>2. CASE Fail(t)
    BY <1>e, <2>2, EndTold DEF Fail, TypeOK, Terminal
  <2>3. CASE Stop(t)
    BY <1>e, <2>3, EndTold DEF Stop, RunInv, TypeOK, storeVars
  <2>4. CASE SucceedRaises(t)
    <3>1. End(t, <<"message", "terminal">>, "failed") /\ row'[t] = "failed"
      BY <2>4 DEF SucceedRaises, TypeOK
    <3>2. faults' # 0
      BY <2>4, EngineAssumption DEF SucceedRaises, Fault, TypeOK
    <3>3. row'[t] \in Terminal
      BY <3>1 DEF Terminal
    <3> QED BY <1>e, <3>1, <3>2, <3>3, EndTold
  <2> QED BY <1>6, <2>1, <2>2, <2>3, <2>4 DEF Outcome
<1>7. CASE StoreFault /\ ~\E t \in Tasks : SucceedRaises(t)
  <2>1. faults' # 0
    BY <1>7, EngineAssumption DEF StoreFault, Fault, StartRaises, ExecuteRaises, FailRaises,
                CancelRaises, TypeOK
  <2>2. \/ UNCHANGED <<call, busyWith, queue>>
        \/ call' = "idle" /\ queue' = << >>
        \/ \E t \in Tasks, events \in {<< >>, <<"message">>} :
             Emit(t, events) /\ UNCHANGED <<call, busyWith>>
    BY <1>7 DEF StoreFault, StartRaises, ExecuteRaises, FailRaises, CancelRaises, Return, callVars
  <2>3. ASSUME NEW t \in Tasks, NEW events \in {<< >>, <<"message">>},
               Emit(t, events), UNCHANGED <<call, busyWith>>
        PROVE  ToldInv'
    <3>1. /\ << >> \in Seq({"progress", "message", "terminal"})
          /\ <<"message">> \in Seq({"progress", "message", "terminal"})
          /\ \A i \in 1..Len(<< >>) : << >>[i] # "terminal"
          /\ \A i \in 1..Len(<<"message">>) : <<"message">>[i] # "terminal"
      OBVIOUS
    <3>2. CASE events = << >>
      BY <2>1, <2>3, <3>1, <3>2, EmitTold DEF ToldInv
    <3>3. CASE events = <<"message">>
      BY <2>1, <2>3, <3>1, <3>3, EmitTold DEF ToldInv
    <3> QED BY <3>2, <3>3
  <2> QED BY <1>0, <2>1, <2>2, <2>3 DEF ToldInv
<1> QED BY <1>1, <1>3, <1>4, <1>5, <1>6, <1>7 DEF Next, Proceed, StoreFault

\* A step out of a stream, or out of a wait while nothing fails, shows the end.
LEMMA StepShows ==
  ASSUME TypeOK, ToldInv, [Next]_vars,
         call' = "idle", call = "stream" \/ (call = "wait" /\ faults = 0)
  PROVE  verdict' \in Terminal \union {"timeout", "none"}
<1>1. CASE StreamNext
  <2>1. Head(queue) = "terminal" /\ verdict' = row[busyWith]
    BY <1>1 DEF StreamNext, Return
  <2>2. 1 \in 1..Len(queue) /\ queue[1] = "terminal"
    BY <1>1, <2>1 DEF StreamNext, TypeOK
  <2> QED BY <2>1, <2>2 DEF ToldInv
<1>2. CASE WaitDone
  BY <1>2 DEF WaitDone, Return, ToldInv
<1>3. CASE WaitTimesOut \/ Crash
  BY <1>3 DEF WaitTimesOut, Crash, Return
<1>4. CASE UNCHANGED call
  BY <1>4
<1> QED
  BY <1>1, <1>2, <1>3, <1>4
  DEF Next, Command, Submit, Ask, Execute, Wait, Cancel, Proceed, Subscribe, Start, Report,
      Outcome, Succeed, Fail, Stop, End, Return, StoreFault, StartRaises, ExecuteRaises,
      SucceedRaises, FailRaises, CancelRaises, vars, callVars

\* A stream that ends shows the user a terminal state, whatever fails beside it,
\* and so does a wait that does not time out, while nothing fails.
THEOREM CallsShowTheEnd == Spec => CallShowsOutcome
<1>1. TypeOK /\ ToldInv /\ [Next]_vars
        => [(call' = "idle" /\ (call = "stream" \/ (call = "wait" /\ faults = 0)))
              => verdict' \in Terminal \union {"timeout", "none"}]_vars
  BY StepShows
<1>2. Spec => []RunInv
  BY InitRun, NextRun, TypeCorrect, FinalInvariance, PTL DEF Spec
<1>3. Spec => []ToldInv
  BY <1>2, InitTold, NextTold, TypeCorrect, FinalInvariance, PTL DEF Spec
<1> QED BY <1>1, <1>3, TypeCorrect, PTL DEF Spec, CallShowsOutcome

-----------------------------------------------------------------------------
(* Nobody waits in vain.                                                   *)

\* What StreamEndsUnlessFault needs of every state, besides fairness: a stream
\* has the terminal event in its queue or a coroutine at work that will put it
\* there, and a wait has the event set or a coroutine that will set it.  The
\* end of a task between submission and subscription is not missed.
NoWakeUpLost ==
  faults = 0 =>
    /\ call = "stream" =>
         \/ \E i \in 1..Len(queue) : queue[i] = "terminal"
         \/ run[busyWith] \in {"created", "handler"} /\ busyWith \notin cancelled
    /\ call \in {"attach", "wait"} /\ row[busyWith] # "absent" =>
         run[busyWith] \in {"created", "handler"} \/ busyWith \in completed

\* A stream whose task is over has its end in the queue, and only a coroutine
\* that sets the event ends.
WakeInv ==
  faults = 0 =>
    /\ call \in {"attach", "stream"} => row[busyWith] # "absent"
    /\ call = "stream" /\ row[busyWith] \in Terminal =>
         \E i \in 1..Len(queue) : queue[i] = "terminal"
    /\ \A t \in Tasks :
         /\ run[t] = "done" => t \in completed
         /\ row[t] # "absent" => run[t] # "none"

LEMMA InitWake == Init => WakeInv
  BY DEF Init, WakeInv

\* Events that are put in a queue do not take the end out of it.
LEMMA EmitWake ==
  ASSUME NEW t \in Tasks, TypeOK,
         NEW events \in Seq({"progress", "message", "terminal"}), Emit(t, events)
  PROVE  /\ (\E i \in 1..Len(queue) : queue[i] = "terminal")
              => \E i \in 1..Len(queue') : queue'[i] = "terminal"
         /\ call = "stream" /\ busyWith = t /\ (\E i \in 1..Len(events) : events[i] = "terminal")
              => \E i \in 1..Len(queue') : queue'[i] = "terminal"
<1>1. queue \in Seq({"progress", "message", "terminal"})
  BY DEF TypeOK
<1>2. CASE call = "stream" /\ busyWith = t
  <2>1. queue' = queue \o events
    BY <1>2 DEF Emit
  <2>2. ASSUME NEW i \in 1..Len(queue), queue[i] = "terminal"
        PROVE  \E j \in 1..Len(queue') : queue'[j] = "terminal"
    <3>1. i \in 1..Len(queue') /\ queue'[i] = "terminal"
      BY <1>1, <2>1, <2>2
    <3> QED BY <3>1
  <2>3. ASSUME NEW i \in 1..Len(events), events[i] = "terminal"
        PROVE  \E j \in 1..Len(queue') : queue'[j] = "terminal"
    <3>1. Len(queue) + i \in 1..Len(queue') /\ queue'[Len(queue) + i] = "terminal"
      BY <1>1, <2>1, <2>3
    <3> QED BY <3>1
  <2> QED BY <2>2, <2>3
<1>3. CASE ~(call = "stream" /\ busyWith = t)
  BY <1>3 DEF Emit
<1> QED BY <1>2, <1>3

\* A coroutine that ends and, where it closes its row, says so keeps WakeInv.
LEMMA EndWake ==
  ASSUME TypeOK, FinalInv, WakeInv, [Next]_vars, faults = 0, faults' = 0, NEW t \in Tasks,
         NEW events \in Seq({"progress", "message", "terminal"}), NEW v, End(t, events, v),
         \A s \in Tasks : s # t => row'[s] = row[s],
         row[t] # "absent" => row'[t] # "absent",
         row'[t] \in Terminal /\ row[t] \notin Terminal =>
           \E i \in 1..Len(events) : events[i] = "terminal"
  PROVE  WakeInv'
<1>1. \A s \in Tasks : /\ run'[s] = "done" => s \in completed'
                       /\ s # t => run'[s] = run[s]
                       /\ run'[t] = "done"
  BY DEF End, TypeOK, WakeInv
<1>2. CASE call = "execute" /\ busyWith = t
  BY <1>1, <1>2 DEF End, Return, WakeInv
<1>3. CASE ~(call = "execute" /\ busyWith = t)
  <2>1. Emit(t, events) /\ UNCHANGED <<call, busyWith>>
    BY <1>3 DEF End
  <2>2. /\ (\E i \in 1..Len(queue) : queue[i] = "terminal")
             => \E i \in 1..Len(queue') : queue'[i] = "terminal"
        /\ call = "stream" /\ busyWith = t /\ (\E i \in 1..Len(events) : events[i] = "terminal")
             => \E i \in 1..Len(queue') : queue'[i] = "terminal"
    BY <2>1, EmitWake
  <2>3. call \in {"attach", "stream"} => busyWith \in Tasks
    BY DEF TypeOK
  <2> QED BY <1>1, <2>1, <2>2, <2>3 DEF WakeInv
<1> QED BY <1>2, <1>3

\* One step keeps WakeInv.
LEMMA NextWake == TypeOK /\ FinalInv /\ WakeInv /\ [Next]_vars => WakeInv'
<1> SUFFICES ASSUME TypeOK, FinalInv, WakeInv, [Next]_vars, faults' = 0 PROVE WakeInv'
  BY DEF WakeInv
<1>0. faults = 0 /\ ~StoreFault /\ ~Crash
  <2>1. Fault => faults' # 0
    BY DEF Fault, TypeOK
  <2> QED
    BY <2>1 DEF StoreFault, Crash, StartRaises, ExecuteRaises, SucceedRaises, FailRaises,
                CancelRaises, Next, Command, Submit, Ask, Execute, Wait, Cancel, Create, Proceed,
                Subscribe, StreamNext, WaitDone, WaitTimesOut, Start, Report, Outcome, Succeed,
                Fail, Stop, vars
<1>t. call \in {"attach", "stream"} => busyWith \in Tasks
  BY DEF TypeOK
<1>1. CASE UNCHANGED vars
  BY <1>1 DEF vars, storeVars, loopVars, callVars, WakeInv
<1>2. ASSUME NEW t \in Tasks, Submit(t) \/ Ask(t) PROVE WakeInv'
  BY <1>0, <1>2 DEF Submit, Ask, Create, Await, Return, WakeInv, TypeOK
<1>3. ASSUME NEW t \in Tasks, Execute(t) PROVE WakeInv'
  BY <1>0, <1>3 DEF Execute, Await, WakeInv, TypeOK
<1>4. CASE Subscribe \/ WaitDone \/ WaitTimesOut \/ \E t \in Tasks : Wait(t)
  BY <1>0, <1>4 DEF Subscribe, WaitDone, WaitTimesOut, Wait, Await, Return, WakeInv, storeVars,
                    loopVars
<1>5. ASSUME NEW t \in Tasks, Cancel(t) PROVE WakeInv'
  <2>1. /\ call = "idle" /\ row[t] # "absent"
        /\ UNCHANGED <<run, completed, call, busyWith, queue, faults>>
        /\ \A s \in Tasks : s # t => row'[s] = row[s]
    BY <1>5 DEF Cancel, Open, TypeOK, callVars
  <2> QED BY <1>0, <2>1 DEF WakeInv
<1>6. CASE StreamNext
  <2>1. queue # << >> /\ UNCHANGED <<row, run, completed, faults>>
    BY <1>6 DEF StreamNext, storeVars, loopVars
  <2>2. CASE Head(queue) = "terminal"
    BY <1>0, <1>6, <2>1, <2>2 DEF StreamNext, Return, WakeInv
  <2>3. CASE Head(queue) # "terminal"
    <3>1. queue' = Tail(queue) /\ UNCHANGED <<call, busyWith>>
      BY <1>6, <2>3 DEF StreamNext
    <3>2. ASSUME NEW i \in 1..Len(queue), queue[i] = "terminal"
          PROVE  \E j \in 1..Len(queue') : queue'[j] = "terminal"
      <4>1. queue \in Seq({"progress", "message", "terminal"}) /\ i # 1
        BY <2>1, <2>3, <3>2 DEF TypeOK
      <4>2. i - 1 \in 1..Len(queue') /\ queue'[i - 1] = "terminal"
        BY <2>1, <3>1, <3>2, <4>1, TailOf
      <4> QED BY <4>2
    <3> QED BY <1>0, <2>1, <3>1, <3>2 DEF WakeInv
  <2> QED BY <2>2, <2>3
<1>7. ASSUME NEW t \in Tasks, Start(t) \/ Report(t) PROVE WakeInv'
  <2>1. /\ Emit(t, <<"progress">>)
        /\ UNCHANGED <<call, busyWith, completed>>
        /\ row' = [row EXCEPT ![t] = "working"]
        /\ run' = [run EXCEPT ![t] = "handler"]
    BY <1>7 DEF Start, Report, Running, TypeOK
  <2>2. <<"progress">> \in Seq({"progress", "message", "terminal"})
    OBVIOUS
  <2>3. (\E i \in 1..Len(queue) : queue[i] = "terminal")
          => \E i \in 1..Len(queue') : queue'[i] = "terminal"
    BY <2>1, <2>2, EmitWake
  <2> QED BY <1>0, <1>t, <2>1, <2>3 DEF WakeInv, TypeOK, Terminal
<1>8. ASSUME NEW t \in Tasks, Outcome(t) PROVE WakeInv'
  <2>e. /\ << >> \in Seq({"progress", "message", "terminal"})
        /\ <<"terminal">> \in Seq({"progress", "message", "terminal"})
        /\ <<"message", "terminal">> \in Seq({"progress", "message", "terminal"})
        /\ \E i \in 1..Len(<<"terminal">>) : <<"terminal">>[i] = "terminal"
    OBVIOUS
  <2>m. \E i \in 1..Len(<<"message", "terminal">>) : <<"message", "terminal">>[i] = "terminal"
    <3>1. 2 \in 1..Len(<<"message", "terminal">>) /\ <<"message", "terminal">>[2] = "terminal"
      OBVIOUS
    <3> QED BY <3>1
  <2>1. CASE Succeed(t)
    <3>1. End(t, <<"message", "terminal">>, "completed") /\ row'[t] # "absent"
          /\ \A s \in Tasks : s # t => row'[s] = row[s]
      BY <2>1 DEF Succeed, TypeOK
    <3> QED BY <1>0, <2>e, <2>m, <3>1, EndWake
  <2>2. CASE Fail(t)
    <3>1. End(t, <<"terminal">>, "failed") /\ row'[t] # "absent"
          /\ \A s \in Tasks : s # t => row'[s] = row[s]
      BY <2>2 DEF Fail, TypeOK
    <3> QED BY <1>0, <2>e, <3>1, EndWake
  <2>3. CASE Stop(t)
    <3>1. End(t, << >>, row[t]) /\ row' = row
      BY <2>3 DEF Stop, storeVars
    <3> QED BY <1>0, <2>e, <3>1, EndWake
  <2> QED BY <1>8, <2>1, <2>2, <2>3 DEF Outcome
<1> QED
  BY <1>0, <1>1, <1>2, <1>3, <1>4, <1>5, <1>6, <1>7, <1>8 DEF Next, Command, Proceed

\* While nothing fails, nobody who waits for a task waits in vain.
THEOREM NobodyWaitsInVain == Spec => []NoWakeUpLost
<1>1. TypeOK /\ FinalInv /\ RunInv /\ WakeInv => NoWakeUpLost
  <2> SUFFICES ASSUME TypeOK, FinalInv, RunInv, WakeInv, faults = 0 PROVE NoWakeUpLost
    BY DEF NoWakeUpLost
  <2>1. CASE call = "stream"
    <3>1. busyWith \in Tasks
      BY <2>1 DEF TypeOK
    <3>2. CASE row[busyWith] \in Terminal
      BY <2>1, <3>2 DEF WakeInv, NoWakeUpLost
    <3>3. CASE row[busyWith] \in Open
      BY <2>1, <3>1, <3>3 DEF RunInv, NoWakeUpLost, Open, Terminal
    <3> QED BY <2>1, <3>1, <3>2, <3>3 DEF TypeOK, States, WakeInv
  <2>2. CASE call \in {"attach", "wait"} /\ row[busyWith] # "absent"
    BY <2>2 DEF WakeInv, NoWakeUpLost, TypeOK
  <2> QED BY <2>1, <2>2 DEF NoWakeUpLost
<1>2. Spec => []RunInv
  BY InitRun, NextRun, TypeCorrect, FinalInvariance, PTL DEF Spec
<1>3. Spec => []WakeInv
  BY InitWake, NextWake, TypeCorrect, FinalInvariance, PTL DEF Spec
<1> QED BY <1>1, <1>2, <1>3, TypeCorrect, FinalInvariance, PTL

=============================================================================
