---------------------------- MODULE TaskLifecycle ---------------------------
(***************************************************************************)
(* What the task engine promises of each task, without coroutines, calls,  *)
(* queues or faults: what its row may go through, and when an answer may   *)
(* be written.  A task is answered once and only while it is worked on, so *)
(* that nobody who has cancelled it finds an answer afterwards.            *)
(***************************************************************************)
CONSTANT Tasks

VARIABLES
  state,     \* "absent", "submitted", "working", "completed", "failed" or "canceled"
  answered   \* tasks with an answer

lifecycleVars == <<state, answered>>

Init == state = [t \in Tasks |-> "absent"] /\ answered = {}

Becomes(t, s) == state' = [state EXCEPT ![t] = s]

\* A task that runs in its caller is at work when it is first seen.
Create(t) ==
  /\ state[t] = "absent"
  /\ Becomes(t, "submitted") \/ Becomes(t, "working")
  /\ UNCHANGED answered

Start(t) ==
  /\ state[t] = "submitted"
  /\ Becomes(t, "working")
  /\ UNCHANGED answered

\* The answer is written, and what was to come after it never does: all that
\* is left for the task is to be cancelled.
Answer(t) ==
  /\ state[t] = "working" /\ t \notin answered
  /\ answered' = answered \union {t}
  /\ UNCHANGED state

Complete(t) ==
  /\ state[t] = "working" /\ t \notin answered
  /\ Becomes(t, "completed")
  /\ answered' = answered \union {t}

\* A task may fail when its answer is already there.
Fail(t) ==
  /\ state[t] = "working" /\ t \notin answered
  /\ Becomes(t, "failed")
  /\ answered' \in {answered, answered \union {t}}

Cancel(t) ==
  /\ state[t] \in {"submitted", "working"}
  /\ Becomes(t, "canceled")
  /\ UNCHANGED answered

Next == \E t \in Tasks :
  Create(t) \/ Start(t) \/ Answer(t) \/ Complete(t) \/ Fail(t) \/ Cancel(t)

Spec == Init /\ [][Next]_lifecycleVars

=============================================================================
