---------------------------- MODULE MCOperations ----------------------------
(***************************************************************************)
(* The two components that are run by hand beside the notifier: the import *)
(* of the history and the standby of the bot.  They share no variable, so  *)
(* that their interleavings show nothing the two do not show by            *)
(* themselves: a behaviour is one of the one or one of the other.          *)
(***************************************************************************)
EXTENDS History, Failover

VARIABLE part

partVars == <<historyVars, failoverVars, part>>

Init ==
  /\ HistoryInit /\ FailoverInit
  /\ \/ part = "history"
     \/ part = "failover" /\ \A m \in 1..OldPosts : ~sentPosts[m].says /\ sentPosts[m].image = NoImage

InHistory(A) == part = "history" /\ A /\ UNCHANGED <<failoverVars, part>>
InFailover(A) == part = "failover" /\ A /\ UNCHANGED <<historyVars, part>>

Next == InHistory(HistoryNext) \/ InFailover(FailoverNext)

\* HistoryFairness and FailoverFairness.
Fairness ==
  /\ WF_partVars(InHistory(ImportStart)) /\ WF_partVars(InHistory(Importing))
  /\ \A p \in Pollers : WF_partVars(InFailover(Polling(p)))

Spec == Init /\ [][Next]_partVars /\ Fairness

\* The variables of the two keep their types.
TypeOK == HistoryTypeOK /\ FailoverTypeOK

=============================================================================
