-------------------------- MODULE MCTelegramOutbox --------------------------
EXTENDS TelegramOutbox

CONSTANTS m1, r1, r2, w1, w2

\* Every job in a partition of its own, or all jobs in one.
OwnPartition == [j \in Jobs |-> j]
OnePartition == [j \in Jobs |-> 1]

=============================================================================
