CONSTANTS
  m1 = m1
  r1 = r1
  r2 = r2
  w1 = w1
  w2 = w2
  Messages = {m1}
  Recipients = {r1, r2}
  Workers = {w1}
  PartitionOf <- OnePartition
  NoJob = NoJob
  BatchLimit = 1
  Lease = 1
  MaxExp = 1
  DelayCap = 2
  MaxQueued = 1
  MaxFaults = 1
SPECIFICATION RunSpec
PROPERTIES NeverForgotten
CHECK_DEADLOCK FALSE
