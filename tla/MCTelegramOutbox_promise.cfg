CONSTANTS
  m1 = m1
  r1 = r1
  r2 = r2
  w1 = w1
  w2 = w2
  Messages = {m1}
  Recipients = {r1}
  Workers = {w1, w2}
  PartitionOf <- OwnPartition
  NoJob = NoJob
  BatchLimit = 1
  Lease = 2
  MaxExp = 2
  DelayCap = 2
  MaxQueued = 2
  MaxFaults = 2
SPECIFICATION LiveSpec
INVARIANTS TypeOK DuplicateHasCause
PROPERTIES KeepsPromise PromiseFulfilled
CHECK_DEADLOCK FALSE
