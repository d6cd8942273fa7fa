CONSTANTS
  t1 = t1
  t2 = t2
  Tasks = {t1}
  NoTask = NoTask
  MaxReports = 1
  MaxFaults = 1
SPECIFICATION FairSpec
PROPERTIES StreamEnds
CHECK_DEADLOCK FALSE
