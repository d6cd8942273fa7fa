CONSTANTS
  t1 = t1
  t2 = t2
  Tasks = {t1, t2}
  NoTask = NoTask
  MaxReports = 2
  MaxFaults = 2
SPECIFICATION FairSpec
INVARIANTS TypeOK OpenHasRunner
PROPERTIES TerminalIsFinal KeepsLifecycle CallShowsOutcome StreamEndsUnlessFault
CHECK_DEADLOCK FALSE
