CONSTANTS
  Images = {i}
  NoImage = NoImage
  Bookable = {i}
  Says = {FALSE}
  OldPosts = 2
  OldAlerts = {1, 2}
  Limits = {1, 3}
  MaxPost = 3
  MaxFaults = 2
  MaxUpdates = 2
  MaxStarts = 2
  MaxFailures = 2
SPECIFICATION Spec
INVARIANTS TypeOK ImportedDownToCursor LegacyApart ImportIsCounted OutageLosesNothing RepeatHasCause
PROPERTIES ImportGetsThrough StandbyYields EveryUpdateServed
CHECK_DEADLOCK FALSE
