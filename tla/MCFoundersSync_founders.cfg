CONSTANTS
  Configured = {"nvidia", "ollama", "fedora"}
  Order <- TwiceNvidia
  FedoraUrls = 2
  Window = 2
  BatchLimit = 2
  MaxMessage = 3
  MaxFaults = 2
  MaxCount = 3
SPECIFICATION FairSpec
INVARIANTS TypeOK ProcessedIsStored StoredTwiceHasCause FailsOnlyWhenAllFailed
PROPERTIES EveryMessageExtracted
CHECK_DEADLOCK FALSE
