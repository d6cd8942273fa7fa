CONSTANTS
  Configured = {"nvidia", "ollama", "fedora"}
  Order <- TwiceNvidia
  FedoraUrls = 2
  Window = 2
  BatchLimit = 2
  MaxMessage = 1
  MaxFaults = 0
  MaxCount = 3
SPECIFICATION FairSpec
INVARIANTS FailuresMoveOn
CHECK_DEADLOCK FALSE
