CONSTANTS
  o = o
  c = c
  n = n
  None = None
  Chats = {o, c}
  Names = {n}
  SeedChats = {o}
  SeedNames = {n}
  OwnerChats = {o}
  OwnerNames = {}
  Requests <- Few
  Enabled = {FALSE}
  HistoryLimit = 2
  MayBlock = {}
  Unsendable = {}
  MaxUpdate = 1
  MaxFaults = 0
  MaxCount = 2
SPECIFICATION FairSpec

PROPERTIES LoopIsShared
CHECK_DEADLOCK FALSE
