CONSTANTS
  o = o
  c = c
  n = n
  None = None
  Chats = {o, c}
  Names = {n}
  SeedChats = {o}
  SeedNames = {n}
  OwnerChats = {o}
  OwnerNames = {}
  Requests <- Mixed
  Enabled = {TRUE, FALSE}
  HistoryLimit = 2
  MayBlock = {c}
  Unsendable <- Refused
  MaxUpdate = 3
  MaxFaults = 1
  MaxCount = 2
SPECIFICATION FairSpec
INVARIANTS TypeOK NoUpdateLost RepeatedOnlyByMishap UsersUnique SeededOwnersOwn RevokedStaysOut ForgottenStaysForgotten
PROPERTIES EveryUpdateHandled
CHECK_DEADLOCK FALSE
