CONSTANTS
  Channels <- BothChannels
  Telegram = "telegram"
  Recipients <- RecipientsOf
  ChannelSets <- WithAndWithoutBot
  MaxPost = 3
  Contents <- EachVerdict
  HistoryLimit = 1
  Modes = {TRUE, FALSE}
  FailIn <- InDirectMode
  MaxFaults = 2
SPECIFICATION FairSpec
INVARIANTS TypeOK RulesAreIntended NoPostSkipped RecordedIsBacked AvailabilityCatchesUp RepeatedOnlyByFault
PROPERTIES EveryPostEnqueued
CHECK_DEADLOCK FALSE
