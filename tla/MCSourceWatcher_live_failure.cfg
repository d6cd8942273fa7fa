CONSTANTS
  Channels <- BothChannels
  Telegram = "telegram"
  Recipients <- RecipientsOf
  ChannelSets <- OnlyBot
  MaxPost = 2
  Contents <- Announcements
  HistoryLimit = 2
  Modes = {TRUE}
  FailIn <- InLiveUpdates
  MaxFaults = 1
SPECIFICATION Spec
INVARIANTS NoPostSkipped
CHECK_DEADLOCK FALSE
