CONSTANTS
  Channels <- BothChannels
  Telegram = "telegram"
  Recipients <- RecipientsOf
  ChannelSets <- OnlyBot
  MaxPost = 2
  Contents <- AnnouncementsAndDenials
  HistoryLimit = 2
  Modes = {TRUE}
  FailIn = {}
  MaxFaults = 1
SPECIFICATION Spec
INVARIANTS AvailabilityIsNewest
CHECK_DEADLOCK FALSE
