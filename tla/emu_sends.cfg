CONSTANTS
  RandomCount = 2
  FileCount = 3
  Unreadable = {2}
  Topic = "wbl0_orders"
  Creatable = {"wbl0_orders", "gorders_topic"}
  MaxFaults = 3
SPECIFICATION FairSpec
INVARIANTS DoneMeansSent
PROPERTY DoneIfTopicExists
\* the emulator is done
CHECK_DEADLOCK FALSE
