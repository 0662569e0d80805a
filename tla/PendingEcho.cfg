SPECIFICATION FairSpec
CONSTANTS
  MaxHost = 1
  MaxActs = 1
  MaxSubs = 1
PROPERTIES
  PendingIsEchoed
CHECK_DEADLOCK FALSE
