SPECIFICATION FairSpec
CONSTANTS
  MaxHost = 2
  MaxActs = 1
  MaxSubs = 2
INVARIANTS
  TypeOK
  AppliedInOrderOnce
  ReplayedOnce
PROPERTIES
  ShowsHostState
  SubscribeAnswered
  EchoArrives
CHECK_DEADLOCK FALSE
