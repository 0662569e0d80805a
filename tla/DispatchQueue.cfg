SPECIFICATION FairSpec
CONSTANTS
  Client = {c1, c2}
  MaxSeq = 3
INVARIANTS
  TypeOK
  OrderPerClient
PROPERTIES
  KeepsPromise
CHECK_DEADLOCK FALSE
