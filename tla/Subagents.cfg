SPECIFICATION FairSpec
CONSTANTS
  Task = {a1}
  MaxCalls = 2
  MaxTurns = 2
INVARIANTS
  TypeOK
  ShownAsSignalled
  TurnMeansTracked
  TrackedIsFound
PROPERTIES
  ChildTurnEnds
  SettledStays
CHECK_DEADLOCK FALSE
