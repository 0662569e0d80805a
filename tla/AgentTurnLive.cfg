SPECIFICATION FairSpec
CONSTANTS
  Turn = {t1, t2}
  Call <- MCCall
  Message = {}
  Request = {}
  NoTurn = NoTurn
  NoMessage = NoMessage
  MaxCalls = 1
  Kinds = {"edit", "client"}
  AutoApply = FALSE
  Streaming = FALSE
  Limited = FALSE
  Overlap = FALSE
PROPERTIES
  TurnEnds
