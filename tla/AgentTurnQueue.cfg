SPECIFICATION Spec
CONSTANTS
  Turn = {t1, t2, t3}
  Call <- MCCall
  Message = {m1, m2}
  Request = {}
  NoTurn = NoTurn
  NoMessage = NoMessage
  MaxCalls = 0
  Kinds = {}
  AutoApply = FALSE
  Streaming = FALSE
  Limited = FALSE
  Overlap = TRUE
SYMMETRY Ids
INVARIANTS
  MessageStartsOnce
  QueueWaitsOnlyAfterFailure
  TurnRecordedOnce
PROPERTIES
  TurnsLeaveToRecord
