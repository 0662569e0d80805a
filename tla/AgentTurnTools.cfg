SPECIFICATION Spec
CONSTANTS
  Turn = {t1}
  Call <- MCCall
  Message = {}
  Request = {}
  NoTurn = NoTurn
  NoMessage = NoMessage
  MaxCalls = 3
  Kinds = {"read", "client", "edit"}
  AutoApply = TRUE
  Streaming = TRUE
  Limited = TRUE
  Overlap = FALSE
INVARIANTS
  OnlyReadsInParallel
