SPECIFICATION Spec
CONSTANTS
  Turn = {t1, t2}
  Call <- MCCall
  Message = {m1}
  Request = {}
  NoTurn = NoTurn
  NoMessage = NoMessage
  MaxCalls = 1
  Kinds = {"edit", "client"}
  AutoApply = FALSE
  Streaming = FALSE
  Limited = FALSE
  Overlap = TRUE
SYMMETRY Ids
INVARIANTS
  TypeOK
  ActiveTurnHasLiveRun
  EditsOnlyWithConsent
  WaitersHaveResolvers
  AnswerableApproval
  ShownActivityIsRecorded
