SPECIFICATION Spec
CONSTANTS
  Turn = {t1, t2}
  Call = {c1, c2}
  Message = {m1, m2}
  Request = {r1}
  NoTurn = NoTurn
  NoMessage = NoMessage
  MaxParts = 2
  Provisional = FALSE
SYMMETRY Ids
INVARIANTS
  TypeOK
  SettledHistory
  StatusIsTruthful
  TurnRecordedOnce
PROPERTIES
  TerminalIsFinal
