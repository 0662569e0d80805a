SPECIFICATION Spec
CONSTANTS
  Client = {c1}
INVARIANTS
  ClosedIsReleased
CHECK_DEADLOCK FALSE
