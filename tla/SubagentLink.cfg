SPECIFICATION Spec
CONSTANTS
  Task = {a1}
  MaxCalls = 0
  MaxTurns = 1
PROPERTIES
  LinkIsPreserved
CHECK_DEADLOCK FALSE
