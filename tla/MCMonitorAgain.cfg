SPECIFICATION Spec
CONSTANTS
  Observers = {o1}
  Shared = 3
  All = FALSE
  MaxLines = 3
  MaxRotations = 0
INVARIANTS
  ReturnedOnce
CHECK_DEADLOCK FALSE
