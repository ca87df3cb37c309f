SPECIFICATION FairSpec
CONSTANTS
  Observers = {o1}
  Shared = 3
  All = FALSE
  MaxLines = 2
  MaxRotations = 0
PROPERTIES
  SinceTheActual
CHECK_DEADLOCK FALSE
