SPECIFICATION MCSpec
CONSTANTS
  Observers = {o1, o2}
  All = FALSE
  MaxLines = 4
  MaxRotations = 1
  Shared = 3
INVARIANTS
  NoLostWakeup
  InOrder
  Gapless
PROPERTIES
  LinesArrive
CHECK_DEADLOCK FALSE
