SPECIFICATION MCSpec
CONSTANTS
  Observers = {o1, o2}
  Sessions = {s1}
  NoObserver = NoObserver
  Delay = 1
  All = FALSE
  MaxLines = 2
  MaxRotations = 0
  Shared = 1
INVARIANTS
  NoLeak
PROPERTIES
  AbandonedIsForgotten
CHECK_DEADLOCK FALSE
