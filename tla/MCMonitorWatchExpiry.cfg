SPECIFICATION WatchFairSpec
CONSTANTS
  Observers = {o1}
  Sessions = {s1}
  NoObserver = NoObserver
  Delay = 1
  All = FALSE
  MaxLines = 0
  MaxRotations = 0
  Shared = 0
PROPERTIES
  DeletedOnlyWhenIdle
CHECK_DEADLOCK FALSE
