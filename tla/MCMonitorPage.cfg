SPECIFICATION MCSpec
CONSTANTS
  top = top
  sub = sub
  Menus = {top, sub}
  ParentOf <- MCParentOf
  NoMenu = NoMenu
  Panes = {w}
  Replace = TRUE
  Ticks = 1
  MaxQueue <- MCMaxQueue
  MaxHeight = 2
  Ids = {r1, r2}
  MaxLines = 2
  MaxStuck = 1
  MaxLoops = 2
  MaxOrphans = 1
INVARIANTS
  NothingStuck
  RestsAsMeant
  ActiveCounts
  EachLineOnce
PROPERTIES
  AwayCloses
  LinesSettle
CHECK_DEADLOCK FALSE
