SPECIFICATION TabsSpec
CONSTANTS
  TabIds = {t1, t2, t3}
  Remote = {t2, t3}
  NoTab = NoTab
  TabsCollapse = TRUE
  Cache = TRUE
INVARIANT
  QueueIsOfLatestTab
CHECK_DEADLOCK FALSE
