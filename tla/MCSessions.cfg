SPECIFICATION FairSpec
CONSTANTS
  Ids = {h1}
  Requests = {r1, r2, r3}
  Timeout = 1
  None = None
INVARIANTS
  NoNullAccess
  RemovesWhatItFound
  WorksWithUser
PROPERTIES
  NeverReplaced
  ExpiredIsRemoved
