SPECIFICATION Spec
CONSTANTS
  Rows = {a, b, c}
  MaxRows = 3
  RowsPerPage = {1, 2}
  DefaultRows = 2
  MaxPage = 4
  NoCount = FALSE
  None = None
INVARIANTS
  IndexFindsRow
  EveryRowHasAPage
  ShowsAPage
SYMMETRY Alike
