SPECIFICATION Spec
CONSTANTS
  name = name
  mail = mail
  Columns = {name, mail}
  All = All
  Prompt = Prompt
  NoBox = NoBox
  Characters = {"a", "b", "c", " "}
  Space = " "
  BoxTexts <- MCBoxTexts
  Data <- MCData
  Fields = {f1, f2}
  NoField = NoField
  MaxAnimations = 3
  DaysIn <- MCDaysIn
  Week = 2
  Today <- MCToday
  NoText = NoText
  Bad = Bad
  NoDay = NoDay
  Formats <- MCFormats
  DateCases <- MCDates
  ThisYear = 2010
  NoDate = NoDate
  Handlers = {f, g}
  WithinElement = WithinElement
  Nothing = Nothing
  MaxDepth = 2
  ReadyFns = {"p", "q", "r", "s", "t", "u", "v"}
  Nests <- MCNests
  Throwing = {"v"}
  Labels = {"A", "B"}
  Documents <- MCDocuments
  Contexts = {1, 2}
  Selectors <- MCSelectors
  Marks = {"A", "B", "x", "y"}
  Items <- MCItems
  Exprs <- MCExprs
  Messages <- MCMessages
  TabIds = {t1, t2, t3}
  Remote = {t2, t3}
  NoTab = NoTab
  TabsCollapse = FALSE
  Cache = TRUE
  Dialogs = {w1, w2, w3}
  Modal = {w1, w2}
  BaseZ = 1
  NoDialog = NoDialog
  HighestZ = 8
  MaxTimers = 2
  Headers = 4
  Collapsible = TRUE
  ClosesAtWill = FALSE
  empty = empty
  short = short
  long = long
  Texts <- MCTexts
  EmptyText = empty
  NoTerm = NoTerm
  Offers <- MCOffers
  MaxClosers = 2
  SMin = 0
  SMax = 10
  SStep = 3
  Grip = 1
  d1 = d1
  d2 = d2
  d3 = d3
  Droppables <- MCDroppables
  Within <- MCWithin
  Greedy = {d1}
  NoDroppable = NoDroppable
  l1 = l1
  l2 = l2
  i1 = i1
  i2 = i2
  i3 = i3
  Lists = {l1, l2}
  StartLists <- MCStartLists
  Reverts = {l1}
  DropOnEmpty = TRUE
  NoItem = NoItem
  NoList = NoList
  Selectees = {i1, i2, i3}
  NoSelectee = NoSelectee
  AutoRefresh = TRUE
INVARIANTS
  ShowsWhatIsSearched
  PopupServesField
  FieldIsCurrent
  EndsAgree
  TablesAreHeard
  EachRunsOnce
  FindsWhatIsMeant
  KeepsWhatIsMeant
  SameDigest
  OnePanelShown
  DialogsAreUsable
  ShowsActiveOnly
  MenuBelongsToField
  RangeIsUsable
  OverWhatItMeets
  OrderIsTold
  SelectionIsTold
CHECK_DEADLOCK FALSE
