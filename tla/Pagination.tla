----------------------------- MODULE Pagination -----------------------------
(***************************************************************************)
(* The paginated list of an entity (core/PaginatedList.java,                *)
(* ListManager.java, over the DisplacedList of the rows of a page): what    *)
(* the list and filter requests of a PM session do to its page, its number  *)
(* of pages and its rows, while other sessions insert and delete rows.      *)
(*                                                                         *)
(* The session has one request at a time here; Operations treats those that *)
(* overlap.  A row is its name; the rows are the ones that match the filter *)
(* of the container, in the order of the list.                             *)
(***************************************************************************)
EXTENDS Integers, Sequences

CONSTANTS
  Rows,          \* names of rows
  MaxRows,       \* bound: rows that match
  RowsPerPage,   \* what the page lets the user choose
  DefaultRows,   \* the rows per page of a list that nobody configured
  MaxPage,       \* bound: page a user asks for
  NoCount,       \* the "no-count" flag of the entity
  None           \* the null reference

ASSUME PaginationAssumption ==
  /\ MaxRows \in Nat
  /\ RowsPerPage \subseteq Nat \ {0}
  /\ DefaultRows \in RowsPerPage
  /\ MaxPage \in Nat \ {0}
  /\ NoCount \in BOOLEAN
  /\ None \notin Nat

VARIABLES
  rows,          \* the stored rows that match the filter, in their order
  page,          \* PaginatedList.page
  pages,         \* PaginatedList.pages, 1 for null
  total,         \* PaginatedList.total
  rowsPerPage,   \* PaginatedList.rowsPerPage
  contents,      \* the DisplacedList: its elements
  displacement,  \* and what its indexes are displaced by
  at,            \* where the request is
  result,        \* the rows it read
  count,         \* and counted
  screen,        \* what the last answer showed: rows, with their index
  \* History variables.
  current,       \* the rows have not changed since the total was counted
  settled        \* nor since the total the page was compared with, and the
                 \* rows per page are the ones of that total

listVars    == <<page, pages, total, rowsPerPage, contents, displacement>>
requestVars == <<at, result, count>>
historyVars == <<current, settled>>
vars == <<rows, listVars, requestVars, screen, historyVars>>

Listings == {l \in UNION {[1..n -> Rows] : n \in 0..MaxRows} :
               \A i, j \in DOMAIN l : l[i] = l[j] => i = j}

(* Mutant of PagesFor: the last page must be full.                         *)
FullPages(t, n) == t \div n

(* setTotal                                                                *)
PagesFor(t, n) == IF t % n = 0 THEN t \div n ELSE t \div n + 1

(* The rows of a query from a first one; a first row below zero is none.    *)
Slice(from, n) ==
  LET first == IF from < 0 THEN 0 ELSE from
      last  == IF first + n < Len(rows) THEN first + n ELSE Len(rows)
  IN [i \in 1..(last - first) |-> rows[first + i]]

(* DisplacedList: indexOf of the element at a position, and get, which ends *)
(* in an exception (here None) outside the page.  Its mutant takes the page *)
(* of the list for that of the rows.                                       *)
IndexOf(i) == i - 1 + displacement
At(i) == IF i \in DOMAIN contents THEN contents[i] ELSE None
GetByPage(index) == At(index - (page - 1) * rowsPerPage + 1)
Get(index) == At(index - displacement + 1)

(* ListManager.initList, and the first list of the session has been shown.  *)
Init ==
  /\ rows \in Listings
  /\ page = 1
  /\ rowsPerPage = DefaultRows
  /\ total = IF NoCount THEN None ELSE Len(rows)
  /\ pages = IF NoCount THEN 1 ELSE PagesFor(Len(rows), DefaultRows)
  /\ contents = Slice(0, DefaultRows)
  /\ displacement = 0
  /\ at = "idle"
  /\ result = <<>>
  /\ count = None
  /\ screen = [i \in DOMAIN contents |-> [index |-> IndexOf(i), row |-> contents[i]]]
  /\ current = TRUE
  /\ settled = ~NoCount

----------------------------------------------------------------------------
(* Another session.                                                        *)

Change(new) ==
  /\ rows' = new
  /\ current' = FALSE
  /\ settled' = FALSE
  /\ UNCHANGED <<listVars, requestVars, screen>>

Insert ==
  /\ Len(rows) < MaxRows
  /\ \E row \in {r \in Rows : \A i \in DOMAIN rows : rows[i] # r}, k \in 0..Len(rows) :
       Change(SubSeq(rows, 1, k) \o <<row>> \o SubSeq(rows, k + 1, Len(rows)))

Delete ==
  \E k \in DOMAIN rows :
    Change(SubSeq(rows, 1, k - 1) \o SubSeq(rows, k + 1, Len(rows)))

----------------------------------------------------------------------------
(* ListOperation.doExecute.                                                *)

(* Mutant of InRange: the page is taken as it was asked for.                *)
AnyPage(p) == p

(* setPage: "Out of range page sets to last one", by the total of the       *)
(* request before.                                                         *)
InRange(p) == IF total # None /\ p > pages THEN pages ELSE p

(* setPage, then setRowsPerPage, which counts the pages again.              *)
Configure(p, n) ==
  /\ at = "idle"
  /\ at' = "configured"
  /\ page' = InRange(p)
  /\ settled' = (current /\ total # None /\ n = rowsPerPage)
  /\ rowsPerPage' = n
  /\ pages' = IF total = None THEN pages ELSE PagesFor(total, n)
  /\ UNCHANGED <<rows, total, contents, displacement, result, count, screen,
                 current>>

List == \E p \in 1..MaxPage, n \in RowsPerPage : Configure(p, n)

(* PMFilterOperation.prepare: another filter, and the list stays on its     *)
(* page.                                                                   *)
Filter ==
  /\ at = "idle"
  /\ at' = "configured"
  /\ rows' \in Listings
  /\ current' = FALSE
  /\ settled' = FALSE
  /\ UNCHANGED <<listVars, result, count, screen>>

(* from                                                                    *)
From == (page - 1) * rowsPerPage

(* ListManager.configureList, PMFilterOperation.doExecute.                  *)
ReadRows ==
  /\ at = "configured"
  /\ at' = "read"
  /\ result' = Slice(From, rowsPerPage)
  /\ UNCHANGED <<rows, listVars, count, screen, historyVars>>

Count ==
  /\ at = "read"
  /\ at' = "counted"
  /\ count' = IF NoCount THEN None ELSE Len(rows)
  /\ current' = TRUE
  /\ UNCHANGED <<rows, listVars, result, screen, settled>>

(* An exception of either leaves the list with the old rows and the new     *)
(* page.                                                                   *)
Fail ==
  /\ at \in {"configured", "read"}
  /\ at' = "idle"
  /\ settled' = FALSE
  /\ UNCHANGED <<rows, listVars, result, count, screen, current>>

(* setContents                                                             *)
SetContents ==
  /\ contents' = result
  /\ displacement' = From

(* setContents and setTotal, and the page with the rows and their indexes.  *)
Show ==
  /\ at = "counted"
  /\ at' = "idle"
  /\ SetContents
  /\ total' = count
  /\ pages' = IF count = None THEN pages ELSE PagesFor(count, rowsPerPage)
  /\ screen' = [i \in DOMAIN contents' |->
                  [index |-> IndexOf(i)', row |-> contents'[i]]]
  /\ UNCHANGED <<rows, page, rowsPerPage, result, count, historyVars>>

----------------------------------------------------------------------------
Next == Insert \/ Delete \/ List \/ Filter \/ ReadRows \/ Count \/ Fail \/ Show

Spec == Init /\ [][Next]_vars
----------------------------------------------------------------------------
(* Every variable keeps its type.                                          *)
TypeOK ==
  /\ rows \in Seq(Rows) /\ Len(rows) <= MaxRows
  /\ page \in 0..MaxPage
  /\ pages \in Nat
  /\ total \in 0..MaxRows \cup {None}
  /\ rowsPerPage \in RowsPerPage
  /\ contents \in Seq(Rows)
  /\ displacement \in Int
  /\ at \in {"idle", "configured", "read", "counted"}
  /\ result \in Seq(Rows)
  /\ count \in 0..MaxRows \cup {None}
  /\ screen \in Seq([index : Int, row : Rows])
  /\ current \in BOOLEAN
  /\ settled \in BOOLEAN

(* The index a page shows next to a row selects that row, also while the    *)
(* next request changes the page, and after one that failed.               *)
IndexFindsRow == \A i \in DOMAIN screen : Get(screen[i].index) = screen[i].row

PageRows(p) == Slice((p - 1) * rowsPerPage, rowsPerPage)

(* When the rows are those that were counted, every one of them is on one   *)
(* of the pages the list offers.                                           *)
EveryRowHasAPage ==
  at = "idle" /\ current /\ total # None =>
    \A i \in DOMAIN rows : \E p \in 1..pages :
      \E j \in DOMAIN PageRows(p) : PageRows(p)[j] = rows[i]

(* A list request shows rows of a page in range, each with its place in the *)
(* list, whatever page was asked for, if the total of the request before    *)
(* was right and for the same rows per page.                               *)
ShowsAPage ==
  at = "idle" /\ settled /\ rows # <<>> =>
    /\ page \in 1..pages
    /\ screen # <<>>
    /\ \A i \in DOMAIN screen : rows[screen[i].index + 1] = screen[i].row
=============================================================================
