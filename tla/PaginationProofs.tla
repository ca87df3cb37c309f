-------------------------- MODULE PaginationProofs --------------------------
(***************************************************************************)
(* Theorems about Pagination, for any number of rows and any rows per page: *)
(* the index of a row selects it, every row is on a page, and a request     *)
(* that knows the total shows a page in range.                             *)
(***************************************************************************)
EXTENDS Pagination, TLAPS

(* Division, as the number of pages needs it.                              *)
LEMMA Division ==
  ASSUME NEW t \in Nat, NEW n \in Nat \ {0}
  PROVE  /\ t = n * (t \div n) + (t % n)
         /\ t % n \in 0..(n - 1)
         /\ t \div n \in Nat
BY SMT

(* Multiplication is monotonic.                                            *)
LEMMA Monotonic ==
  ASSUME NEW a \in Int, NEW b \in Int, NEW n \in Nat, a <= b
  PROVE  a * n <= b * n
BY SMT

(* The pages are a number, and there is one if there is a row.             *)
LEMMA PagesOfRows ==
  ASSUME NEW t \in Nat, NEW n \in Nat \ {0}
  PROVE  PagesFor(t, n) \in Nat /\ (t > 0 => PagesFor(t, n) >= 1)
BY Division DEF PagesFor

(* A page in range begins before the last row.                             *)
LEMMA PageBegins ==
  ASSUME NEW t \in Nat, NEW n \in Nat \ {0}, NEW p \in 1..PagesFor(t, n)
  PROVE  (p - 1) * n \in Nat /\ (p - 1) * n < t
<1> DEFINE q == t \div n
<1>1. t = n * q + (t % n) /\ t % n \in 0..(n - 1) /\ q \in Nat
  BY Division
<1>2. p \in Nat /\ p >= 1 /\ p <= IF t % n = 0 THEN q ELSE q + 1
  BY <1>1 DEF PagesFor
<1> HIDE DEF q
<1>3. (p - 1) * n \in Nat
  BY <1>2
<1>4. CASE t % n = 0
  <2>1. (p - 1) * n <= (q - 1) * n
    BY <1>1, <1>2, <1>4, Monotonic
  <2> QED
    BY <1>1, <1>3, <1>4, <2>1
<1>5. CASE t % n # 0
  <2>1. (p - 1) * n <= q * n
    BY <1>1, <1>2, <1>5, Monotonic
  <2> QED
    BY <1>1, <1>3, <1>5, <2>1
<1> QED
  BY <1>4, <1>5

(* Every position is one of a page in range.                               *)
LEMMA PositionHasPage ==
  ASSUME NEW t \in Nat, NEW n \in Nat \ {0}, NEW i \in 1..t
  PROVE  \E p \in 1..PagesFor(t, n), j \in 1..n : i = (p - 1) * n + j
<1> DEFINE q == (i - 1) \div n
           r == (i - 1) % n
<1>1. i - 1 = n * q + r /\ r \in 0..(n - 1) /\ q \in Nat
  <2>1. i - 1 \in Nat
    OBVIOUS
  <2> QED
    BY <2>1, Division
<1>2. t = n * (t \div n) + (t % n) /\ t % n \in 0..(n - 1) /\ t \div n \in Nat
  BY Division
<1> HIDE DEF q, r
<1>3. CASE q + 1 > PagesFor(t, n) /\ t % n = 0
  <2>1. (t \div n) * n <= q * n
    BY <1>1, <1>2, <1>3, Monotonic DEF PagesFor
  <2> QED
    BY <1>1, <1>2, <1>3, <2>1
<1>4. CASE q + 1 > PagesFor(t, n) /\ t % n # 0
  <2>1. ((t \div n) + 1) * n <= q * n
    BY <1>1, <1>2, <1>4, Monotonic DEF PagesFor
  <2> QED
    BY <1>1, <1>2, <1>4, <2>1
<1>5. CASE q + 1 <= PagesFor(t, n)
  <2>1. i = ((q + 1) - 1) * n + (r + 1)
    BY <1>1
  <2> QED
    BY <1>1, <1>5, <2>1
<1> QED
  BY <1>1, <1>3, <1>4, <1>5, PagesOfRows

----------------------------------------------------------------------------
(* The page shown is the one of the list's rows and indexes, and the totals *)
(* are those of the rows while nobody changes them.                        *)
CountInv ==
  /\ total = None <=> NoCount
  /\ at = "counted" => (count = None <=> NoCount)
  /\ total # None => pages = PagesFor(total, rowsPerPage)
  /\ at # "counted" /\ current /\ total # None => total = Len(rows)
  /\ at = "counted" /\ current /\ count # None => count = Len(rows)

ScreenInv ==
  screen = [i \in DOMAIN contents |-> [index |-> IndexOf(i), row |-> contents[i]]]

(* What a request that knows the total reads and shows.                    *)
SettledInv == settled =>
  /\ current /\ ~NoCount
  /\ rows # <<>> => page \in 1..PagesFor(Len(rows), rowsPerPage)
  /\ at \in {"read", "counted"} => result = Slice(From, rowsPerPage)
  /\ at = "idle" => contents = Slice(From, rowsPerPage) /\ displacement = From

PageInv == TypeOK /\ CountInv /\ ScreenInv /\ SettledInv

(* A slice is a sequence of rows.                                          *)
LEMMA SliceType ==
  ASSUME TypeOK, NEW f \in Int, NEW n \in Nat
  PROVE  Slice(f, n) \in Seq(Rows)
<1> DEFINE first == IF f < 0 THEN 0 ELSE f
           last  == IF first + n < Len(rows) THEN first + n ELSE Len(rows)
<1>1. first \in Nat /\ last \in Nat /\ last <= Len(rows)
  BY DEF TypeOK
<1>2. \A i \in 1..(last - first) : rows[first + i] \in Rows
  BY <1>1 DEF TypeOK
<1>3. Slice(f, n) = [i \in 1..(last - first) |-> rows[first + i]]
  BY DEF Slice
<1> HIDE DEF first, last
<1>4. CASE last - first \in Nat
  BY <1>2, <1>3, <1>4
<1>5. CASE last - first \notin Nat
  <2>1. 1..(last - first) = {}
    BY <1>1, <1>5
  <2>2. Slice(f, n) = <<>>
    BY <1>3, <2>1
  <2> QED
    BY <2>2
<1> QED
  BY <1>4, <1>5

(* What is before and behind a position of a sequence.                     *)
LEMMA Parts ==
  ASSUME NEW S, NEW s \in Seq(S), NEW k \in 0..Len(s)
  PROVE  /\ SubSeq(s, 1, k) \in Seq(S) /\ Len(SubSeq(s, 1, k)) = k
         /\ SubSeq(s, k + 1, Len(s)) \in Seq(S)
         /\ Len(SubSeq(s, k + 1, Len(s))) = Len(s) - k
<1>1. SubSeq(s, 1, k) = [i \in 1..((k - 1) + 1) |-> s[(i + 1) - 1]]
  BY SMT
<1>2. SubSeq(s, k + 1, Len(s)) = [i \in 1..((Len(s) - (k + 1)) + 1) |-> s[(i + (k + 1)) - 1]]
  BY SMT
<1> QED
  OBVIOUS

(* The screen is a sequence of indexes and rows.                           *)
LEMMA ScreenType ==
  ASSUME NEW c \in Seq(Rows), NEW d \in Int
  PROVE  [i \in DOMAIN c |-> [index |-> i - 1 + d, row |-> c[i]]]
           \in Seq([index : Int, row : Rows])
<1>1. DOMAIN c = 1..Len(c) /\ Len(c) \in Nat /\ \A i \in 1..Len(c) : c[i] \in Rows
  OBVIOUS
<1>2. \A i \in 1..Len(c) :
        [index |-> i - 1 + d, row |-> c[i]] \in [index : Int, row : Rows]
  BY <1>1
<1> QED
  BY <1>1, <1>2

(* What another session leaves alone.                                      *)
LEMMA ChangeType ==
  ASSUME TypeOK, NEW new \in Seq(Rows), Len(new) <= MaxRows, Change(new)
  PROVE  TypeOK'
<1>1. /\ rows' = new
      /\ current' = FALSE
      /\ settled' = FALSE
      /\ UNCHANGED <<listVars, requestVars, screen>>
  BY DEF Change
<1> QED
  BY <1>1 DEF TypeOK, listVars, requestVars

(* What every step does to the types.                                      *)
LEMMA TypeStep ==
  ASSUME TypeOK, [Next]_vars
  PROVE  TypeOK'
<1> USE PaginationAssumption DEF TypeOK, listVars, requestVars, historyVars
<1>0. From \in Int /\ rowsPerPage \in Nat \ {0}
  BY DEF From
<1>1. CASE Insert
  <2>1. PICK row \in Rows, k \in 0..Len(rows) :
          Change(SubSeq(rows, 1, k) \o <<row>> \o SubSeq(rows, k + 1, Len(rows)))
    BY <1>1 DEF Insert
  <2> DEFINE before == SubSeq(rows, 1, k)
             behind == SubSeq(rows, k + 1, Len(rows))
  <2>2. /\ before \in Seq(Rows) /\ Len(before) = k
        /\ behind \in Seq(Rows) /\ Len(behind) = Len(rows) - k
    BY Parts
  <2>3. Change(before \o <<row>> \o behind)
    BY <2>1
  <2> HIDE DEF before, behind
  <2>4. /\ before \o <<row>> \o behind \in Seq(Rows)
        /\ Len(before \o <<row>> \o behind) = Len(rows) + 1
    <3>1. <<row>> \in Seq(Rows) /\ Len(<<row>>) = 1
      OBVIOUS
    <3>2. before \o <<row>> \in Seq(Rows) /\ Len(before \o <<row>>) = k + 1
      BY <2>2, <3>1
    <3> QED
      BY <2>2, <3>2
  <2>5. Len(rows) + 1 <= MaxRows
    BY <1>1 DEF Insert
  <2>6. TypeOK /\ Len(rows) + 1 <= MaxRows
    BY <2>5
  <2> HIDE PaginationAssumption DEF TypeOK, listVars, requestVars, historyVars
  <2> QED
    BY <2>3, <2>4, <2>6, ChangeType
<1>2. CASE Delete
  <2>1. PICK k \in DOMAIN rows :
          Change(SubSeq(rows, 1, k - 1) \o SubSeq(rows, k + 1, Len(rows)))
    BY <1>2 DEF Delete
  <2> DEFINE before == SubSeq(rows, 1, k - 1)
             behind == SubSeq(rows, k + 1, Len(rows))
  <2>2. k \in 0..Len(rows) /\ k - 1 \in 0..Len(rows)
    OBVIOUS
  <2>3. /\ before \in Seq(Rows) /\ Len(before) = k - 1
        /\ behind \in Seq(Rows) /\ Len(behind) = Len(rows) - k
    BY <2>2, Parts, SMTT(30)
  <2>4. Change(before \o behind)
    BY <2>1
  <2> HIDE DEF before, behind
  <2>5. /\ before \o behind \in Seq(Rows)
        /\ Len(before \o behind) = Len(rows) - 1
    BY <2>2, <2>3, SMTT(30)
  <2>6. TypeOK /\ Len(rows) - 1 <= MaxRows
    OBVIOUS
  <2> HIDE PaginationAssumption DEF TypeOK, listVars, requestVars, historyVars
  <2> QED
    BY <2>4, <2>5, <2>6, ChangeType
<1>3. ASSUME NEW p \in 1..MaxPage, NEW n \in RowsPerPage, Configure(p, n)
      PROVE  TypeOK'
  <2>1. InRange(p) \in 0..MaxPage
    BY DEF InRange
  <2>2. total # None => PagesFor(total, n) \in Nat
    BY PagesOfRows
  <2> QED
    BY <1>3, <2>1, <2>2 DEF Configure
<1>4. CASE Filter
  <2>1. rows' \in Seq(Rows) /\ Len(rows') <= MaxRows
    <3>1. PICK n \in 0..MaxRows : rows' \in [1..n -> Rows]
      BY <1>4 DEF Filter, Listings
    <3> QED
      BY <3>1
  <2> QED
    BY <1>4, <2>1 DEF Filter
<1>5. CASE ReadRows
  BY <1>0, <1>5, SliceType DEF ReadRows
<1>6. CASE Count
  BY <1>6 DEF Count
<1>7. CASE Fail
  BY <1>7 DEF Fail
<1>8. CASE Show
  <2>1. count # None => PagesFor(count, rowsPerPage) \in Nat
    BY <1>0, PagesOfRows
  <2>2. contents' \in Seq(Rows) /\ displacement' \in Int
    BY <1>0, <1>8 DEF Show, SetContents
  <2>3. screen' \in Seq([index : Int, row : Rows])
    <3>1. screen' = [i \in DOMAIN contents' |->
                       [index |-> i - 1 + displacement', row |-> contents'[i]]]
      BY <1>8 DEF Show, IndexOf
    <3> QED
      BY <2>2, <3>1, ScreenType
  <2> QED
    BY <1>0, <1>8, <2>1, <2>2, <2>3 DEF Show
<1>9. CASE UNCHANGED vars
  BY <1>9 DEF vars
<1> QED
  BY <1>1, <1>2, <1>3, <1>4, <1>5, <1>6, <1>7, <1>8, <1>9 DEF Next, List
(* Every step keeps CountInv: rows that change are not the counted ones.    *)
LEMMA CountStep ==
  ASSUME PageInv, [Next]_vars
  PROVE  CountInv'
<1> USE PaginationAssumption
    DEF PageInv, TypeOK, CountInv, listVars, requestVars, historyVars
<1>1. CASE Insert
  BY <1>1 DEF Insert, Change
<1>2. CASE Delete
  BY <1>2 DEF Delete, Change
<1>3. ASSUME NEW p \in 1..MaxPage, NEW n \in RowsPerPage, Configure(p, n)
      PROVE  CountInv'
  BY <1>3 DEF Configure
<1>4. CASE Filter
  BY <1>4 DEF Filter
<1>5. CASE ReadRows
  BY <1>5 DEF ReadRows
<1>6. CASE Count
  BY <1>6 DEF Count
<1>7. CASE Fail
  BY <1>7 DEF Fail
<1>8. CASE Show
  BY <1>8 DEF Show
<1>9. CASE UNCHANGED vars
  BY <1>9 DEF vars
<1> QED
  BY <1>1, <1>2, <1>3, <1>4, <1>5, <1>6, <1>7, <1>8, <1>9 DEF Next, List

(* Only Show changes the rows of the list, and the screen with them.        *)
LEMMA ScreenStep ==
  ASSUME ScreenInv, [Next]_vars
  PROVE  ScreenInv'
<1>1. CASE Show
  BY <1>1 DEF Show, ScreenInv, IndexOf
<1>2. CASE UNCHANGED <<contents, displacement, screen>>
  BY <1>2 DEF ScreenInv, IndexOf
<1> QED
  BY <1>1, <1>2 DEF Next, vars, listVars, requestVars, Insert, Delete, Change,
     List, Configure, Filter, ReadRows, Count, Fail

(* Every step keeps SettledInv.                                            *)
LEMMA SettledStep ==
  ASSUME PageInv, [Next]_vars
  PROVE  SettledInv'
<1> USE PaginationAssumption DEF SettledInv, listVars, requestVars, historyVars
<1>1. CASE Insert
  BY <1>1 DEF Insert, Change
<1>2. CASE Delete
  BY <1>2 DEF Delete, Change
<1>3. ASSUME NEW p \in 1..MaxPage, NEW n \in RowsPerPage, Configure(p, n)
      PROVE  SettledInv'
  <2> SUFFICES ASSUME settled' PROVE SettledInv'
    OBVIOUS
  <2>1. /\ current /\ total # None /\ n = rowsPerPage /\ at = "idle"
        /\ at' = "configured" /\ page' = InRange(p) /\ UNCHANGED <<rows, current>>
        /\ rowsPerPage' = n
    BY <1>3 DEF Configure
  <2>2. total = Len(rows) /\ pages = PagesFor(Len(rows), n) /\ ~NoCount
    BY <2>1 DEF PageInv, CountInv
  <2>3. rows # <<>> => PagesFor(Len(rows), n) \in Nat /\ PagesFor(Len(rows), n) >= 1
    BY PagesOfRows DEF PageInv, TypeOK
  <2>4. rows # <<>> => InRange(p) \in 1..PagesFor(Len(rows), n)
    BY <2>1, <2>2, <2>3 DEF InRange
  <2> QED
    BY <2>1, <2>2, <2>4
<1>4. CASE Filter
  BY <1>4 DEF Filter
<1>5. CASE ReadRows
  BY <1>5 DEF ReadRows, PageInv, From, Slice
<1>6. CASE Count
  BY <1>6 DEF Count, PageInv, From, Slice
<1>7. CASE Fail
  BY <1>7 DEF Fail
<1>8. CASE Show
  BY <1>8 DEF Show, SetContents, PageInv, From, Slice
<1>9. CASE UNCHANGED vars
  BY <1>9 DEF vars, PageInv, From, Slice
<1> QED
  BY <1>1, <1>2, <1>3, <1>4, <1>5, <1>6, <1>7, <1>8, <1>9 DEF Next, List

(* PageInv holds at first and every step keeps it.                          *)
LEMMA PageAlways == Spec => []PageInv
<1>1. Init => PageInv
  <2> SUFFICES ASSUME Init PROVE PageInv
    OBVIOUS
  <2> USE PaginationAssumption
  <2>1. rows \in Seq(Rows) /\ Len(rows) \in 0..MaxRows
    <3>1. PICK n \in 0..MaxRows : rows \in [1..n -> Rows]
      BY DEF Init, Listings
    <3> QED
      BY <3>1
  <2>2. /\ PagesFor(Len(rows), DefaultRows) \in Nat
        /\ rows # <<>> => PagesFor(Len(rows), DefaultRows) >= 1
    BY <2>1, PagesOfRows
  <2>3. Slice(0, DefaultRows) \in Seq(Rows)
    <3> DEFINE last == IF 0 + DefaultRows < Len(rows) THEN 0 + DefaultRows ELSE Len(rows)
    <3>1. last - 0 \in Nat /\ \A i \in 1..(last - 0) : rows[0 + i] \in Rows
      BY <2>1
    <3>2. Slice(0, DefaultRows) = [i \in 1..(last - 0) |-> rows[0 + i]]
      BY DEF Slice
    <3> QED
      BY <3>1, <3>2
  <2>4. ScreenInv
    BY DEF Init, ScreenInv
  <2>5. screen \in Seq([index : Int, row : Rows])
    <3>1. screen = [i \in DOMAIN contents |->
                      [index |-> i - 1 + displacement, row |-> contents[i]]]
      BY <2>4 DEF ScreenInv, IndexOf
    <3>2. contents \in Seq(Rows) /\ displacement \in Int
      BY <2>3 DEF Init
    <3> QED
      BY <3>1, <3>2, ScreenType
  <2>6. TypeOK
    BY <2>1, <2>2, <2>3, <2>5 DEF Init, TypeOK
  <2>7. CountInv
    BY <2>1 DEF Init, CountInv
  <2>8. From = 0
    BY DEF Init, From
  <2>9. SettledInv
    <3>1. rows # <<>> => page \in 1..PagesFor(Len(rows), rowsPerPage)
      BY <2>2 DEF Init
    <3>2. contents = Slice(From, rowsPerPage) /\ displacement = From
      BY <2>8 DEF Init
    <3> QED
      BY <3>1, <3>2 DEF Init, SettledInv
  <2> QED
    BY <2>4, <2>6, <2>7, <2>9 DEF PageInv
<1>2. PageInv /\ [Next]_vars => PageInv'
  BY TypeStep, CountStep, ScreenStep, SettledStep DEF PageInv
<1> QED
  BY <1>1, <1>2, PTL DEF Spec

----------------------------------------------------------------------------
(* Every variable keeps its type; a page is never below zero.               *)
THEOREM TypeCorrect == Spec => []TypeOK
<1>1. PageInv => TypeOK
  BY DEF PageInv
<1> QED
  BY <1>1, PageAlways, PTL

(* The index next to a row on the screen is that of the row in the list.    *)
THEOREM IndexesFindRows == Spec => []IndexFindsRow
<1>1. PageInv => IndexFindsRow
  <2> SUFFICES ASSUME PageInv, NEW i \in DOMAIN screen
               PROVE  Get(screen[i].index) = screen[i].row
    BY DEF IndexFindsRow
  <2>1. i \in DOMAIN contents /\ i \in Int
    BY DEF PageInv, ScreenInv, TypeOK
  <2>2. screen[i].index = i - 1 + displacement /\ screen[i].row = contents[i]
    BY <2>1 DEF PageInv, ScreenInv, IndexOf
  <2>3. (i - 1 + displacement) - displacement + 1 = i
    BY <2>1 DEF PageInv, TypeOK
  <2> QED
    BY <2>1, <2>2, <2>3 DEF Get, At
<1> QED
  BY <1>1, PageAlways, PTL

(* Paging through the list reaches every row.                              *)
THEOREM RowsHavePages == Spec => []EveryRowHasAPage
<1>1. PageInv => EveryRowHasAPage
  <2> SUFFICES ASSUME PageInv, at = "idle", current, total # None,
                      NEW i \in DOMAIN rows
               PROVE  \E p \in 1..pages :
                        \E j \in DOMAIN PageRows(p) : PageRows(p)[j] = rows[i]
    BY DEF EveryRowHasAPage
  <2>1. /\ i \in 1..Len(rows) /\ Len(rows) \in Nat
        /\ rowsPerPage \in Nat \ {0}
        /\ pages = PagesFor(Len(rows), rowsPerPage)
    BY PaginationAssumption DEF PageInv, TypeOK, CountInv
  <2>2. PICK p \in 1..pages, j \in 1..rowsPerPage : i = (p - 1) * rowsPerPage + j
    BY <2>1, PositionHasPage
  <2>3. (p - 1) * rowsPerPage \in Nat
    BY <2>1, PageBegins
  <2> DEFINE first == (p - 1) * rowsPerPage
             last  == IF first + rowsPerPage < Len(rows)
                        THEN first + rowsPerPage ELSE Len(rows)
  <2>4. PageRows(p) = [k \in 1..(last - first) |-> rows[first + k]]
    BY <2>3 DEF PageRows, Slice
  <2>5. j \in 1..(last - first) /\ first + j = i
    BY <2>1, <2>2, <2>3
  <2> HIDE DEF first, last
  <2>6. j \in DOMAIN PageRows(p) /\ PageRows(p)[j] = rows[i]
    BY <2>4, <2>5
  <2> QED
    BY <2>6
<1> QED
  BY <1>1, PageAlways, PTL

(* A request that compares its page with the right total shows rows, and    *)
(* shows each with its place in the list.                                  *)
THEOREM PagesAreShown == Spec => []ShowsAPage
<1>1. PageInv => ShowsAPage
  <2> SUFFICES ASSUME PageInv, at = "idle", settled, rows # <<>>
               PROVE  /\ page \in 1..pages
                      /\ screen # <<>>
                      /\ \A i \in DOMAIN screen :
                           rows[screen[i].index + 1] = screen[i].row
    BY DEF ShowsAPage
  <2>1. /\ current /\ total # None /\ total = Len(rows)
        /\ pages = PagesFor(Len(rows), rowsPerPage)
        /\ page \in 1..pages
        /\ contents = Slice(From, rowsPerPage) /\ displacement = From
    BY DEF PageInv, CountInv, SettledInv
  <2>2. Len(rows) \in Nat /\ rowsPerPage \in Nat \ {0}
    BY PaginationAssumption DEF PageInv, TypeOK
  <2>3. From \in Nat /\ From < Len(rows)
    BY <2>1, <2>2, PageBegins DEF From
  <2> DEFINE last == IF From + rowsPerPage < Len(rows)
                       THEN From + rowsPerPage ELSE Len(rows)
  <2>4. contents = [k \in 1..(last - From) |-> rows[From + k]]
    BY <2>1, <2>3 DEF Slice
  <2>5. last - From \in Nat /\ last - From >= 1
    BY <2>2, <2>3
  <2> HIDE DEF last
  <2>6. DOMAIN screen = 1..(last - From)
    BY <2>4 DEF PageInv, ScreenInv
  <2>7. screen # <<>>
    BY <2>5, <2>6
  <2>8. ASSUME NEW i \in DOMAIN screen
        PROVE  rows[screen[i].index + 1] = screen[i].row
    <3>1. screen[i].index = i - 1 + From /\ screen[i].row = rows[From + i]
      BY <2>1, <2>4, <2>6 DEF PageInv, ScreenInv, IndexOf
    <3>2. (i - 1 + From) + 1 = From + i
      BY <2>3, <2>6, <2>5
    <3> QED
      BY <3>1, <3>2
  <2> QED
    BY <2>1, <2>7, <2>8
<1> QED
  BY <1>1, PageAlways, PTL
=============================================================================
