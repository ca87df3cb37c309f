-------------------------------- MODULE Filters --------------------------------
(* The filters of a selector without combinators, such as li.even:eq(2), which *)
(* Sizzle.filter takes from the expression one by one, in an order that goes   *)
(* by their type and not by their place.  Identifiers and attributes are       *)
(* filters like those of classes, and left out.                              *)
EXTENDS Integers, Sequences, FiniteSets

CONSTANTS Marks,   \* the tags and the classes
          Items,   \* the elements: records of place, of, tag and classes
          Exprs    \* the expressions: sequences of filters

VARIABLES written,  \* the expression, as it was written
          expr,     \* the places of what is left of it
          cut,      \* the places of :not whose nth children have lost their name
          curLoop,  \* the elements left, in order
          failed    \* the expression is refused: 'Syntax error'

filterVars == <<written, expr, cut, curLoop, failed>>

-----------------------------------------------------------------------------
(* The filters, as records of their type.                                  *)

Tag(t) == [type |-> "TAG", is |-> t]
Class(c) == [type |-> "CLASS", is |-> c]
Child(kind, first, last) == [type |-> "CHILD", kind |-> kind, first |-> first, last |-> last]
Pos(kind, n) == [type |-> "POS", kind |-> kind, n |-> n]
Negated(e) == [type |-> "PSEUDO", not |-> e]

Elementary == [type : {"TAG", "CLASS"}, is : Marks]
              \cup [type : {"CHILD"}, kind : {"nth", "first", "last", "only"}, first : Int, last : Int]
Positions == [type : {"POS"}, kind : {"first", "last", "even", "odd", "lt", "gt", "eq"}, n : Nat]
Negations == [type : {"PSEUDO"}, not : Seq(Elementary \cup Positions) \ {<<>>}]

IsNth(f) == f.type = "CHILD" /\ f.kind = "nth"

(* What is in the parentheses of :not has none itself, and an nth child among  *)
(* it follows a tag or classes only.                                         *)
ASSUME FiltersAssumption ==
    /\ Items \in Seq([place : Nat, of : Nat, tag : Marks, classes : SUBSET Marks])
    /\ Exprs \subseteq Seq(Elementary \cup Positions \cup Negations)
    /\ \A e \in Exprs : \A i \in DOMAIN e :
          e[i].type = "PSEUDO" =>
              \A j, k \in DOMAIN e[i].not :
                  j < k /\ IsNth(e[i].not[k]) => e[i].not[j].type \in {"TAG", "CLASS"}

(* filter.CHILD: an element is "place" among its siblings, "of" in all.      *)
NthAnySign(f, e) ==
    LET diff == e.place - f.last IN
    IF f.first = 0 THEN diff = 0
    ELSE diff % (IF f.first < 0 THEN -f.first ELSE f.first) = 0

Nth(f, e) ==
    LET diff == e.place - f.last IN
    IF f.first = 0 THEN diff = 0
    ELSE /\ diff % (IF f.first < 0 THEN -f.first ELSE f.first) = 0
         /\ diff * f.first >= 0

IsChild(f, e) ==
    CASE f.kind = "first" -> e.place = 1
      [] f.kind = "last" -> e.place = e.of
      [] f.kind = "only" -> e.place = 1 /\ e.of = 1
      [] OTHER -> Nth(f, e)

(* setFilters, for the element at index i of n, from 0 on.                   *)
AtPosition(f, i, n) ==
    CASE f.kind = "first" -> i = 0
      [] f.kind = "last" -> i = n - 1
      [] f.kind = "even" -> i % 2 = 0
      [] f.kind = "odd" -> i % 2 = 1
      [] f.kind = "lt" -> i < f.n
      [] f.kind = "gt" -> i > f.n
      [] OTHER -> i = f.n

Found(f, loop, i) ==
    CASE f.type = "TAG" -> Items[loop[i]].tag = f.is
      [] f.type = "CLASS" -> f.is \in Items[loop[i]].classes
      [] f.type = "CHILD" -> IsChild(f, Items[loop[i]])
      [] OTHER -> AtPosition(f, i - 1, Len(loop))

-----------------------------------------------------------------------------
(* Sizzle.filter.                                                          *)

(* The filter that is taken next of those at the places left.  The expression  *)
(* of PSEUDO finds whatever begins with a colon, and its preFilter passes on   *)
(* what is not its own; the others go by their type.                         *)
First(places) == CHOOSE i \in places : \A j \in places : i <= j

Rank(f) == CASE f.type = "CHILD" -> 1 [] f.type = "TAG" -> 2 [] f.type = "CLASS" -> 3 [] OTHER -> 4

NextFilter(e, left) ==
    LET colons == {i \in left : e[i].type \in {"PSEUDO", "CHILD", "POS"}}
        others == {i \in left : e[i].type # "PSEUDO"}
    IN IF colons # {} /\ e[First(colons)].type = "PSEUDO" THEN First(colons)
       ELSE CHOOSE i \in others : \A j \in others :
               Rank(e[i]) < Rank(e[j]) \/ (Rank(e[i]) = Rank(e[j]) /\ i <= j)

(* The expression of CHILD also finds the name of an nth child within a :not,   *)
(* at which the lookahead leaves out the parentheses: when no :not is the first *)
(* thing with a colon, and no child of the expression itself stands before it.  *)
(* The name is cut out, and no element is left out for it.                    *)
HoldsNth(f) == f.type = "PSEUDO" /\ \E j \in DOMAIN f.not : IsNth(f.not[j])

Holding(e, left) == {i \in left : HoldsNth(e[i])}

CutsNext(e, left, bare) ==
    LET colons == {i \in left : e[i].type \in {"PSEUDO", "CHILD", "POS"}}
        whole == Holding(e, left \ bare)
    IN /\ whole # {}
       /\ e[First(colons)].type = "POS"
       /\ \A i \in left : e[i].type = "CHILD" => First(whole) < i

(* What is read of a :not without those names: their numbers mean nothing.     *)
Uncut(f) == [f EXCEPT !.not = SelectSeq(@, LAMBDA g : ~IsNth(g))]

ReadAt(i) == IF i \in cut THEN Uncut(written[i]) ELSE written[i]

(* The elements at some places of the loop.                                  *)
Kept(loop, places) ==
    LET at[i \in 0 .. Len(loop)] ==
            IF i = 0 THEN <<>> ELSE IF i \in places THEN Append(at[i - 1], loop[i]) ELSE at[i - 1]
    IN at[Len(loop)]

Passing(f, loop, not) == Kept(loop, {i \in 1 .. Len(loop) : Found(f, loop, i) <=> ~not})

(* What filter makes of the loop, by an expression without :not.  A turn that  *)
(* leaves nothing is the last, and the others would leave nothing too.        *)
Filtered(e, loop, not) ==
    LET turn[k \in 0 .. Len(e)] ==
            IF k = 0 THEN [expr |-> DOMAIN e, loop |-> loop]
            ELSE LET was == turn[k - 1]
                     next == NextFilter(e, was.expr)
                 IN [expr |-> was.expr \ {next}, loop |-> Passing(e[next], was.loop, not)]
    IN turn[Len(e)].loop

(* One filter on the elements; :not of what begins with a tag searches for it, *)
(* any other is filtered by the negation of each of its parts.              *)
FilterBy(f, loop) ==
    IF f.type # "PSEUDO" THEN Passing(f, loop, FALSE)
    ELSE IF f.not[1].type = "TAG"
    THEN LET set == Filtered(f.not, loop, FALSE) IN
         Kept(loop, {i \in 1 .. Len(loop) : \A j \in 1 .. Len(set) : set[j] # loop[i]})
    ELSE Filtered(f.not, loop, TRUE)

FiltersInit ==
    /\ written \in Exprs
    /\ expr = DOMAIN written
    /\ cut = {}
    /\ curLoop = [i \in DOMAIN Items |-> i]
    /\ failed = FALSE

(* A turn that finds the nth children of a :not.                             *)
CutChildren ==
    /\ CutsNext(written, expr, cut)
    /\ cut' = cut \cup {First(Holding(written, expr \ cut))}
    /\ UNCHANGED <<written, expr, curLoop, failed>>

(* One turn of the loop over the expression; it ends when nothing is left.   *)
FilterStep ==
    /\ expr # {} /\ ~CutsNext(written, expr, cut)
    /\ LET next == NextFilter(written, expr) IN
       /\ ReadAt(next).type = "PSEUDO" => ReadAt(next).not # <<>>
       /\ curLoop' = FilterBy(ReadAt(next), curLoop)
       /\ expr' = IF curLoop' = <<>> THEN {} ELSE expr \ {next}
    /\ UNCHANGED <<written, cut, failed>>

(* A :not of which only the numbers are left: no filter finds them.           *)
FilterThrows ==
    /\ expr # {} /\ ~CutsNext(written, expr, cut)
    /\ LET next == NextFilter(written, expr) IN
          next \in cut /\ Uncut(written[next]).not = <<>>
    /\ failed' = TRUE
    /\ expr' = {}
    /\ UNCHANGED <<written, cut, curLoop>>

FiltersNext == FilterStep \/ CutChildren \/ FilterThrows

FiltersSpec == FiltersInit /\ [][FiltersNext]_filterVars

-----------------------------------------------------------------------------
(* Properties.                                                             *)

(* What the filters mean: the nth children are at first * n + last for some   *)
(* n, and what :not holds is met in all its parts.                          *)
Meets(f, e) ==
    CASE f.type = "TAG" -> e.tag = f.is
      [] f.type = "CLASS" -> f.is \in e.classes
      [] f.type = "CHILD" /\ f.kind = "nth" ->
            \E n \in 0 .. e.place + (IF f.last < 0 THEN -f.last ELSE f.last) : e.place = (f.first * n) + f.last
      [] f.type = "CHILD" /\ f.kind # "nth" ->
            /\ f.kind \in {"first", "only"} => e.place = 1
            /\ f.kind \in {"last", "only"} => e.place = e.of

IsMet(f, e) == IF f.type = "PSEUDO" THEN ~\A j \in DOMAIN f.not : Meets(f.not[j], e) ELSE Meets(f, e)

(* A position counts those before an element and those there are.            *)
IsCounted(f, x, among) == AtPosition(f, Cardinality({y \in among : y < x}), Cardinality(among))

(* What the expression means: the elements that meet all that is said of an   *)
(* element alone, and then, from left to right, what every position and every *)
(* :not leaves of them.                                                      *)
MeetsAlone(e, x) ==
    \A i \in DOMAIN e : e[i].type \in {"TAG", "CLASS", "CHILD"} => IsMet(e[i], Items[x])

Leaves(f, among) ==
    CASE f.type = "PSEUDO" -> {x \in among : IsMet(f, Items[x])}
      [] f.type = "POS" -> {x \in among : IsCounted(f, x, among)}
      [] OTHER -> among

Meaning(e) ==
    LET among[i \in 0 .. Len(e)] ==
            IF i = 0 THEN {x \in DOMAIN Items : MeetsAlone(e, x)} ELSE Leaves(e[i], among[i - 1])
    IN among[Len(e)]

(* A :not that is searched for, or of one part; one with a position is none.  *)
Understood(f) ==
    f.type = "PSEUDO" => /\ Len(f.not) > 1 => f.not[1].type = "TAG"
                         /\ \A j \in DOMAIN f.not : f.not[j].type # "POS"

(* No position stands before a :not with an nth child: its name would be cut    *)
(* out, and the expression mean something else or nothing.                    *)
SparesNth(e) == ~\E i, j \in DOMAIN e : i < j /\ e[i].type = "POS" /\ HoldsNth(e[j])

(* The elements that are left are those the expression means, in their order, *)
(* whatever the order in which its filters are taken (Sizzle.filter takes them *)
(* by type), and it is never refused; but for an nth child in a :not after a   *)
(* position, which the expression of CHILD finds first.                       *)
KeepsWhatIsMeant ==
    (expr = {} /\ SparesNth(written) /\ \A i \in DOMAIN written : Understood(written[i]))
        => /\ ~failed
           /\ {curLoop[i] : i \in DOMAIN curLoop} = Meaning(written)
           /\ \A i, j \in DOMAIN curLoop : i < j => curLoop[i] < curLoop[j]
=============================================================================
