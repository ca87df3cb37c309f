--------------------------------- MODULE Sizzle ---------------------------------
(* The selector engine of jQuery, for selectors relative to an element: it    *)
(* finds what matches the last part, then follows the combinators from right  *)
(* to left and keeps one candidate for each element found.  A mark left on    *)
(* each visited element saves the walks that another element made already.    *)
EXTENDS Integers, Sequences, FiniteSets, FiniteSetsExt

CONSTANTS Labels,     \* what a part of a selector may ask of a node
          Documents,  \* records of parent and label, the nodes in document order
          Contexts,   \* the nodes that selectors are relative to
          Selectors   \* sequences of records of a combinator and a label

ASSUME SizzleAssumption ==
    /\ \A d \in Documents :
          /\ d \in [parent : Seq(Nat), label : Seq(Labels)] /\ Len(d.label) = Len(d.parent)
          /\ \A n \in 1 .. Len(d.parent) : d.parent[n] < n
          /\ Contexts \subseteq 1 .. Len(d.parent)
    /\ \A s \in Selectors :
          /\ s \in Seq([comb : {"none", " ", ">", "+", "~"}, label : Labels])
          /\ s # <<>> /\ s[1].comb # " "
          /\ \A j \in 2 .. Len(s) : s[j].comb # "none"

VARIABLES doc,       \* the document
          context,   \* the element that the search starts from
          selector,  \* the selector: the first combinator is "none" or a leading one
          left,      \* how many parts of the selector are not processed yet
          set,       \* the elements found by the last part, taken in document order
          checkSet,  \* for each of them the candidate, 0 for false and True for true
          sizset,    \* for each node the element it was visited for, 0 when for none
          results    \* the result, a set of nodes

sizzleVars == <<doc, context, selector, left, set, checkSet, sizset, results>>

True == -1
Pending == {-1}   \* no result yet

-----------------------------------------------------------------------------

Nodes == 1 .. Len(doc.parent)

ParentOf(n) == IF n = 0 THEN 0 ELSE doc.parent[n]

Ancestors[n \in 0 .. Len(doc.parent)] ==
    IF ParentOf(n) = 0 THEN {} ELSE {ParentOf(n)} \cup Ancestors[ParentOf(n)]

Before(n) == {m \in Nodes : m < n /\ ParentOf(m) = ParentOf(n)}

(* previousSibling, without the text between, and false at the first.        *)
Previous(n) == IF Before(n) = {} THEN 0 ELSE Max(Before(n))

(* The parts of a selector, of which blanks are none.                       *)
Parts(s) == Len(s) + Cardinality({k \in DOMAIN s : s[k].comb \in {">", "+", "~"}})

(* Where Sizzle.find looks: it needs the siblings of the context for a        *)
(* selector that begins with a combinator.                                 *)
SearchRoot(s) == IF Parts(s) = 2 THEN ParentOf(context) ELSE context

Descendants(root) == IF root = 0 THEN Nodes ELSE {n \in Nodes : root \in Ancestors[n]}

(* What a combinator compares a candidate with: a label, or the context.     *)
Fits(n, k) ==
    IF k = 0 THEN n = context ELSE n \in Nodes /\ doc.label[n] = selector[k].label

Candidate(n, k) == IF ~Fits(n, k) THEN 0 ELSE IF k = 0 THEN True ELSE n

KeptMarks == sizset

(* Every walk has a number of its own: the marks of others do not count.     *)
Unmarked == [n \in Nodes |-> 0]

(* The nodes above a node, or before it.                                    *)
Line(n, back) == IF back THEN Before(n) ELSE Ancestors[n]

(* dirCheck and dirNodeCheck, for one element: it goes up or back from its     *)
(* candidate to the first node that fits or was visited for another element. *)
Visit(s, n, k, back) ==
    IF s.check[n] = 0 THEN s ELSE
    LET start == s.check[n]
        marks == IF back THEN [s.marks EXCEPT ![start] = n] ELSE s.marks
        line == Line(start, back)
        stops == {m \in line : marks[m] # 0 \/ Fits(m, k)}
        stop == Max(stops)
        visited == {m \in line : stops # {} => m >= stop}
    IN [check |-> [s.check EXCEPT ![n] =
                      IF stops = {} THEN 0
                      ELSE IF marks[stop] # 0 THEN s.check[marks[stop]]
                      ELSE Candidate(stop, k)],
        marks |-> [m \in Nodes |-> IF m \in visited /\ marks[m] = 0 THEN n ELSE marks[m]]]

Walk(k, back) ==
    LET Upto[n \in 0 .. Len(doc.parent)] ==
            IF n = 0 THEN [check |-> checkSet, marks |-> Unmarked]
            ELSE IF n \in set THEN Visit(Upto[n - 1], n, k, back)
            ELSE Upto[n - 1]
    IN  Upto[Len(doc.parent)]

-----------------------------------------------------------------------------

SizzleInit ==
    /\ doc \in Documents /\ context \in Contexts /\ selector \in Selectors
    /\ left = Len(selector)
    /\ set = {} /\ checkSet = [n \in {} |-> 0] /\ results = Pending
    /\ sizset = [n \in Nodes |-> 0]

(* Sizzle.find and Sizzle.filter with the last part.                        *)
Find ==
    /\ left = Len(selector) /\ results = Pending /\ set = {}
    /\ set' = {n \in Descendants(SearchRoot(selector)) : Fits(n, left)}
    /\ checkSet' = [n \in set' |-> n]
    /\ IF Parts(selector) = 1 \/ set' = {}
       THEN left' = 0 /\ results' = set'
       ELSE UNCHANGED <<left, results>>
    /\ UNCHANGED <<doc, context, selector, sizset>>

MoreCombinators == left > 1 \/ (left = 1 /\ selector[1].comb # "none")

(* The candidate one step further, of "+" and ">".                          *)
OneStep(m, comb, k) ==
    IF m = 0 THEN 0 ELSE Candidate(IF comb = ">" THEN ParentOf(m) ELSE Previous(m), k)

(* Expr.relative: the combinator before the part processed last.            *)
Relative ==
    /\ set # {} /\ results = Pending
    /\ MoreCombinators
    /\ left' = left - 1
    /\ LET comb == selector[left].comb
           walked == Walk(left - 1, comb = "~")
       IN  IF comb \in {">", "+"}
           THEN /\ checkSet' = [n \in set |-> OneStep(checkSet[n], comb, left - 1)]
                /\ UNCHANGED sizset
           ELSE checkSet' = walked.check /\ sizset' = walked.marks
    /\ UNCHANGED <<doc, context, selector, set, results>>

(* The candidates of the first part must be below the context.              *)
Prune ==
    /\ set # {} /\ results = Pending
    /\ ~MoreCombinators
    /\ results' = {n \in set : \/ checkSet[n] = True
                               \/ checkSet[n] # 0 /\ context \in Ancestors[checkSet[n]]}
    /\ left' = 0
    /\ UNCHANGED <<doc, context, selector, set, checkSet, sizset>>

SizzleNext == Find \/ Relative \/ Prune

SizzleSpec == SizzleInit /\ [][SizzleNext]_sizzleVars

-----------------------------------------------------------------------------
(* Properties.                                                             *)

(* What the selector means: from the context on, nodes that fit the parts in   *)
(* turn and stand to each other as the combinators say.                      *)
Stands(m, comb, n) == CASE comb = ">" -> ParentOf(n) = m
                        [] comb = "+" -> Previous(n) = m
                        [] comb = "~" -> m \in Before(n)
                        [] OTHER -> m \in Ancestors[n]

Means[k \in 0 .. Len(selector)] ==
    IF k = 0 THEN {context}
    ELSE {n \in Nodes :
             Fits(n, k) /\ \E m \in Means[k - 1] : Stands(m, selector[k].comb, n)}

Meant == Means[Len(selector)]

(* One candidate for each element is enough if every blank is left of every   *)
(* other combinator, siblings of the context are asked for alone, and "~" is   *)
(* used only so and the context does not fit: then the nearest candidate is as *)
(* good as any, and no mark at the start of one walk stops another.          *)
NearestSuffices ==
    /\ selector[1].comb \in {"+", "~"} => Len(selector) = 1
    /\ selector[1].comb = "~" => ~Fits(context, 1)
    /\ \A j \in 2 .. Len(selector) : selector[j].comb # "~"
    /\ \A j \in 1 .. Len(selector) : selector[j].comb = " " =>
         \A i \in 1 .. j - 1 : selector[i].comb \in {" ", "none"}

(* No candidate and no mark of another element's walk brings a node into the  *)
(* result that the selector does not mean, and nothing is missing for these   *)
(* selectors, whatever the document.                                        *)
FindsWhatIsMeant ==
    results # Pending =>
        /\ results \subseteq Meant
        /\ NearestSuffices => Meant \subseteq results
=============================================================================
