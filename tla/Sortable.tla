------------------------------- MODULE Sortable -------------------------------
(* The sortable lists of jQuery UI, connected with one another: an item is      *)
(* dragged through the lists, a placeholder shows where it would go, and the    *)
(* listeners of the lists are told of what moved.  The item that is dragged     *)
(* stays where it was in its list until it is dropped, and a list may animate   *)
(* it to its place while an item of another list is dragged already.  The       *)
(* helper is the item itself.  Where things are on the screen is left open: the *)
(* pointer meets any item and enters any list.                                 *)
EXTENDS Naturals, Sequences, SequencesExt

CONSTANTS Lists,     \* enabled, each connected with all others
          StartLists, \* the items of each list
          Reverts,   \* the lists with the option revert
          DropOnEmpty,
          NoItem, NoList

SortItems == UNION {ToSet(StartLists[l]) : l \in Lists}

Placeholder(l) == <<"placeholder", l>>
Item(i) == <<"item", i>>

ASSUME SortableAssumption ==
    /\ NoList \notin Lists /\ NoItem \notin SortItems
    /\ NoItem \notin {Item(i) : i \in SortItems} \cup {Placeholder(l) : l \in Lists}
    /\ StartLists \in [Lists -> Seq(SortItems)]
    /\ \A l \in Lists : IsInjective(StartLists[l])
    /\ \A l, k \in Lists : l # k => ToSet(StartLists[l]) \cap ToSet(StartLists[k]) = {}

VARIABLES children,  \* the elements of each list: its items and placeholders
          known,     \* the order of each list by its last update event
          sorting,   \* the drag of each list, in a phase "idle", "down" (the mouse),
                     \* "dragging" or "reverting" (the animation of a drop)
          containerOver, \* the lists with containerCache.over
          mixed      \* whether a drag was begun while another one was not over

sortVars == <<children, known, sorting, containerOver, mixed>>

NotSorting == [phase |-> "idle", item |-> NoItem, prev |-> NoItem, parent |-> NoList,
               in |-> NoList, items |-> {}]

SortableInit ==
    /\ children = [l \in Lists |-> [n \in 1..Len(StartLists[l]) |-> Item(StartLists[l][n])]]
    /\ known = children
    /\ sorting = [l \in Lists |-> NotSorting]
    /\ containerOver = {} /\ mixed = FALSE

-----------------------------------------------------------------------------
(* The document.                                                              *)

ListOf(e, lists) == IF \E l \in Lists : Contains(lists[l], e)
                    THEN CHOOSE l \in Lists : Contains(lists[l], e)
                    ELSE NoList

Place(e, s) == CHOOSE n \in 1..Len(s) : s[n] = e

RemoveChild(s, e) == IF Contains(s, e) THEN RemoveAt(s, Place(e, s)) ELSE s

Detached(e, lists) == [l \in Lists |-> RemoveChild(lists[l], e)]

(* Node.insertBefore, which takes the node from where it was.                  *)
InsertBefore(e, sibling, lists) ==
    LET rest == Detached(e, lists)
    IN  [rest EXCEPT ![ListOf(sibling, rest)] = InsertAt(@, Place(sibling, @), e)]

InsertAfter(e, sibling, lists) ==
    LET rest == Detached(e, lists)
    IN  [rest EXCEPT ![ListOf(sibling, rest)] = InsertAt(@, Place(sibling, @) + 1, e)]

NextTo(e, siblings, lists) ==
    {InsertBefore(e, x, lists) : x \in siblings} \cup {InsertAfter(e, x, lists) : x \in siblings}

Prev(e, lists) ==
    LET s == lists[ListOf(e, lists)]
        n == Place(e, s)
    IN  IF n > 1 THEN s[n - 1] ELSE NoItem

-----------------------------------------------------------------------------
(* A drag.                                                                    *)

Dragged(l) == Item(sorting[l].item)

(* The elements with the class ui-sortable-helper.                             *)
Helpers == {Dragged(l) : l \in {k \in Lists : sorting[k].phase \in {"dragging", "reverting"}}}

(* _mouseDown and _mouseCapture: the elements of all lists are the items of    *)
(* the drag.  The press is of an item that is not being animated itself.       *)
PressItem(l, i) ==
    /\ \A k \in Lists : sorting[k].phase \in {"idle", "reverting"}
    /\ sorting[l].phase = "idle"
    /\ Contains(children[l], Item(i)) /\ Item(i) \notin Helpers
    /\ sorting' = [sorting EXCEPT ![l] = [NotSorting EXCEPT
                       !.phase = "down", !.item = i,
                       !.items = UNION {ToSet(children[k]) : k \in Lists}]]
    /\ UNCHANGED <<children, known, containerOver, mixed>>

(* _mouseStart: the place of the item is kept, and the placeholder comes after *)
(* it.  The pointer is still where it went down, and moves nothing.           *)
Begun(l) ==
    [drag |-> [sorting[l] EXCEPT !.phase = "dragging",
                                 !.prev = Prev(Dragged(l), children),
                                 !.parent = ListOf(Dragged(l), children),
                                 !.in = l],
     lists |-> InsertAfter(Placeholder(l), Dragged(l), children)]

(* The items of a drag that are in the document, in one list or in any.        *)
ItemsIn(drag, lists, where) == {e \in drag.items : ListOf(e, lists) \in where}

(* The placeholder goes to one side of an item that the pointer meets.         *)
Rearranged(l, drag, lists) ==
    {lists} \cup NextTo(Placeholder(l), ItemsIn(drag, lists, Lists) \ {Dragged(l)}, lists)

(* The places that _contactContainers may choose in a list: next to its item   *)
(* that is nearest, or in the list when it has none.                          *)
Entered(l, drag, c, lists) ==
    LET near == ItemsIn(drag, lists, {c}) IN
    IF near # {} THEN NextTo(Placeholder(l), near, lists)
    ELSE IF DropOnEmpty THEN {[Detached(Placeholder(l), lists) EXCEPT ![c] = Append(@, Placeholder(l))]}
    ELSE {}

(* _contactContainers: the lists that the pointer left are told so, and the    *)
(* placeholder goes to the list that it entered.                               *)
Contact(l, drag, c, lists) ==
    LET here == c \in {NoList, drag.in}
        refused == ~here /\ Entered(l, drag, c, lists) = {}
        stays == here \/ refused
    IN  /\ children' \in IF stays THEN {lists} ELSE Entered(l, drag, c, lists)
        /\ sorting' = [sorting EXCEPT ![l] = IF stays THEN drag ELSE [drag EXCEPT !.in = c]]
        /\ containerOver' = IF refused THEN containerOver \cap {c} ELSE {c} \ {NoList}

(* _mouseMove and _mouseDrag: the pointer meets an item or none, and the item  *)
(* that is dragged is over a list or over none.                                *)
DragItem(l, c) ==
    /\ sorting[l].phase \in {"down", "dragging"}
    /\ LET begins == sorting[l].phase = "down"
           drag == IF begins THEN Begun(l).drag ELSE sorting[l]
           lists == IF begins THEN Begun(l).lists ELSE children
       IN  /\ \E moved \in Rearranged(l, drag, lists) : Contact(l, drag, c, moved)
           /\ mixed' = (mixed \/ (begins /\ Helpers # {}))
    /\ UNCHANGED known

(* What "prev" of the dropped item is, the helper of another drag left out.    *)
PrevAtRest(l, lists) ==
    LET prev == Prev(Dragged(l), lists)
    IN  IF prev \in Helpers \ {Dragged(l)} THEN NoItem ELSE prev

(* Mutant of Moved: the list that the item was taken from is not compared.     *)
MovedInList(l, lists) == PrevAtRest(l, lists) # sorting[l].prev

(* "Trigger update callback if the DOM position has changed"                   *)
Moved(l, lists) ==
    \/ PrevAtRest(l, lists) # sorting[l].prev
    \/ ListOf(Dragged(l), lists) # sorting[l].parent

(* toArray, which leaves out what is being dragged.                            *)
ToArray(l, lists, helpers) ==
    LET Upto[n \in 0..Len(lists[l])] ==
            IF n = 0 THEN <<>>
            ELSE IF lists[l][n] \in {Item(i) : i \in SortItems} \ helpers
            THEN Append(Upto[n - 1], lists[l][n])
            ELSE Upto[n - 1]
    IN  Upto[Len(lists[l])]

(* _clear: the item takes the place of the placeholder, and then the update    *)
(* events come: of the list that was dragged from, and of the list that got it.*)
Clear(l) ==
    LET placed == InsertBefore(Dragged(l), Placeholder(l), children)
        lists == Detached(Placeholder(l), placed)
        told == (IF Moved(l, placed) THEN {l} ELSE {})
                \cup ({ListOf(Dragged(l), lists)} \ {l})
    IN  /\ children' = lists
        /\ known' = [k \in Lists |-> IF k \in told
                                     THEN ToArray(k, lists, Helpers \ {Dragged(l)})
                                     ELSE known[k]]
        /\ sorting' = [sorting EXCEPT ![l] = NotSorting]
        /\ containerOver' = {}

(* _mouseUp and _mouseStop.                                                   *)
ReleaseItem(l) ==
    /\ sorting[l].phase \in {"down", "dragging"}
    /\ IF sorting[l].phase = "down"
       THEN sorting' = [sorting EXCEPT ![l] = NotSorting] /\ UNCHANGED <<children, known, containerOver>>
       ELSE IF l \in Reverts
       THEN sorting' = [sorting EXCEPT ![l].phase = "reverting"] /\ UNCHANGED <<children, known, containerOver>>
       ELSE Clear(l)
    /\ UNCHANGED mixed

(* The animation of revert is complete.                                       *)
RevertEnds(l) == sorting[l].phase = "reverting" /\ Clear(l) /\ UNCHANGED mixed

SortableNext ==
    \E l \in Lists :
        \/ \E i \in SortItems : PressItem(l, i)
        \/ \E c \in Lists \cup {NoList} : DragItem(l, c)
        \/ ReleaseItem(l)
        \/ RevertEnds(l)

SortableSpec == SortableInit /\ [][SortableNext]_sortVars

-----------------------------------------------------------------------------
(* When no drag is under way every item is in exactly one list, no placeholder *)
(* is left in any, no list is told that something is over it, and the last     *)
(* update event of each list gave the order that it has, unless one drag was   *)
(* begun during the animation that ends another: the order that is told then   *)
(* leaves out the item that is dragged.                                       *)
OrderIsTold ==
    (\A l \in Lists : sorting[l].phase = "idle") =>
        /\ \A i \in SortItems : \E l \in Lists : \E n \in 1..Len(children[l]) :
               /\ children[l][n] = Item(i)
               /\ \A k \in Lists : \A m \in 1..Len(children[k]) :
                      children[k][m] = Item(i) => k = l /\ m = n
        /\ \A l \in Lists : ToSet(children[l]) \subseteq {Item(i) : i \in SortItems}
        /\ containerOver = {}
        /\ ~mixed => known = children

=============================================================================
