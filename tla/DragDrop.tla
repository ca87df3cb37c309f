------------------------------- MODULE DragDrop -------------------------------
(* Dragging in jQuery UI: the mouse plugin, one draggable and the manager that *)
(* tells the droppables when it is over them.  A greedy droppable takes the    *)
(* place of the droppable it lies in.                                         *)
EXTENDS Naturals, Sequences, SequencesExt, FiniteSetsExt

CONSTANTS Droppables, \* in the order of their creation: enabled, visible, accepting
          Within,     \* the nearest droppable around each, or NoDroppable
          Greedy,
          NoDroppable

DroppableSet == ToSet(Droppables)

ASSUME DragDropAssumption ==
    /\ Droppables \in Seq(DroppableSet)
    /\ NoDroppable \notin DroppableSet /\ Greedy \subseteq DroppableSet
    /\ Within \in [DroppableSet -> DroppableSet \cup {NoDroppable}]

VARIABLES phase,       \* "idle", "down" (the mouse, without a drag) or "dragging"
          leaked,      \* whether handlers of an earlier press were left bound
          downPlace,   \* where the mouse went down: the droppables it meets there
          place,       \* the droppables that the draggable meets
          over,        \* the droppables with isover
          greedyChild, \* the droppables with greedyChild
          received,    \* the droppable that got the last drop, or NoDroppable
          still,       \* whether the last two drag events were at one place
          leftOver     \* the droppables whose greedyChild an earlier drag left set

dragVars == <<phase, leaked, downPlace, place, over, greedyChild, received, still, leftOver>>

-----------------------------------------------------------------------------

DragDropInit ==
    /\ phase = "idle" /\ leaked = FALSE
    /\ downPlace = {} /\ place = {} /\ over = {} /\ greedyChild = {}
    /\ received = NoDroppable /\ still = FALSE /\ leftOver = {}

Manager(o, c) == [over |-> o, child |-> c]

Around(d) == IF d \in Greedy THEN {Within[d]} \ {NoDroppable} ELSE {}

EnterAlone(m, d) == Manager(m.over \cup {d}, m.child \cup Around(d))

(* "we just moved into a greedy child" *)
Enter(m, d) == Manager((m.over \ Around(d)) \cup {d}, m.child \cup Around(d))

(* "we just moved out of a greedy child" *)
Leave(m, d) == Manager((m.over \ {d}) \cup Around(d), m.child \ Around(d))

Compare(m, d, at) ==
    IF d \in m.child \/ (d \in at) = (d \in m.over) THEN m
    ELSE IF d \in at THEN Enter(m, d) ELSE Leave(m, d)

(* ddmanager.drag: one droppable after the other is compared with the place.   *)
DragPass(m, at) ==
    LET Past[n \in 0..Len(Droppables)] ==
            IF n = 0 THEN m ELSE Compare(Past[n - 1], Droppables[n], at)
    IN  Past[Len(Droppables)]

(* A droppable lies in another, at whatever depth.                             *)
Inside(d, outer) ==
    \A S \in SUBSET DroppableSet :
        (\A e \in DroppableSet : Within[e] \in S \cup {outer} => e \in S) => d \in S

(* ddmanager.drop: the first that is met and has no greedy one met within it.  *)
Takes(d, at) == d \in at /\ \A e \in Greedy \cap at : ~Inside(e, d)

Receiver(at) ==
    LET taking == {n \in 1..Len(Droppables) : Takes(Droppables[n], at)} IN
    IF taking = {} THEN NoDroppable ELSE Droppables[Min(taking)]

DropOver ==
    /\ over' = {} /\ received' = Receiver(place)
    /\ still' = FALSE /\ leftOver' = greedyChild
    /\ UNCHANGED greedyChild

(* _mouseDown: a drag whose mouseup was missed is ended first, and the handlers *)
(* of a press whose mouseup was missed are forgotten without being unbound.    *)
PressDraggable(at) ==
    /\ phase' = "down" /\ downPlace' = at
    /\ leaked' = (leaked \/ phase = "down")
    /\ IF phase = "dragging" THEN DropOver
       ELSE UNCHANGED <<over, greedyChild, received, still, leftOver>>
    /\ UNCHANGED place

(* _mouseMove of each handler that is bound: the first event of a drag is told *)
(* twice, at the place of the press and where the mouse is now.  How many of   *)
(* the leaked handlers there are, and whether that of the press is still bound, *)
(* is not kept: with leaked ones the manager passes once more, or it does not.  *)
MoveDraggable(at) ==
    /\ phase # "idle" \/ leaked
    /\ \E again \in {FALSE, leaked} :
       LET started == IF phase = "dragging" THEN Manager(over, greedyChild)
                      ELSE DragPass(Manager(over, greedyChild), downPlace)
           before == IF phase = "dragging" THEN place ELSE downPlace
           once == DragPass(started, at)
           passed == IF again THEN DragPass(once, at) ELSE once
       IN  /\ over' = passed.over /\ greedyChild' = passed.child
           /\ still' = (again \/ before = at)
           /\ leftOver' = leftOver \cap started.child \cap passed.child
    /\ phase' = "dragging" /\ place' = at
    /\ UNCHANGED <<leaked, downPlace, received>>

(* _mouseUp: what is met is where the last drag event was.                     *)
ReleaseDraggable ==
    /\ phase # "idle" /\ phase' = "idle"
    /\ IF phase = "dragging" THEN DropOver
       ELSE UNCHANGED <<over, greedyChild, received, still, leftOver>>
    /\ UNCHANGED <<leaked, downPlace, place>>

DragDropNext ==
    \/ \E at \in SUBSET DroppableSet : PressDraggable(at) \/ MoveDraggable(at)
    \/ ReleaseDraggable

DragDropSpec == DragDropInit /\ [][DragDropNext]_dragVars

-----------------------------------------------------------------------------
(* Greedy droppables without greedy ones right within them.                    *)
Innermost == {d \in Greedy : \A e \in Greedy : Within[e] # d}

(* Droppables with at most one greedy droppable right within them, which is an *)
(* innermost one.  Two of them, or one with another in it, undo in the others   *)
(* the marks they leave in the droppable around them.                          *)
Settled ==
    {d \in DroppableSet : \A e, f \in Greedy :
         Within[e] = d /\ Within[f] = d => e = f /\ e \in Innermost}

(* Once the draggable stays where it is, exactly the droppables it meets are   *)
(* told that it is over them, except one whose greedy child it meets, and the  *)
(* one that would get the drop is among them.  Left out are droppables whose   *)
(* greedyChild an earlier drag left set, and those that are not settled.        *)
OverWhatItMeets ==
    (phase = "dragging" /\ still) =>
        /\ \A d \in Settled \ leftOver :
               d \in over <=> (d \in place /\ \A e \in Greedy \cap place : Within[e] # d)
        /\ Receiver(place) \in Settled => Receiver(place) \in over \cup leftOver

=============================================================================
