------------------------------ MODULE Selectable ------------------------------
(* Selection by a lasso in jQuery UI: the classes of the elements, the data    *)
(* that the widget keeps about them, and the events that tell the page what is *)
(* selected.  The meta key may be pressed or released at any time.  Which      *)
(* elements the lasso hits is left open, but for the one where it began, which *)
(* it always touches (the option tolerance is "touch").                       *)
EXTENDS Naturals

CONSTANTS Selectees,
          NoSelectee,  \* the mouse goes down beside the elements
          AutoRefresh  \* the option

ASSUME SelectableAssumption == NoSelectee \notin Selectees /\ AutoRefresh \in BOOLEAN

VARIABLES selectee, \* the classes and the data of each element
          lasso,    \* whether a drag is under way
          heard,    \* the elements of the selected events, without the unselected ones
          before,   \* the selection when the drag began
          origin,   \* the element where the drag began, if any
          hits,     \* the elements that were hit by the last event
          metaKeys  \* the states of the meta key in the events of the drag

selectVars == <<selectee, lasso, heard, before, origin, hits, metaKeys>>

SelectableInit ==
    /\ selectee = [e \in Selectees |-> [class |-> {}, data |-> {}]]
    /\ lasso = FALSE /\ heard = {} /\ before = {} /\ origin = {} /\ hits = {} /\ metaKeys = {}

With(class) == {e \in Selectees : class \in selectee[e].class}

-----------------------------------------------------------------------------

Refreshed(s) == [class |-> s.class, data |-> s.class]

(* What was selected will not be, unless the meta key is held.                 *)
Started(s, meta) ==
    IF "selected" \notin s.class THEN s
    ELSE IF meta THEN [s EXCEPT !.data = @ \cup {"startselected"}]
    ELSE [class |-> (s.class \ {"selected"}) \cup {"unselecting"},
          data |-> (s.data \ {"selected"}) \cup {"startselected", "unselecting"}]

Targeted(s) ==
    [class |-> (s.class \ {"unselecting"}) \cup {"selecting"},
     data |-> (s.data \ {"unselecting"}) \cup {"selecting", "selected"}]

(* _mouseStart, as soon as the mouse goes down: the option distance is 0.       *)
StartLasso(target, meta) ==
    /\ ~lasso /\ lasso' = TRUE
    /\ selectee' = [e \in Selectees |->
           LET s == Started(IF AutoRefresh THEN Refreshed(selectee[e]) ELSE selectee[e], meta)
           IN  IF e = target THEN Targeted(s) ELSE s]
    /\ origin' = {target} \ {NoSelectee} /\ hits' = origin'
    /\ before' = With("selected") /\ metaKeys' = {meta}
    /\ UNCHANGED heard

Hit(s) ==
    [class |-> (s.class \ (s.data \cap {"selected", "unselecting"})) \cup ({"selecting"} \ s.data),
     data |-> (s.data \ {"selected", "unselecting"}) \cup {"selecting"}]

(* An element that is being selected goes back to what it was.                 *)
Released(s, meta) ==
    LET was == IF "startselected" \notin s.data THEN {}
               ELSE IF meta THEN {"selected"} ELSE {"unselecting"}
    IN  IF "selecting" \notin s.data THEN s
        ELSE [class |-> (s.class \ {"selecting"}) \cup was, data |-> (s.data \ {"selecting"}) \cup was]

Unselected(s, meta) ==
    IF meta \/ "startselected" \in s.data \/ "selected" \notin s.data THEN s
    ELSE [class |-> (s.class \ {"selected"}) \cup {"unselecting"},
          data |-> (s.data \ {"selected"}) \cup {"unselecting"}]

(* Mutant of Missed: what the lasso hit and left is selected all the same.      *)
MissedKeeps(s, meta) == Unselected(s, meta)

Missed(s, meta) == Unselected(Released(s, meta), meta)

(* _mouseDrag.                                                                *)
DragLasso(hit, meta) ==
    /\ lasso /\ origin \subseteq hit
    /\ selectee' = [e \in Selectees |-> IF e \in hit THEN Hit(selectee[e])
                                        ELSE Missed(selectee[e], meta)]
    /\ hits' = hit /\ metaKeys' = metaKeys \cup {meta}
    /\ UNCHANGED <<lasso, heard, before, origin>>

LassoEnded(s) ==
    LET rest == s.data \ (IF "unselecting" \in s.class THEN {"unselecting", "startselected"} ELSE {})
        picked == "selecting" \in s.class
    IN  [class |-> (s.class \ {"selecting", "unselecting"}) \cup (IF picked THEN {"selected"} ELSE {}),
         data |-> IF picked THEN (rest \ {"selecting"}) \cup {"selected", "startselected"} ELSE rest]

(* _mouseStop: the unselected events come before the selected ones.            *)
StopLasso ==
    /\ lasso /\ lasso' = FALSE
    /\ selectee' = [e \in Selectees |-> LassoEnded(selectee[e])]
    /\ heard' = (heard \ With("unselecting")) \cup With("selecting")
    /\ UNCHANGED <<before, origin, hits, metaKeys>>

SelectableNext ==
    \/ \E t \in Selectees \cup {NoSelectee}, meta \in BOOLEAN : StartLasso(t, meta)
    \/ \E hit \in SUBSET Selectees, meta \in BOOLEAN : DragLasso(hit, meta)
    \/ StopLasso

SelectableSpec == SelectableInit /\ [][SelectableNext]_selectVars

-----------------------------------------------------------------------------
(* When the mouse is up the page has been told of what is selected, whatever   *)
(* the meta key did; what the last event hit is selected, and what was         *)
(* selected before is selected still just when the key was held all the time.  *)
SelectionIsTold ==
    ~lasso =>
        /\ heard = With("selected")
        /\ \A e \in Selectees : selectee[e].class \subseteq {"selected"}
        /\ metaKeys = {FALSE} => With("selected") = hits
        /\ metaKeys = {TRUE} => With("selected") = before \cup hits

=============================================================================
