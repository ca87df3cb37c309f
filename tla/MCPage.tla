-------------------------------- MODULE MCPage --------------------------------
(* The parts of a page that share no state, its own and the widgets of jQuery   *)
(* UI, each of them by itself: a behaviour moves the part that it begins with,  *)
(* and the others stay at their beginning.                                     *)
EXTENDS Table, Popup, Calendar, DateText, Events, Ready, Sizzle, Filters, Md5,
        Tabs, Dialog, Accordion, Autocomplete, Slider, DragDrop, Sortable, Selectable, TLC

CONSTANTS name, mail, empty, short, long, d1, d2, d3, l1, l2, i1, i2, i3

VARIABLE part

MCBoxTexts == {<<>>, <<"a">>, <<"b">>, <<"a", " ", "b">>}
MCRow(tx, ty) == [c \in Columns |-> IF c = name THEN tx ELSE ty]
MCData == <<MCRow(<<"a", "b">>, <<"c">>), MCRow(<<"a">>, <<"b">>), MCRow(<<"b", "a">>, <<"a", "c">>)>>

MCDaysIn == <<3, 2, 3>>
MCToday == Day(2, 1)

MCFormat == <<"d", "-", "M", "-", "y", "y">>
MCFormats == {<<"M", "M", "/", "d", "d", "/", "y", "y", "y", "y">>, MCFormat,
              <<"y", "y", "y", "y", "-", "M", "M", "-", "d", "d">>,
              <<"d", "d", "/", "M", "M", "/", "y", "y">>}
MCDate == [year |-> 2010, month |-> 10, day |-> 11]
MCDates == {[year |-> yr, month |-> md[1], day |-> md[2]] :
               yr \in {1931, 1999, 2000, 2010, 2020}, md \in {<<1, 1>>, <<2, 28>>, <<10, 11>>, <<12, 31>>}}

MCNests == {<<"p", "q">>, <<"r", "s">>, <<"p", "t">>}

(* All trees of five nodes in document order, the root labelled A.             *)
MCTrees == {p \in [1 .. 5 -> 0 .. 4] :
               /\ p[1] = 0
               /\ \A n \in 2 .. 5 :
                     /\ p[n] \in 1 .. n - 1
                     /\ \/ p[n] = n - 1
                        \/ \E m \in 2 .. n - 1 : p[n] = p[m] /\ \A q \in m + 1 .. n - 1 : p[q] >= m}
MCDocuments == {[parent |-> p, label |-> <<"A">> \o l] : p \in MCTrees, l \in [1 .. 4 -> {"A", "B"}]}
MCDocument == [parent |-> <<0, 1, 2, 3, 4>>, label |-> <<"A", "A", "A", "A", "A">>]
MCPart(c, l) == [comb |-> c, label |-> l]
MCCombs == {" ", ">", "+", "~"}
MCLabels == {"A", "B"}
MCSelectors ==
    {<<MCPart(c, l)>> : c \in {"none", ">", "+", "~"}, l \in MCLabels}
    \cup {<<MCPart(c, l), MCPart(d, "B")>> : c \in {"none", ">", "+"}, d \in MCCombs, l \in MCLabels}
    \cup {<<MCPart("none", "A"), MCPart(c, m), MCPart(d, "B")>> :
              m \in MCLabels, c \in MCCombs, d \in MCCombs}

MCItem(p, o, t, c) == [place |-> p, of |-> o, tag |-> t, classes |-> c]
MCItems == <<MCItem(1, 5, "A", {"x"}), MCItem(2, 5, "A", {}), MCItem(3, 5, "B", {"x", "y"}),
             MCItem(4, 5, "A", {"y"}), MCItem(5, 5, "A", {"x", "y"}),
             MCItem(1, 1, "B", {"x"}), MCItem(1, 2, "A", {"x"}), MCItem(2, 2, "A", {"y"})>>
MCChildren == {Child("nth", n, m) : n \in -2 .. 3, m \in -1 .. 3}
              \cup {Child(k, 0, 0) : k \in {"first", "last", "only"}}
MCPositions == {Pos("eq", 1), Pos("lt", 2), Pos("gt", 1)}
               \cup {Pos(k, 0) : k \in {"even", "odd", "first", "last"}}
MCNots == {Negated(<<Class("x")>>), Negated(<<Tag("A"), Class("y")>>),
           Negated(<<Class("x"), Class("y")>>), Negated(<<Child("nth", 2, 0)>>),
           Negated(<<Tag("A"), Child("nth", 2, 1)>>),
           Negated(<<Pos("eq", 0)>>)}
MCSimple == {Tag("A"), Class("x")} \cup MCChildren \cup MCPositions \cup MCNots
MCColons == {Child("nth", 2, 1), Class("x")} \cup MCPositions \cup MCNots
MCExprs == {<<f>> : f \in MCSimple}
           \cup {<<f, g>> : f \in MCSimple, g \in MCSimple \ {Tag("A")}}
           \cup {<<f, g, h>> : f \in {Tag("A")} \cup MCColons, g \in MCColons, h \in MCColons}

(* The lengths around those at which the padding needs another block.          *)
MCMessages == {<<97, 98, 99>>}
              \cup {[i \in 1 .. n |-> (7 * i + n) % 256] : n \in {0, 1, 3, 54, 55, 56, 57, 63, 64, 65, 119, 120}}

MCTexts == {empty, short, long}
MCOffers == (empty :> <<>>) @@ (short :> <<long, short>>) @@ (long :> <<long>>)

(* d1 lies in d2, which lies in d3 and was made first.                          *)
MCDroppables == <<d2, d3, d1>>
MCWithin == (d1 :> d2) @@ (d2 :> d3) @@ (d3 :> NoDroppable)

MCStartLists == (l1 :> <<i1, i2>>) @@ (l2 :> <<i3>>)

-----------------------------------------------------------------------------

PageParts ==
    {"table", "popup", "calendar", "date", "events", "ready", "selector", "filters", "md5",
     "tabs", "dialog", "accordion", "autocomplete", "slider", "drag", "sortable", "selectable"}

(* Where a part may begin in several states, one of them is enough for the     *)
(* behaviours of the other parts.                                             *)
OneCalendar == inputText = NoText /\ CalendarInit
OneDate == format = MCFormat /\ stored = MCDate /\ DateInit
OneSelector == doc = MCDocument /\ context = 1 /\ selector = <<MCPart("none", "A")>> /\ SizzleInit
OneFilter == written = <<Tag("A")>> /\ FiltersInit
OneMessage == message = <<>> /\ Md5Init
OneTab == lis = <<CHOOSE t \in TabIds : TRUE>> /\ TabsInit

Others(p, one) == IF part = p THEN TRUE ELSE one

Init ==
    /\ part \in PageParts
    /\ TableInit /\ PopupInit /\ EventsInit /\ ReadyInit
    /\ DialogInit /\ AccordionInit /\ AutocompleteInit /\ SliderInit /\ DragDropInit
    /\ SortableInit /\ SelectableInit
    /\ Others("calendar", OneCalendar) /\ Others("date", OneDate)
    /\ Others("selector", OneSelector) /\ Others("filters", OneFilter)
    /\ Others("md5", OneMessage) /\ Others("tabs", OneTab)
    /\ CASE part = "calendar" -> CalendarInit
         [] part = "date" -> DateInit
         [] part = "selector" -> SizzleInit
         [] part = "filters" -> FiltersInit
         [] part = "md5" -> Md5Init
         [] part = "tabs" -> TabsInit
         [] OTHER -> TRUE

(* The parts in three groups, to say of a step what it leaves alone.            *)
shownVars == <<tableVars, popupVars, calendarVars, dateVars, eventVars>>
scriptVars == <<readyVars, sizzleVars, filterVars, md5Vars, tabVars, dialogVars>>
pointerVars == <<accordionVars, autocompleteVars, sliderVars, dragVars, sortVars, selectVars>>
pageVars == <<shownVars, scriptVars, pointerVars, part>>

Next ==
    \/ part = "table" /\ TableNext
       /\ UNCHANGED <<popupVars, calendarVars, dateVars, eventVars, scriptVars,
                    pointerVars, part>>
    \/ part = "popup" /\ PopupNext
       /\ UNCHANGED <<tableVars, calendarVars, dateVars, eventVars, scriptVars,
                    pointerVars, part>>
    \/ part = "calendar" /\ CalendarNext
       /\ UNCHANGED <<tableVars, popupVars, dateVars, eventVars, scriptVars, pointerVars,
                    part>>
    \/ part = "date" /\ DateNext
       /\ UNCHANGED <<tableVars, popupVars, calendarVars, eventVars, scriptVars,
                    pointerVars, part>>
    \/ part = "events" /\ EventsNext
       /\ UNCHANGED <<tableVars, popupVars, calendarVars, dateVars, scriptVars,
                    pointerVars, part>>
    \/ part = "ready" /\ ReadyNext
       /\ UNCHANGED <<sizzleVars, filterVars, md5Vars, tabVars, dialogVars, shownVars,
                    pointerVars, part>>
    \/ part = "selector" /\ SizzleNext
       /\ UNCHANGED <<readyVars, filterVars, md5Vars, tabVars, dialogVars, shownVars,
                    pointerVars, part>>
    \/ part = "filters" /\ FiltersNext
       /\ UNCHANGED <<readyVars, sizzleVars, md5Vars, tabVars, dialogVars, shownVars,
                    pointerVars, part>>
    \/ part = "md5" /\ Md5Block
       /\ UNCHANGED <<readyVars, sizzleVars, filterVars, tabVars, dialogVars, shownVars,
                    pointerVars, part>>
    \/ part = "tabs" /\ TabsNext
       /\ UNCHANGED <<readyVars, sizzleVars, filterVars, md5Vars, dialogVars, shownVars,
                    pointerVars, part>>
    \/ part = "dialog" /\ DialogNext
       /\ UNCHANGED <<readyVars, sizzleVars, filterVars, md5Vars, tabVars, shownVars,
                    pointerVars, part>>
    \/ part = "accordion" /\ AccordionNext
       /\ UNCHANGED <<autocompleteVars, sliderVars, dragVars, sortVars, selectVars, shownVars,
                    scriptVars, part>>
    \/ part = "autocomplete" /\ AutocompleteNext
       /\ UNCHANGED <<accordionVars, sliderVars, dragVars, sortVars, selectVars, shownVars,
                    scriptVars, part>>
    \/ part = "slider" /\ SliderNext
       /\ UNCHANGED <<accordionVars, autocompleteVars, dragVars, sortVars, selectVars,
                    shownVars, scriptVars, part>>
    \/ part = "drag" /\ DragDropNext
       /\ UNCHANGED <<accordionVars, autocompleteVars, sliderVars, sortVars, selectVars,
                    shownVars, scriptVars, part>>
    \/ part = "sortable" /\ SortableNext
       /\ UNCHANGED <<accordionVars, autocompleteVars, sliderVars, dragVars, selectVars,
                    shownVars, scriptVars, part>>
    \/ part = "selectable" /\ SelectableNext
       /\ UNCHANGED <<accordionVars, autocompleteVars, sliderVars, dragVars, sortVars,
                    shownVars, scriptVars, part>>

Spec == Init /\ [][Next]_pageVars

=============================================================================
