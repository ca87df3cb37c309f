----------------------------- MODULE WidgetProofs -----------------------------
(* Proofs about the widgets of jQuery UI, each of them by itself: for every   *)
(* range and step of the slider, every number of headers, texts, elements,    *)
(* dialogs, tabs, droppables and lists.                                      *)
EXTENDS Slider, Accordion, Autocomplete, Selectable, Dialog, Tabs, DragDrop, Sortable, TLAPS,
        FiniteSetTheorems, SequenceTheorems, WellFoundedInduction

-----------------------------------------------------------------------------
(* The slider.                                                               *)

(* A value that is trimmed lies within min and max, and trimming keeps the    *)
(* order of values.                                                          *)
LEMMA Trimmed ==
    ASSUME NEW v \in Int, NEW w \in Int
    PROVE  /\ TrimValue(v) \in Int /\ SMin <= TrimValue(v) /\ TrimValue(v) <= SMax
           /\ SMin <= v /\ v <= SMax => TrimValue(v) = v
           /\ v <= w => TrimValue(v) <= TrimValue(w)
BY SliderAssumption DEF TrimValue

(* The value of a place of the mouse is a number not below the minimum.       *)
LEMMA Normed ==
    ASSUME NEW spot \in Int
    PROVE  NormValue(spot) \in Int /\ NormValue(spot) >= SMin
<1> DEFINE mouse == TrimValue(spot) - SMin
           mod == mouse % SStep
<1>1. mouse \in Nat
    BY Trimmed, SliderAssumption
<1>2. SStep \in Nat /\ SStep > 0 /\ SMin \in Int
    BY SliderAssumption
<1> HIDE DEF mouse
<1>3. mod \in Nat /\ mod <= mouse
    BY <1>1, <1>2
<1>4. NormValue(spot) = SMin + mouse - mod + (IF 2 * mod > SStep THEN SStep ELSE 0)
    BY DEF NormValue, mouse
<1> HIDE DEF mod
<1> QED
    BY <1>1, <1>2, <1>3, <1>4

(* The range of the handles, and that the slider names one of them or none.    *)
SliderInv ==
    /\ handleValues \in [Handles -> SMin .. SMax]
    /\ handleValues[0] <= handleValues[1]
    /\ handleIndex \in Handles \cup {NoHandle} /\ handleFocus \in Handles \cup {NoHandle}
    /\ clickOffset \in Int

(* A handle that slides to any value stays in the range.                       *)
LEMMA SlideInRange ==
    ASSUME SliderInv, NEW i \in Handles, NEW v \in Int, Slide(i, v)
    PROVE  handleValues' \in [Handles -> SMin .. SMax] /\ handleValues'[0] <= handleValues'[1]
<1> DEFINE other == handleValues[1 - i]
           held == IF (i = 0 /\ v > other) \/ (i = 1 /\ v < other) THEN other ELSE v
<1>1. 1 - i \in Handles /\ other \in SMin .. SMax /\ SMin \in Int /\ SMax \in Int
    BY SliderAssumption DEF SliderInv, Handles
<1>2. held \in Int /\ other \in Int
    BY <1>1
<1>3. (i = 0 => held <= other) /\ (i = 1 => other <= held)
    BY <1>1
<1> HIDE DEF held
<1>4. /\ TrimValue(held) \in SMin .. SMax
      /\ i = 0 => TrimValue(held) <= other
      /\ i = 1 => other <= TrimValue(held)
    <2>1. TrimValue(other) = other
        BY <1>1, <1>2, Trimmed
    <2> QED
        BY <1>1, <1>2, <1>3, <2>1, Trimmed
<1>5. handleValues' = handleValues \/ handleValues' = [handleValues EXCEPT ![i] = TrimValue(held)]
    BY DEF Slide, Slid, held
<1> QED
    BY <1>1, <1>4, <1>5 DEF SliderInv, Handles

(* A press on the track brings the closest handle to the step next to it.      *)
LEMMA PressArrives ==
    ASSUME SliderInv PROVE RangeIsUsable
<1> DEFINE x == handleValues[0]
           y == handleValues[1]
<1>1. /\ x \in Int /\ y \in Int /\ SMin <= x /\ x <= y /\ y <= SMax /\ SMin \in Int /\ SMax \in Int
    BY SliderAssumption DEF SliderInv, Handles
<1>2. ASSUME NEW spot \in SMin .. SMax
      PROVE  LET norm == NormValue(spot)
                 i == Closest(handleValues, norm)
             IN  (x < y \/ y = SMin \/ norm <= y)
                     => Slid(handleValues, i, norm)[i] = TrimValue(norm)
    <2> DEFINE norm == NormValue(spot)
               i == Closest(handleValues, norm)
               other == handleValues[1 - i]
    <2>1. norm \in Int /\ norm >= SMin
        BY <1>1, <1>2, Normed
    <2> HIDE DEF norm
    <2>2. /\ i = 1 \/ i = 0
          /\ i = 0 => y # SMin /\ ~(Distance(norm, y) < Distance(norm, x))
          /\ i = 1 => y = SMin \/ Distance(norm, y) < Distance(norm, x)
        BY DEF Closest
    <2>3. ASSUME x < y \/ y = SMin \/ norm <= y
          PROVE  ~((i = 0 /\ norm > other) \/ (i = 1 /\ norm < other))
        <3>1. CASE i = 0
            <4>1. other = y
                BY <3>1
            <4> QED
                BY <1>1, <2>1, <2>2, <2>3, <3>1, <4>1 DEF Distance
        <3>2. CASE i = 1
            <4>1. other = x
                BY <3>2
            <4> QED
                BY <1>1, <2>1, <2>2, <2>3, <3>2, <4>1 DEF Distance
        <3> QED
            BY <2>2, <3>1, <3>2
    <2>4. i \in DOMAIN handleValues
        BY <2>2 DEF SliderInv, Handles
    <2> HIDE DEF i
    <2>5. ASSUME x < y \/ y = SMin \/ norm <= y
          PROVE  Slid(handleValues, i, norm)[i] = TrimValue(norm)
        BY <2>3, <2>4, <2>5 DEF Slid
    <2> QED
        BY <2>5 DEF norm, i
<1> QED
    BY <1>1, <1>2 DEF RangeIsUsable

(* Whatever mouse, keys and the callback of the page do, the two values stay a *)
(* range within min and max, and a press on the track brings a handle to the   *)
(* step next to it.                                                           *)
THEOREM SliderIsUsable == SliderSpec => []RangeIsUsable
<1>1. SliderInit => SliderInv
    BY SliderAssumption DEF SliderInit, SliderInv, Handles
<1>2. SliderInv /\ [SliderNext]_sliderVars => SliderInv'
    <2> SUFFICES ASSUME SliderInv, [SliderNext]_sliderVars PROVE SliderInv'
        OBVIOUS
    <2>0. /\ \A i \in Handles : handleValues[i] \in Int
          /\ SMin \in Int /\ SMax \in Int /\ SStep \in Int /\ Grip \in Int
        BY SliderAssumption DEF SliderInv
    <2>1. \A values, norm : Closest(values, norm) \in Handles
        BY DEF Closest, Handles
    <2>2. ASSUME NEW spot \in SMin .. SMax, PressTrack(spot) PROVE SliderInv'
        <3>1. NormValue(spot) \in Int
            BY <2>0, Normed
        <3> QED
            BY <2>1, <2>2, <3>1, SlideInRange DEF PressTrack, SliderInv
    <2>3. ASSUME NEW target \in Handles, NEW spot \in Places, PressHandle(target, spot)
          PROVE  SliderInv'
        <3> DEFINE i == Closest(handleValues, NormValue(spot))
        <3>1. /\ i \in Handles /\ spot \in Int
              /\ handleIndex' = i /\ clickOffset' = spot - handleValues[i] /\ handleFocus' = i
              /\ Slide(i, NormValue(handleValues[i]))
            BY <2>0, <2>1, <2>3 DEF PressHandle, Places
        <3> HIDE DEF i
        <3>2. NormValue(handleValues[i]) \in Int
            BY <2>0, <3>1, Normed
        <3> QED
            BY <2>0, <3>1, <3>2, SlideInRange DEF SliderInv
    <2>4. ASSUME NEW spot \in Places, DragHandle(spot) PROVE SliderInv'
        <3>1. spot - clickOffset \in Int
            BY <2>0 DEF Places, SliderInv
        <3>2. handleIndex \in Handles /\ NormValue(spot - clickOffset) \in Int
            BY <2>4, <3>1, Normed DEF DragHandle, SliderInv
        <3> QED
            BY <2>4, <3>2, SlideInRange DEF DragHandle, SliderInv
    <2>5. ASSUME NEW key \in SliderKeys, SliderKeyDown(key) PROVE SliderInv'
        <3>1. handleFocus \in Handles /\ handleValues[handleFocus] \in Int
            BY <2>0, <2>5 DEF SliderKeyDown, SliderInv
        <3>2. \A v \in Int : KeyTarget(key, v) \in Int
            BY <2>0 DEF KeyTarget, SliderKeys
        <3> QED
            BY <2>5, <3>1, <3>2, SlideInRange DEF SliderKeyDown, SliderInv
    <2>6. CASE ReleaseHandle \/ SliderKeyUp \/ (\E i \in Handles \cup {NoHandle} : FocusHandle(i))
        BY <2>6 DEF ReleaseHandle, SliderKeyUp, FocusHandle, SliderInv
    <2>7. CASE UNCHANGED sliderVars
        BY <2>7 DEF sliderVars, SliderInv
    <2> QED
        BY <2>2, <2>3, <2>4, <2>5, <2>6, <2>7 DEF SliderNext
<1> QED
    BY <1>1, <1>2, PressArrives, PTL DEF SliderSpec

-----------------------------------------------------------------------------
(* The accordion.                                                            *)

(* The lists of animations: none, or one of one content.                      *)
Rest == [h \in AllHeaders |-> <<>>]
OneSlide(h, kind) == [k \in AllHeaders |-> IF k = h THEN <<kind>> ELSE <<>>]

(* At rest, while one content is hidden (and perhaps another one unfolds with *)
(* it), or while one is shown where there was none.                          *)
AtRest ==
    /\ running = 0 /\ slides = Rest
    /\ displayed = activeHeader /\ marked = activeHeader
Hiding(h) ==
    /\ running = 1 /\ slides = OneSlide(h, "hide")
    /\ h \notin activeHeader /\ toHide = {h}
    /\ displayed = activeHeader \cup {h} /\ marked = activeHeader \cup {h}
Showing(h) ==
    /\ running = 1 /\ slides = OneSlide(h, "show")
    /\ activeHeader = {h} /\ toHide = {}
    /\ displayed = {h} /\ marked = {h}
AccordionInv ==
    /\ activeHeader = {} \/ \E h \in AllHeaders : activeHeader = {h}
    /\ AtRest \/ \E h \in AllHeaders : Hiding(h) \/ Showing(h)

(* From rest, what is active is hidden, and another header takes its place or *)
(* none does.                                                                *)
LEMMA ToggleFromRest ==
    ASSUME AccordionInv, running = 0,
           NEW show, NEW hide, NEW mark,
           hide = activeHeader, activeHeader' = show,
           show = {} \/ \E h \in AllHeaders \ hide : show = {h},
           mark = activeHeader \cup show,
           Toggle(show, hide, mark)
    PROVE  AccordionInv'
<1>1. AtRest
    BY DEF AccordionInv, Hiding, Showing
<1>2. \A h : Cardinality({h}) = 1
    BY FS_Singleton
<1>3. hide \cap displayed = hide /\ hide \ (hide \cap displayed) = {}
    BY <1>1 DEF AtRest
<1>4. /\ toHide' = hide /\ marked' = mark
      /\ running' = IF hide = {} THEN Cardinality(show) ELSE Cardinality(hide)
      /\ displayed' = displayed \cup show
      /\ slides' = [h \in AllHeaders |->
                       CASE h \in hide -> Append(slides[h], "hide")
                         [] h \in show /\ hide = {} -> Append(slides[h], "show")
                         [] OTHER -> slides[h]]
    BY <1>3 DEF Toggle
<1>5. \A h \in AllHeaders : slides[h] = <<>>
    BY <1>1 DEF AtRest, Rest
<1>6. \A kind : Append(<<>>, kind) = <<kind>>
    OBVIOUS
<1>7. CASE hide = {} /\ show = {}
    <2>1. Cardinality({}) = 0
        BY FS_EmptySet
    <2>2. slides' = Rest
        BY <1>4, <1>5, <1>7 DEF Rest
    <2> QED
        BY <1>1, <1>4, <1>7, <2>1, <2>2 DEF AccordionInv, AtRest
<1>8. ASSUME NEW h \in AllHeaders, hide = {}, show = {h} PROVE AccordionInv'
    <2>1. slides' = OneSlide(h, "show")
        BY <1>4, <1>5, <1>6, <1>8 DEF OneSlide
    <2>2. Showing(h)'
        BY <1>1, <1>2, <1>4, <1>8, <2>1 DEF Showing, AtRest, OneSlide, AllHeaders
    <2> QED
        BY <1>8, <2>2 DEF AccordionInv, AllHeaders
<1>9. ASSUME NEW h \in AllHeaders, hide = {h} PROVE AccordionInv'
    <2>1. slides' = OneSlide(h, "hide")
        BY <1>4, <1>5, <1>6, <1>9 DEF OneSlide
    <2>2. Hiding(h)'
        BY <1>1, <1>2, <1>4, <1>9, <2>1 DEF Hiding, AtRest, OneSlide, AllHeaders
    <2> QED
        BY <1>9, <2>2 DEF AccordionInv, AllHeaders
<1> QED
    BY <1>7, <1>8, <1>9 DEF AccordionInv

(* When no animation is left the accordion takes clicks again, and exactly the *)
(* active content is displayed and marked, whatever was clicked or typed       *)
(* meanwhile: unless the page itself closes all while an animation runs.      *)
THEOREM AccordionShows ==
    ASSUME ~(Collapsible /\ ClosesAtWill)
    PROVE  AccordionSpec => []ShowsActiveOnly
<1>1. AccordionInit => AccordionInv
    <2>1. 1 \in AllHeaders
        BY AccordionAssumption DEF AllHeaders
    <2> QED
        BY <2>1 DEF AccordionInit, AccordionInv, AtRest, Rest
<1>2. AccordionInv /\ [AccordionNext]_accordionVars => AccordionInv'
    <2> SUFFICES ASSUME AccordionInv, [AccordionNext]_accordionVars PROVE AccordionInv'
        OBVIOUS
    <2>1. ASSUME UNCHANGED <<activeHeader, running, toHide, displayed, marked, slides>>
          PROVE  AccordionInv'
        BY <2>1 DEF AccordionInv, AtRest, Hiding, Showing, Rest, OneSlide, AllHeaders
    <2>2. ASSUME NEW h \in AllHeaders, ClickHeader(h) PROVE AccordionInv'
        <3>1. CASE Ignored(h)
            BY <2>1, <2>2, <3>1 DEF ClickHeader
        <3>2. CASE ~Ignored(h) /\ activeHeader = {h}
            <4>1. /\ activeHeader' = {} /\ Toggle({}, {h}, marked) /\ running = 0
                BY <2>2, <3>2 DEF ClickHeader, Ignored
            <4>2. marked = activeHeader \cup {}
                BY <4>1 DEF AccordionInv, AtRest, Hiding, Showing
            <4> QED
                BY <3>2, <4>1, <4>2, ToggleFromRest
        <3>3. CASE ~Ignored(h) /\ activeHeader # {h}
            <4>1. /\ activeHeader' = {h} /\ Toggle({h}, activeHeader, marked \cup {h})
                  /\ running = 0
                BY <2>2, <3>3 DEF ClickHeader, Ignored
            <4>2. marked \cup {h} = activeHeader \cup {h} /\ h \notin activeHeader
                BY <3>3, <4>1 DEF AccordionInv, AtRest, Hiding, Showing
            <4> QED
                BY <3>3, <4>1, <4>2, ToggleFromRest
        <3> QED
            BY <3>1, <3>2, <3>3
    <2>3. ASSUME NEW h \in AllHeaders, SlideEnds(h) PROVE AccordionInv'
        <3>1. ~AtRest
            BY <2>3 DEF SlideEnds, AtRest, Rest
        <3>2. PICK k \in AllHeaders : Hiding(k) \/ Showing(k)
            BY <3>1 DEF AccordionInv
        <3>3. h = k
            BY <2>3, <3>2 DEF SlideEnds, Hiding, Showing, OneSlide
        <3>4. /\ UNCHANGED <<activeHeader, toHide>> /\ running' = 0
              /\ marked' = marked \ toHide
              /\ displayed' = IF Head(slides[k]) = "hide" THEN displayed \ {k} ELSE displayed \cup {k}
              /\ slides' = [slides EXCEPT ![k] = Tail(slides[k])]
            BY <2>3, <3>2, <3>3 DEF SlideEnds, Completed, Hiding, Showing
        <3>5. \A kind : Head(<<kind>>) = kind /\ Tail(<<kind>>) = <<>>
            OBVIOUS
        <3>6. slides' = Rest
            <4>1. PICK kind : slides = OneSlide(k, kind)
                BY <3>2 DEF Hiding, Showing
            <4>2. /\ slides = [j \in AllHeaders |-> IF j = k THEN <<kind>> ELSE <<>>]
                  /\ slides[k] = <<kind>>
                BY <4>1 DEF OneSlide
            <4>3. Tail(slides[k]) = <<>>
                BY <3>5, <4>2
            <4>4. slides' = [slides EXCEPT ![k] = <<>>]
                BY <3>4, <4>3
            <4> QED
                BY <4>2, <4>4 DEF Rest
        <3>7. displayed' = activeHeader /\ marked' = activeHeader
            <4>1. CASE Hiding(k)
                <5>1. Head(slides[k]) = "hide"
                    BY <3>5, <4>1 DEF Hiding, OneSlide
                <5> QED
                    BY <3>4, <4>1, <5>1 DEF Hiding
            <4>2. CASE Showing(k)
                <5>1. Head(slides[k]) = "show"
                    BY <3>5, <4>2 DEF Showing, OneSlide
                <5> QED
                    BY <3>4, <4>2, <5>1 DEF Showing
            <4> QED
                BY <3>2, <4>1, <4>2
        <3> QED
            BY <3>4, <3>6, <3>7 DEF AccordionInv, AtRest, Rest, AllHeaders
    <2>4. CASE CloseAll
        <3>1. /\ running = 0 /\ activeHeader' = {}
              /\ Toggle({}, activeHeader, marked \cup activeHeader)
            BY <2>4 DEF CloseAll
        <3>2. marked \cup activeHeader = activeHeader \cup {}
            BY <3>1 DEF AccordionInv, AtRest, Hiding, Showing
        <3> QED
            BY <3>1, <3>2, ToggleFromRest
    <2>5. ASSUME NEW h \in AllHeaders, Key(h) PROVE AccordionInv'
        BY <2>1, <2>2, <2>5 DEF Key, MoveTo
    <2>6. ASSUME NEW h \in AllHeaders, TabTo(h) PROVE AccordionInv'
        BY <2>1, <2>6 DEF TabTo
    <2>7. CASE UNCHANGED accordionVars
        BY <2>1, <2>7 DEF accordionVars
    <2> QED
        BY <2>2, <2>3, <2>4, <2>5, <2>6, <2>7 DEF AccordionNext
<1>3. AccordionInv => ShowsActiveOnly
    BY SMTT(30) DEF AccordionInv, AtRest, Hiding, Showing, OneSlide, ShowsActiveOnly
<1> QED
    BY <1>1, <1>2, <1>3, PTL DEF AccordionSpec

-----------------------------------------------------------------------------
(* The autocomplete field.                                                   *)
(* A menu is there when it has items, its active item is one of them, a timer  *)
(* that can be cancelled is pending, and a search waits only while the field   *)
(* has the focus.                                                            *)
AutocompleteInv ==
    /\ field \in Texts /\ term \in Texts \cup {NoTerm}
    /\ menuItems \in Seq(Texts) /\ activeItem \in 0..Len(menuItems)
    /\ closers \in Nat /\ canCancel \in BOOLEAN
    /\ searching \in BOOLEAN /\ fieldHasFocus \in BOOLEAN
    /\ menuOpen <=> menuItems # <<>>
    /\ menuOpen => term \in Texts
    /\ canCancel => closers > 0
    /\ searching => fieldHasFocus

(* A search: its answer opens the menu, replaces it or closes it.             *)
LEMMA SearchStep ==
    ASSUME AutocompleteInv, fieldHasFocus, Search, UNCHANGED <<field, fieldHasFocus>>,
           searching' \in {FALSE, searching}
    PROVE  AutocompleteInv' /\ MenuBelongsToField'
<1>1. closers' \in Nat /\ canCancel' = FALSE
    BY DEF Search, CloseMenu, ClearClosing, AutocompleteInv
<1>2. CASE field = EmptyText
    <2>1. menuOpen' = FALSE /\ menuItems' = <<>> /\ activeItem' = 0 /\ UNCHANGED term
        BY <1>2 DEF Search, CloseMenu, NoMenu
    <2>2. <<>> \in Seq(Texts) /\ 0 \in 0..Len(<<>>)
        OBVIOUS
    <2> QED
        BY <1>1, <2>1, <2>2 DEF AutocompleteInv, MenuBelongsToField
<1>3. CASE field # EmptyText
    <2>1. /\ term' = field /\ menuItems' = Offers[field] /\ activeItem' = 0
          /\ menuOpen' = (Offers[field] # <<>>)
        BY <1>3 DEF Search
    <2>2. Offers[field] \in Seq(Texts)
        BY AutocompleteAssumption DEF AutocompleteInv
    <2>3. 0 \in 0..Len(Offers[field])
        BY <2>2
    <2> QED
        BY <1>1, <2>1, <2>2, <2>3 DEF AutocompleteInv, MenuBelongsToField
<1> QED
    BY <1>2, <1>3

(* The menu goes, and its timer; what is in the field is a text.               *)
LEMMA CloseStep ==
    ASSUME AutocompleteInv, CloseMenu, UNCHANGED <<term, searching>>,
           field' \in Texts, fieldHasFocus' \in {TRUE, fieldHasFocus}
    PROVE  AutocompleteInv' /\ MenuBelongsToField'
<1>1. /\ closers' \in Nat /\ canCancel' = FALSE
      /\ menuOpen' = FALSE /\ menuItems' = <<>> /\ activeItem' = 0
    BY DEF CloseMenu, ClearClosing, NoMenu, AutocompleteInv
<1>2. <<>> \in Seq(Texts) /\ 0 \in 0..Len(<<>>)
    OBVIOUS
<1> QED
    BY <1>1, <1>2 DEF AutocompleteInv, MenuBelongsToField

(* The mouse or a key goes to an item.                                        *)
LEMMA ActivateStep ==
    ASSUME AutocompleteInv, MenuBelongsToField, menuOpen, NEW i \in 1..Len(menuItems),
           Activate(i),
           UNCHANGED <<term, searching, closers, canCancel, menuOpen, menuItems, fieldHasFocus>>
    PROVE  AutocompleteInv' /\ MenuBelongsToField'
<1>1. menuItems[i] \in Texts /\ i # 0 /\ i \in 0..Len(menuItems)
    BY DEF AutocompleteInv
<1> QED
    BY <1>1 DEF AutocompleteInv, MenuBelongsToField, Activate

(* No menu is left open at a field that the user has left, and with no timer  *)
(* pending the field shows the active item or else what was searched for.     *)
THEOREM MenuFollowsField == AutocompleteSpec => []MenuBelongsToField
<1>1. AutocompleteInit => AutocompleteInv /\ MenuBelongsToField
    <2>1. <<>> \in Seq(Texts) /\ 0 \in 0..Len(<<>>)
        OBVIOUS
    <2>2. EmptyText \in Texts /\ NoTerm \in Texts \cup {NoTerm} /\ 0 \in Nat
        BY AutocompleteAssumption
    <2> QED
        BY <2>1, <2>2, Zenon DEF AutocompleteInit, AutocompleteInv, MenuBelongsToField
<1>2. AutocompleteInv /\ MenuBelongsToField /\ [AutocompleteNext]_autocompleteVars
        => AutocompleteInv' /\ MenuBelongsToField'
    <2> SUFFICES ASSUME AutocompleteInv, MenuBelongsToField,
                        [AutocompleteNext]_autocompleteVars
                 PROVE  AutocompleteInv' /\ MenuBelongsToField'
        OBVIOUS
    <2>0. activeItem # 0 => menuItems[activeItem] \in Texts /\ menuOpen
        BY DEF AutocompleteInv
    <2>1. ASSUME NEW text \in Texts, TypeText(text)
          PROVE  AutocompleteInv' /\ MenuBelongsToField'
        BY <2>1 DEF TypeText, AutocompleteInv, MenuBelongsToField
    <2>2. CASE SearchNow \/ MoveOpens
        BY <2>2, SearchStep DEF SearchNow, MoveOpens, AutocompleteInv
    <2>3. ASSUME NEW direction \in {"next", "previous", "nextPage", "previousPage"},
                 MoveOut(direction)
          PROVE  AutocompleteInv' /\ MenuBelongsToField'
        <3>1. 0 \in 0..Len(menuItems) /\ term \in Texts
            BY <2>3 DEF MoveOut, AutocompleteInv
        <3> QED
            BY <2>3, <3>1 DEF MoveOut, AutocompleteInv, MenuBelongsToField
    <2>4. ASSUME NEW direction \in {"next", "previous", "nextPage", "previousPage"},
                 MoveItem(direction)
          PROVE  AutocompleteInv' /\ MenuBelongsToField'
        <3>1. PICK i \in Destinations(direction) : Activate(i)
            BY <2>4 DEF MoveItem
        <3>2. Len(menuItems) \in Nat /\ Len(menuItems) # 0 /\ activeItem \in 0..Len(menuItems)
            <4>1. menuOpen /\ menuItems \in Seq(Texts) /\ menuItems # <<>>
                BY <2>4 DEF MoveItem, AutocompleteInv
            <4>2. activeItem \in 0..Len(menuItems)
                BY DEF AutocompleteInv
            <4> QED
                BY <4>1, <4>2
        <3>3. ~AtTheEnd(direction)
            BY <2>4 DEF MoveItem
        <3>4. i \in 1..Len(menuItems)
            <4>1. CASE direction = "next"
                BY <3>1, <3>2, <3>3, <4>1 DEF Destinations, AtTheEnd
            <4>2. CASE direction = "previous"
                BY <3>1, <3>2, <3>3, <4>2 DEF Destinations, AtTheEnd
            <4>3. CASE direction = "nextPage"
                BY <3>1, <3>2, <3>3, <4>3 DEF Destinations, AtTheEnd
            <4>4. CASE direction = "previousPage"
                BY <3>1, <3>2, <3>3, <4>4 DEF Destinations, AtTheEnd
            <4> QED
                BY <4>1, <4>2, <4>3, <4>4
        <3> QED
            BY <2>4, <3>1, <3>4, ActivateStep DEF MoveItem
    <2>5. ASSUME NEW i \in DOMAIN menuItems, HoverItem(i)
          PROVE  AutocompleteInv' /\ MenuBelongsToField'
        <3>1. i \in 1..Len(menuItems)
            BY DEF AutocompleteInv
        <3> QED
            BY <2>5, <3>1, ActivateStep DEF HoverItem
    <2>6. CASE SelectByKey \/ SelectByClick \/ EscapeField
        <3>1. /\ CloseMenu /\ UNCHANGED <<term, searching>>
              /\ field' \in Texts /\ fieldHasFocus' \in {TRUE, fieldHasFocus}
            BY <2>0, <2>6 DEF SelectByKey, SelectByClick, EscapeField, AutocompleteInv
        <3> QED
            BY <3>1, CloseStep
    <2>7. CASE FocusInput
        BY <2>7 DEF FocusInput, AutocompleteInv, MenuBelongsToField
    <2>10. CASE Blur
        <3>1. closers' \in Nat /\ closers' > 0 /\ closers' # 0
            BY <2>10 DEF Blur, AutocompleteInv
        <3>2. /\ searching' = FALSE /\ fieldHasFocus' = FALSE /\ canCancel' = TRUE
              /\ UNCHANGED <<field, term, menuOpen, menuItems, activeItem>>
            BY <2>10 DEF Blur
        <3> QED
            BY <3>1, <3>2 DEF AutocompleteInv, MenuBelongsToField
    <2>8. CASE CloseLater
        <3>1. <<>> \in Seq(Texts) /\ 0 \in 0..Len(<<>>)
            OBVIOUS
        <3>2. closers' \in Nat /\ canCancel' = FALSE /\ NoMenu
            BY <2>8 DEF CloseLater, AutocompleteInv
        <3> QED
            BY <2>8, <3>1, <3>2 DEF CloseLater, NoMenu, AutocompleteInv, MenuBelongsToField
    <2>9. CASE UNCHANGED autocompleteVars
        BY <2>9 DEF autocompleteVars, AutocompleteInv, MenuBelongsToField
    <2> QED
        BY <2>1, <2>2, <2>3, <2>4, <2>5, <2>6, <2>7, <2>8, <2>9, <2>10 DEF AutocompleteNext
<1> QED
    BY <1>1, <1>2, PTL DEF AutocompleteSpec

-----------------------------------------------------------------------------
(* Selection by a lasso.                                                     *)

(* What the classes and the data of an element may be: it is not selected, or  *)
(* is; it will not be any more; the lasso hits it, when it was not selected at *)
(* the start or was; and the drag has just begun at it, when it was not        *)
(* selected, was and will not be, or was and stays it.                         *)
Plain      == [class |-> {}, data |-> {}]
Chosen     == [class |-> {"selected"}, data |-> {"selected", "startselected"}]
Leaving    == [class |-> {"unselecting"}, data |-> {"unselecting", "startselected"}]
Picked     == [class |-> {"selecting"}, data |-> {"selecting"}]
PickedTwice == [class |-> {"selecting"}, data |-> {"selecting", "startselected"}]
BegunOnce  == [class |-> {"selecting"}, data |-> {"selecting", "selected"}]
BegunTwice ==
    [class |-> {"selecting"}, data |-> {"selecting", "selected", "startselected"}]
BegunKept  ==
    [class |-> {"selected", "selecting"}, data |-> {"selecting", "selected", "startselected"}]

(* An element during a drag and between two drags: the meta key of any event   *)
(* decides whether it stays selected.                                         *)
Dragging(e) ==
    \/ selectee[e] = Plain /\ e \notin before /\ e \notin hits
    \/ selectee[e] = Chosen /\ e \in before \ hits /\ TRUE \in metaKeys
    \/ selectee[e] = Leaving /\ e \in before \ hits /\ FALSE \in metaKeys
    \/ selectee[e] = Picked /\ e \in hits \ before
    \/ selectee[e] = PickedTwice /\ e \in hits \cap before
    \/ selectee[e] = BegunOnce /\ e \in (hits \cap origin) \ before
    \/ selectee[e] \in {BegunTwice, BegunKept} /\ e \in hits \cap origin \cap before
Resting(e) ==
    \/ selectee[e] = Chosen /\ (e \in hits \/ (e \in before /\ TRUE \in metaKeys))
    \/ selectee[e] = Plain /\ e \notin hits /\ (e \in before => FALSE \in metaKeys)

(* During a drag the page still holds the selection from before it.            *)
SelectableInv ==
    /\ DOMAIN selectee = Selectees /\ hits \subseteq Selectees /\ before \subseteq Selectees
    /\ lasso \in BOOLEAN
    /\ lasso => heard = before /\ \A e \in Selectees : Dragging(e)
    /\ ~lasso => heard = With("selected") /\ \A e \in Selectees : Resting(e)

(* What each handler makes of an element: the start of a drag;                *)
LEMMA StartedIs ==
    ASSUME NEW s \in {Plain, Chosen}, NEW meta \in BOOLEAN
    PROVE  Started(IF AutoRefresh THEN Refreshed(s) ELSE s, meta)
             = IF s = Plain THEN Plain ELSE IF meta THEN Chosen ELSE Leaving
<1>0. Plain # Chosen
    BY DEF Plain, Chosen
<1> DEFINE r == IF AutoRefresh THEN Refreshed(s) ELSE s
<1>1. CASE s = Plain
    BY <1>1 DEF Started, Refreshed, Plain
<1>2. CASE s = Chosen
    <2>1. r.class = {"selected"} /\ "selected" \in r.class
          /\ r.data \in {{"selected"}, {"selected", "startselected"}}
          /\ r = [class |-> r.class, data |-> r.data]
        BY <1>2 DEF Refreshed, Chosen
    <2> HIDE DEF r
    <2>2. CASE meta
        BY <1>0, <1>2, <2>1, <2>2 DEF Started, Chosen, r
    <2>3. CASE ~meta
        BY <1>0, <1>2, <2>1, <2>3 DEF Started, Leaving, r
    <2> QED
        BY <2>2, <2>3
<1> QED
    BY <1>1, <1>2

(* ... the start of the drag, of the element that it begins at;              *)
LEMMA TargetedIs ==
    /\ Targeted(Plain) = BegunOnce
    /\ Targeted(Chosen) = BegunKept
    /\ Targeted(Leaving) = BegunTwice
BY DEF Targeted, Plain, Chosen, Leaving, BegunOnce, BegunKept, BegunTwice

(* ... a move of the mouse, of an element that the lasso hits                 *)
LEMMA HitIs ==
    /\ Hit(Plain) = Picked /\ Hit(Picked) = Picked /\ Hit(BegunOnce) = Picked
    /\ \A s \in {Chosen, Leaving, PickedTwice, BegunTwice, BegunKept} : Hit(s) = PickedTwice
<1>1. Hit(Plain) = Picked /\ Hit(Picked) = Picked /\ Hit(BegunOnce) = Picked
    BY DEF Hit, Plain, Picked, BegunOnce
<1>2. Hit(Chosen) = PickedTwice /\ Hit(Leaving) = PickedTwice
    BY DEF Hit, Chosen, Leaving, PickedTwice
<1>3. Hit(PickedTwice) = PickedTwice
    BY DEF Hit, PickedTwice
<1>4. Hit(BegunTwice) = PickedTwice /\ Hit(BegunKept) = PickedTwice
    BY DEF Hit, PickedTwice, BegunTwice, BegunKept
<1> QED
    BY <1>1, <1>2, <1>3, <1>4

(* ... and of one that it does not hit;                                       *)
LEMMA MissedIs ==
    ASSUME NEW meta \in BOOLEAN
    PROVE  /\ Missed(Plain, meta) = Plain /\ Missed(Picked, meta) = Plain
           /\ Missed(Chosen, meta) = Chosen /\ Missed(Leaving, meta) = Leaving
           /\ Missed(PickedTwice, meta) = IF meta THEN Chosen ELSE Leaving
BY DEF Missed, Unselected, Released, Plain, Picked, Chosen, Leaving, PickedTwice

(* ... and the end of the drag.                                               *)
LEMMA StoppedIs ==
    /\ LassoEnded(Plain) = Plain /\ LassoEnded(Leaving) = Plain
    /\ \A s \in {Chosen, Picked, PickedTwice, BegunOnce, BegunTwice, BegunKept} : LassoEnded(s) = Chosen
BY DEF LassoEnded, Plain, Picked, BegunOnce, Chosen, Leaving, PickedTwice, BegunTwice, BegunKept

(* Two marks tell the kinds apart.                                            *)
LEMMA MarksTell ==
    /\ \A s \in {Plain, Leaving, Picked, PickedTwice, BegunOnce, BegunTwice} : "selected" \notin s.class
    /\ "selected" \in Chosen.class /\ "selected" \in BegunKept.class
    /\ \A s \in {Plain, Chosen, Leaving} : "selecting" \notin s.class
    /\ \A s \in {Picked, PickedTwice, BegunOnce, BegunTwice, BegunKept} : "selecting" \in s.class
    /\ "unselecting" \in Leaving.class
    /\ \A s \in {Plain, Chosen, Picked, PickedTwice, BegunOnce, BegunTwice, BegunKept} :
           "unselecting" \notin s.class
    /\ Plain.class = {} /\ Chosen.class = {"selected"} /\ Plain # Chosen
BY DEF Plain, Picked, BegunOnce, Chosen, Leaving, PickedTwice, BegunTwice, BegunKept

(* When the mouse is up the page has been told of what is selected, and what   *)
(* is selected is what the last event of the drag hit and, as far as the meta  *)
(* key was held, what was selected before.                                    *)
THEOREM SelectionTold == SelectableSpec => []SelectionIsTold
<1>1. SelectableInit => SelectableInv
    BY MarksTell DEF SelectableInit, SelectableInv, Resting, With, Plain
<1>2. SelectableInv /\ [SelectableNext]_selectVars => SelectableInv'
    <2> SUFFICES ASSUME SelectableInv, [SelectableNext]_selectVars PROVE SelectableInv'
        OBVIOUS
    <2>1. ASSUME NEW t \in Selectees \cup {NoSelectee}, NEW meta \in BOOLEAN,
                 StartLasso(t, meta)
          PROVE  SelectableInv'
        <3> DEFINE Fresh(e) == IF AutoRefresh THEN Refreshed(selectee[e]) ELSE selectee[e]
        <3>1. /\ lasso' = TRUE /\ ~lasso /\ origin' = {t} \ {NoSelectee} /\ hits' = origin'
              /\ before' = With("selected") /\ metaKeys' = {meta} /\ heard' = heard
              /\ DOMAIN selectee' = Selectees
              /\ \A e \in Selectees : selectee'[e] = IF e = t THEN Targeted(Started(Fresh(e), meta))
                                                     ELSE Started(Fresh(e), meta)
            BY <2>1 DEF StartLasso
        <3>2. /\ heard = With("selected") /\ \A e \in Selectees : Resting(e)
              /\ With("selected") \subseteq Selectees /\ hits' \subseteq Selectees
            BY <3>1 DEF SelectableInv, With
        <3>3. ASSUME NEW e \in Selectees PROVE Dragging(e)'
            <4>1. selectee[e] \in {Plain, Chosen}
                BY <3>2 DEF Resting
            <4>2. Started(Fresh(e), meta) = IF selectee[e] = Plain THEN Plain
                                           ELSE IF meta THEN Chosen ELSE Leaving
                BY <4>1, StartedIs
            <4>3. e \in before' <=> selectee[e] = Chosen
                BY <3>1, <4>1, MarksTell DEF With
            <4>4. e \in hits' <=> e = t
                BY <3>1, SelectableAssumption
            <4>5. selectee'[e] = IF e = t THEN Targeted(Started(Fresh(e), meta))
                                 ELSE Started(Fresh(e), meta)
                BY <3>1
            <4> HIDE DEF Fresh
            <4>6. CASE selectee[e] = Plain
                BY <3>1, <4>2, <4>3, <4>4, <4>5, <4>6, TargetedIs, MarksTell DEF Dragging
            <4>7. CASE selectee[e] = Chosen
                <5>1. selectee[e] # Plain /\ e \in before'
                    BY <4>3, <4>7, MarksTell
                <5>2. Started(Fresh(e), meta) = IF meta THEN Chosen ELSE Leaving
                    BY <4>2, <5>1
                <5>3. CASE meta = TRUE
                    BY <3>1, <4>4, <4>5, <5>1, <5>2, <5>3, TargetedIs DEF Dragging
                <5>4. CASE meta = FALSE
                    BY <3>1, <4>4, <4>5, <5>1, <5>2, <5>4, TargetedIs DEF Dragging
                <5> QED
                    BY <5>3, <5>4
            <4> QED
                BY <4>1, <4>6, <4>7
        <3> QED
            BY <3>1, <3>2, <3>3 DEF SelectableInv
    <2>2. ASSUME NEW hit \in SUBSET Selectees, NEW meta \in BOOLEAN, DragLasso(hit, meta)
          PROVE  SelectableInv'
        <3>1. /\ lasso /\ lasso' = lasso /\ heard' = heard /\ before' = before
              /\ origin' = origin /\ origin \subseteq hit
              /\ hits' = hit /\ metaKeys' = metaKeys \cup {meta}
              /\ DOMAIN selectee' = Selectees
              /\ \A e \in Selectees : selectee'[e] = IF e \in hit THEN Hit(selectee[e])
                                                     ELSE Missed(selectee[e], meta)
            BY <2>2 DEF DragLasso
        <3>2. ASSUME NEW e \in Selectees PROVE Dragging(e)'
            <4>1. Dragging(e)
                BY <3>1 DEF SelectableInv
            <4>2. CASE e \in hit
                BY <3>1, <4>1, <4>2, HitIs DEF Dragging
            <4>3. CASE e \notin hit
                <5>1. e \notin origin /\ selectee'[e] = Missed(selectee[e], meta)
                    BY <3>1, <4>3
                <5>2. CASE meta = TRUE
                    BY <3>1, <4>1, <4>3, <5>1, <5>2, MissedIs DEF Dragging
                <5>3. CASE meta = FALSE
                    BY <3>1, <4>1, <4>3, <5>1, <5>3, MissedIs DEF Dragging
                <5> QED
                    BY <5>2, <5>3
            <4> QED
                BY <4>2, <4>3
        <3> QED
            BY <3>1, <3>2 DEF SelectableInv
    <2>3. CASE StopLasso
        <3>1. /\ lasso /\ lasso' = FALSE
              /\ heard' = (heard \ With("unselecting")) \cup With("selecting")
              /\ UNCHANGED <<before, origin, hits, metaKeys>>
              /\ DOMAIN selectee' = Selectees
              /\ \A e \in Selectees : selectee'[e] = LassoEnded(selectee[e])
            BY <2>3 DEF StopLasso
        <3>2. /\ heard = before /\ \A e \in Selectees : Dragging(e)
              /\ before \subseteq Selectees
            BY <3>1 DEF SelectableInv
        <3>3. ASSUME NEW e \in Selectees
              PROVE  Resting(e)' /\ (e \in heard' <=> "selected" \in selectee'[e].class)
            <4>1. Dragging(e) /\ selectee'[e] = LassoEnded(selectee[e])
                BY <3>1, <3>2
            <4>2. e \in heard' <=> \/ e \in before /\ "unselecting" \notin selectee[e].class
                                   \/ "selecting" \in selectee[e].class
                BY <3>1, <3>2 DEF With
            <4>3. Resting(e)'
                <5>1. CASE selectee[e] \in {Plain, Leaving} /\ e \notin hits
                              /\ (e \in before => FALSE \in metaKeys)
                    BY <3>1, <4>1, <5>1, StoppedIs DEF Resting
                <5>2. CASE selectee[e] = Chosen /\ e \in before /\ TRUE \in metaKeys
                    BY <3>1, <4>1, <5>2, StoppedIs DEF Resting
                <5>3. CASE selectee[e] \in {Picked, PickedTwice, BegunOnce, BegunTwice, BegunKept}
                              /\ e \in hits
                    BY <3>1, <4>1, <5>3, StoppedIs DEF Resting
                <5> QED
                    BY <4>1, <5>1, <5>2, <5>3 DEF Dragging
            <4>4. e \in heard' <=> "selected" \in selectee'[e].class
                BY <4>1, <4>2, StoppedIs, MarksTell DEF Dragging
            <4> QED
                BY <4>3, <4>4
        <3>4. heard' \subseteq Selectees
            BY <3>1, <3>2 DEF With
        <3> QED
            BY <3>1, <3>2, <3>3, <3>4 DEF SelectableInv, With
    <2>4. CASE UNCHANGED selectVars
        <3>1. /\ selectee' = selectee /\ lasso' = lasso /\ heard' = heard /\ before' = before
              /\ origin' = origin /\ hits' = hits /\ metaKeys' = metaKeys
            BY <2>4 DEF selectVars
        <3>2. /\ \A e : Dragging(e)' <=> Dragging(e)
              /\ \A e : Resting(e)' <=> Resting(e)
            BY <3>1 DEF Dragging, Resting
        <3>3. With("selected")' = With("selected")
            BY <3>1 DEF With
        <3> QED
            BY <3>1, <3>2, <3>3 DEF SelectableInv
    <2> QED
        BY <2>1, <2>2, <2>3, <2>4 DEF SelectableNext
<1>3. SelectableInv => SelectionIsTold
    <2> SUFFICES ASSUME SelectableInv, ~lasso PROVE SelectionIsTold
        BY DEF SelectionIsTold
    <2>1. heard = With("selected") /\ \A e \in Selectees : Resting(e)
        BY DEF SelectableInv
    <2>2. \A e \in Selectees : selectee[e].class \subseteq {"selected"}
        BY <2>1, MarksTell DEF Resting
    <2>3. ASSUME metaKeys = {FALSE} PROVE With("selected") = hits
        BY <2>1, <2>3, MarksTell DEF Resting, With, SelectableInv
    <2>4. ASSUME metaKeys = {TRUE} PROVE With("selected") = before \cup hits
        BY <2>1, <2>4, MarksTell DEF Resting, With, SelectableInv
    <2> QED
        BY <2>1, <2>2, <2>3, <2>4 DEF SelectionIsTold
<1> QED
    BY <1>1, <1>2, <1>3, PTL DEF SelectableSpec

-----------------------------------------------------------------------------
(* The dialogs.                                                              *)

(* Numbers that are given to finitely many things have a greatest one.        *)
LEMMA GreatestExists ==
    ASSUME NEW S, IsFiniteSet(S), S # {}, NEW f, \A x \in S : f[x] \in Nat
    PROVE  \E x \in S : \A y \in S : f[x] >= f[y]
<1> DEFINE Topped(T) == \E x \in T : \A y \in T : f[x] >= f[y]
           Bare == {T \in SUBSET S : T # {} /\ ~Topped(T)}
<1> SUFFICES ASSUME Bare # {} PROVE FALSE
    BY DEF Bare
<1>1. IsWellFoundedOn(StrictSubsetOrdering(S), FiniteSubsetsOf(S))
    BY FS_StrictSubsetOrderingWellFounded
<1>2. Bare \subseteq FiniteSubsetsOf(S)
    BY FS_Subset DEF FiniteSubsetsOf
<1>3. PICK T \in Bare : \A U \in Bare : <<U, T>> \notin StrictSubsetOrdering(S)
    <2> HIDE DEF Bare
    <2> QED
        BY <1>1, <1>2, WFMin
<1>4. PICK x \in T : TRUE
    BY <1>3
<1>5. <<T \ {x}, T>> \in StrictSubsetOrdering(S)
    BY <1>3, <1>4 DEF StrictSubsetOrdering
<1>6. T \ {x} \notin Bare
    BY <1>3, <1>5
<1>7. CASE T \ {x} = {}
    BY <1>3, <1>4, <1>7
<1>8. CASE Topped(T \ {x})
    <2>1. PICK w \in T \ {x} : \A y \in T \ {x} : f[w] >= f[y]
        BY <1>8
    <2>2. \A y \in T : f[y] \in Nat
        BY <1>3
    <2>3. CASE f[w] >= f[x]
        BY <1>3, <2>1, <2>2, <2>3
    <2>4. CASE f[x] >= f[w]
        <3>1. \A y \in T : f[x] >= f[y]
            BY <1>4, <2>1, <2>2, <2>4
        <3> QED
            BY <1>3, <1>4, <3>1
    <2> QED
        BY <1>4, <2>1, <2>2, <2>3, <2>4
<1> QED
    BY <1>3, <1>6, <1>7, <1>8

(* What Max is, where a set has a greatest number.                            *)
LEMMA MaxIs ==
    ASSUME NEW S, NEW m \in S, \A y \in S : m >= y
    PROVE  Max(S) \in S /\ \A y \in S : Max(S) >= y
BY DEF Max

(* The greater one of two numbers.                                            *)
LEMMA MaxOfTwo ==
    ASSUME NEW a \in Nat, NEW b \in Nat
    PROVE  Max({a, b}) \in Nat /\ Max({a, b}) >= a /\ Max({a, b}) >= b
<1>1. CASE a >= b
    BY <1>1, MaxIs
<1>2. CASE b >= a
    BY <1>2, MaxIs
<1> QED
    BY <1>1, <1>2

(* The greatest of 0 and the numbers that are given to finitely many things.   *)
LEMMA MaxWithZero ==
    ASSUME NEW S, IsFiniteSet(S), NEW f, \A x \in S : f[x] \in Nat,
           NEW T, T = {f[x] : x \in S} \cup {0}
    PROVE  Max(T) \in Nat /\ Max(T) \in T /\ \A x \in S : f[x] <= Max(T)
<1>1. \A y \in T : y \in Nat
    OBVIOUS
<1>2. \E m \in T : \A y \in T : m >= y
    <2>1. CASE S = {}
        BY <2>1
    <2>2. CASE S # {}
        <3>1. PICK x \in S : \A y \in S : f[x] >= f[y]
            BY <2>2, GreatestExists
        <3> QED
            BY <3>1
    <2> QED
        BY <2>1, <2>2
<1>3. Max(T) \in T /\ \A y \in T : Max(T) >= y
    BY <1>2, MaxIs
<1> QED
    BY <1>1, <1>3

(* A list without its last element.                                           *)
LEMMA FrontIs ==
    ASSUME NEW list \in Seq(Nat), list # <<>>
    PROVE  /\ Front(list) \in Seq(Nat) /\ Len(Front(list)) = Len(list) - 1
           /\ \A i \in 1..Len(Front(list)) : Front(list)[i] = list[i]
<1>1. PICK n \in Nat : n + 1 = Len(list) /\ \A i \in 1..n : list[i] \in Nat
    <2>1. Len(list) - 1 \in Nat /\ Len(list) - 1 + 1 = Len(list)
        OBVIOUS
    <2>2. \A i \in 1..Len(list) - 1 : list[i] \in Nat
        OBVIOUS
    <2> QED
        BY <2>1, <2>2
<1>2. 1 \in Int /\ n \in Int /\ Len(list) - 1 = n
    <2>1. n + 1 - 1 = n
        OBVIOUS
    <2> QED
        BY <1>1, <2>1
<1>3. Front(list) = SubSeq(list, 1, n)
    BY <1>2 DEF Front
<1>4. /\ SubSeq(list, 1, n) \in Seq(Nat)
      /\ Len(SubSeq(list, 1, n)) = IF 1 <= n THEN n - 1 + 1 ELSE 0
      /\ \A i \in 1 .. n - 1 + 1 : SubSeq(list, 1, n)[i] = list[1 + i - 1]
    BY <1>1, <1>2, SubSeqProperties
<1> HIDE DEF Front
<1> DEFINE short == SubSeq(list, 1, n)
<1> HIDE DEF short
<1>5. /\ short \in Seq(Nat) /\ Len(short) = IF 1 <= n THEN n - 1 + 1 ELSE 0
      /\ \A i \in 1 .. n - 1 + 1 : short[i] = list[1 + i - 1]
    BY <1>4 DEF short
<1>6. Len(short) = n /\ \A i \in 1..n : short[i] = list[i]
    BY <1>5
<1> QED
    BY <1>2, <1>3, <1>5, <1>6 DEF short

(* A list that an element was added to and taken from is what it was.         *)
LEMMA FrontOfAppend ==
    ASSUME NEW list \in Seq(Nat), NEW n \in Nat
    PROVE  Front(Append(list, n)) = list
<1> DEFINE longer == Append(list, n)
<1>1. /\ longer \in Seq(Nat) /\ longer # <<>> /\ Len(longer) = Len(list) + 1
      /\ \A i \in 1..Len(list) : longer[i] = list[i]
    BY AppendProperties
<1>2. Len(list) \in Nat
    OBVIOUS
<1> HIDE DEF longer
<1>3. /\ Front(longer) \in Seq(Nat) /\ Len(Front(longer)) = Len(list)
      /\ \A i \in 1..Len(list) : Front(longer)[i] = list[i]
    <2>1. Len(longer) - 1 = Len(list)
        BY <1>1, <1>2
    <2>2. /\ Front(longer) \in Seq(Nat) /\ Len(Front(longer)) = Len(longer) - 1
          /\ \A i \in 1..Len(longer) - 1 : Front(longer)[i] = longer[i]
        BY <1>1, FrontIs
    <2> QED
        BY <1>1, <2>1, <2>2
<1>4. Front(longer) = list
    BY <1>2, <1>3, SeqEqual
<1> QED
    BY <1>4 DEF longer

-----------------------------------------------------------------------------
(* What the records of the dialogs hold.                                      *)
States == [open : SUBSET Dialogs, z : [Dialogs -> Nat], overlays : SUBSET Modal,
           instances : Seq(Nat), overlayMaxZ : Nat, maxZ : Nat, binding : Nat,
           blocking : BOOLEAN, onEscape : Dialogs \cup {NoDialog}]

(* The open modal dialogs above a height.                                     *)
Above(s, height) == {e \in s.open \cap Modal : s.z[e] > height}

(* An open dialog is not above the counter that the next one is put above; an  *)
(* overlay has as many open modal dialogs above it as there are overlays from  *)
(* it to the end of the list, whichever dialogs they were made for.            *)
Heights(s) ==
    /\ s.open \cap Modal \subseteq s.overlays
    /\ \A e \in s.open : s.z[e] > 0 /\ (s.z[e] <= s.maxZ \/ s.z[e] <= BaseZ)
Covered(s) ==
    \A j \in 1..Len(s.instances) :
        Cardinality(Above(s, s.instances[j])) >= Len(s.instances) - j + 1
Blocks(s) ==
    /\ s.overlayMaxZ \in {0} \cup ToSet(s.instances)
    /\ s.blocking => s.instances # <<>>
Good(s) == s \in States /\ Heights(s) /\ Covered(s) /\ Blocks(s)

(* The dialogs above a height can be counted.                                 *)
LEMMA AboveIsFinite ==
    ASSUME NEW s, NEW height
    PROVE  IsFiniteSet(Above(s, height)) /\ Cardinality(Above(s, height)) \in Nat
<1>1. Above(s, height) \in SUBSET Dialogs
    BY DialogAssumption DEF Above
<1> QED
    BY <1>1, DialogAssumption, FS_Subset, FS_CardinalityType

(* A count above 0 means that there is one.                                   *)
LEMMA NonEmptyAbove ==
    ASSUME NEW s, NEW height
    PROVE  /\ Above(s, height) # {} => Cardinality(Above(s, height)) >= 1
           /\ Cardinality(Above(s, height)) >= 1 => Above(s, height) # {}
<1>1. IsFiniteSet(Above(s, height)) /\ Cardinality(Above(s, height)) \in Nat
    BY AboveIsFinite
<1>2. Cardinality(Above(s, height)) = 0 <=> Above(s, height) = {}
    BY <1>1, FS_EmptySet
<1> QED
    BY <1>1, <1>2

(* What create changes.                                                       *)
LEMMA CreateIs ==
    ASSUME NEW s \in States, NEW d \in Modal
    PROVE  LET c == Create(s, d) IN
           /\ c \in States /\ Front(c.instances) = s.instances
           /\ c.overlays = s.overlays \cup {d} /\ c.open = s.open /\ c.z = s.z
           /\ c.maxZ = s.maxZ /\ c.blocking = s.blocking
<1>0. /\ s.instances \in Seq(Nat) /\ 0 \in Nat
      /\ Front(Append(s.instances, 0)) = s.instances
    <2>1. s.instances \in Seq(Nat) /\ 0 \in Nat
        BY DEF States
    <2> QED
        BY <2>1, FrontOfAppend, Zenon
<1> DEFINE longer == Append(s.instances, 0)
<1> DEFINE added == [s EXCEPT !.instances = longer,
                              !.overlays = s.overlays \cup {d}]
<1>1. /\ longer \in Seq(Nat) /\ s.overlays \cup {d} \in SUBSET Modal
      /\ s.binding + 1 \in Nat /\ d \in Dialogs /\ Front(longer) = s.instances
    BY <1>0, DialogAssumption DEF States
<1>2. CASE s.instances = <<>>
    <2>1. Create(s, d) = [added EXCEPT !.binding = s.binding + 1, !.onEscape = d]
        BY <1>2 DEF Create, States
    <2> HIDE DEF longer
    <2> QED
        BY <1>1, <2>1 DEF States
<1>3. CASE s.instances # <<>>
    <2>1. Create(s, d) = added
        BY <1>3 DEF Create, States
    <2> HIDE DEF longer
    <2> QED
        BY <1>1, <2>1 DEF States
<1> QED
    BY <1>2, <1>3

(* moveToTop of a dialog with an overlay, which goes to the top with it,       *)
LEMMA OverlaidIs ==
    ASSUME NEW s \in States, NEW d \in Dialogs, d \in s.overlays,
           NEW top \in Nat, top = Max({s.maxZ, BaseZ}),
           NEW front \in Seq(Nat), front = Front(s.instances)
    PROVE  LET t == MoveToTop(s, d) IN
           /\ t \in States
           /\ t.open = s.open /\ t.overlays = s.overlays /\ t.blocking = s.blocking
           /\ t.overlayMaxZ = top + 1
           /\ t.maxZ = top + 2
           /\ t.z[d] = top + 2 /\ \A e \in Dialogs \ {d} : t.z[e] = s.z[e]
           /\ Len(t.instances) = Len(front) + 1 /\ t.instances[Len(front) + 1] = top + 1
           /\ \A j \in 1..Len(front) : t.instances[j] = front[j]
<1> DEFINE list == Append(front, top + 1)
<1>1. /\ top + 1 \in Nat /\ top + 2 \in Nat
      /\ [s.z EXCEPT ![d] = top + 2] \in [Dialogs -> Nat]
      /\ s.z \in [Dialogs -> Nat]
    BY DEF States
<1>2. /\ list \in Seq(Nat) /\ Len(list) = Len(front) + 1 /\ list[Len(front) + 1] = top + 1
      /\ \A j \in 1..Len(front) : list[j] = front[j]
    BY <1>1, AppendProperties
<1>3. MoveToTop(s, d) = [s EXCEPT !.instances = list, !.overlayMaxZ = top + 1,
                                  !.z = [s.z EXCEPT ![d] = top + 2], !.maxZ = top + 2]
    BY DEF MoveToTop, States
<1> HIDE DEF list
<1> DEFINE t == [s EXCEPT !.instances = list, !.overlayMaxZ = top + 1,
                          !.z = [s.z EXCEPT ![d] = top + 2], !.maxZ = top + 2]
<1>4. t \in States
    BY <1>1, <1>2 DEF States
<1>5. /\ t.open = s.open /\ t.overlays = s.overlays /\ t.blocking = s.blocking
      /\ t.overlayMaxZ = top + 1 /\ t.maxZ = top + 2 /\ t.instances = list
      /\ t.z = [s.z EXCEPT ![d] = top + 2]
    BY <1>1, <1>2 DEF States
<1>6. t.z[d] = top + 2 /\ \A e \in Dialogs \ {d} : t.z[e] = s.z[e]
    BY <1>1, <1>5
<1> HIDE DEF t
<1> QED
    BY <1>2, <1>3, <1>4, <1>5, <1>6 DEF t

(* and of a dialog without one.                                               *)
LEMMA BareIs ==
    ASSUME NEW s \in States, NEW d \in Dialogs, d \notin s.overlays,
           NEW top \in Nat, top = Max({s.maxZ, BaseZ})
    PROVE  LET t == MoveToTop(s, d) IN
           /\ t \in States
           /\ t.open = s.open /\ t.overlays = s.overlays /\ t.blocking = s.blocking
           /\ t.instances = s.instances /\ t.overlayMaxZ = s.overlayMaxZ
           /\ t.maxZ = top + 1
           /\ t.z[d] = top + 1 /\ \A e \in Dialogs \ {d} : t.z[e] = s.z[e]
<1>1. top + 1 \in Nat /\ [s.z EXCEPT ![d] = top + 1] \in [Dialogs -> Nat]
      /\ s.z \in [Dialogs -> Nat]
    BY DEF States
<1>2. MoveToTop(s, d) = [s EXCEPT !.z = [s.z EXCEPT ![d] = top + 1], !.maxZ = top + 1]
    BY DEF MoveToTop, States
<1> DEFINE heights == [s.z EXCEPT ![d] = top + 1]
           t == [s EXCEPT !.z = heights, !.maxZ = top + 1]
<1>3. heights[d] = top + 1 /\ \A e \in Dialogs \ {d} : heights[e] = s.z[e]
    BY <1>1
<1>4. MoveToTop(s, d) = t
    BY <1>2
<1> HIDE DEF heights
<1>5. heights \in [Dialogs -> Nat]
    BY <1>1 DEF heights
<1>6. t \in States
    BY <1>1, <1>5 DEF States
<1>7. /\ t.open = s.open /\ t.overlays = s.overlays /\ t.blocking = s.blocking
      /\ t.instances = s.instances /\ t.overlayMaxZ = s.overlayMaxZ
      /\ t.maxZ = top + 1 /\ t.z = heights
    BY DEF States
<1> HIDE DEF t
<1> QED
    BY <1>3, <1>4, <1>6, <1>7

(* The last step of open.                                                     *)
Opened(m, d) == [m EXCEPT !.open = @ \cup {d}]

(* It adds a dialog to the open ones and nothing else.                        *)
LEMMA OpenAdds ==
    ASSUME NEW m \in States, NEW d \in Dialogs
    PROVE  LET t == Opened(m, d) IN
           /\ t \in States /\ t.open = m.open \cup {d}
           /\ t.overlays = m.overlays /\ t.blocking = m.blocking /\ t.instances = m.instances
           /\ t.overlayMaxZ = m.overlayMaxZ /\ t.z = m.z /\ t.maxZ = m.maxZ
BY DEF Opened, States

(* The height that the next dialog is put above.                             *)
LEMMA TopIs ==
    ASSUME NEW s \in States
    PROVE  LET top == Max({s.maxZ, BaseZ}) IN top \in Nat /\ top >= s.maxZ /\ top >= BaseZ
<1>1. s.maxZ \in Nat /\ BaseZ \in Nat
    BY DialogAssumption DEF States
<1> QED
    BY <1>1, MaxOfTwo

(* A dialog that opens.                                                      *)
LEMMA OpenedIsGood ==
    ASSUME NEW s, Good(s), NEW d \in Dialogs, d \notin s.open,
           NEW c, d \in Modal => c = Create(s, d), d \notin Modal => c = s,
           NEW m, m = MoveToTop(c, d), NEW t, t = Opened(m, d)
    PROVE  Good(t)
<1>1. PICK top \in Nat : top = Max({s.maxZ, BaseZ}) /\ top >= s.maxZ /\ top >= BaseZ
    BY TopIs DEF Good
<1>2. /\ s \in States /\ s.instances \in Seq(Nat) /\ s.open \subseteq Dialogs
      /\ s.z \in [Dialogs -> Nat] /\ s.overlays \subseteq Modal /\ s.maxZ \in Nat /\ BaseZ \in Nat
    BY DialogAssumption DEF Good, States
<1>5. /\ s.open \cap Modal \subseteq s.overlays
      /\ \A e \in s.open :
             s.z[e] \in Nat /\ s.z[e] > 0 /\ (s.z[e] <= s.maxZ \/ s.z[e] <= BaseZ)
    BY <1>2 DEF Good, Heights
<1>6. \A j \in 1..Len(s.instances) :
          Cardinality(Above(s, s.instances[j])) >= Len(s.instances) - j + 1
    BY DEF Good, Covered
<1>3. CASE d \in Modal
    <2>1. /\ c \in States /\ Front(c.instances) = s.instances
          /\ c.overlays = s.overlays \cup {d} /\ c.open = s.open /\ c.z = s.z
          /\ c.maxZ = s.maxZ /\ c.blocking = s.blocking
        BY <1>2, <1>3, CreateIs
    <2>2. d \in c.overlays /\ top = Max({c.maxZ, BaseZ})
        BY <1>1, <2>1
    <2>3. /\ m \in States /\ m.open = s.open /\ m.overlays = s.overlays \cup {d}
          /\ m.blocking = s.blocking /\ m.overlayMaxZ = top + 1
          /\ m.maxZ = top + 2 /\ m.z[d] = top + 2 /\ \A e \in Dialogs \ {d} : m.z[e] = s.z[e]
          /\ Len(m.instances) = Len(s.instances) + 1
          /\ m.instances[Len(s.instances) + 1] = top + 1
          /\ \A j \in 1..Len(s.instances) : m.instances[j] = s.instances[j]
        <3>1. PICK front \in Seq(Nat) : front = s.instances /\ front = Front(c.instances)
            BY <1>2, <2>1
        <3>2. /\ m \in States /\ m.open = c.open /\ m.overlays = c.overlays
              /\ m.blocking = c.blocking /\ m.overlayMaxZ = top + 1 /\ m.maxZ = top + 2
            BY <2>1, <2>2, <3>1, OverlaidIs
        <3>3. m.z[d] = top + 2 /\ \A e \in Dialogs \ {d} : m.z[e] = c.z[e]
            BY <2>1, <2>2, <3>1, OverlaidIs
        <3>4. Len(m.instances) = Len(front) + 1 /\ m.instances[Len(front) + 1] = top + 1
            BY <2>1, <2>2, <3>1, OverlaidIs
        <3>5. \A j \in 1..Len(front) : m.instances[j] = front[j]
            BY <2>1, <2>2, <3>1, OverlaidIs
        <3> QED
            BY <2>1, <3>1, <3>2, <3>3, <3>4, <3>5
    <2>4. /\ t.overlayMaxZ = top + 1 /\ t.maxZ = top + 2 /\ t.z[d] = top + 2 /\ \A e \in Dialogs \ {d} : t.z[e] = s.z[e]
          /\ t.open = s.open \cup {d} /\ t.overlays = s.overlays \cup {d}
          /\ t.blocking = s.blocking /\ t \in States /\ t.instances = m.instances
        BY <2>3, OpenAdds
    <2>5. Heights(t)
        <3>1. t.open \cap Modal \subseteq t.overlays
            BY <1>5, <2>4
        <3>2. ASSUME NEW e \in s.open
              PROVE  t.z[e] > 0 /\ (t.z[e] <= t.maxZ \/ t.z[e] <= BaseZ)
            <4>1. t.z[e] = s.z[e] /\ t.maxZ \in Nat /\ t.maxZ >= top
                BY <1>2, <2>4
            <4> QED
                BY <1>1, <1>2, <1>5, <4>1
        <3>3. t.z[d] = t.maxZ /\ t.z[d] > 0 /\ t.maxZ \in Nat
            BY <1>2, <2>4
        <3> QED
            BY <2>4, <3>1, <3>2, <3>3 DEF Heights
    <2>6. /\ Len(t.instances) = Len(s.instances) + 1 /\ Len(s.instances) \in Nat
          /\ t.instances[Len(s.instances) + 1] = top + 1
          /\ \A j \in 1..Len(s.instances) : t.instances[j] = s.instances[j]
        BY <1>2, <2>3, <2>4
    <2>7. ASSUME NEW j \in 1..Len(s.instances)
          PROVE  Cardinality(Above(t, t.instances[j])) >= Len(t.instances) - j + 1
        <3>1. PICK h \in Nat : /\ h = s.instances[j] /\ h = t.instances[j]
                               /\ Cardinality(Above(s, h)) >= Len(s.instances) - j + 1
            <4>1. s.instances[j] \in Nat
                BY <1>2
            <4> QED
                BY <1>6, <2>6, <4>1
        <3>2. IsFiniteSet(Above(s, h)) /\ Cardinality(Above(s, h)) \in Nat
            BY AboveIsFinite
        <3>3. Cardinality(Above(s, h)) >= 1
            BY <2>6, <3>1, <3>2
        <3>4. PICK e \in s.open \cap Modal : s.z[e] > h
            BY <3>3, NonEmptyAbove DEF Above
        <3>5. s.z[e] \in Nat /\ (s.z[e] <= s.maxZ \/ s.z[e] <= BaseZ)
            BY <1>2, <3>4 DEF Good, Heights
        <3>6. h < top + 2
            <4>1. s.z[e] > h
                BY <3>4
            <4>2. s.z[e] <= top
                BY <1>1, <1>2, <3>5
            <4> QED
                BY <3>5, <4>1, <4>2
        <3>7. Above(t, h) = Above(s, h) \cup {d} /\ d \notin Above(s, h)
            <4>1. d \notin Above(s, h)
                BY DEF Above
            <4>2. \A e1 \in s.open \cap Modal : t.z[e1] = s.z[e1]
                BY <1>2, <2>4
            <4>3. t.z[d] > h
                BY <1>2, <2>4, <3>6
            <4> QED
                BY <1>3, <2>4, <4>1, <4>2, <4>3 DEF Above
        <3>8. Cardinality(Above(t, h)) = Cardinality(Above(s, h)) + 1
            BY <3>2, <3>7, FS_AddElement
        <3> QED
            BY <2>6, <3>1, <3>2, <3>8
    <2>8. Cardinality(Above(t, top + 1)) >= 1
        <3>1. d \in Above(t, top + 1)
            <4>1. t.z[d] = top + 2
                BY <1>2, <2>4
            <4> QED
                BY <1>3, <2>4, <4>1 DEF Above
        <3> QED
            BY <3>1, NonEmptyAbove
    <2>9. Covered(t)
        <3>1. \A j \in 1..Len(t.instances) : j \in 1..Len(s.instances) \/ j = Len(s.instances) + 1
            BY <2>6
        <3>2. Len(t.instances) - (Len(s.instances) + 1) + 1 = 1
            BY <2>6
        <3> QED
            BY <2>6, <2>7, <2>8, <3>1, <3>2 DEF Covered
    <2>10. Blocks(t)
        <3>1. t.overlayMaxZ \in ToSet(t.instances) /\ t.instances # <<>>
            BY <2>4, <2>6 DEF ToSet
        <3> QED
            BY <3>1 DEF Blocks
    <2> QED
        BY <2>4, <2>5, <2>9, <2>10 DEF Good
<1>4. CASE d \notin Modal
    <2>1. /\ m \in States /\ m.open = s.open /\ m.overlays = s.overlays
          /\ m.blocking = s.blocking
          /\ m.instances = s.instances /\ m.overlayMaxZ = s.overlayMaxZ
          /\ m.maxZ = top + 1 /\ m.z[d] = top + 1 /\ \A e \in Dialogs \ {d} : m.z[e] = s.z[e]
        <3>1. d \notin s.overlays /\ c = s
            BY <1>2, <1>4
        <3> QED
            BY <1>1, <1>2, <3>1, BareIs
    <2>2. /\ t.instances = s.instances /\ t.overlayMaxZ = s.overlayMaxZ
          /\ t.maxZ = top + 1 /\ t.z[d] = top + 1 /\ \A e \in Dialogs \ {d} : t.z[e] = s.z[e]
          /\ t.open = s.open \cup {d} /\ t.overlays = s.overlays /\ t.blocking = s.blocking
          /\ t \in States
        BY <2>1, OpenAdds
    <2>3. Heights(t)
        <3>1. t.open \cap Modal \subseteq t.overlays
            BY <1>4, <1>5, <2>2
        <3>2. ASSUME NEW e \in s.open
              PROVE  t.z[e] > 0 /\ (t.z[e] <= t.maxZ \/ t.z[e] <= BaseZ)
            <4>1. t.z[e] = s.z[e] /\ t.maxZ \in Nat /\ t.maxZ >= top
                BY <1>2, <2>2
            <4> QED
                BY <1>1, <1>2, <1>5, <4>1
        <3>3. t.z[d] = t.maxZ /\ t.z[d] > 0 /\ t.maxZ \in Nat
            BY <1>2, <2>2
        <3> QED
            BY <2>2, <3>1, <3>2, <3>3 DEF Heights
    <2>4. \A h : Above(t, h) = Above(s, h)
        BY <1>2, <1>4, <2>2 DEF Above
    <2>5. Covered(t) /\ Blocks(t)
        BY <2>2, <2>4 DEF Good, Covered, Blocks
    <2> QED
        BY <2>2, <2>3, <2>5 DEF Good
<1> QED
    BY <1>3, <1>4

(* A dialog that is not modal, put on top by the mouse.                       *)
LEMMA PressedIsGood ==
    ASSUME NEW s, Good(s), NEW d \in s.open, d \notin Modal, NEW t, t = MoveToTop(s, d)
    PROVE  Good(t)
<1>1. PICK top \in Nat : top = Max({s.maxZ, BaseZ}) /\ top >= s.maxZ /\ top >= BaseZ
    BY TopIs DEF Good
<1>2. /\ s \in States /\ s.open \subseteq Dialogs /\ s.z \in [Dialogs -> Nat]
      /\ s.overlays \subseteq Modal /\ s.maxZ \in Nat /\ s.instances \in Seq(Nat) /\ BaseZ \in Nat
    BY DialogAssumption DEF Good, States
<1>3. /\ t.instances = s.instances /\ t.overlayMaxZ = s.overlayMaxZ
      /\ t.maxZ = top + 1 /\ t.z[d] = top + 1 /\ \A e \in Dialogs \ {d} : t.z[e] = s.z[e]
      /\ t.open = s.open /\ t.overlays = s.overlays /\ t.blocking = s.blocking
      /\ t \in States
    <2>1. d \notin s.overlays
        BY <1>2
    <2> QED
        BY <1>1, <1>2, <2>1, BareIs
<1>4. Heights(t)
    BY <1>1, <1>2, <1>3 DEF Heights, Good
<1>5. \A h : Above(t, h) = Above(s, h)
    BY <1>2, <1>3 DEF Above
<1> QED
    BY <1>3, <1>4, <1>5 DEF Good, Covered, Blocks

(* The last overlay of the list goes.                                         *)
LEMMA DestroyIs ==
    ASSUME NEW s \in States
    PROVE  LET t == Destroy(s) IN
           /\ t \in States /\ Blocks(t)
           /\ t.open = s.open /\ t.overlays = s.overlays /\ t.z = s.z /\ t.maxZ = s.maxZ
           /\ Len(t.instances) = IF s.instances = <<>> THEN 0 ELSE Len(s.instances) - 1
           /\ \A j \in 1..Len(t.instances) : t.instances[j] = s.instances[j]
<1>1. PICK left \in Seq(Nat) :
          /\ left = IF s.instances = <<>> THEN <<>> ELSE Front(s.instances)
          /\ Len(left) = IF s.instances = <<>> THEN 0 ELSE Len(s.instances) - 1
          /\ \A j \in 1..Len(left) : left[j] = s.instances[j]
    <2>1. s.instances \in Seq(Nat)
        BY DEF States
    <2>2. CASE s.instances = <<>>
        <3>1. Len(s.instances) = 0
            BY <2>2
        <3> QED
            <4>1. s.instances = IF s.instances = <<>> THEN <<>> ELSE Front(s.instances)
                BY <2>2, Zenon
            <4>2. Len(s.instances) = IF s.instances = <<>> THEN 0 ELSE Len(s.instances) - 1
                BY <2>2, <3>1, Zenon
            <4> WITNESS s.instances \in Seq(Nat)
            <4> QED
                BY <4>1, <4>2, Zenon
    <2>3. CASE s.instances # <<>>
        <3>1. PICK front : front = Front(s.instances)
            OBVIOUS
        <3>2. /\ front \in Seq(Nat) /\ Len(front) = Len(s.instances) - 1
              /\ \A j \in 1..Len(front) : front[j] = s.instances[j]
            BY <2>1, <2>3, <3>1, FrontIs
        <3> QED
            BY <2>3, <3>1, <3>2, Zenon
    <2> QED
        BY <2>2, <2>3
<1>2. PICK max \in Nat : max = Max({0} \cup ToSet(left)) /\ max \in {0} \cup ToSet(left)
    <2>1. Len(left) \in Nat /\ DOMAIN left = 1..Len(left)
        OBVIOUS
    <2>2. IsFiniteSet(1..Len(left)) /\ \A i \in 1..Len(left) : left[i] \in Nat
        <3>1. 1 \in Int /\ Len(left) \in Int
            BY <2>1
        <3>2. IsFiniteSet(1..Len(left))
            BY <3>1, FS_Interval, Zenon
        <3>3. \A i \in 1..Len(left) : left[i] \in Nat
            OBVIOUS
        <3> QED
            BY <3>2, <3>3
    <2>3. {0} \cup ToSet(left) = {left[i] : i \in 1..Len(left)} \cup {0}
        BY <2>1 DEF ToSet
    <2> DEFINE T == {0} \cup ToSet(left)
    <2> HIDE DEF T
    <2>4. Max(T) \in Nat /\ Max(T) \in T
        BY <2>2, <2>3, MaxWithZero DEF T
    <2> QED
        BY <2>4 DEF T
<1> DEFINE blocks == s.blocking /\ left # <<>>
           escapes == IF left = <<>> THEN NoDialog ELSE s.onEscape
           t == [s EXCEPT !.instances = left, !.overlayMaxZ = max, !.blocking = blocks,
                          !.onEscape = escapes]
<1>3. Destroy(s) = t
    BY <1>1, <1>2 DEF Destroy, States
<1>4. blocks \in BOOLEAN /\ escapes \in Dialogs \cup {NoDialog} /\ (blocks => left # <<>>)
    BY DEF States
<1> HIDE DEF blocks, escapes
<1>5. /\ t \in States /\ t.open = s.open /\ t.overlays = s.overlays /\ t.z = s.z
      /\ t.maxZ = s.maxZ /\ t.instances = left /\ t.overlayMaxZ = max /\ t.blocking = blocks
    BY <1>4 DEF States
<1> HIDE DEF t
<1>6. Blocks(t)
    BY <1>2, <1>4, <1>5 DEF Blocks
<1> QED
    BY <1>1, <1>3, <1>5, <1>6

(* What close does after the overlay is gone: a modal dialog hands the height   *)
(* of the highest of the others on.                                           *)
Shut(c, d) ==
    [c EXCEPT !.open = @ \ {d},
              !.maxZ = IF d \in Modal THEN Max({c.z[e] : e \in Dialogs \ {d}} \cup {0}) ELSE @]

(* The other dialogs are not above the height that is handed on.              *)
LEMMA ShutIs ==
    ASSUME NEW c \in States, NEW d \in Dialogs
    PROVE  LET t == Shut(c, d) IN
           /\ t \in States /\ t.open = c.open \ {d} /\ t.overlays = c.overlays /\ t.z = c.z
           /\ t.instances = c.instances /\ t.overlayMaxZ = c.overlayMaxZ
           /\ t.blocking = c.blocking
           /\ d \notin Modal => t.maxZ = c.maxZ
           /\ d \in Modal => \A e \in Dialogs \ {d} : c.z[e] <= t.maxZ
<1> DEFINE rest == {c.z[e] : e \in Dialogs \ {d}} \cup {0}
           max == IF d \in Modal THEN Max(rest) ELSE c.maxZ
           fewer == c.open \ {d}
           t == [c EXCEPT !.open = fewer, !.maxZ = max]
<1>1. Shut(c, d) = t
    BY DEF Shut, States
<1>2. Max(rest) \in Nat /\ \A e \in Dialogs \ {d} : c.z[e] <= Max(rest)
    <2>1. IsFiniteSet(Dialogs \ {d})
        BY DialogAssumption, FS_Subset
    <2>2. \A e \in Dialogs \ {d} : c.z[e] \in Nat
        BY DEF States
    <2>3. rest = {c.z[e] : e \in Dialogs \ {d}} \cup {0}
        OBVIOUS
    <2> HIDE DEF rest
    <2> QED
        BY <2>1, <2>2, <2>3, MaxWithZero
<1> HIDE DEF rest
<1>3. /\ max \in Nat /\ (d \notin Modal => max = c.maxZ)
      /\ d \in Modal => \A e \in Dialogs \ {d} : c.z[e] <= max
    BY <1>2 DEF States
<1>5. fewer \in SUBSET Dialogs
    BY DEF States
<1> HIDE DEF max, fewer
<1>4. /\ t \in States /\ t.open = fewer /\ t.overlays = c.overlays /\ t.z = c.z
      /\ t.instances = c.instances /\ t.overlayMaxZ = c.overlayMaxZ
      /\ t.blocking = c.blocking /\ t.maxZ = max
    BY <1>3, <1>5 DEF States
<1> HIDE DEF t
<1> QED
    BY <1>1, <1>3, <1>4 DEF fewer

(* A dialog that closes, whether or not it is open.                           *)
LEMMA ClosedIsGood ==
    ASSUME NEW s, Good(s), NEW d \in Dialogs, NEW t, t = Closed(s, d)
    PROVE  Good(t)
<1>1. /\ s \in States /\ s.instances \in Seq(Nat) /\ s.open \subseteq Dialogs
      /\ s.z \in [Dialogs -> Nat] /\ s.overlays \subseteq Modal /\ s.maxZ \in Nat
    BY DEF Good, States
<1>2. /\ s.open \cap Modal \subseteq s.overlays
      /\ \A e \in s.open : s.z[e] > 0 /\ (s.z[e] <= s.maxZ \/ s.z[e] <= BaseZ)
    BY DEF Good, Heights
<1>3. \A j \in 1..Len(s.instances) :
          Cardinality(Above(s, s.instances[j])) >= Len(s.instances) - j + 1
    BY DEF Good, Covered
<1>4. PICK c : c = IF d \in s.overlays THEN Destroy(s) ELSE s
    OBVIOUS
<1>5. t = Shut(c, d)
    BY <1>4 DEF Closed, Shut
<1>6. /\ c \in States /\ Blocks(c)
      /\ c.open = s.open /\ c.overlays = s.overlays /\ c.z = s.z /\ c.maxZ = s.maxZ
    <2>1. CASE d \in s.overlays
        BY <1>1, <1>4, <2>1, DestroyIs
    <2>2. CASE d \notin s.overlays
        BY <1>1, <1>4, <2>2 DEF Good
    <2> QED
        BY <2>1, <2>2
<1>7. /\ t \in States /\ t.open = s.open \ {d} /\ t.overlays = s.overlays /\ t.z = s.z
      /\ t.instances = c.instances /\ t.overlayMaxZ = c.overlayMaxZ
      /\ t.blocking = c.blocking
      /\ d \notin Modal => t.maxZ = s.maxZ
      /\ d \in Modal => \A e \in Dialogs \ {d} : s.z[e] <= t.maxZ
    BY <1>5, <1>6, ShutIs
<1>8. Blocks(t)
    BY <1>6, <1>7 DEF Blocks
<1>9. Heights(t)
    BY <1>1, <1>2, <1>7 DEF Heights
<1>10. Covered(t)
    <2>1. CASE d \in s.overlays
        <3>1. /\ Len(t.instances) = IF s.instances = <<>> THEN 0 ELSE Len(s.instances) - 1
              /\ \A j \in 1..Len(t.instances) : t.instances[j] = s.instances[j]
            BY <1>1, <1>4, <1>7, <2>1, DestroyIs
        <3>2. ASSUME NEW j \in 1..Len(t.instances)
              PROVE  Cardinality(Above(t, t.instances[j])) >= Len(t.instances) - j + 1
            <4>1. PICK h : h = t.instances[j] /\ h = s.instances[j]
                BY <3>1
            <4>2. /\ Len(s.instances) \in Nat /\ Len(t.instances) = Len(s.instances) - 1
                  /\ j \in 1..Len(s.instances)
                BY <1>1, <3>1
            <4>3. Cardinality(Above(s, h)) >= Len(s.instances) - j + 1
                BY <1>3, <4>1, <4>2
            <4>4. Above(t, h) = Above(s, h) \ {d}
                BY <1>7 DEF Above
            <4>5. IsFiniteSet(Above(s, h)) /\ Cardinality(Above(s, h)) \in Nat
                BY AboveIsFinite
            <4>6. Cardinality(Above(t, h)) >= Cardinality(Above(s, h)) - 1
                <5>1. Cardinality(Above(s, h) \ {d}) =
                          IF d \in Above(s, h) THEN Cardinality(Above(s, h)) - 1
                          ELSE Cardinality(Above(s, h))
                    BY <4>5, FS_RemoveElement
                <5> QED
                    BY <4>4, <4>5, <5>1
            <4>7. Cardinality(Above(t, h)) \in Nat
                BY AboveIsFinite
            <4> QED
                BY <4>1, <4>2, <4>3, <4>5, <4>6, <4>7
        <3> QED
            BY <3>2 DEF Covered
    <2>2. CASE d \notin s.overlays
        <3>1. t.instances = s.instances /\ d \notin s.open \cap Modal
            BY <1>2, <1>4, <1>7, <2>2
        <3>2. \A h : Above(t, h) = Above(s, h)
            BY <1>7, <3>1 DEF Above
        <3> QED
            BY <1>3, <3>1, <3>2 DEF Covered
    <2> QED
        BY <2>1, <2>2
<1> QED
    BY <1>7, <1>8, <1>9, <1>10 DEF Good

-----------------------------------------------------------------------------
(* The state after a step is the record that the step computes.               *)
LEMMA NextState ==
    ASSUME NEW t \in States, StateIs(t)
    PROVE  State' = t
BY DEF State, StateIs, States

(* Without an open modal dialog nothing is blocked, and the modal dialog on   *)
(* top is above the height up to which the document blocks: for any number of *)
(* dialogs, although overlays are taken away for one another.                 *)
THEOREM DialogsUsable == DialogSpec => []DialogsAreUsable
<1>1. DialogInit => Good(State)
    <2> SUFFICES ASSUME DialogInit PROVE Good(State)
        OBVIOUS
    <2>1. State \in States
        <3>1. <<>> \in Seq(Nat) /\ [d \in Dialogs |-> BaseZ] \in [Dialogs -> Nat]
            BY DialogAssumption
        <3> QED
            BY <3>1 DEF DialogInit, State, States
    <2>2. /\ State.open = {} /\ State.instances = <<>> /\ State.overlayMaxZ = 0
          /\ State.blocking = FALSE
        BY DEF DialogInit, State
    <2> QED
        BY <2>1, <2>2 DEF Good, Heights, Covered, Blocks
<1>2. Good(State) /\ [DialogNext]_dialogVars => Good(State)'
    <2> SUFFICES ASSUME Good(State), [DialogNext]_dialogVars PROVE Good(State')
        OBVIOUS
    <2>0. State \in States
        BY DEF Good
    <2>1. ASSUME NEW t, Good(t), StateIs(t) PROVE Good(State')
        BY <2>1, NextState DEF Good
    <2>2. ASSUME NEW d \in Dialogs, Open(d) PROVE Good(State')
        <3> DEFINE c == IF d \in Modal THEN Create(State, d) ELSE State
                   m == MoveToTop(c, d)
                   t == Opened(m, d)
        <3>1. d \notin State.open /\ StateIs(t)
            BY <2>2 DEF Open, Opened, State
        <3>2. (d \in Modal => c = Create(State, d)) /\ (d \notin Modal => c = State)
            OBVIOUS
        <3> HIDE DEF c
        <3>3. Good(t)
            BY <3>1, <3>2, OpenedIsGood
        <3> QED
            BY <2>1, <3>1, <3>3
    <2>3. ASSUME NEW d \in Dialogs, CloseDialog(d) PROVE Good(State')
        BY <2>1, <2>3, ClosedIsGood DEF CloseDialog
    <2>4. ASSUME NEW d \in Dialogs, Press(d) PROVE Good(State')
        <3>1. d \in State.open /\ d \notin Modal /\ StateIs(MoveToTop(State, d))
            BY <2>4 DEF Press, State
        <3> QED
            BY <2>1, <3>1, PressedIsGood
    <2>5. CASE PressEscape
        <3>1. ASSUME NEW s, Good(s) PROVE Good(ClosedByDocument(s))
            <4>1. s.onEscape \in Dialogs \cup {NoDialog}
                BY <3>1 DEF Good, States
            <4> QED
                BY <3>1, <4>1, ClosedIsGood DEF ClosedByDocument
        <3>2. ASSUME NEW d \in isOpen, StateIs(ClosedByDocument(Closed(State, d)))
              PROVE  Good(State')
            <4>1. d \in Dialogs
                BY <2>0 DEF State, States
            <4> QED
                BY <2>1, <3>1, <3>2, <4>1, ClosedIsGood
        <3>3. CASE StateIs(ClosedByDocument(State))
            BY <2>1, <3>1, <3>3
        <3> QED
            BY <2>5, <3>2, <3>3 DEF PressEscape
    <2>6. CASE BindLater
        <3> DEFINE left == binding - 1
                   blocks == blocking \/ instances # <<>>
                   t == [State EXCEPT !.binding = left, !.blocking = blocks]
        <3>1. StateIs(t)
            BY <2>6 DEF BindLater, State
        <3>4. left \in Nat /\ blocks \in BOOLEAN
            BY <2>0, <2>6 DEF BindLater, State, States
        <3>5. blocks => State.blocking \/ State.instances # <<>>
            BY DEF State
        <3> HIDE DEF left, blocks
        <3>2. /\ t \in States /\ t.open = State.open /\ t.z = State.z
              /\ t.overlays = State.overlays /\ t.instances = State.instances
              /\ t.overlayMaxZ = State.overlayMaxZ /\ t.maxZ = State.maxZ
              /\ t.blocking => State.blocking \/ State.instances # <<>>
            BY <2>0, <3>4, <3>5 DEF States
        <3> HIDE DEF t
        <3>3. Good(t)
            BY <3>2 DEF Good, Heights, Covered, Above, Blocks
        <3> QED
            BY <2>1, <3>1, <3>3
    <2>7. CASE UNCHANGED dialogVars
        <3>1. State' = State
            BY <2>7 DEF dialogVars, State
        <3> QED
            BY <3>1
    <2> QED
        BY <2>2, <2>3, <2>4, <2>5, <2>6, <2>7 DEF DialogNext
<1>3. Good(State) => DialogsAreUsable
    <2> SUFFICES ASSUME Good(State) PROVE DialogsAreUsable
        OBVIOUS
    <2>1. /\ instances \in Seq(Nat) /\ isOpen \subseteq Dialogs /\ zIndex \in [Dialogs -> Nat]
          /\ overlayMaxZ \in Nat
        BY DEF Good, State, States
    <2>2. /\ \A e \in isOpen : zIndex[e] > 0
          /\ \A j \in 1..Len(instances) :
                Cardinality(Above(State, instances[j])) >= Len(instances) - j + 1
          /\ overlayMaxZ \in {0} \cup ToSet(instances)
          /\ blocking => instances # <<>>
        BY DEF Good, Heights, Covered, Blocks, State
    <2>3. ASSUME NEW j \in 1..Len(instances)
          PROVE  \E e \in isOpen \cap Modal : zIndex[e] > instances[j]
        <3>1. Cardinality(Above(State, instances[j])) >= 1
            <4>1. Cardinality(Above(State, instances[j])) \in Nat
                BY AboveIsFinite
            <4>2. Len(instances) - j + 1 >= 1 /\ Len(instances) - j + 1 \in Nat
                BY <2>1
            <4> QED
                BY <2>2, <4>1, <4>2
        <3>2. Above(State, instances[j]) # {}
            BY <3>1, NonEmptyAbove
        <3> QED
            BY <3>2 DEF Above, State
    <2>4. isOpen \cap Modal = {} => ~blocking /\ instances = <<>>
        <3>1. instances # <<>> => 1 \in 1..Len(instances)
            BY <2>1
        <3> QED
            BY <2>2, <2>3, <3>1
    <2>5. ASSUME NEW d \in isOpen \cap Modal, \A e \in isOpen \cap Modal : zIndex[e] <= zIndex[d]
          PROVE  zIndex[d] > overlayMaxZ
        <3>1. CASE overlayMaxZ = 0
            BY <2>2, <3>1
        <3>2. ASSUME NEW j \in 1..Len(instances), overlayMaxZ = instances[j]
              PROVE  zIndex[d] > overlayMaxZ
            <4>1. PICK e \in isOpen \cap Modal : zIndex[e] > overlayMaxZ
                BY <2>3, <3>2
            <4>2. zIndex[e] <= zIndex[d] /\ zIndex[e] \in Nat /\ zIndex[d] \in Nat
                BY <2>1, <2>5
            <4> QED
                BY <2>1, <4>1, <4>2
        <3>3. DOMAIN instances = 1..Len(instances)
            BY <2>1
        <3> QED
            BY <2>2, <3>1, <3>2, <3>3 DEF ToSet
    <2> QED
        BY <2>4, <2>5 DEF DialogsAreUsable
<1>4. Good(State) /\ [DialogNext]_dialogVars => Good(State)'
    BY <1>2
<1> QED
    BY <1>1, <1>3, <1>4, PTL DEF DialogSpec

-----------------------------------------------------------------------------
(* The tabs.                                                                 *)

TabOrNone == TabIds \cup {NoTab}

Calls == [kind : {"hide", "show", "event"}, tab : TabOrNone, hide : SUBSET TabOrNone]

WidgetTyped(w) ==
    /\ w = [x \in DOMAIN w |-> w[x]]
    /\ DOMAIN w = {"lis", "selected", "disabled", "sel", "dis", "proc", "panels", "queue",
                   "xhr", "cached"}
    /\ w.lis \in Seq(TabIds) /\ w.panels \subseteq TabOrNone /\ w.queue \in Seq(Calls)

(* The panels of the tabs that are there: those of the marked tabs, and one    *)
(* at most.                                                                   *)
ShownOf(w) == w.panels \cap ToSet(w.lis)

OneShown(w) ==
    /\ ShownOf(w) = w.sel \cap ToSet(w.lis)
    /\ \A a, b \in ShownOf(w) : a = b

(* What hides is followed by what shows.                                      *)
EndsShown(q) == Len(q) > 0 => q[Len(q)].kind # "hide"

(* The call may be run: it hides all that is shown, or it shows what is shown  *)
(* already, or a tab that has gone.                                           *)
MayRun(w, f) ==
    \/ f.kind = "hide" /\ ShownOf(w) \subseteq f.hide
    \/ f.kind = "show" /\ (f.tab \in ToSet(w.lis) => ShownOf(w) \subseteq {f.tab})
    \/ f.kind = "event"

FirstMayRun(w) == Len(w.queue) > 0 => MayRun(w, w.queue[1])

Between(w) ==
    /\ WidgetTyped(w) /\ OneShown(w)
    /\ Len(w.queue) <= 2 /\ EndsShown(w.queue)
    /\ w.xhr # NoTab => FirstMayRun(w)

TabsInv == Between(Widget)

(* The queue has two places.                                                  *)
LEMMA UpToTwo == ASSUME NEW k \in Nat, k <= 2 PROVE k = 0 \/ k = 1 \/ k = 2
OBVIOUS

(* A queue that ends with what shows has one call that hides at most.         *)
LEMMA HidesIs ==
    ASSUME NEW q \in Seq(Calls), Len(q) <= 2, EndsShown(q)
    PROVE  /\ Len(q) > 0 /\ q[1].kind = "hide" => Hides(q) = 1 /\ Len(q) = 2
           /\ ~(Len(q) > 0 /\ q[1].kind = "hide") => Hides(q) = 0
<1> DEFINE hides(i) == q[i].kind = "hide"
           Fits(n) == (\A i \in 1 .. n : hides(i)) /\ (n < Len(q) => ~hides(n + 1))
<1>1. Hides(q) = CHOOSE n \in 0 .. Len(q) : Fits(n)
    BY Zenon DEF Hides
<1>2. Len(q) = 0 \/ Len(q) = 1 \/ Len(q) = 2
    <2>1. Len(q) \in Nat
        BY LenProperties
    <2> QED
        BY <2>1, UpToTwo
<1>3. Len(q) > 0 => ~hides(Len(q))
    BY DEF EndsShown
<1>4. hides(1) <=> q[1].kind = "hide"
    OBVIOUS
<1> HIDE DEF hides
<1>5. CASE Len(q) > 0 /\ hides(1)
    <2>1. Len(q) = 2 /\ ~hides(2)
        BY <1>2, <1>3, <1>5
    <2>2. Fits(1)
        BY <2>1, <1>5
    <2>3. \A n \in 0 .. Len(q) : Fits(n) => n = 1
        BY <2>1, <1>5
    <2> HIDE DEF Fits
    <2> QED
        BY <1>1, <1>4, <1>5, <2>1, <2>2, <2>3
<1>6. CASE ~(Len(q) > 0 /\ hides(1))
    <2>1. Fits(0)
        BY <1>2, <1>6
    <2>2. \A n \in 0 .. Len(q) : Fits(n) => n = 0
        BY <1>2, <1>6
    <2> HIDE DEF Fits
    <2> QED
        BY <1>1, <1>2, <1>4, <1>6, <2>1, <2>2
<1> QED
    BY <1>5, <1>6

(* Running the first calls of the queue leaves one panel shown.               *)
LEMMA DequeueKeeps ==
    ASSUME NEW w, WidgetTyped(w), OneShown(w), Len(w.queue) <= 2, EndsShown(w.queue),
           FirstMayRun(w)
    PROVE  /\ WidgetTyped(Dequeue(w)) /\ OneShown(Dequeue(w))
           /\ Len(Dequeue(w).queue) <= 2 /\ EndsShown(Dequeue(w).queue)
           /\ Dequeue(w).lis = w.lis /\ Dequeue(w).xhr = w.xhr
<1> DEFINE q == w.queue
           n == Hides(q)
           shown == IF n < Len(q) /\ q[n + 1].kind = "show" THEN {q[n + 1].tab} ELSE {}
           hidden == UNION {q[i].hide : i \in 1 .. n}
           sel == (IF n > 0 THEN w.sel \ ToSet(w.lis) ELSE w.sel) \cup shown
           left == (w.panels \ hidden) \cup shown
           rest == SubSeq(q, n + 2, Len(q))
           v == [w EXCEPT !.sel = sel, !.panels = left, !.queue = rest]
<1>1. Dequeue(w) = v
    BY Zenon DEF Dequeue
<1>2. /\ q \in Seq(Calls) /\ Len(q) \in Nat /\ Len(q) <= 2
      /\ \A i \in 1 .. Len(q) : q[i] \in Calls
    BY DEF WidgetTyped
<1>3. /\ Len(q) > 0 /\ q[1].kind = "hide" => n = 1 /\ Len(q) = 2
      /\ ~(Len(q) > 0 /\ q[1].kind = "hide") => n = 0
    BY <1>2, HidesIs
<1> HIDE DEF n
<1>4. (n = 0 \/ n = 1) /\ n <= Len(q)
    BY <1>2, <1>3
<1>5. rest \in Seq(Calls) /\ Len(rest) <= 1 /\ (Len(rest) > 0 => rest[Len(rest)] = q[Len(q)])
    <2>1. CASE n + 2 <= Len(q)
        <3>1. n = 0 /\ Len(q) = 2
            <4> DEFINE k == Len(q)
            <4>1. k \in Nat /\ k <= 2 /\ n + 2 <= k
                BY <2>1, <1>2
            <4> HIDE DEF k
            <4>2. n = 0 /\ k = 2
                BY <1>4, <4>1
            <4> QED
                BY <4>2 DEF k
        <3>2. rest = SubSeq(q, 2, 2)
            BY <3>1
        <3>3. /\ SubSeq(q, 2, 2) \in Seq(Calls) /\ Len(SubSeq(q, 2, 2)) = 1
              /\ SubSeq(q, 2, 2)[1] = q[2]
            <4>1. \A i \in 2 .. 2 : q[i] \in Calls
                BY <3>1, <1>2
            <4> QED
                BY <4>1, SubSeqProperties
        <3> HIDE DEF rest
        <3> QED
            BY <3>1, <3>2, <3>3
    <2>2. CASE ~(n + 2 <= Len(q))
        <3>1. rest \in Seq(Calls) /\ Len(rest) = 0
            BY <2>2, <1>2, <1>4
        <3> QED
            BY <3>1
    <2> QED
        BY <2>1, <2>2
<1>6. EndsShown(rest)
    <2> HIDE DEF rest
    <2>1. Len(q) > 0 => q[Len(q)].kind # "hide"
        BY DEF EndsShown
    <2>2. Len(rest) > 0 => Len(q) > 0
        <3>1. CASE Len(q) = 0
            BY <3>1, <1>4, SubSeqEmpty, EmptySeq DEF rest
        <3> QED
            BY <3>1, <1>2
    <2> QED
        BY <2>1, <2>2, <1>5 DEF EndsShown
<1>7. shown \subseteq TabOrNone
    BY <1>2, <1>4 DEF Calls
<1>8. /\ v.lis = w.lis /\ v.xhr = w.xhr /\ v.sel = sel /\ v.panels = left /\ v.queue = rest
      /\ v = [x \in DOMAIN v |-> v[x]] /\ DOMAIN v = DOMAIN w
    <2> HIDE DEF sel, left, rest
    <2> QED
        BY DEF WidgetTyped
<1>9. left \cap ToSet(w.lis) = sel \cap ToSet(w.lis)
      /\ \A a, b \in left \cap ToSet(w.lis) : a = b
    <2>1. CASE n = 1
        <3>1. q[1].kind = "hide" /\ Len(q) > 0
            BY <2>1, <1>3
        <3>2. w.panels \cap ToSet(w.lis) \subseteq q[1].hide
            BY <3>1 DEF FirstMayRun, MayRun, ShownOf
        <3>3. hidden = q[1].hide
            BY <2>1
        <3>4. shown = {} \/ \E x : shown = {x}
            OBVIOUS
        <3> HIDE DEF shown, hidden
        <3> QED
            BY <3>2, <3>3, <3>4, <2>1
    <2>2. CASE n = 0
        <3>1. hidden = {}
            BY <2>2
        <3>2. shown = {} \/ (\E x : shown = {x} /\ (x \in ToSet(w.lis) => ShownOf(w) \subseteq {x}))
            <4>1. CASE shown = {}
                BY <4>1
            <4>2. CASE shown # {}
                <5>1. Len(q) > 0 /\ q[1].kind = "show" /\ shown = {q[1].tab}
                    BY <4>2, <2>2, <1>2
                <5>2. q[1].tab \in ToSet(w.lis) => ShownOf(w) \subseteq {q[1].tab}
                    BY <5>1 DEF FirstMayRun, MayRun
                <5> QED
                    BY <5>1, <5>2
            <4> QED
                BY <4>1, <4>2
        <3>3. /\ w.panels \cap ToSet(w.lis) = w.sel \cap ToSet(w.lis)
              /\ \A a, b \in w.panels \cap ToSet(w.lis) : a = b
            BY DEF OneShown, ShownOf
        <3> HIDE DEF shown, hidden
        <3> QED
            BY <3>1, <3>2, <3>3, <2>2 DEF ShownOf
    <2> QED
        BY <2>1, <2>2, <1>4
<1>10. left \subseteq TabOrNone
    BY <1>7 DEF WidgetTyped
<1> HIDE DEF sel, left, rest, v
<1>11. WidgetTyped(v)
    BY <1>5, <1>8, <1>10 DEF WidgetTyped
<1>12. OneShown(v)
    BY <1>8, <1>9 DEF OneShown, ShownOf
<1>13. Len(v.queue) <= 2 /\ EndsShown(v.queue)
    BY <1>5, <1>6, <1>8
<1> QED
    BY <1>1, <1>8, <1>11, <1>12, <1>13

(* The calls that abort keeps.                                                *)
LastTwo(q) == SubSeq(q, IF Len(q) > 2 THEN Len(q) - 1 ELSE 1, Len(q))

LEMMA LastTwoIs ==
    ASSUME NEW q \in Seq(Calls)
    PROVE  /\ LastTwo(q) \in Seq(Calls) /\ Len(LastTwo(q)) \in Nat
           /\ Len(LastTwo(q)) <= 2
           /\ Len(LastTwo(q)) > 0 => Len(q) > 0 /\ LastTwo(q)[Len(LastTwo(q))] = q[Len(q)]
           /\ Len(q) >= 2 => LastTwo(q)[1] = q[Len(q) - 1]
           /\ Len(q) = 1 => LastTwo(q)[1] = q[1]
           /\ Len(q) <= 2 => LastTwo(q) = q
<1> DEFINE k == Len(q)
           m == IF k > 2 THEN k - 1 ELSE 1
           r == SubSeq(q, m, k)
<1>1. k \in Nat /\ \A i \in 1 .. k : q[i] \in Calls
    BY LenProperties, ElementOfSeq
<1>2. k <= 2 => r = q
    <2>1. SubSeq(q, 1, k) = q
        BY SubSeqFull
    <2> HIDE DEF k
    <2>2. k <= 2 => m = 1
        BY <1>1
    <2> QED
        BY <2>1, <2>2
<1> HIDE DEF k
<1>3. m \in Nat /\ m >= 1 /\ (k > 0 => m <= k) /\ (k > 2 => m = k - 1) /\ (k <= 2 => m = 1)
    BY <1>1
<1> HIDE DEF m
<1>4. \A i \in m .. k : q[i] \in Calls
    BY <1>1, <1>3
<1>5. /\ r \in Seq(Calls) /\ Len(r) = (IF m <= k THEN k - m + 1 ELSE 0)
      /\ \A i \in 1 .. k - m + 1 : r[i] = q[m + i - 1]
    <2>1. m \in Int /\ k \in Int
        BY <1>1, <1>3
    <2>2. SubSeq(q, m, k) \in Seq(Calls) /\ Len(SubSeq(q, m, k)) = (IF m <= k THEN k - m + 1 ELSE 0)
        BY <1>4, <2>1, SubSeqProperties
    <2>3. \A i \in 1 .. k - m + 1 : SubSeq(q, m, k)[i] = q[m + i - 1]
        BY <1>4, <2>1, SubSeqProperties
    <2> QED
        BY <2>2, <2>3
<1> DEFINE l == Len(r)
<1>6. LastTwo(q) = r
    BY Zenon DEF LastTwo, k, m
<1> HIDE DEF r
<1>7. l \in Nat /\ l = IF m <= k THEN k - m + 1 ELSE 0
    BY <1>1, <1>3, <1>5
<1> HIDE DEF l
<1>8. l <= 2 /\ (l > 0 => k > 0 /\ r[l] = q[k])
    <2>1. l <= 2 /\ (l > 0 => k > 0 /\ l = k - m + 1 /\ m + l - 1 = k)
        BY <1>1, <1>3, <1>7
    <2>2. l > 0 => r[l] = q[m + l - 1]
        BY <2>1, <1>5, <1>7
    <2> QED
        BY <2>1, <2>2
<1>9. k >= 2 => r[1] = q[k - 1]
    <2>1. k >= 2 => 1 \in 1 .. k - m + 1 /\ m + 1 - 1 = k - 1
        BY <1>1, <1>3
    <2> QED
        BY <2>1, <1>5
<1>10. k = 1 => r[1] = q[1]
    <2>1. k = 1 => 1 \in 1 .. k - m + 1 /\ m + 1 - 1 = 1
        BY <1>1, <1>3
    <2> QED
        BY <2>1, <1>5
<1> QED
    BY <1>1, <1>2, <1>5, <1>6, <1>7, <1>8, <1>9, <1>10 DEF k, l

(* What abort leaves.                                                         *)
LEMMA AbortIs ==
    ASSUME NEW w, WidgetTyped(w)
    PROVE  /\ WidgetTyped(Abort(w))
           /\ Abort(w).queue = LastTwo(w.queue) /\ Abort(w).xhr = NoTab
           /\ Abort(w).lis = w.lis /\ Abort(w).panels = w.panels /\ Abort(w).sel = w.sel
<1> DEFINE q == LastTwo(w.queue)
           proc == w.proc \ ToSet(w.lis)
           a == [w EXCEPT !.queue = q, !.xhr = NoTab, !.proc = proc]
<1>1. Abort(w) = a
    BY Zenon DEF Abort, LastTwo
<1>2. q \in Seq(Calls)
    BY LastTwoIs DEF WidgetTyped
<1> HIDE DEF q, proc
<1>3. WidgetTyped(a) /\ a.queue = q /\ a.xhr = NoTab /\ a.lis = w.lis /\ a.panels = w.panels
      /\ a.sel = w.sel
    BY <1>2 DEF WidgetTyped
<1> QED
    BY <1>1, <1>3 DEF q

(* A tab is loaded, or shown at once.                                         *)
LEMMA LoadKeeps ==
    ASSUME NEW w, NEW t \in TabIds, WidgetTyped(w), OneShown(w), EndsShown(w.queue),
           Len(w.queue) > 0 => MayRun(w, LastTwo(w.queue)[1])
    PROVE  Between(Load(w, t)) /\ Load(w, t).lis = w.lis
<1> DEFINE a == Abort(w)
           q == LastTwo(w.queue)
<1>1. /\ WidgetTyped(a) /\ a.queue = q /\ a.xhr = NoTab
      /\ a.lis = w.lis /\ a.panels = w.panels /\ a.sel = w.sel
    BY AbortIs
<1>2. /\ Len(q) \in Nat /\ Len(q) <= 2
      /\ Len(q) > 0 => Len(w.queue) > 0 /\ q[Len(q)] = w.queue[Len(w.queue)]
    BY LastTwoIs DEF WidgetTyped
<1>3. OneShown(a) /\ EndsShown(a.queue)
    <2> HIDE DEF a, q
    <2> QED
        BY <1>1, <1>2 DEF OneShown, ShownOf, EndsShown
<1>4. FirstMayRun(a)
    <2> HIDE DEF a, q
    <2>1. Len(q) > 0 => MayRun(w, q[1])
        BY <1>2 DEF q
    <2> QED
        BY <2>1, <1>1 DEF FirstMayRun, MayRun, ShownOf
<1>5. Len(a.queue) <= 2
    <2> HIDE DEF a, q
    <2> QED
        BY <1>1, <1>2
<1> DEFINE runs == t \notin Remote \/ (a.queue # <<>> /\ t \in a.cached)
           requested == [a EXCEPT !.proc = @ \cup {t}, !.xhr = t]
<1>6. Load(w, t) = IF runs THEN Dequeue(a) ELSE requested
    BY Zenon DEF Load
<1> HIDE DEF runs
<1>7. CASE runs
    <2>1. /\ WidgetTyped(Dequeue(a)) /\ OneShown(Dequeue(a))
          /\ Len(Dequeue(a).queue) <= 2 /\ EndsShown(Dequeue(a).queue)
          /\ Dequeue(a).lis = a.lis /\ Dequeue(a).xhr = a.xhr
        BY <1>1, <1>3, <1>4, <1>5, DequeueKeeps
    <2> HIDE DEF a
    <2> QED
        BY <1>1, <1>6, <1>7, <2>1 DEF Between
<1>8. CASE ~runs
    <2> HIDE DEF a
    <2>1. /\ WidgetTyped(requested) /\ requested.queue = a.queue /\ requested.lis = a.lis
          /\ requested.panels = a.panels /\ requested.sel = a.sel
        BY <1>1 DEF WidgetTyped
    <2> HIDE DEF requested
    <2>2. OneShown(requested)
        BY <1>3, <2>1 DEF OneShown, ShownOf
    <2>3. FirstMayRun(requested)
        BY <1>4, <2>1 DEF FirstMayRun, MayRun, ShownOf
    <2> QED
        BY <1>1, <1>3, <1>5, <1>6, <1>8, <2>1, <2>2, <2>3 DEF Between
<1> QED
    BY <1>7, <1>8


(* A click finds no panel to hide and queues one call, after one of an earlier *)
(* click that shows or tells; or its own two calls are the last ones.          *)
LEMMA ClickedKeeps ==
    ASSUME ~TabsCollapse, NEW w, NEW t \in TabIds, Between(w)
    PROVE  Between(Clicked(w, t)) /\ Clicked(w, t).lis = w.lis
<1> DEFINE spot == PlaceOf(w, t)
           b == [w EXCEPT !.selected = spot]
           a == Abort(b)
           fs == IF w.panels = {} THEN <<ShowTab(t)>> ELSE <<HideTab(w.panels), ShowTab(t)>>
           c == [a EXCEPT !.queue = @ \o fs]
<1>1. Clicked(w, t) = IF Ignores(w, t) THEN w ELSE Load(c, t)
    BY DEF Clicked
<1>2. CASE Ignores(w, t)
    BY <1>1, <1>2
<1>3. CASE ~Ignores(w, t)
    <2>1. /\ WidgetTyped(w) /\ OneShown(w) /\ EndsShown(w.queue)
          /\ w.queue \in Seq(Calls) /\ Len(w.queue) \in Nat /\ Len(w.queue) <= 2
        BY LenProperties DEF Between, WidgetTyped
    <2>2. /\ WidgetTyped(b) /\ b.queue = w.queue /\ b.lis = w.lis /\ b.panels = w.panels
          /\ b.sel = w.sel
        <3> HIDE DEF spot
        <3> QED
            BY <2>1 DEF WidgetTyped
    <2> HIDE DEF b
    <2>3. /\ WidgetTyped(a) /\ a.queue = w.queue /\ a.lis = w.lis /\ a.panels = w.panels
          /\ a.sel = w.sel
        <3>1. LastTwo(w.queue) = w.queue
            BY <2>1, LastTwoIs
        <3> QED
            BY <2>2, <3>1, AbortIs
    <2> HIDE DEF a
    <2>4. ShowTab(t) \in Calls /\ HideTab(w.panels) \in Calls
        BY <2>1 DEF ShowTab, HideTab, Calls, TabOrNone, WidgetTyped
    <2>5. /\ fs \in Seq(Calls) /\ Len(fs) \in Nat /\ Len(fs) > 0 /\ fs[Len(fs)] = ShowTab(t)
          /\ w.panels = {} => Len(fs) = 1
          /\ w.panels # {} => Len(fs) = 2 /\ fs[1] = HideTab(w.panels)
        BY <2>4
    <2> HIDE DEF fs
    <2> DEFINE q == w.queue \o fs
               l == Len(w.queue)
               k == Len(fs)
    <2>6. /\ q \in Seq(Calls) /\ Len(q) = l + k
          /\ \A i \in 1 .. l + k : q[i] = IF i <= l THEN w.queue[i] ELSE fs[i - l]
        BY <2>1, <2>5, ConcatProperties
    <2>7. /\ WidgetTyped(c) /\ c.queue = q /\ c.lis = w.lis /\ c.panels = w.panels
          /\ c.sel = w.sel
        <3> HIDE DEF q
        <3>1. c = [a EXCEPT !.queue = q]
            BY <2>3 DEF q
        <3> QED
            BY <2>3, <2>6, <3>1 DEF WidgetTyped
    <2>8. l \in Nat /\ k \in Nat /\ k > 0
        BY <2>1, <2>5
    <2>9. q[Len(q)] = ShowTab(t)
        <3> HIDE DEF q, k, l
        <3>1. Len(q) \in 1 .. l + k /\ ~(Len(q) <= l) /\ Len(q) - l = k
            BY <2>6, <2>8
        <3>2. q[Len(q)] = fs[k]
            BY <2>6, <3>1
        <3> QED
            BY <2>5, <3>2 DEF k
    <2>10. EndsShown(q)
        <3> HIDE DEF q
        <3> QED
            BY <2>9 DEF EndsShown, ShowTab
    <2>11. MayRun(c, LastTwo(q)[1])
        <3>1. CASE w.panels # {}
            <4>1. k = 2 /\ fs[1] = HideTab(w.panels)
                BY <2>5, <3>1
            <4> HIDE DEF q, k, l
            <4>2. Len(q) >= 2 /\ Len(q) - 1 = l + 1
                BY <2>6, <2>8, <4>1
            <4>3. LastTwo(q)[1] = q[l + 1]
                BY <2>6, <4>2, LastTwoIs
            <4>4. q[l + 1] = fs[1]
                BY <2>6, <2>8, <4>1
            <4> HIDE DEF c
            <4> QED
                BY <2>7, <4>1, <4>3, <4>4 DEF MayRun, HideTab, ShownOf
        <3>2. CASE w.panels = {}
            <4>1. k = 1
                BY <2>5, <3>2
            <4>2. l > 0 => w.queue[l].kind # "hide" /\ w.queue[l] \in Calls
                BY <2>1, <2>8, ElementOfSeq DEF EndsShown
            <4>3. LastTwo(q)[1].kind \in {"show", "event"}
                <5> HIDE DEF k, l
                <5>1. CASE l = 0
                    <6>1. Len(q) = 1
                        BY <2>6, <4>1, <5>1
                    <6>2. LastTwo(q)[1] = q[1]
                        BY <2>6, <6>1, LastTwoIs
                    <6>3. q[1] = ShowTab(t)
                        BY <2>9, <6>1, Zenon
                    <6> QED
                        BY <6>2, <6>3 DEF ShowTab
                <5>2. CASE l > 0
                    <6>1. Len(q) >= 2 /\ Len(q) - 1 = l
                        BY <2>6, <2>8, <4>1, <5>2
                    <6> HIDE DEF q
                    <6>2. LastTwo(q)[1] = q[l] 
                        BY <2>6, <6>1, LastTwoIs
                    <6>3. q[l] = w.queue[l]
                        BY <2>6, <2>8, <4>1, <5>2
                    <6> QED
                        BY <4>2, <5>2, <6>2, <6>3 DEF Calls
                <5> QED
                    BY <5>1, <5>2, <2>8
            <4> HIDE DEF c, q
            <4>4. ShownOf(c) = {}
                BY <2>7, <3>2 DEF ShownOf
            <4> QED
                BY <4>3, <4>4 DEF MayRun
        <3> QED
            BY <3>1, <3>2
    <2>12. OneShown(c)
        <3> HIDE DEF c, q
        <3> QED
            BY <2>1, <2>7 DEF OneShown, ShownOf
    <2> HIDE DEF c, q
    <2>13. Between(Load(c, t)) /\ Load(c, t).lis = c.lis
        BY <2>7, <2>10, <2>11, <2>12, LoadKeeps
    <2> QED
        BY <1>1, <1>3, <2>7, <2>13
<1> QED
    BY <1>2, <1>3


(* What a change of the list leaves.                                          *)
LEMMA TabifyIs ==
    ASSUME NEW w, WidgetTyped(w)
    PROVE  /\ WidgetTyped(Tabify(w))
           /\ Tabify(w).lis = w.lis /\ Tabify(w).sel = w.sel
           /\ Tabify(w).panels = w.panels \cap ToSet(w.lis)
           /\ Tabify(w).queue = w.queue /\ Tabify(w).xhr = w.xhr
<1> DEFINE chosen == {i \in DOMAIN w.lis : w.lis[i] \in w.sel}
           first == IF chosen = {} THEN 0 ELSE CHOOSE i \in chosen : \A j \in chosen : i <= j
           dis == {w.lis[i] : i \in {j \in w.disabled \cap DOMAIN w.lis : w.lis[j] \notin w.sel}}
           left == w.panels \cap ToSet(w.lis)
           kept == IF Cache THEN w.cached ELSE {}
           v == [w EXCEPT !.selected = first, !.dis = dis, !.panels = left, !.cached = kept]
<1>1. Tabify(w) = v
    BY Zenon DEF Tabify
<1>2. left \subseteq w.panels
    OBVIOUS
<1> HIDE DEF first, dis, left, kept
<1>3. /\ WidgetTyped(v) /\ v.lis = w.lis /\ v.sel = w.sel /\ v.panels = left
      /\ v.queue = w.queue /\ v.xhr = w.xhr
    BY <1>2 DEF WidgetTyped
<1> QED
    BY <1>1, <1>3 DEF left

(* The list without a tab, and with one more.                                  *)
LEMMA RemovedIs ==
    ASSUME NEW s \in Seq(TabIds), NEW i \in 1 .. Len(s)
    PROVE  RemoveAt(s, i) \in Seq(TabIds) /\ ToSet(RemoveAt(s, i)) \subseteq ToSet(s)
<1> DEFINE n == Len(s)
           front == SubSeq(s, 1, i - 1)
           back == SubSeq(s, i + 1, n)
           S == ToSet(s)
<1>1. n \in Nat /\ i \in Int /\ (\A j \in 1 .. n : s[j] \in S) /\ S \subseteq TabIds
    BY LenProperties, ElementOfSeq DEF ToSet
<1> HIDE DEF n, S
<1>2. front \in Seq(S)
    <2>1. \A j \in 1 .. i - 1 : s[j] \in S
        BY <1>1 DEF n
    <2> QED
        BY <1>1, <2>1, SubSeqProperties
<1>3. back \in Seq(S)
    <2>1. \A j \in i + 1 .. n : s[j] \in S
        BY <1>1 DEF n
    <2> QED
        BY <1>1, <2>1, SubSeqProperties
<1> HIDE DEF front, back
<1>4. RemoveAt(s, i) = front \o back
    BY DEF RemoveAt, front, back, n
<1>5. front \o back \in Seq(S)
    BY <1>2, <1>3, ConcatProperties
<1>6. \A r \in Seq(S) : r \in Seq(TabIds) /\ ToSet(r) \subseteq S
    BY <1>1, LenProperties, ElementOfSeq, SeqDef DEF ToSet
<1> QED
    BY <1>4, <1>5, <1>6 DEF S

LEMMA InsertedIs ==
    ASSUME NEW s \in Seq(TabIds), NEW i \in 1 .. Len(s) + 1, NEW t \in TabIds
    PROVE  /\ InsertAt(s, i, t) \in Seq(TabIds) /\ Len(InsertAt(s, i, t)) = Len(s) + 1
           /\ ToSet(InsertAt(s, i, t)) \subseteq ToSet(s) \cup {t}
<1> DEFINE n == Len(s)
           front == SubSeq(s, 1, i - 1)
           back == SubSeq(s, i, n)
           S == ToSet(s) \cup {t}
<1>1. n \in Nat /\ i \in 1 .. n + 1 /\ (\A j \in 1 .. n : s[j] \in S) /\ S \subseteq TabIds /\ t \in S
    BY LenProperties, ElementOfSeq DEF ToSet
<1> HIDE DEF n, S
<1>2. front \in Seq(S) /\ Len(front) = i - 1
    <2>1. \A j \in 1 .. i - 1 : s[j] \in S
        BY <1>1 DEF n
    <2> QED
        BY <1>1, <2>1, SubSeqProperties
<1>3. back \in Seq(S) /\ Len(back) = n - i + 1
    <2>1. \A j \in i .. n : s[j] \in S
        BY <1>1 DEF n
    <2> QED
        BY <1>1, <2>1, SubSeqProperties
<1> HIDE DEF front, back
<1>4. InsertAt(s, i, t) = (front \o <<t>>) \o back
    BY DEF InsertAt, front, back, n
<1>5. (front \o <<t>>) \o back \in Seq(S) /\ Len((front \o <<t>>) \o back) = n + 1
    <2>1. <<t>> \in Seq(S) /\ Len(<<t>>) = 1
        BY <1>1
    <2>2. front \o <<t>> \in Seq(S) /\ Len(front \o <<t>>) = i - 1 + 1
        BY <1>2, <2>1, ConcatProperties
    <2>3. /\ (front \o <<t>>) \o back \in Seq(S)
          /\ Len((front \o <<t>>) \o back) = Len(front \o <<t>>) + Len(back)
        BY <1>3, <2>2, ConcatProperties
    <2>4. i - 1 + 1 + (n - i + 1) = n + 1
        BY <1>1
    <2> QED
        BY <1>3, <2>2, <2>3, <2>4
<1>6. \A r \in Seq(S) : r \in Seq(TabIds) /\ ToSet(r) \subseteq S
    BY <1>1, LenProperties, ElementOfSeq, SeqDef DEF ToSet
<1> QED
    BY <1>4, <1>5, <1>6 DEF S, n


(* Tabs that come are not in the queue, and tabs that go may be.               *)
LEMMA ListChanges ==
    ASSUME NEW w, NEW v, NEW new, Between(w), WidgetTyped(v),
           ToSet(v.lis) \subseteq ToSet(w.lis) \cup new,
           ShownOf(v) = (w.panels \ new) \cap ToSet(v.lis),
           v.sel \cap ToSet(v.lis) = (w.sel \ new) \cap ToSet(v.lis),
           v.queue = w.queue, v.xhr = w.xhr,
           \A i \in 1 .. Len(w.queue) : w.queue[i].tab \notin new
    PROVE  Between(v)
<1>1. OneShown(w) /\ WidgetTyped(w)
    BY DEF Between
<1>2. OneShown(v)
    BY <1>1 DEF OneShown, ShownOf
<1>3. ASSUME FirstMayRun(w), Len(w.queue) > 0 PROVE MayRun(v, w.queue[1])
    <2>1. MayRun(w, w.queue[1])
        BY <1>3 DEF FirstMayRun
    <2>2. w.queue[1].tab \notin new
        <3>1. 1 \in 1 .. Len(w.queue)
            BY <1>1, <1>3, LenProperties DEF WidgetTyped
        <3> QED
            BY <3>1
    <2>3. ShownOf(v) \subseteq ShownOf(w)
        BY DEF ShownOf
    <2> QED
        BY <2>1, <2>2, <2>3 DEF MayRun
<1> QED
    BY <1>2, <1>3 DEF Between, FirstMayRun

(* The last two of a queue that has got one more.                              *)
LEMMA AppendedIs ==
    ASSUME NEW q \in Seq(Calls), NEW f \in Calls
    PROVE  /\ Append(q, f) \in Seq(Calls) /\ Len(Append(q, f)) > 0
           /\ Append(q, f)[Len(Append(q, f))] = f
           /\ Len(q) = 0 => LastTwo(Append(q, f))[1] = f
           /\ Len(q) > 0 => LastTwo(Append(q, f))[1] = q[Len(q)]
<1> DEFINE r == Append(q, f)
           l == Len(q)
<1>1. /\ r \in Seq(Calls) /\ Len(r) = l + 1 /\ l \in Nat /\ r[l + 1] = f
      /\ \A i \in 1 .. l : r[i] = q[i]
    BY AppendProperties, LenProperties
<1> HIDE DEF r, l
<1>2. l = 0 => Len(r) = 1 /\ LastTwo(r)[1] = r[1]
    BY <1>1, LastTwoIs
<1>3. l > 0 => Len(r) >= 2 /\ Len(r) - 1 = l /\ LastTwo(r)[1] = r[Len(r) - 1]
    BY <1>1, LastTwoIs
<1>4. l > 0 => r[l] = q[l]
    BY <1>1
<1>5. Len(r) > 0 /\ r[Len(r)] = f
    BY <1>1
<1>6. l = 0 => r[1] = f
    BY <1>1
<1>7. l > 0 => LastTwo(r)[1] = q[l]
    BY <1>3, <1>4
<1> QED
    BY <1>1, <1>2, <1>5, <1>6, <1>7 DEF r, l

(* The state after a step is the record of the tabs that the step computes.    *)
LEMMA WidgetBecomes ==
    ASSUME NEW w, Between(w), WidgetIs(w)
    PROVE  TabsInv'
<1>1. /\ Widget'.lis = w.lis /\ Widget'.panels = w.panels /\ Widget'.sel = w.sel
      /\ Widget'.queue = w.queue /\ Widget'.xhr = w.xhr
    BY DEF WidgetIs, Widget
<1>2. /\ Widget' = [x \in DOMAIN Widget' |-> Widget'[x]]
      /\ DOMAIN Widget' = {"lis", "selected", "disabled", "sel", "dis", "proc", "panels", "queue",
                           "xhr", "cached"}
    BY DEF Widget
<1> QED
    BY <1>1, <1>2 DEF TabsInv, Between, WidgetTyped, OneShown, ShownOf, FirstMayRun, MayRun


(* What the steps keep.                                                       *)
LEMMA TabsStart == TabsInit => TabsInv
<1> SUFFICES ASSUME TabsInit PROVE TabsInv
    OBVIOUS
<1>1. PICK t \in TabIds :
        /\ lis = <<t>> /\ panels = {t} /\ selectedCls = {t}
        /\ tabQueue = <<>> \/ tabQueue = <<ShowEvent>>
    BY DEF TabsInit
<1>2. /\ Widget.lis = lis /\ Widget.panels = panels /\ Widget.sel = selectedCls
      /\ Widget.queue = tabQueue
      /\ Widget = [x \in DOMAIN Widget |-> Widget[x]]
      /\ DOMAIN Widget = {"lis", "selected", "disabled", "sel", "dis", "proc", "panels", "queue",
                          "xhr", "cached"}
    BY DEF Widget
<1>3. ShowEvent \in Calls
    BY DEF ShowEvent, Calls, TabOrNone
<1>4. /\ tabQueue \in Seq(Calls) /\ Len(tabQueue) <= 2
      /\ \A i \in 1 .. Len(tabQueue) : tabQueue[i].kind = "event"
    <2>1. CASE tabQueue = <<>>
        BY <2>1
    <2>2. CASE tabQueue = <<ShowEvent>>
        BY <2>2, <1>3 DEF ShowEvent
    <2> QED
        BY <1>1, <2>1, <2>2
<1>5. WidgetTyped(Widget)
    BY <1>1, <1>2, <1>4 DEF WidgetTyped, TabOrNone
<1>6. OneShown(Widget)
    BY <1>1, <1>2 DEF OneShown, ShownOf
<1>7. Len(tabQueue) \in Nat
    BY <1>4, LenProperties
<1>8. EndsShown(tabQueue) /\ (Len(tabQueue) > 0 => tabQueue[1].kind = "event")
    BY <1>4, <1>7 DEF EndsShown
<1> QED
    BY <1>2, <1>4, <1>5, <1>6, <1>8 DEF TabsInv, Between, FirstMayRun, MayRun

(* The tab that comes is not in the queue; the first of a list is shown at      *)
(* once, whatever is left in the queue.                                        *)
LEMMA AddKeeps ==
    ASSUME TabsInv, NEW t \in TabIds, NEW index \in 1 .. Len(lis) + 1, AddTab(t, index)
    PROVE  TabsInv'
<1> DEFINE w == Widget
           list == InsertAt(lis, index, t)
           moved == {IF n >= index THEN n + 1 ELSE n : n \in disabled}
           added == [w EXCEPT !.lis = list, !.disabled = moved, !.sel = @ \ {t}, !.proc = @ \ {t},
                              !.panels = @ \ {t}, !.cached = @ \ {t}]
           v == Tabify(added)
           only == [v EXCEPT !.selected = 1, !.sel = {t}, !.panels = {t},
                             !.queue = Append(@, ShowEvent)]
<1>1. /\ w.lis = lis /\ w.panels = panels /\ w.sel = selectedCls /\ w.queue = tabQueue
      /\ w.xhr = xhr /\ w.disabled = disabled /\ w.proc = processing /\ w.cached = cached
    BY DEF Widget
<1>2. Between(w) /\ WidgetTyped(w) /\ lis \in Seq(TabIds) /\ tabQueue \in Seq(Calls)
    BY <1>1 DEF TabsInv, Between, WidgetTyped
<1>3. WidgetIs(IF Len(v.lis) > 1 THEN v ELSE Load(only, t))
    BY <1>1, Zenon DEF AddTab
<1>4. t \notin ToSet(lis) /\ \A i \in 1 .. Len(tabQueue) : tabQueue[i].tab # t
    BY <1>2, LenProperties DEF AddTab
<1>5. /\ list \in Seq(TabIds) /\ Len(list) = Len(lis) + 1
      /\ ToSet(list) \subseteq ToSet(lis) \cup {t}
    BY <1>2, InsertedIs
<1> HIDE DEF w, list, moved
<1>6. /\ WidgetTyped(added) /\ added.lis = list /\ added.sel = w.sel \ {t}
      /\ added.panels = w.panels \ {t} /\ added.queue = w.queue /\ added.xhr = w.xhr
    BY <1>2, <1>5 DEF WidgetTyped
<1> HIDE DEF added
<1>7. /\ WidgetTyped(v) /\ v.lis = list /\ v.sel = w.sel \ {t}
      /\ v.panels = (w.panels \ {t}) \cap ToSet(list) /\ v.queue = w.queue /\ v.xhr = w.xhr
    BY <1>6, TabifyIs
<1> HIDE DEF v
<1>8. Between(v)
    <2>1. ShownOf(v) = (w.panels \ {t}) \cap ToSet(v.lis)
        BY <1>7 DEF ShownOf
    <2> QED
        BY <1>1, <1>2, <1>4, <1>5, <1>7, <2>1, ListChanges
<1>9. CASE Len(v.lis) > 1
    BY <1>3, <1>8, <1>9, WidgetBecomes
<1>10. CASE ~(Len(v.lis) > 1)
    <2>1. ToSet(list) \subseteq {t}
        <3>1. Len(lis) = 0
            BY <1>2, <1>5, <1>7, <1>10, LenProperties
        <3>2. ToSet(lis) = {}
            BY <3>1, <1>2 DEF ToSet
        <3> QED
            BY <1>5, <3>2
    <2> DEFINE q == Append(v.queue, ShowEvent)
    <2>2. ShowEvent \in Calls
        BY DEF ShowEvent, Calls, TabOrNone
    <2>3. /\ q \in Seq(Calls) /\ Len(q) > 0 /\ q[Len(q)] = ShowEvent
          /\ Len(tabQueue) = 0 => LastTwo(q)[1] = ShowEvent
          /\ Len(tabQueue) > 0 => LastTwo(q)[1] = tabQueue[Len(tabQueue)]
        BY <1>1, <1>2, <1>7, <2>2, AppendedIs
    <2>4. only = [v EXCEPT !.selected = 1, !.sel = {t}, !.panels = {t}, !.queue = q]
        OBVIOUS
    <2> HIDE DEF q
    <2>5. /\ WidgetTyped(only) /\ only.lis = list /\ only.panels = {t} /\ only.sel = {t}
          /\ only.queue = q
        <3>1. /\ v = [x \in DOMAIN v |-> v[x]] /\ v.lis = list /\ list \in Seq(TabIds)
              /\ DOMAIN v = {"lis", "selected", "disabled", "sel", "dis", "proc", "panels",
                             "queue", "xhr", "cached"}
            BY <1>5, <1>7 DEF WidgetTyped
        <3>2. /\ only = [x \in DOMAIN only |-> only[x]] /\ DOMAIN only = DOMAIN v
              /\ only.lis = list /\ only.panels = {t} /\ only.sel = {t} /\ only.queue = q
            BY <2>4, <3>1
        <3>3. {t} \subseteq TabOrNone
            BY DEF TabOrNone
        <3> HIDE DEF only
        <3> QED
            BY <2>3, <3>1, <3>2, <3>3 DEF WidgetTyped
    <2> HIDE DEF only
    <2>6. OneShown(only)
        BY <2>5 DEF OneShown, ShownOf
    <2>7. EndsShown(q)
        BY <2>3 DEF EndsShown, ShowEvent
    <2>8. MayRun(only, LastTwo(q)[1])
        <3>1. CASE Len(tabQueue) = 0
            BY <2>3, <3>1 DEF MayRun, ShowEvent
        <3>2. CASE Len(tabQueue) > 0
            <4> DEFINE f == tabQueue[Len(tabQueue)]
            <4>1. Len(tabQueue) \in 1 .. Len(tabQueue)
                BY <1>2, <3>2, LenProperties
            <4>2. f \in Calls /\ f.tab # t
                BY <1>2, <1>4, <4>1, ElementOfSeq
            <4>3. f.kind # "hide"
                BY <1>1, <1>2, <3>2 DEF Between, EndsShown
            <4> HIDE DEF f
            <4>4. f.kind \in {"show", "event"}
                BY <4>2, <4>3 DEF Calls
            <4>5. LastTwo(q)[1] = f
                BY <2>3, <3>2 DEF f
            <4> QED
                BY <2>1, <2>5, <4>2, <4>4, <4>5 DEF MayRun
        <3> QED
            BY <3>1, <3>2, <1>2, LenProperties
    <2>9. Between(Load(only, t))
        BY <2>5, <2>6, <2>7, <2>8, LoadKeeps
    <2> QED
        BY <1>3, <1>10, <2>9, WidgetBecomes
<1> QED
    BY <1>9, <1>10


(* The tab beside one that goes is clicked before it goes.                     *)
LEMMA RemoveKeeps ==
    ASSUME ~TabsCollapse, TabsInv, NEW index \in DOMAIN lis, RemoveTab(index)
    PROVE  TabsInv'
<1> DEFINE beside == lis[IF index < Len(lis) THEN index + 1 ELSE index - 1]
           w == IF lis[index] \in selectedCls /\ Len(lis) > 1
                THEN Clicked(Widget, beside) ELSE Widget
           list == RemoveAt(w.lis, index)
           moved == {IF n >= index THEN n - 1 ELSE n : n \in w.disabled \ {index}}
           r == [w EXCEPT !.lis = list, !.disabled = moved]
           v == Tabify(r)
<1>1. WidgetIs(v)
    BY Zenon DEF RemoveTab
<1>2. Between(Widget) /\ Widget.lis = lis /\ lis \in Seq(TabIds)
    BY DEF TabsInv, Widget, Between, WidgetTyped
<1>3. index \in 1 .. Len(lis) /\ Len(lis) \in Nat
    BY <1>2, LenProperties
<1>4. Len(lis) > 1 => beside \in TabIds
    <2>1. Len(lis) > 1 => (IF index < Len(lis) THEN index + 1 ELSE index - 1) \in 1 .. Len(lis)
        BY <1>3
    <2> QED
        BY <1>2, <2>1, ElementOfSeq
<1> HIDE DEF beside
<1>5. Between(w) /\ w.lis = lis
    BY <1>2, <1>4, ClickedKeeps
<1> HIDE DEF w
<1>6. list \in Seq(TabIds) /\ ToSet(list) \subseteq ToSet(lis)
    BY <1>2, <1>3, <1>5, RemovedIs
<1> HIDE DEF list, moved
<1>7. /\ WidgetTyped(r) /\ r.lis = list /\ r.sel = w.sel /\ r.panels = w.panels
      /\ r.queue = w.queue /\ r.xhr = w.xhr
    BY <1>5, <1>6 DEF Between, WidgetTyped
<1> HIDE DEF r
<1>8. /\ WidgetTyped(v) /\ v.lis = list /\ v.sel = w.sel
      /\ v.panels = w.panels \cap ToSet(list) /\ v.queue = w.queue /\ v.xhr = w.xhr
    BY <1>7, TabifyIs
<1> HIDE DEF v
<1>9. Between(v)
    <2> DEFINE none == {}
    <2>1. /\ ToSet(v.lis) \subseteq ToSet(w.lis) \cup none
          /\ ShownOf(v) = (w.panels \ none) \cap ToSet(v.lis)
          /\ v.sel \cap ToSet(v.lis) = (w.sel \ none) \cap ToSet(v.lis)
          /\ \A i \in 1 .. Len(w.queue) : w.queue[i].tab \notin none
        BY <1>5, <1>6, <1>8 DEF ShownOf
    <2> HIDE DEF none
    <2> QED
        BY <1>5, <1>8, <2>1, ListChanges
<1> QED
    BY <1>1, <1>9, WidgetBecomes

(* Enabling and disabling change the class and the option only.               *)
LEMMA AbleKeeps ==
    ASSUME NEW w, NEW dis, NEW places, Between(w)
    PROVE  Between([w EXCEPT !.dis = dis, !.disabled = places])
<1> DEFINE v == [w EXCEPT !.dis = dis, !.disabled = places]
<1>1. /\ WidgetTyped(v) /\ v.lis = w.lis /\ v.sel = w.sel /\ v.panels = w.panels
      /\ v.queue = w.queue /\ v.xhr = w.xhr
    BY DEF Between, WidgetTyped
<1> HIDE DEF v
<1>2. Between(v)
    BY <1>1 DEF Between, OneShown, ShownOf, FirstMayRun, MayRun
<1> QED
    BY <1>2 DEF v

(* The answer runs the queue, and a lost one leaves it.                        *)
LEMMA AnswerKeeps ==
    ASSUME TabsInv, Answered \/ AnswerLost
    PROVE  TabsInv'
<1> DEFINE w == Widget
           proc == w.proc \ ToSet(lis)
           kept == IF Cache THEN w.cached \cup {xhr} ELSE w.cached
           come == [w EXCEPT !.xhr = NoTab, !.proc = proc, !.cached = kept]
           lost == [w EXCEPT !.xhr = NoTab]
<1>1. /\ Between(w) /\ w.xhr = xhr
    BY DEF TabsInv, Widget
<1>2. xhr # NoTab /\ (WidgetIs(Dequeue(come)) \/ WidgetIs(lost))
    BY Zenon DEF Answered, AnswerLost
<1> HIDE DEF w, proc, kept
<1>3. WidgetTyped(w) /\ OneShown(w) /\ Len(w.queue) <= 2 /\ EndsShown(w.queue) /\ FirstMayRun(w)
    BY <1>1, <1>2 DEF Between
<1>4. CASE WidgetIs(Dequeue(come))
    <2>1. /\ WidgetTyped(come) /\ come.lis = w.lis /\ come.sel = w.sel
          /\ come.panels = w.panels /\ come.queue = w.queue /\ come.xhr = NoTab
        BY <1>3 DEF WidgetTyped
    <2> HIDE DEF come
    <2>2. /\ OneShown(come) /\ Len(come.queue) <= 2 /\ EndsShown(come.queue)
          /\ FirstMayRun(come)
        BY <1>3, <2>1 DEF OneShown, ShownOf, FirstMayRun, MayRun
    <2>3. Between(Dequeue(come))
        BY <2>1, <2>2, DequeueKeeps DEF Between
    <2> QED
        BY <1>4, <2>3, WidgetBecomes
<1>5. CASE WidgetIs(lost)
    <2>1. /\ WidgetTyped(lost) /\ lost.lis = w.lis /\ lost.sel = w.sel
          /\ lost.panels = w.panels /\ lost.queue = w.queue /\ lost.xhr = NoTab
        BY <1>3 DEF WidgetTyped
    <2> HIDE DEF lost
    <2>2. Between(lost)
        BY <1>3, <2>1 DEF Between, OneShown, ShownOf
    <2> QED
        BY <1>5, <2>2, WidgetBecomes
<1> QED
    BY <1>2, <1>4, <1>5

LEMMA TabsStep == ~TabsCollapse /\ TabsInv /\ [TabsNext]_tabVars => TabsInv'
<1> SUFFICES ASSUME ~TabsCollapse, TabsInv, [TabsNext]_tabVars PROVE TabsInv'
    OBVIOUS
<1>1. Between(Widget) /\ Widget.lis = lis /\ lis \in Seq(TabIds)
    BY DEF TabsInv, Widget, Between, WidgetTyped
<1>2. ASSUME NEW t \in TabIds, ClickTab(t) PROVE TabsInv'
    BY <1>1, <1>2, ClickedKeeps, WidgetBecomes DEF ClickTab
<1>3. ASSUME NEW t \in TabIds, NEW index \in 1 .. Len(lis) + 1, AddTab(t, index) PROVE TabsInv'
    BY <1>3, AddKeeps
<1>4. ASSUME NEW index \in DOMAIN lis, RemoveTab(index) PROVE TabsInv'
    BY <1>4, RemoveKeeps
<1>5. ASSUME NEW index \in DOMAIN lis, EnableTab(index) PROVE TabsInv'
    <2> DEFINE w == [Widget EXCEPT !.dis = Widget.dis \ {lis[index]},
                                   !.disabled = Widget.disabled \ {index}]
    <2>1. WidgetIs(w)
        BY <1>5 DEF EnableTab
    <2>2. Between(w)
        BY <1>1, AbleKeeps
    <2> QED
        BY <2>1, <2>2, WidgetBecomes
<1>6. ASSUME NEW index \in DOMAIN lis, DisableTab(index) PROVE TabsInv'
    <2> DEFINE w == [Widget EXCEPT !.dis = Widget.dis \cup {lis[index]},
                                   !.disabled = Widget.disabled \cup {index}]
    <2>1. WidgetIs(w)
        BY <1>6 DEF DisableTab
    <2>2. Between(w)
        BY <1>1, AbleKeeps
    <2> QED
        BY <2>1, <2>2, WidgetBecomes
<1>7. CASE Answered \/ AnswerLost
    BY <1>7, AnswerKeeps
<1>8. CASE UNCHANGED tabVars
    <2>1. WidgetIs(Widget)
        BY <1>8 DEF tabVars, WidgetIs, Widget
    <2> QED
        BY <1>1, <2>1, WidgetBecomes
<1> QED
    BY <1>2, <1>3, <1>4, <1>5, <1>6, <1>7, <1>8 DEF TabsNext

(* A set without two members has one at most.                                  *)
LEMMA OneIsShown == TabsInv => OnePanelShown
<1> SUFFICES ASSUME TabsInv PROVE OnePanelShown
    OBVIOUS
<1> DEFINE S == panels \cap ToSet(lis)
<1>1. S = selectedCls \cap ToSet(lis) /\ \A a, b \in S : a = b
    BY DEF TabsInv, Between, OneShown, ShownOf, Widget
<1>2. Cardinality(S) <= 1
    <2> HIDE DEF S
    <2>1. CASE S = {}
        BY <2>1, FS_EmptySet
    <2>2. CASE S # {}
        <3>1. PICK a \in S : TRUE
            BY <2>2
        <3>2. S = {a}
            BY <1>1, <3>1
        <3> QED
            BY <3>2, FS_Singleton
    <2> QED
        BY <2>1, <2>2
<1> QED
    BY <1>1, <1>2 DEF OnePanelShown

(* Whatever tabs are clicked, added, removed, enabled or disabled, and          *)
(* whichever answers come or are lost: of the tabs that are there one panel is  *)
(* shown at most, that of the marked tab (_tabify, load, abort), unless a       *)
(* click may close the open tab, with which it is false.                        *)
THEOREM OnePanelIsShown ==
    ASSUME ~TabsCollapse
    PROVE  TabsSpec => []OnePanelShown
<1>1. TabsInv /\ [TabsNext]_tabVars => TabsInv'
    BY TabsStep
<1> QED
    BY <1>1, TabsStart, OneIsShown, PTL DEF TabsSpec

-----------------------------------------------------------------------------
(* Dragging.                                                                 *)

(* A set of numbers has a least one.                                          *)
LEMMA LeastExists ==
    ASSUME NEW S, S \subseteq Nat, S # {}
    PROVE  \E x \in S : \A y \in S : x <= y
<1>1. PICK x \in S : \A y \in S : <<y, x>> \notin OpToRel(<, Nat)
    BY NatLessThanWellFounded, WFMin, Zenon
<1>2. \A y \in S : ~(y < x)
    BY <1>1 DEF OpToRel
<1> QED
    BY <1>2

(* What holds of 0 and goes on from each number to the next holds up to n: else *)
(* there is a least number of which it does not.                              *)
LEMMA GoesOn ==
    ASSUME NEW n \in Nat, NEW S, 0 \in S, \A i \in 1 .. n : i - 1 \in S => i \in S
    PROVE  \A i \in 0 .. n : i \in S
<1> SUFFICES ASSUME {i \in 0 .. n : i \notin S} # {} PROVE FALSE
    OBVIOUS
<1> DEFINE Not == {i \in 0 .. n : i \notin S}
<1>1. PICK x \in Not : \A y \in Not : x <= y
    <2>1. Not \subseteq Nat /\ Not # {}
        OBVIOUS
    <2> HIDE DEF Not
    <2> QED
        BY <2>1, LeastExists
<1>2. x \in 1 .. n /\ x - 1 \in S
    BY <1>1
<1> QED
    BY <1>1, <1>2

(* A recursion over numbers defines a function: there is one whose values are   *)
(* each made of the one before.                                                *)
Stepwise(f, n, V, a, F) ==
    /\ f \in [0 .. n -> V] /\ f[0] = a
    /\ \A i \in 1 .. n : f[i] = F[<<i, f[i - 1]>>]

Steps(n, V, a, F) == CHOOSE f : Stepwise(f, n, V, a, F)

LEMMA StepsDefine ==
    ASSUME NEW n \in Nat, NEW V, NEW a \in V, NEW F \in [(1 .. n) \X V -> V]
    PROVE  Stepwise(Steps(n, V, a, F), n, V, a, F)
<1> DEFINE Fits(k, f) == f[0] = a /\ \A i \in 1 .. k : f[i] = F[<<i, f[i - 1]>>]
           S == {k \in 0 .. n : \E f \in [0 .. k -> V] : Fits(k, f)}
<1>1. 0 \in S
    <2>1. [x \in 0 .. 0 |-> a] \in [0 .. 0 -> V] /\ Fits(0, [x \in 0 .. 0 |-> a])
        OBVIOUS
    <2> HIDE DEF Fits
    <2> QED
        BY <2>1
<1>2. ASSUME NEW k \in 1 .. n, k - 1 \in S PROVE k \in S
    <2>1. PICK f \in [0 .. k - 1 -> V] : Fits(k - 1, f)
        BY <1>2
    <2> DEFINE g == [x \in 0 .. k |-> IF x = k THEN F[<<k, f[k - 1]>>] ELSE f[x]]
    <2>2. f[k - 1] \in V
        OBVIOUS
    <2>3. F[<<k, f[k - 1]>>] \in V
        BY <2>2
    <2>4. g \in [0 .. k -> V]
        BY <2>3
    <2>5. g[k] = F[<<k, f[k - 1]>>] /\ \A x \in 0 .. k - 1 : g[x] = f[x]
        OBVIOUS
    <2> HIDE DEF g
    <2>6. ASSUME NEW i \in 1 .. k PROVE g[i] = F[<<i, g[i - 1]>>]
        <3>1. g[i - 1] = f[i - 1]
            BY <2>5
        <3>2. CASE i = k
            BY <2>5, <3>1, <3>2
        <3>3. CASE i \in 1 .. k - 1
            BY <2>1, <2>5, <3>1, <3>3
        <3> QED
            BY <3>2, <3>3
    <2>7. Fits(k, g)
        BY <2>1, <2>5, <2>6
    <2> QED
        BY <2>4, <2>7
<1>3. n \in S
    <2> HIDE DEF S
    <2> QED
        BY <1>1, <1>2, GoesOn
<1>4. PICK f : Stepwise(f, n, V, a, F)
    BY <1>3 DEF Stepwise
<1> QED
    BY <1>4, Zenon DEF Steps


Managers == [over : SUBSET DroppableSet, child : SUBSET DroppableSet]

(* The marks of greedy children: none but a droppable around a greedy one bears  *)
(* a mark.  A settled one is then not over; it bears one when its greedy child is *)
(* over, and bears none otherwise unless it is left over.                       *)
Marked(m, left) ==
    /\ m \in Managers
    /\ m.child \cap m.over \cap Settled = {}
    /\ \A p \in m.child : \E d \in Greedy : Within[d] = p
    /\ \A d \in Greedy : Within[d] \in Settled =>
          /\ d \in m.over => Within[d] \in m.child
          /\ Within[d] \in m.child => d \in m.over \/ Within[d] \in left

(* An innermost greedy droppable has been compared with the place.             *)
GreedyTold(m, d, at) == d \in Innermost => (d \in m.over <=> d \in at)

(* A settled droppable that bears no mark has been.                            *)
ToldUnlessMarked(m, d, at) ==
    d \in Settled /\ d \notin m.child => (d \in m.over <=> d \in at)

LEMMA AroundIs ==
    ASSUME NEW d \in DroppableSet
    PROVE  /\ Around(d) \subseteq DroppableSet /\ Around(d) \cap Innermost = {}
           /\ d \in Innermost => d \notin Around(d)
           /\ d \in Greedy /\ Within[d] \in Settled => Around(d) = {Within[d]}
           /\ d \notin Greedy => Around(d) = {}
           /\ Around(d) \cap Settled # {} =>
                 d \in Innermost /\ Around(d) = {Within[d]} /\ Within[d] \in Settled
           /\ \A e \in Greedy : Within[e] \in Settled \cap Around(d) => e = d
           /\ \A p \in Around(d) : d \in Greedy /\ Within[d] = p
BY DragDropAssumption DEF Around, Innermost, Settled

LEMMA SettledIs ==
    /\ Settled \subseteq DroppableSet /\ Innermost \subseteq Greedy /\ Greedy \subseteq DroppableSet
    /\ Innermost \subseteq Settled /\ NoDroppable \notin Settled
    /\ \A d \in Greedy : Within[d] \in Settled => d \in Innermost
    /\ \A d \in Greedy : Within[d] \notin Innermost
BY DragDropAssumption DEF Innermost, Settled

LEMMA CompareKeeps ==
    ASSUME NEW m, NEW left, Marked(m, left), NEW d \in DroppableSet, NEW at \in SUBSET DroppableSet
    PROVE  /\ Marked(Compare(m, d, at), left)
           /\ GreedyTold(Compare(m, d, at), d, at)
           /\ \A e \in Innermost \ {d} : e \in Compare(m, d, at).over <=> e \in m.over
<1> DEFINE r == Compare(m, d, at)
<1>1. CASE d \in m.child \/ (d \in at) = (d \in m.over)
    <2>1. r = m
        BY <1>1 DEF Compare
    <2>2. d \in Innermost => d \notin m.child
        BY SettledIs DEF Marked
    <2> QED
        BY <1>1, <2>1, <2>2 DEF GreedyTold
<1>2. CASE d \notin m.child /\ d \in at /\ d \notin m.over
    <2>1. r.over = (m.over \ Around(d)) \cup {d} /\ r.child = m.child \cup Around(d)
          /\ r = Manager(r.over, r.child)
        BY <1>2 DEF Compare, Enter, Manager
    <2>2. r \in Managers
        BY <2>1, AroundIs DEF Manager, Managers, Marked
    <2> HIDE DEF r
    <2>3. r.child \cap r.over \cap Settled = {}
        BY <1>2, <2>1, AroundIs DEF Marked
    <2>4. ASSUME NEW p \in r.child PROVE \E e \in Greedy : Within[e] = p
        BY <2>1 DEF Marked, Around
    <2>5. ASSUME NEW e \in Greedy, Within[e] \in Settled
          PROVE  /\ e \in r.over => Within[e] \in r.child
                 /\ Within[e] \in r.child => e \in r.over \/ Within[e] \in left
        BY <1>2, <2>1, <2>5, AroundIs, SettledIs DEF Marked
    <2>6. Marked(r, left)
        BY <2>2, <2>3, <2>4, <2>5 DEF Marked
    <2>7. GreedyTold(r, d, at) /\ \A e \in Innermost \ {d} : e \in r.over <=> e \in m.over
        BY <1>2, <2>1, AroundIs DEF GreedyTold
    <2> QED
        BY <2>6, <2>7 DEF r
<1>3. CASE d \notin m.child /\ d \notin at /\ d \in m.over
    <2>1. r.over = (m.over \ {d}) \cup Around(d) /\ r.child = m.child \ Around(d)
          /\ r = Manager(r.over, r.child)
        BY <1>3 DEF Compare, Leave, Manager
    <2>2. r \in Managers
        BY <2>1, AroundIs DEF Manager, Managers, Marked
    <2> HIDE DEF r
    <2>3. r.child \cap r.over \cap Settled = {}
        BY <1>3, <2>1, AroundIs DEF Marked
    <2>4. ASSUME NEW p \in r.child PROVE \E e \in Greedy : Within[e] = p
        BY <2>1 DEF Marked
    <2>5. ASSUME NEW e \in Greedy, Within[e] \in Settled
          PROVE  /\ e \in r.over => Within[e] \in r.child
                 /\ Within[e] \in r.child => e \in r.over \/ Within[e] \in left
        BY <1>3, <2>1, <2>5, AroundIs, SettledIs DEF Marked
    <2>6. Marked(r, left)
        BY <2>2, <2>3, <2>4, <2>5 DEF Marked
    <2>7. GreedyTold(r, d, at) /\ \A e \in Innermost \ {d} : e \in r.over <=> e \in m.over
        BY <1>3, <2>1, AroundIs DEF GreedyTold
    <2> QED
        BY <2>6, <2>7 DEF r
<1> QED
    BY <1>1, <1>2, <1>3

(* The managers after each droppable of a pass.                                *)
IsPass(f, m, at) ==
    /\ f \in [0 .. Len(Droppables) -> Managers]
    /\ f[0] = m
    /\ \A n \in 1 .. Len(Droppables) : f[n] = Compare(f[n - 1], Droppables[n], at)
    /\ DragPass(m, at) = f[Len(Droppables)]

PassOf(m, at) == CHOOSE f : IsPass(f, m, at)

LEMMA PassIs ==
    ASSUME NEW m \in Managers, NEW at \in SUBSET DroppableSet
    PROVE  IsPass(PassOf(m, at), m, at)
<1> DEFINE n == Len(Droppables)
           Next1(i, x) == Compare(x, Droppables[i], at)
           Val(f, i) == IF i = 0 THEN m ELSE Next1(i, f[i - 1])
           Body(f) == [i \in 0 .. n |-> Val(f, i)]
           U == CHOOSE f : f = Body(f)
           F == [p \in (1 .. n) \X Managers |-> Next1(p[1], p[2])]
<1>1. n \in Nat /\ \A i \in 1 .. n : Droppables[i] \in DroppableSet
    BY DragDropAssumption
<1>2. DragPass(m, at) = U[n]
    BY DEF DragPass
<1>a. ASSUME NEW x \in Managers, NEW d \in DroppableSet PROVE Compare(x, d, at) \in Managers
    BY AroundIs DEF Compare, Enter, Leave, Manager, Managers
<1>3. \A i \in 1 .. n : \A x \in Managers : Next1(i, x) \in Managers
    BY <1>1, <1>a
<1>b. \A i \in 1 .. n : \A x : Next1(i, x) = Compare(x, Droppables[i], at)
    OBVIOUS
<1> HIDE DEF n, Next1
<1>4. F \in [(1 .. n) \X Managers -> Managers]
      /\ \A i \in 1 .. n : \A x \in Managers : F[<<i, x>>] = Next1(i, x)
    BY <1>3
<1> HIDE DEF F
<1>5. PICK f : Stepwise(f, n, Managers, m, F)
    BY <1>1, <1>4, StepsDefine
<1>6. /\ f \in [0 .. n -> Managers] /\ f[0] = m
      /\ \A i \in 1 .. n : f[i] = Next1(i, f[i - 1])
    <2>1. /\ f \in [0 .. n -> Managers] /\ f[0] = m
          /\ \A i \in 1 .. n : f[i] = F[<<i, f[i - 1]>>]
        BY <1>5 DEF Stepwise
    <2>2. \A i \in 1 .. n : f[i - 1] \in Managers
        BY <1>1, <2>1
    <2> QED
        BY <1>4, <2>1, <2>2
<1>7. f = Body(f)
    BY <1>1, <1>6
<1> HIDE DEF Val
<1>8. U = Body(U)
    BY <1>7
<1>9. U = f
    <2>1. ASSUME NEW g, g = Body(g) PROVE g = f
        <3>1. g = [i \in 0 .. n |-> Val(g, i)]
            BY <2>1
        <3>2. g[0] = m /\ \A i \in 1 .. n : g[i] = Next1(i, g[i - 1])
            BY <1>1, <3>1 DEF Val
        <3> DEFINE S == {i \in 0 .. n : g[i] = f[i]}
        <3>3. 0 \in S /\ \A i \in 1 .. n : i - 1 \in S => i \in S
            BY <1>1, <1>6, <3>2
        <3> HIDE DEF S
        <3>4. \A i \in 0 .. n : i \in S
            BY <1>1, <3>3, GoesOn
        <3>5. f = [i \in 0 .. n |-> f[i]] /\ g = [i \in 0 .. n |-> g[i]]
            BY <1>6, <3>1
        <3> QED
            BY <3>4, <3>5 DEF S
    <2> HIDE DEF U, Body
    <2> QED
        BY <1>8, <2>1
<1> HIDE DEF U
<1>10. IsPass(f, m, at)
    BY <1>2, <1>6, <1>9, <1>b DEF IsPass, n
<1> QED
    BY <1>10, Zenon DEF PassOf

(* A pass keeps the marks, and tells every greedy droppable whether it is met.  *)
LEMMA PassTells ==
    ASSUME NEW m, NEW left, Marked(m, left), NEW at \in SUBSET DroppableSet
    PROVE  /\ Marked(DragPass(m, at), left)
           /\ \A d \in DroppableSet : GreedyTold(DragPass(m, at), d, at)
<1> DEFINE n == Len(Droppables)
<1>1. /\ n \in Nat /\ \A i \in 1 .. n : Droppables[i] \in DroppableSet
      /\ \A d \in DroppableSet : \E i \in 1 .. n : d = Droppables[i]
    BY DragDropAssumption DEF DroppableSet, ToSet
<1>2. PICK f : IsPass(f, m, at)
    BY PassIs DEF Marked
<1>3. /\ f \in [0 .. n -> Managers] /\ f[0] = m /\ DragPass(m, at) = f[n]
      /\ \A i \in 1 .. n : f[i] = Compare(f[i - 1], Droppables[i], at)
    BY <1>2 DEF IsPass
<1> HIDE DEF n
<1> DEFINE S == {i \in 0 .. n : Marked(f[i], left)
                    /\ \A j \in 1 .. i : GreedyTold(f[i], Droppables[j], at)}
<1>4. 0 \in S
    BY <1>1, <1>3
<1>5. ASSUME NEW i \in 1 .. n, i - 1 \in S PROVE i \in S
    <2>1. Marked(f[i - 1], left) /\ \A j \in 1 .. i - 1 : GreedyTold(f[i - 1], Droppables[j], at)
        BY <1>1, <1>5
    <2>2. /\ Marked(f[i], left) /\ GreedyTold(f[i], Droppables[i], at)
          /\ \A e \in Innermost \ {Droppables[i]} : e \in f[i].over <=> e \in f[i - 1].over
        BY <1>1, <1>3, <2>1, CompareKeeps
    <2>3. ASSUME NEW j \in 1 .. i PROVE GreedyTold(f[i], Droppables[j], at)
        <3>1. CASE Droppables[j] = Droppables[i]
            BY <2>2, <3>1
        <3>2. CASE Droppables[j] # Droppables[i]
            <4>1. j \in 1 .. i - 1
                BY <1>1, <3>2
            <4> QED
                BY <2>1, <2>2, <3>2, <4>1 DEF GreedyTold
        <3> QED
            BY <3>1, <3>2
    <2> QED
        BY <2>2, <2>3
<1> HIDE DEF S
<1>6. n \in S
    <2>1. n \in Nat
        BY <1>1
    <2>2. \A i \in 1 .. n : i - 1 \in S => i \in S
        BY <1>5
    <2>3. \A i \in 0 .. n : i \in S
        BY <1>4, <2>1, <2>2, GoesOn
    <2> QED
        BY <2>1, <2>3
<1> QED
    BY <1>1, <1>3, <1>6 DEF S

(* A second pass at the same place changes no innermost greedy droppable and no *)
(* mark of a settled one, and tells all settled ones.                          *)
LEMMA SecondPassTells ==
    ASSUME NEW m, NEW left, Marked(m, left), NEW at \in SUBSET DroppableSet,
           \A d \in DroppableSet : GreedyTold(m, d, at)
    PROVE  /\ DragPass(m, at).child \cap Settled = m.child \cap Settled
           /\ \A d \in DroppableSet : ToldUnlessMarked(DragPass(m, at), d, at)
<1> DEFINE n == Len(Droppables)
           Same(x) == x.child \cap Settled = m.child \cap Settled
                      /\ \A d \in DroppableSet : GreedyTold(x, d, at)
<1>1. /\ n \in Nat /\ \A i \in 1 .. n : Droppables[i] \in DroppableSet
      /\ \A d \in DroppableSet : \E i \in 1 .. n : d = Droppables[i]
    BY DragDropAssumption DEF DroppableSet, ToSet
<1>2. PICK f : IsPass(f, m, at)
    BY PassIs DEF Marked
<1>3. /\ f \in [0 .. n -> Managers] /\ f[0] = m /\ DragPass(m, at) = f[n]
      /\ \A i \in 1 .. n : f[i] = Compare(f[i - 1], Droppables[i], at)
    BY <1>2 DEF IsPass
<1> HIDE DEF n
<1> DEFINE S == {i \in 0 .. n : Same(f[i])
                    /\ \A j \in 1 .. i : ToldUnlessMarked(f[i], Droppables[j], at)}
<1>4. 0 \in S
    BY <1>1, <1>3
<1>5. ASSUME NEW i \in 1 .. n, i - 1 \in S PROVE i \in S
    <2> DEFINE x == f[i - 1]
               d == Droppables[i]
    <2>1. /\ Same(x) /\ \A j \in 1 .. i - 1 : ToldUnlessMarked(x, Droppables[j], at)
          /\ d \in DroppableSet /\ x \in Managers /\ f[i] = Compare(x, d, at)
        BY <1>1, <1>3, <1>5
    <2> HIDE DEF x, d
    <2>2. Same(f[i]) /\ ToldUnlessMarked(f[i], d, at)
          /\ \A e \in Settled \ {d} : e \in f[i].over <=> e \in x.over
          /\ \A p \in Settled : p \in f[i].child <=> p \in x.child
        <3>1. CASE d \in x.child \/ (d \in at) = (d \in x.over)
            <4>1. f[i] = x
                BY <2>1, <3>1 DEF Compare
            <4> QED
                BY <2>1, <3>1, <4>1 DEF ToldUnlessMarked
        <3>2. CASE d \notin x.child /\ (d \in at) # (d \in x.over)
            <4>1. d \notin Innermost
                BY <2>1, <3>2 DEF GreedyTold
            <4>2. Around(d) \cap Settled = {}
                BY <2>1, <4>1, AroundIs
            <4>3. CASE d \in at
                <5>1. f[i].over = (x.over \ Around(d)) \cup {d} /\ f[i].child = x.child \cup Around(d)
                    BY <2>1, <3>2, <4>3 DEF Compare, Enter, Manager
                <5>2. \A e \in Settled : /\ e # d => (e \in f[i].over <=> e \in x.over)
                                         /\ e \in f[i].child <=> e \in x.child
                    BY <4>2, <5>1
                <5> QED
                    BY <2>1, <4>1, <4>3, <5>1, <5>2, SettledIs DEF GreedyTold, ToldUnlessMarked
            <4>4. CASE d \notin at
                <5>1. f[i].over = (x.over \ {d}) \cup Around(d) /\ f[i].child = x.child \ Around(d)
                    BY <2>1, <3>2, <4>4 DEF Compare, Leave, Manager
                <5>2. \A e \in Settled : /\ e # d => (e \in f[i].over <=> e \in x.over)
                                         /\ e \in f[i].child <=> e \in x.child
                    BY <4>2, <5>1
                <5> QED
                    BY <2>1, <4>1, <4>2, <4>4, <5>1, <5>2, SettledIs DEF GreedyTold, ToldUnlessMarked
            <4> QED
                BY <4>3, <4>4
        <3> QED
            BY <3>1, <3>2
    <2>3. ASSUME NEW j \in 1 .. i PROVE ToldUnlessMarked(f[i], Droppables[j], at)
        <3>1. CASE Droppables[j] = d
            BY <2>2, <3>1
        <3>2. CASE Droppables[j] # d
            <4>1. j \in 1 .. i - 1 /\ Droppables[j] \in DroppableSet
                BY <1>1, <3>2 DEF d
            <4> QED
                BY <2>1, <2>2, <3>2, <4>1 DEF ToldUnlessMarked
        <3> QED
            BY <3>1, <3>2
    <2> QED
        BY <2>2, <2>3
<1> HIDE DEF S
<1>6. n \in S
    <2>1. n \in Nat
        BY <1>1
    <2>2. \A i \in 1 .. n : i - 1 \in S => i \in S
        BY <1>5
    <2>3. \A i \in 0 .. n : i \in S
        BY <1>4, <2>1, <2>2, GoesOn
    <2> QED
        BY <2>1, <2>3
<1> QED
    <2>1. Same(f[n]) /\ \A k \in 1 .. n : ToldUnlessMarked(f[n], Droppables[k], at)
        BY <1>6 DEF S
    <2>2. \A d \in DroppableSet : ToldUnlessMarked(f[n], d, at)
        BY <1>1, <2>1
    <2> QED
        BY <1>3, <2>1, <2>2

-----------------------------------------------------------------------------

(* At every step of a drag the droppables bear marks of their greedy children,  *)
(* and all greedy ones have been told of the place; all others as well once    *)
(* the draggable has stayed there.                                           *)
DragInv ==
    /\ phase \in {"idle", "down", "dragging"} /\ leaked \in BOOLEAN /\ still \in BOOLEAN
    /\ place \in SUBSET DroppableSet /\ downPlace \in SUBSET DroppableSet
    /\ Marked(Manager(over, greedyChild), leftOver)
    /\ phase = "dragging" =>
          \A d \in DroppableSet : GreedyTold(Manager(over, greedyChild), d, place)
    /\ phase = "dragging" /\ still =>
          \A d \in DroppableSet \ leftOver : ToldUnlessMarked(Manager(over, greedyChild), d, place)

LEMMA ManagerIs ==
    ASSUME NEW o, NEW c
    PROVE  Manager(o, c).over = o /\ Manager(o, c).child = c
BY DEF Manager

LEMMA ManagerOf ==
    ASSUME NEW m \in Managers
    PROVE  Manager(m.over, m.child) = m
BY DEF Manager, Managers

(* Only those of the droppables that bear a mark can be left over.             *)
LEMMA FewerAreLeft ==
    ASSUME NEW m, NEW left, Marked(m, left), NEW few, left \cap m.child \subseteq few
    PROVE  Marked(m, few)
BY DEF Marked

LEMMA DragStart == DragDropInit => DragInv
<1> SUFFICES ASSUME DragDropInit PROVE DragInv
    OBVIOUS
<1>1. Marked(Manager({}, {}), {})
    BY DEF Marked, Manager, Managers
<1> QED
    BY <1>1 DEF DragDropInit, DragInv

LEMMA DroppedKeeps ==
    ASSUME DragInv, DropOver
    PROVE  Marked(Manager(over, greedyChild), leftOver)' /\ still' = FALSE
<1>1. over' = {} /\ greedyChild' = greedyChild /\ leftOver' = greedyChild /\ still' = FALSE
    BY DEF DropOver
<1>2. /\ greedyChild \in SUBSET DroppableSet
      /\ \A p \in greedyChild : \E d \in Greedy : Within[d] = p
    BY ManagerIs DEF DragInv, Marked, Managers
<1>3. Marked(Manager({}, greedyChild), greedyChild)
    BY <1>2, ManagerIs DEF Marked, Managers, Manager
<1> QED
    BY <1>1, <1>3

LEMMA PressKeeps ==
    ASSUME DragInv, NEW at \in SUBSET DroppableSet, PressDraggable(at)
    PROVE  DragInv'
<1>1. /\ phase' = "down" /\ downPlace' = at /\ place' = place
      /\ leaked' = (leaked \/ phase = "down")
      /\ IF phase = "dragging" THEN DropOver
         ELSE UNCHANGED <<over, greedyChild, received, still, leftOver>>
    BY DEF PressDraggable
<1>2. Marked(Manager(over, greedyChild), leftOver)' /\ still' \in BOOLEAN
    <2>1. CASE phase = "dragging"
        BY <1>1, <2>1, DroppedKeeps
    <2>2. CASE phase # "dragging"
        BY <1>1, <2>2 DEF DragInv
    <2> QED
        BY <2>1, <2>2
<1> QED
    BY <1>1, <1>2 DEF DragInv

LEMMA ReleaseKeeps ==
    ASSUME DragInv, ReleaseDraggable
    PROVE  DragInv'
<1>1. /\ phase' = "idle" /\ downPlace' = downPlace /\ place' = place /\ leaked' = leaked
      /\ IF phase = "dragging" THEN DropOver
         ELSE UNCHANGED <<over, greedyChild, received, still, leftOver>>
    BY DEF ReleaseDraggable
<1>2. Marked(Manager(over, greedyChild), leftOver)' /\ still' \in BOOLEAN
    <2>1. CASE phase = "dragging"
        BY <1>1, <2>1, DroppedKeeps
    <2>2. CASE phase # "dragging"
        BY <1>1, <2>2 DEF DragInv
    <2> QED
        BY <2>1, <2>2
<1> QED
    BY <1>1, <1>2 DEF DragInv

(* A move makes one pass at its place; another one was made there if the       *)
(* draggable was there before, or is made by a handler that was left bound.     *)
LEMMA MoveDragKeeps ==
    ASSUME DragInv, NEW at \in SUBSET DroppableSet, MoveDraggable(at)
    PROVE  DragInv'
<1> DEFINE now == Manager(over, greedyChild)
           started == IF phase = "dragging" THEN now ELSE DragPass(now, downPlace)
           earlier == IF phase = "dragging" THEN place ELSE downPlace
           once == DragPass(started, at)
<1>a. PICK again \in {FALSE, leaked} :
         LET passed == IF again THEN DragPass(once, at) ELSE once
         IN  /\ over' = passed.over /\ greedyChild' = passed.child
             /\ leftOver' = leftOver \cap started.child \cap passed.child
             /\ still' = (again \/ earlier = at) /\ phase' = "dragging" /\ place' = at
             /\ leaked' = leaked /\ downPlace' = downPlace
    BY Zenon DEF MoveDraggable
<1> DEFINE passed == IF again THEN DragPass(once, at) ELSE once
           left == leftOver \cap started.child \cap passed.child
<1>1. /\ over' = passed.over /\ greedyChild' = passed.child /\ leftOver' = left
      /\ still' = (again \/ earlier = at) /\ phase' = "dragging" /\ place' = at
      /\ leaked' = leaked /\ downPlace' = downPlace
    BY <1>a
<1>2. /\ Marked(now, leftOver) /\ place \in SUBSET DroppableSet /\ downPlace \in SUBSET DroppableSet
      /\ leaked \in BOOLEAN
      /\ phase = "dragging" => \A d \in DroppableSet : GreedyTold(now, d, place)
    BY DEF DragInv
<1>3. left = leftOver \cap started.child \cap passed.child
    OBVIOUS
<1>4. earlier = IF phase = "dragging" THEN place ELSE downPlace
    OBVIOUS
<1> HIDE DEF now, left, earlier
<1>5. /\ Marked(started, leftOver)
      /\ \A d \in DroppableSet : GreedyTold(started, d, earlier)
    BY <1>2, <1>4, PassTells
<1> HIDE DEF started
<1>6. Marked(started, leftOver \cap started.child)
    BY <1>5, FewerAreLeft
<1>7. /\ Marked(once, leftOver \cap started.child)
      /\ \A d \in DroppableSet : GreedyTold(once, d, at)
    BY <1>6, PassTells
<1>8. earlier = at => \A d \in DroppableSet : ToldUnlessMarked(once, d, at)
    BY <1>5, SecondPassTells
<1> HIDE DEF once
<1>9. again => \A d \in DroppableSet : ToldUnlessMarked(DragPass(once, at), d, at)
    BY <1>7, SecondPassTells
<1>10. /\ Marked(passed, leftOver \cap started.child)
       /\ \A d \in DroppableSet : GreedyTold(passed, d, at)
    BY <1>7, PassTells
<1>11. again \/ earlier = at => \A d \in DroppableSet : ToldUnlessMarked(passed, d, at)
    BY <1>2, <1>8, <1>9
<1> HIDE DEF passed
<1>12. Marked(passed, left)
    BY <1>3, <1>10, FewerAreLeft
<1>13. Manager(passed.over, passed.child) = passed
    BY <1>12, ManagerOf DEF Marked
<1>14. Manager(over, greedyChild)' = passed
    BY <1>1, <1>13
<1>15. Marked(Manager(over, greedyChild), leftOver)'
    BY <1>1, <1>12, <1>14
<1> QED
    BY <1>1, <1>2, <1>10, <1>11, <1>14, <1>15 DEF DragInv

LEMMA DragStep == DragInv /\ [DragDropNext]_dragVars => DragInv'
<1> SUFFICES ASSUME DragInv, [DragDropNext]_dragVars PROVE DragInv'
    OBVIOUS
<1>1. ASSUME NEW at \in SUBSET DroppableSet, PressDraggable(at) PROVE DragInv'
    BY <1>1, PressKeeps
<1>2. ASSUME NEW at \in SUBSET DroppableSet, MoveDraggable(at) PROVE DragInv'
    BY <1>2, MoveDragKeeps
<1>3. CASE ReleaseDraggable
    BY <1>3, ReleaseKeeps
<1>4. CASE UNCHANGED dragVars
    BY <1>4 DEF dragVars, DragInv
<1> QED
    BY <1>1, <1>2, <1>3, <1>4 DEF DragDropNext

(* What would get the drop is met and has no greedy one met right within it.   *)
LEMMA ReceiverIs ==
    ASSUME NEW at \in SUBSET DroppableSet, Receiver(at) # NoDroppable
    PROVE  Receiver(at) \in at /\ \A e \in Greedy \cap at : Within[e] # Receiver(at)
<1> DEFINE taking == {n \in 1 .. Len(Droppables) : Takes(Droppables[n], at)}
<1>1. taking # {} /\ Receiver(at) = Droppables[Min(taking)]
    BY DEF Receiver
<1>2. taking \subseteq Nat
    BY DragDropAssumption
<1>3. Min(taking) \in taking
    <2> HIDE DEF taking
    <2>1. \E x \in taking : \A y \in taking : x <= y
        BY <1>1, <1>2, LeastExists
    <2> QED
        BY <2>1 DEF Min
<1>4. Takes(Receiver(at), at)
    <2> DEFINE i == Min(taking)
    <2>1. i \in taking
        BY <1>3
    <2> HIDE DEF i
    <2>2. Takes(Droppables[i], at)
        BY <2>1
    <2> QED
        BY <1>1, <2>2 DEF i
<1>5. ASSUME NEW e \in Greedy \cap at, Within[e] = Receiver(at) PROVE Inside(e, Receiver(at))
    BY <1>5, DragDropAssumption DEF Inside
<1> QED
    BY <1>4, <1>5 DEF Takes

LEMMA OverIsMet == DragInv => OverWhatItMeets
<1> SUFFICES ASSUME DragInv, phase = "dragging", still
             PROVE  /\ \A d \in Settled \ leftOver :
                           d \in over <=> (d \in place /\ \A e \in Greedy \cap place : Within[e] # d)
                    /\ Receiver(place) \in Settled => Receiver(place) \in over \cup leftOver
    BY DEF OverWhatItMeets
<1> DEFINE m == Manager(over, greedyChild)
<1>1. /\ Marked(m, leftOver) /\ m.over = over /\ m.child = greedyChild
      /\ place \in SUBSET DroppableSet
      /\ \A d \in DroppableSet : GreedyTold(m, d, place)
      /\ \A d \in Settled \ leftOver : ToldUnlessMarked(m, d, place)
    BY ManagerIs, SettledIs DEF DragInv
<1> HIDE DEF m
<1>2. ASSUME NEW d \in Settled \ leftOver
      PROVE  d \in over <=> (d \in place /\ \A e \in Greedy \cap place : Within[e] # d)
    <2>1. CASE d \in greedyChild
        <3>1. d \notin over
            BY <1>1, <2>1 DEF Marked
        <3>2. PICK e \in Greedy : Within[e] = d
            BY <1>1, <2>1 DEF Marked
        <3>3. e \in DroppableSet /\ e \in Innermost
            BY <3>2, SettledIs
        <3>4. e \in over
            BY <1>1, <2>1, <3>2, <3>3 DEF Marked
        <3>5. e \in place
            BY <1>1, <3>3, <3>4 DEF GreedyTold
        <3> QED
            BY <3>1, <3>2, <3>5
    <2>2. CASE d \notin greedyChild
        <3>1. d \in over <=> d \in place
            BY <1>1, <2>2 DEF ToldUnlessMarked
        <3>2. ASSUME NEW e \in Greedy \cap place, Within[e] = d PROVE FALSE
            <4>1. e \in DroppableSet /\ e \in Innermost
                BY <3>2, SettledIs
            <4>2. e \in over
                BY <1>1, <4>1 DEF GreedyTold
            <4> QED
                BY <1>1, <2>2, <3>2, <4>1, <4>2 DEF Marked
        <3> QED
            BY <3>1, <3>2
    <2> QED
        BY <2>1, <2>2
<1>3. Receiver(place) \in Settled => Receiver(place) \in over \cup leftOver
    <2> DEFINE r == Receiver(place)
    <2> SUFFICES ASSUME r \in Settled, r \notin leftOver PROVE r \in over
        OBVIOUS
    <2>1. r \in place /\ \A e \in Greedy \cap place : Within[e] # r
        BY <1>1, ReceiverIs, SettledIs
    <2> HIDE DEF r
    <2> QED
        BY <1>1, <1>2, <2>1
<1> QED
    BY <1>2, <1>3

(* OverWhatItMeets: for any droppables, greedy or not and however they lie in   *)
(* one another, and any sequence of presses, moves and releases, those of which *)
(* mouseups are missed included (ddmanager.drag): once the draggable stays      *)
(* where it is, those of the settled ones are over that it meets, without the   *)
(* one whose greedy child it meets.  Droppables with two greedy ones right      *)
(* within them, or with a greedy one that has another in it, are not settled.   *)
THEOREM OverIsWhatItMeets == DragDropSpec => []OverWhatItMeets
<1>1. DragDropInit => DragInv
    BY DragStart
<1>2. DragInv /\ [DragDropNext]_dragVars => DragInv'
    BY DragStep
<1>3. DragInv => OverWhatItMeets
    BY OverIsMet
<1> QED
    BY <1>1, <1>2, <1>3, PTL DEF DragDropSpec

-----------------------------------------------------------------------------
(* Sequences without duplicates.                                              *)

Distinct(s) == \A n \in 1 .. Len(s) : \A m \in 1 .. Len(s) : s[n] = s[m] => n = m

LEMMA SameSequence ==
    ASSUME NEW V, NEW s \in Seq(V), NEW t \in Seq(V), Len(s) = Len(t),
           \A n \in 1 .. Len(s) : s[n] = t[n]
    PROVE  s = t
<1>1. s = [n \in 1 .. Len(s) |-> s[n]] /\ t = [n \in 1 .. Len(t) |-> t[n]]
    OBVIOUS
<1> QED
    BY <1>1

LEMMA InsertedAtIs ==
    ASSUME NEW V, NEW s \in Seq(V), NEW i \in 1 .. Len(s) + 1, NEW e \in V
    PROVE  /\ InsertAt(s, i, e) \in Seq(V) /\ Len(InsertAt(s, i, e)) = Len(s) + 1
           /\ \A n \in 1 .. Len(s) + 1 :
                 InsertAt(s, i, e)[n] = IF n < i THEN s[n] ELSE IF n = i THEN e ELSE s[n - 1]
<1> DEFINE k == Len(s)
           a == SubSeq(s, 1, i - 1)
           b == SubSeq(s, i, k)
           c == a \o <<e>>
<1>1. k \in Nat /\ i \in 1 .. k + 1 /\ \A j \in 1 .. k : s[j] \in V
    BY LenProperties, ElementOfSeq
<1>2. k = Len(s)
    OBVIOUS
<1> HIDE DEF k
<1>3. a \in Seq(V) /\ Len(a) = i - 1 /\ \A n \in 1 .. i - 1 : a[n] = s[n]
    BY <1>1, <1>2, SubSeqProperties
<1>4. b \in Seq(V) /\ Len(b) = k - i + 1 /\ \A n \in 1 .. k - i + 1 : b[n] = s[n + i - 1]
    BY <1>1, <1>2, SubSeqProperties
<1>5. InsertAt(s, i, e) = c \o b
    BY <1>2 DEF InsertAt
<1> HIDE DEF a, b
<1>6. c \in Seq(V) /\ Len(c) = i /\ \A n \in 1 .. i : c[n] = IF n < i THEN s[n] ELSE e
    <2>1. <<e>> \in Seq(V) /\ Len(<<e>>) = 1 /\ <<e>>[1] = e
        OBVIOUS
    <2> DEFINE d == <<e>>
    <2> HIDE DEF d
    <2>2. d \in Seq(V) /\ Len(d) = 1 /\ d[1] = e
        BY <2>1 DEF d
    <2>3. a \o d \in Seq(V) /\ Len(a \o d) = Len(a) + Len(d)
          /\ \A n \in 1 .. Len(a) + Len(d) :
                (a \o d)[n] = IF n <= Len(a) THEN a[n] ELSE d[n - Len(a)]
        BY <1>3, <2>2, ConcatProperties
    <2>4. Len(a \o d) = i /\ \A n \in 1 .. i : (a \o d)[n] = IF n < i THEN s[n] ELSE e
        BY <1>1, <1>3, <2>2, <2>3
    <2> QED
        BY <2>3, <2>4 DEF d
<1> HIDE DEF c
<1>7. c \o b \in Seq(V) /\ Len(c \o b) = Len(c) + Len(b)
      /\ \A n \in 1 .. Len(c) + Len(b) :
            (c \o b)[n] = IF n <= Len(c) THEN c[n] ELSE b[n - Len(c)]
    BY <1>4, <1>6, ConcatProperties
<1>8. Len(c) + Len(b) = k + 1
    BY <1>1, <1>4, <1>6
<1>9. ASSUME NEW n \in 1 .. k + 1
      PROVE  (c \o b)[n] = IF n < i THEN s[n] ELSE IF n = i THEN e ELSE s[n - 1]
    <2>1. CASE n \in 1 .. i
        BY <1>1, <1>6, <1>7, <1>8, <2>1
    <2>2. CASE n \in i + 1 .. k + 1
        <3>1. (c \o b)[n] = b[n - i]
            BY <1>1, <1>6, <1>7, <1>8, <2>2
        <3>2. n - i \in 1 .. k - i + 1 /\ n - i + i - 1 = n - 1
            BY <1>1, <2>2
        <3>3. b[n - i] = s[n - 1]
            BY <1>4, <3>2
        <3> QED
            BY <1>1, <2>2, <3>1, <3>3
    <2>3. n \in 1 .. i \/ n \in i + 1 .. k + 1
        BY <1>1
    <2> QED
        BY <2>1, <2>2, <2>3
<1> QED
    BY <1>2, <1>5, <1>7, <1>8, <1>9

LEMMA RemovedAtIs ==
    ASSUME NEW V, NEW s \in Seq(V), NEW i \in 1 .. Len(s)
    PROVE  /\ RemoveAt(s, i) \in Seq(V) /\ Len(RemoveAt(s, i)) = Len(s) - 1
           /\ \A n \in 1 .. Len(s) - 1 :
                 RemoveAt(s, i)[n] = IF n < i THEN s[n] ELSE s[n + 1]
<1> DEFINE k == Len(s)
           a == SubSeq(s, 1, i - 1)
           b == SubSeq(s, i + 1, k)
<1>1. k \in Nat /\ i \in 1 .. k /\ \A j \in 1 .. k : s[j] \in V
    BY LenProperties, ElementOfSeq
<1>2. k = Len(s)
    OBVIOUS
<1> HIDE DEF k
<1>3. a \in Seq(V) /\ Len(a) = i - 1 /\ \A n \in 1 .. i - 1 : a[n] = s[n]
    BY <1>1, <1>2, SubSeqProperties
<1>4. b \in Seq(V) /\ Len(b) = k - i /\ \A n \in 1 .. k - i : b[n] = s[n + i]
    BY <1>1, <1>2, SubSeqProperties
<1>5. RemoveAt(s, i) = a \o b
    BY <1>2 DEF RemoveAt
<1> HIDE DEF a, b
<1>6. a \o b \in Seq(V) /\ Len(a \o b) = Len(a) + Len(b)
      /\ \A n \in 1 .. Len(a) + Len(b) :
            (a \o b)[n] = IF n <= Len(a) THEN a[n] ELSE b[n - Len(a)]
    BY <1>3, <1>4, ConcatProperties
<1>7. Len(a) + Len(b) = k - 1
    BY <1>1, <1>3, <1>4
<1>8. ASSUME NEW n \in 1 .. k - 1
      PROVE  (a \o b)[n] = IF n < i THEN s[n] ELSE s[n + 1]
    <2>1. CASE n \in 1 .. i - 1
        BY <1>1, <1>3, <1>6, <1>7, <2>1
    <2>2. CASE n \in i .. k - 1
        <3>1. (a \o b)[n] = b[n - (i - 1)]
            BY <1>1, <1>3, <1>6, <1>7, <2>2
        <3>2. n - (i - 1) \in 1 .. k - i /\ n - (i - 1) + i = n + 1
            BY <1>1, <2>2
        <3>3. b[n - (i - 1)] = s[n + 1]
            BY <1>4, <3>2
        <3> QED
            BY <1>1, <2>2, <3>1, <3>3
    <2>3. n \in 1 .. i - 1 \/ n \in i .. k - 1
        BY <1>1
    <2> QED
        BY <2>1, <2>2, <2>3
<1> QED
    BY <1>2, <1>5, <1>6, <1>7, <1>8

LEMMA PlaceIs ==
    ASSUME NEW s, Distinct(s), NEW n \in 1 .. Len(s)
    PROVE  Place(s[n], s) = n
BY DEF Place, Distinct

LEMMA WithoutIs ==
    ASSUME NEW V, NEW s \in Seq(V), Distinct(s), NEW e
    PROVE  /\ ~Contains(s, e) => RemoveChild(s, e) = s
           /\ \A n \in 1 .. Len(s) : s[n] = e => RemoveChild(s, e) = RemoveAt(s, n)
           /\ RemoveChild(s, e) \in Seq(V) /\ Distinct(RemoveChild(s, e)) /\ ~Contains(RemoveChild(s, e), e)
           /\ \A x : x # e => (Contains(RemoveChild(s, e), x) <=> Contains(s, x))
<1>1. ~Contains(s, e) => RemoveChild(s, e) = s
    BY DEF RemoveChild
<1>2. ASSUME NEW n \in 1 .. Len(s), s[n] = e PROVE RemoveChild(s, e) = RemoveAt(s, n)
    BY <1>2, PlaceIs DEF RemoveChild, Contains
<1>3. CASE ~Contains(s, e)
    BY <1>1, <1>3 DEF Contains
<1>4. CASE Contains(s, e)
    <2>1. PICK n \in 1 .. Len(s) : s[n] = e
        BY <1>4 DEF Contains
    <2> DEFINE t == RemoveChild(s, e)
    <2>2. /\ Len(s) \in Nat /\ t \in Seq(V) /\ Len(t) = Len(s) - 1
          /\ \A m \in 1 .. Len(s) - 1 : t[m] = IF m < n THEN s[m] ELSE s[m + 1]
        <3>1. t = RemoveAt(s, n)
            BY <1>2, <2>1
        <3>2. Len(s) \in Nat
            BY LenProperties
        <3> HIDE DEF t
        <3> QED
            BY <3>1, <3>2, RemovedAtIs
    <2> HIDE DEF t
    <2>3. Distinct(t)
        <3>1. ASSUME NEW j \in 1 .. Len(t), NEW m \in 1 .. Len(t), t[j] = t[m] PROVE j = m
            <4>1. j \in 1 .. Len(s) - 1 /\ m \in 1 .. Len(s) - 1
                BY <2>2
            <4> DEFINE a == IF j < n THEN j ELSE j + 1
                       b == IF m < n THEN m ELSE m + 1
            <4>2. a \in 1 .. Len(s) /\ b \in 1 .. Len(s) /\ t[j] = s[a] /\ t[m] = s[b]
                BY <2>2, <4>1
            <4>3. a = b
                <5> HIDE DEF a, b
                <5> QED
                    BY <3>1, <4>2 DEF Distinct
            <4> QED
                BY <2>1, <4>1, <4>3
        <3> QED
            BY <3>1 DEF Distinct
    <2>4. ~Contains(t, e)
        <3>1. ASSUME NEW m \in 1 .. Len(t), t[m] = e PROVE FALSE
            <4>1. m \in 1 .. Len(s) - 1
                BY <2>2
            <4> DEFINE a == IF m < n THEN m ELSE m + 1
            <4>2. a \in 1 .. Len(s) /\ a # n /\ t[m] = s[a]
                BY <2>1, <2>2, <4>1
            <4> HIDE DEF a
            <4> QED
                BY <2>1, <3>1, <4>2 DEF Distinct
        <3> QED
            BY <3>1 DEF Contains
    <2>5. ASSUME NEW x, x # e PROVE Contains(t, x) <=> Contains(s, x)
        <3>1. ASSUME NEW m \in 1 .. Len(t), t[m] = x PROVE Contains(s, x)
            BY <2>2, <3>1 DEF Contains
        <3>2. ASSUME NEW m \in 1 .. Len(s), s[m] = x PROVE Contains(t, x)
            <4>1. CASE m < n
                BY <2>2, <3>2, <4>1 DEF Contains
            <4>2. CASE m > n
                <5>1. m - 1 \in 1 .. Len(t) /\ t[m - 1] = x
                    BY <2>2, <3>2, <4>2
                <5> QED
                    BY <5>1 DEF Contains
            <4> QED
                BY <2>1, <2>2, <2>5, <3>2, <4>1, <4>2
        <3> QED
            BY <3>1, <3>2 DEF Contains
    <2> QED
        BY <1>2, <1>4, <2>2, <2>3, <2>4, <2>5 DEF t
<1> QED
    BY <1>3, <1>4

LEMMA InsertKeeps ==
    ASSUME NEW V, NEW s \in Seq(V), Distinct(s), NEW i \in 1 .. Len(s) + 1, NEW e \in V,
           ~Contains(s, e)
    PROVE  /\ Distinct(InsertAt(s, i, e))
           /\ \A x : Contains(InsertAt(s, i, e), x) <=> (x = e \/ Contains(s, x))
           /\ RemoveChild(InsertAt(s, i, e), e) = s
<1> DEFINE t == InsertAt(s, i, e)
<1>1. /\ Len(s) \in Nat /\ t \in Seq(V) /\ Len(t) = Len(s) + 1
      /\ \A n \in 1 .. Len(s) + 1 : t[n] = IF n < i THEN s[n] ELSE IF n = i THEN e ELSE s[n - 1]
    <2>1. Len(s) \in Nat
        BY LenProperties
    <2> HIDE DEF t
    <2>2. /\ InsertAt(s, i, e) \in Seq(V) /\ Len(InsertAt(s, i, e)) = Len(s) + 1
          /\ \A n \in 1 .. Len(s) + 1 :
                InsertAt(s, i, e)[n] = IF n < i THEN s[n] ELSE IF n = i THEN e ELSE s[n - 1]
        <3>1. InsertAt(s, i, e) \in Seq(V) /\ Len(InsertAt(s, i, e)) = Len(s) + 1
            BY InsertedAtIs
        <3>2. \A n \in 1 .. Len(s) + 1 :
                  InsertAt(s, i, e)[n] = IF n < i THEN s[n] ELSE IF n = i THEN e ELSE s[n - 1]
            BY InsertedAtIs
        <3> QED
            BY <3>1, <3>2
    <2> QED
        BY <2>1, <2>2 DEF t
<1> HIDE DEF t
<1>2. \A n \in 1 .. Len(s) : s[n] # e
    BY DEF Contains
<1>3. Distinct(t)
    <2>1. ASSUME NEW j \in 1 .. Len(t), NEW m \in 1 .. Len(t), t[j] = t[m] PROVE j = m
        <3>1. j \in 1 .. Len(s) + 1 /\ m \in 1 .. Len(s) + 1
            BY <1>1
        <3>2. t[i] = e /\ \A k \in 1 .. Len(s) + 1 : k # i =>
                  t[k] = s[IF k < i THEN k ELSE k - 1] /\ (IF k < i THEN k ELSE k - 1) \in 1 .. Len(s)
            BY <1>1
        <3>3. CASE j = i \/ m = i
            BY <1>2, <2>1, <3>1, <3>2, <3>3
        <3>4. CASE j # i /\ m # i
            <4> DEFINE a == IF j < i THEN j ELSE j - 1
                       b == IF m < i THEN m ELSE m - 1
            <4>1. a \in 1 .. Len(s) /\ b \in 1 .. Len(s) /\ t[j] = s[a] /\ t[m] = s[b]
                BY <3>1, <3>2, <3>4
            <4>2. a = b
                <5> HIDE DEF a, b
                <5> QED
                    BY <2>1, <4>1 DEF Distinct
            <4> QED
                BY <1>1, <3>1, <3>4, <4>2
        <3> QED
            BY <3>3, <3>4
    <2> QED
        BY <2>1 DEF Distinct
<1>4. ASSUME NEW x PROVE Contains(t, x) <=> (x = e \/ Contains(s, x))
    <2>1. ASSUME NEW n \in 1 .. Len(t), t[n] = x PROVE x = e \/ Contains(s, x)
        <3>1. CASE n < i
            <4>1. n \in 1 .. Len(s) /\ t[n] = s[n]
                BY <1>1, <3>1
            <4> QED
                BY <2>1, <4>1 DEF Contains
        <3>2. CASE n = i
            BY <1>1, <2>1, <3>2
        <3>3. CASE n > i
            <4>1. n - 1 \in 1 .. Len(s) /\ t[n] = s[n - 1]
                BY <1>1, <3>3
            <4> QED
                BY <2>1, <4>1 DEF Contains
        <3> QED
            BY <1>1, <3>1, <3>2, <3>3
    <2>2. Contains(t, e)
        BY <1>1 DEF Contains
    <2>3. ASSUME NEW n \in 1 .. Len(s), s[n] = x PROVE Contains(t, x)
        <3>1. CASE n < i
            BY <1>1, <2>3, <3>1 DEF Contains
        <3>2. CASE n >= i
            <4>1. n + 1 \in 1 .. Len(t) /\ t[n + 1] = x
                BY <1>1, <2>3, <3>2
            <4> QED
                BY <4>1 DEF Contains
        <3> QED
            BY <1>1, <3>1, <3>2
    <2> QED
        BY <2>1, <2>2, <2>3 DEF Contains
<1>5. RemoveChild(t, e) = RemoveAt(t, i)
    BY <1>1, <1>3, WithoutIs
<1>6. RemoveAt(t, i) = s
    <2>1. i \in 1 .. Len(t) /\ Len(t) - 1 = Len(s)
        BY <1>1
    <2>2. /\ RemoveAt(t, i) \in Seq(V) /\ Len(RemoveAt(t, i)) = Len(t) - 1
          /\ \A n \in 1 .. Len(t) - 1 : RemoveAt(t, i)[n] = IF n < i THEN t[n] ELSE t[n + 1]
        BY <1>1, <2>1, RemovedAtIs
    <2> DEFINE u == RemoveAt(t, i)
    <2> HIDE DEF u
    <2>3. /\ u \in Seq(V) /\ Len(u) = Len(s)
          /\ \A n \in 1 .. Len(s) : u[n] = IF n < i THEN t[n] ELSE t[n + 1]
        BY <2>1, <2>2 DEF u
    <2>4. ASSUME NEW n \in 1 .. Len(s) PROVE u[n] = s[n]
        <3>1. CASE n < i
            BY <1>1, <2>3, <3>1
        <3>2. CASE n >= i
            <4>1. u[n] = t[n + 1] /\ n + 1 \in 1 .. Len(s) + 1 /\ ~(n + 1 < i) /\ n + 1 # i
                  /\ n + 1 - 1 = n
                BY <1>1, <2>3, <3>2
            <4>2. t[n + 1] = s[n + 1 - 1]
                BY <1>1, <4>1
            <4> QED
                BY <4>1, <4>2
        <3> QED
            BY <1>1, <3>1, <3>2
    <2>5. u = s
        BY <2>3, <2>4, SameSequence
    <2> QED
        BY <2>5 DEF u
<1> QED
    BY <1>3, <1>4, <1>5, <1>6 DEF t

LEMMA Commutes ==
    ASSUME NEW V, NEW s \in Seq(V), Distinct(s), NEW x, NEW y, x # y
    PROVE  RemoveChild(RemoveChild(s, x), y) = RemoveChild(RemoveChild(s, y), x)
<1>1. ASSUME NEW a, NEW b, a # b, NEW n \in 1 .. Len(s), NEW m \in 1 .. Len(s),
             s[n] = a, s[m] = b, n < m
      PROVE  RemoveChild(RemoveChild(s, a), b) = RemoveChild(RemoveChild(s, b), a)
    <2> DEFINE A == RemoveChild(s, a)
               B == RemoveChild(s, b)
    <2>1. Len(s) \in Nat
        BY LenProperties
    <2>2. A = RemoveAt(s, n) /\ B = RemoveAt(s, m) /\ Distinct(A) /\ Distinct(B)
        BY <1>1, WithoutIs
    <2> HIDE DEF A, B
    <2>3. /\ A \in Seq(V) /\ Len(A) = Len(s) - 1
          /\ \A k \in 1 .. Len(s) - 1 : A[k] = IF k < n THEN s[k] ELSE s[k + 1]
        BY <2>2, RemovedAtIs
    <2>4. /\ B \in Seq(V) /\ Len(B) = Len(s) - 1
          /\ \A k \in 1 .. Len(s) - 1 : B[k] = IF k < m THEN s[k] ELSE s[k + 1]
        BY <2>2, RemovedAtIs
    <2>5. m - 1 \in 1 .. Len(A) /\ A[m - 1] = b
        BY <1>1, <2>1, <2>3
    <2>6. n \in 1 .. Len(B) /\ B[n] = a
        BY <1>1, <2>1, <2>4
    <2>7. RemoveChild(A, b) = RemoveAt(A, m - 1) /\ RemoveChild(B, a) = RemoveAt(B, n)
        BY <2>2, <2>3, <2>4, <2>5, <2>6, WithoutIs
    <2> DEFINE C == RemoveAt(A, m - 1)
               D == RemoveAt(B, n)
    <2>8. /\ C \in Seq(V) /\ Len(C) = Len(A) - 1
          /\ \A k \in 1 .. Len(A) - 1 : C[k] = IF k < m - 1 THEN A[k] ELSE A[k + 1]
        BY <2>3, <2>5, RemovedAtIs
    <2>9. /\ D \in Seq(V) /\ Len(D) = Len(B) - 1
          /\ \A k \in 1 .. Len(B) - 1 : D[k] = IF k < n THEN B[k] ELSE B[k + 1]
        BY <2>4, <2>6, RemovedAtIs
    <2> HIDE DEF C, D
    <2>10. ASSUME NEW k \in 1 .. Len(C) PROVE C[k] = D[k]
        <3>1. k \in 1 .. Len(s) - 2 /\ Len(A) = Len(s) - 1 /\ Len(B) = Len(s) - 1
            BY <2>1, <2>3, <2>4, <2>8
        <3>2. CASE k < n
            <4>1. C[k] = A[k] /\ D[k] = B[k]
                BY <1>1, <2>1, <2>8, <2>9, <3>1, <3>2
            <4>2. k \in 1 .. Len(s) - 1 /\ k < n /\ k < m
                BY <1>1, <2>1, <3>1, <3>2
            <4>3. A[k] = s[k]
                BY <2>3, <4>2
            <4>4. B[k] = s[k]
                BY <2>4, <4>2
            <4> QED
                BY <4>1, <4>3, <4>4
        <3>3. CASE k >= n /\ k < m - 1
            <4>1. C[k] = A[k] /\ D[k] = B[k + 1]
                BY <1>1, <2>1, <2>8, <2>9, <3>1, <3>3
            <4>2. A[k] = s[k + 1] /\ B[k + 1] = s[k + 1]
                BY <1>1, <2>1, <2>3, <2>4, <3>1, <3>3
            <4> QED
                BY <4>1, <4>2
        <3>4. CASE k >= m - 1
            <4>1. C[k] = A[k + 1] /\ D[k] = B[k + 1]
                BY <1>1, <2>1, <2>8, <2>9, <3>1, <3>4
            <4>2. A[k + 1] = s[k + 1 + 1] /\ B[k + 1] = s[k + 1 + 1]
                BY <1>1, <2>1, <2>3, <2>4, <3>1, <3>4
            <4> QED
                BY <4>1, <4>2
        <3> QED
            BY <2>1, <3>1, <3>2, <3>3, <3>4
    <2>11. Len(C) = Len(D)
        BY <2>3, <2>4, <2>8, <2>9
    <2>12. C = D
        BY <2>8, <2>9, <2>10, <2>11, SameSequence
    <2> QED
        BY <2>7, <2>12 DEF A, B, C, D
<1>2. CASE ~Contains(s, x)
    <2>1. RemoveChild(s, x) = s
        BY <1>2, WithoutIs
    <2>2. RemoveChild(s, y) \in Seq(V) /\ Distinct(RemoveChild(s, y)) /\ ~Contains(RemoveChild(s, y), x)
        BY <1>2, WithoutIs
    <2>3. RemoveChild(RemoveChild(s, y), x) = RemoveChild(s, y)
        BY <2>2, WithoutIs
    <2> QED
        BY <2>1, <2>3
<1>3. CASE ~Contains(s, y)
    <2>1. RemoveChild(s, y) = s
        BY <1>3, WithoutIs
    <2>2. RemoveChild(s, x) \in Seq(V) /\ Distinct(RemoveChild(s, x)) /\ ~Contains(RemoveChild(s, x), y)
        BY <1>3, WithoutIs
    <2>3. RemoveChild(RemoveChild(s, x), y) = RemoveChild(s, x)
        BY <2>2, WithoutIs
    <2> QED
        BY <2>1, <2>3
<1>4. CASE Contains(s, x) /\ Contains(s, y)
    <2>1. PICK n \in 1 .. Len(s) : s[n] = x
        BY <1>4 DEF Contains
    <2>2. PICK m \in 1 .. Len(s) : s[m] = y
        BY <1>4 DEF Contains
    <2>3. n < m \/ m < n
        BY <2>1, <2>2, LenProperties
    <2>4. CASE n < m
        BY <1>1, <2>1, <2>2, <2>4
    <2>5. CASE m < n
        BY <1>1, <2>1, <2>2, <2>5
    <2> QED
        BY <2>3, <2>4, <2>5
<1> QED
    BY <1>2, <1>3, <1>4

(* What is put before another and outlives it is where the other was.          *)
LEMMA TakesThePlace ==
    ASSUME NEW V, NEW s \in Seq(V), Distinct(s), NEW n \in 1 .. Len(s), NEW x \in V,
           ~Contains(s, x)
    PROVE  RemoveChild(InsertAt(s, n, x), s[n]) = InsertAt(RemoveChild(s, s[n]), n, x)
<1> DEFINE t == InsertAt(s, n, x)
           u == RemoveChild(s, s[n])
<1>1. Len(s) \in Nat /\ n \in 1 .. Len(s) + 1
    BY LenProperties
<1>2. /\ t \in Seq(V) /\ Len(t) = Len(s) + 1
      /\ \A k \in 1 .. Len(s) + 1 : t[k] = IF k < n THEN s[k] ELSE IF k = n THEN x ELSE s[k - 1]
    BY <1>1, InsertedAtIs
<1>3. Distinct(t)
    BY <1>1, InsertKeeps
<1>4. u = RemoveAt(s, n)
    BY WithoutIs
<1> HIDE DEF t, u
<1>5. /\ u \in Seq(V) /\ Len(u) = Len(s) - 1
      /\ \A k \in 1 .. Len(s) - 1 : u[k] = IF k < n THEN s[k] ELSE s[k + 1]
    BY <1>4, RemovedAtIs
<1>6. n + 1 \in 1 .. Len(t) /\ t[n + 1] = s[n]
    BY <1>1, <1>2
<1>7. RemoveChild(t, s[n]) = RemoveAt(t, n + 1)
    BY <1>2, <1>3, <1>6, WithoutIs
<1> DEFINE a == RemoveAt(t, n + 1)
           b == InsertAt(u, n, x)
<1>8. /\ a \in Seq(V) /\ Len(a) = Len(t) - 1
      /\ \A k \in 1 .. Len(t) - 1 : a[k] = IF k < n + 1 THEN t[k] ELSE t[k + 1]
    BY <1>2, <1>6, RemovedAtIs
<1>9. n \in 1 .. Len(u) + 1
    BY <1>1, <1>5
<1>10. /\ b \in Seq(V) /\ Len(b) = Len(u) + 1
       /\ \A k \in 1 .. Len(u) + 1 : b[k] = IF k < n THEN u[k] ELSE IF k = n THEN x ELSE u[k - 1]
    <2>1. u \in Seq(V)
        BY <1>5
    <2> HIDE DEF b
    <2>2. InsertAt(u, n, x) \in Seq(V) /\ Len(InsertAt(u, n, x)) = Len(u) + 1
        BY <1>9, <2>1, InsertedAtIs
    <2>3. \A k \in 1 .. Len(u) + 1 : InsertAt(u, n, x)[k]
              = IF k < n THEN u[k] ELSE IF k = n THEN x ELSE u[k - 1]
        BY <1>9, <2>1, InsertedAtIs
    <2> QED
        BY <2>2, <2>3 DEF b
<1> HIDE DEF a, b
<1>11. Len(a) = Len(b) /\ Len(t) - 1 = Len(s) /\ Len(u) + 1 = Len(s) /\ Len(a) = Len(s)
    BY <1>1, <1>2, <1>5, <1>8, <1>10
<1>12. ASSUME NEW k \in 1 .. Len(a) PROVE a[k] = b[k]
    <2>1. k \in 1 .. Len(s)
        BY <1>11
    <2>2. CASE k < n
        <3>1. a[k] = t[k] /\ b[k] = u[k]
            BY <1>1, <1>8, <1>10, <1>11, <2>1, <2>2
        <3>2. t[k] = s[k] /\ u[k] = s[k]
            BY <1>1, <1>2, <1>5, <1>11, <2>1, <2>2
        <3> QED
            BY <3>1, <3>2
    <2>3. CASE k = n
        BY <1>1, <1>2, <1>5, <1>8, <1>10, <1>11, <2>1, <2>3
    <2>4. CASE k > n
        <3>1. a[k] = t[k + 1] /\ b[k] = u[k - 1]
            BY <1>1, <1>8, <1>10, <1>11, <2>1, <2>4
        <3>2. t[k + 1] = s[k + 1 - 1] /\ u[k - 1] = s[k - 1 + 1]
            <4>1. k + 1 \in 1 .. Len(s) + 1 /\ ~(k + 1 < n) /\ k + 1 # n
                BY <1>1, <2>1, <2>4
            <4>2. k - 1 \in 1 .. Len(s) - 1 /\ ~(k - 1 < n)
                BY <1>1, <2>1, <2>4
            <4>3. t[k + 1] = s[k + 1 - 1]
                BY <1>2, <4>1
            <4> QED
                BY <1>5, <4>2, <4>3
        <3>3. k + 1 - 1 = k /\ k - 1 + 1 = k
            BY <2>1
        <3> QED
            BY <3>1, <3>2, <3>3
    <2> QED
        BY <1>1, <2>1, <2>2, <2>3, <2>4
<1>13. a = b
    BY <1>8, <1>10, <1>11, <1>12, SameSequence
<1> QED
    BY <1>7, <1>13 DEF a, b, t, u

LEMMA PutBack ==
    ASSUME NEW V, NEW s \in Seq(V), Distinct(s), NEW n \in 1 .. Len(s)
    PROVE  InsertAt(RemoveChild(s, s[n]), n, s[n]) = s
<1> DEFINE u == RemoveChild(s, s[n])
<1>1. Len(s) \in Nat /\ s[n] \in V
    BY LenProperties, ElementOfSeq
<1>2. u = RemoveAt(s, n)
    BY WithoutIs
<1> HIDE DEF u
<1>3. /\ u \in Seq(V) /\ Len(u) = Len(s) - 1
      /\ \A k \in 1 .. Len(s) - 1 : u[k] = IF k < n THEN s[k] ELSE s[k + 1]
    BY <1>2, RemovedAtIs
<1>4. n \in 1 .. Len(u) + 1
    BY <1>1, <1>3
<1> DEFINE x == s[n]
<1>a. x \in V
    BY <1>1
<1>b. x = s[n]
    OBVIOUS
<1> HIDE DEF x
<1> DEFINE b == InsertAt(u, n, x)
<1>5. /\ b \in Seq(V) /\ Len(b) = Len(u) + 1
      /\ \A k \in 1 .. Len(u) + 1 : b[k] = IF k < n THEN u[k] ELSE IF k = n THEN x ELSE u[k - 1]
    <2>1. u \in Seq(V)
        BY <1>3
    <2> HIDE DEF b
    <2>2. /\ InsertAt(u, n, x) \in Seq(V) /\ Len(InsertAt(u, n, x)) = Len(u) + 1
          /\ \A k \in 1 .. Len(u) + 1 : InsertAt(u, n, x)[k]
                = IF k < n THEN u[k] ELSE IF k = n THEN x ELSE u[k - 1]
        BY <1>4, <1>a, <2>1, InsertedAtIs
    <2> QED
        BY <2>2 DEF b
<1> HIDE DEF b
<1>6. Len(b) = Len(s) /\ Len(u) + 1 = Len(s)
    BY <1>1, <1>3, <1>5
<1>7. ASSUME NEW k \in 1 .. Len(b) PROVE b[k] = s[k]
    <2>1. k \in 1 .. Len(s)
        BY <1>6
    <2>2. CASE k <= n
        <3>1. CASE k = n
            BY <1>5, <1>6, <1>b, <2>1, <3>1
        <3>2. CASE k < n
            <4>1. k \in 1 .. Len(s) - 1 /\ k \in 1 .. Len(u) + 1
                BY <1>1, <1>6, <2>1, <3>2
            <4>2. b[k] = u[k] /\ u[k] = s[k]
                BY <1>3, <1>5, <3>2, <4>1
            <4> QED
                BY <4>2
        <3> QED
            BY <1>1, <2>1, <2>2, <3>1, <3>2
    <2>3. CASE k > n
        <3>1. b[k] = u[k - 1] /\ u[k - 1] = s[k - 1 + 1] /\ k - 1 + 1 = k
            BY <1>1, <1>3, <1>5, <1>6, <2>1, <2>3
        <3> QED
            BY <3>1
    <2> QED
        BY <1>1, <2>1, <2>2, <2>3
<1>8. b = s
    BY <1>5, <1>6, <1>7, SameSequence
<1> QED
    BY <1>8 DEF b, u, x

-----------------------------------------------------------------------------
(* Elements in the lists of a document.                                       *)

SortNodes == {Item(i) : i \in SortItems} \cup {Placeholder(l) : l \in Lists}

(* The elements E are in the lists, each of them once, and no others.          *)
Laid(lists, E) ==
    /\ lists \in [Lists -> Seq(SortNodes)]
    /\ \A l \in Lists : Distinct(lists[l])
    /\ \A l \in Lists : \A k \in Lists : \A e \in SortNodes :
          Contains(lists[l], e) /\ Contains(lists[k], e) => l = k
    /\ \A e \in SortNodes : e \in E <=> \E l \in Lists : Contains(lists[l], e)

LEMMA FoundIs ==
    ASSUME NEW lists, NEW E, Laid(lists, E), NEW e \in SortNodes
    PROVE  /\ e \in E => /\ ListOf(e, lists) \in Lists
                         /\ Contains(lists[ListOf(e, lists)], e)
                         /\ Place(e, lists[ListOf(e, lists)]) \in 1 .. Len(lists[ListOf(e, lists)])
                         /\ lists[ListOf(e, lists)][Place(e, lists[ListOf(e, lists)])] = e
           /\ \A l \in Lists : Contains(lists[l], e) => e \in E /\ ListOf(e, lists) = l
           /\ ListOf(e, lists) \in Lists => e \in E
<1>1. ASSUME e \in E
      PROVE  ListOf(e, lists) \in Lists /\ Contains(lists[ListOf(e, lists)], e)
    BY <1>1 DEF Laid, ListOf
<1>2. ASSUME NEW s, Contains(s, e) PROVE Place(e, s) \in 1 .. Len(s) /\ s[Place(e, s)] = e
    BY <1>2 DEF Contains, Place
<1>3. ASSUME NEW l \in Lists, Contains(lists[l], e) PROVE e \in E /\ ListOf(e, lists) = l
    <2>1. e \in E
        BY <1>3 DEF Laid
    <2> QED
        BY <1>1, <1>3, <2>1 DEF Laid
<1>4. ASSUME ListOf(e, lists) \in Lists PROVE e \in E
    <2>1. \E l \in Lists : Contains(lists[l], e)
        BY <1>4, SortableAssumption DEF ListOf
    <2> QED
        BY <1>3, <2>1
<1> QED
    BY <1>1, <1>2, <1>3, <1>4

LEMMA DetachedIs ==
    ASSUME NEW lists, NEW E, Laid(lists, E), NEW p \in SortNodes
    PROVE  /\ Laid(Detached(p, lists), E \ {p})
           /\ \A l \in Lists : Detached(p, lists)[l] = RemoveChild(lists[l], p)
           /\ \A l \in Lists : \A e \in SortNodes \ {p} :
                 Contains(Detached(p, lists)[l], e) <=> Contains(lists[l], e)
           /\ \A l \in Lists : ~Contains(lists[l], p) => Detached(p, lists)[l] = lists[l]
           /\ p \notin E => Detached(p, lists) = lists
<1> DEFINE d == Detached(p, lists)
<1>1. /\ lists \in [Lists -> Seq(SortNodes)] /\ \A l \in Lists : Distinct(lists[l])
      /\ lists = [l \in Lists |-> lists[l]]
    BY DEF Laid
<1>2. \A l \in Lists :
          /\ ~Contains(lists[l], p) => RemoveChild(lists[l], p) = lists[l]
          /\ RemoveChild(lists[l], p) \in Seq(SortNodes) /\ Distinct(RemoveChild(lists[l], p))
          /\ ~Contains(RemoveChild(lists[l], p), p)
          /\ \A e : e # p => (Contains(RemoveChild(lists[l], p), e) <=> Contains(lists[l], e))
    BY <1>1, WithoutIs
<1>3. d = [l \in Lists |-> RemoveChild(lists[l], p)]
    BY DEF Detached
<1> HIDE DEF d
<1>4. \A l \in Lists : d[l] = RemoveChild(lists[l], p)
    BY <1>3
<1>5. d \in [Lists -> Seq(SortNodes)]
    BY <1>2, <1>3
<1>6. \A l \in Lists :
          /\ ~Contains(lists[l], p) => d[l] = lists[l]
          /\ Distinct(d[l]) /\ ~Contains(d[l], p)
          /\ \A e : e # p => (Contains(d[l], e) <=> Contains(lists[l], e))
    BY <1>2, <1>4
<1>7. Laid(d, E \ {p})
    <2>1. \A l \in Lists : \A k \in Lists : \A e \in SortNodes :
              Contains(d[l], e) /\ Contains(d[k], e) => l = k
        BY <1>6 DEF Laid
    <2>2. \A e \in SortNodes : e \in E \ {p} <=> \E l \in Lists : Contains(d[l], e)
        BY <1>6 DEF Laid
    <2> QED
        BY <1>5, <1>6, <2>1, <2>2 DEF Laid
<1>8. p \notin E => d = lists
    <2>1. p \notin E => \A l \in Lists : ~Contains(lists[l], p)
        BY DEF Laid
    <2>2. d = [l \in Lists |-> d[l]]
        BY <1>5
    <2> QED
        BY <1>1, <1>6, <2>1, <2>2
<1> QED
    BY <1>4, <1>6, <1>7, <1>8 DEF d

LEMMA PutIs ==
    ASSUME NEW lists, NEW E, Laid(lists, E), NEW p \in SortNodes \ E, NEW c \in Lists,
           NEW i \in 1 .. Len(lists[c]) + 1
    PROVE  LET put == [lists EXCEPT ![c] = InsertAt(@, i, p)]
           IN  /\ Laid(put, E \cup {p})
               /\ Detached(p, put) = lists
               /\ ListOf(p, put) = c
<1> DEFINE put == [lists EXCEPT ![c] = InsertAt(@, i, p)]
           t == InsertAt(lists[c], i, p)
<1>1. /\ lists \in [Lists -> Seq(SortNodes)] /\ \A l \in Lists : Distinct(lists[l])
      /\ lists = [l \in Lists |-> lists[l]]
      /\ \A l \in Lists : ~Contains(lists[l], p)
    BY DEF Laid
<1>2. t \in Seq(SortNodes)
    BY <1>1, InsertedAtIs
<1>3. /\ Distinct(t) /\ \A e : Contains(t, e) <=> (e = p \/ Contains(lists[c], e))
      /\ RemoveChild(t, p) = lists[c]
    BY <1>1, InsertKeeps
<1>4. put = [lists EXCEPT ![c] = t]
    OBVIOUS
<1> HIDE DEF t
<1>5. put \in [Lists -> Seq(SortNodes)] /\ put[c] = t /\ \A l \in Lists \ {c} : put[l] = lists[l]
    BY <1>1, <1>2, <1>4
<1> HIDE DEF put
<1>6. \A l \in Lists : Distinct(put[l])
    BY <1>1, <1>3, <1>5
<1>7. \A l \in Lists : \A e \in SortNodes :
          Contains(put[l], e) <=> (Contains(lists[l], e) \/ (l = c /\ e = p))
    BY <1>3, <1>5
<1>8. Laid(put, E \cup {p})
    <2>1. \A l \in Lists : \A k \in Lists : \A e \in SortNodes :
              Contains(put[l], e) /\ Contains(put[k], e) => l = k
        BY <1>1, <1>7 DEF Laid
    <2>2. \A e \in SortNodes : e \in E \cup {p} <=> \E l \in Lists : Contains(put[l], e)
        BY <1>7 DEF Laid
    <2> QED
        BY <1>5, <1>6, <2>1, <2>2 DEF Laid
<1>9. Detached(p, put) = lists
    <2>1. \A l \in Lists : RemoveChild(put[l], p) = lists[l]
        <3>1. ASSUME NEW l \in Lists \ {c} PROVE RemoveChild(put[l], p) = lists[l]
            BY <1>1, <1>5, WithoutIs
        <3> QED
            BY <1>3, <1>5, <3>1
    <2>2. Detached(p, put) = [l \in Lists |-> RemoveChild(put[l], p)]
        BY DEF Detached
    <2> QED
        BY <1>1, <2>1, <2>2
<1>10. ListOf(p, put) = c
    BY <1>7, <1>8, FoundIs
<1> QED
    BY <1>8, <1>9, <1>10 DEF put

(* An element goes before or after another one.                               *)
LEMMA GoesNextTo ==
    ASSUME NEW lists, NEW E, Laid(lists, E), NEW p \in SortNodes, NEW x \in SortNodes,
           x \in E, x # p,
           NEW new \in {InsertBefore(p, x, lists), InsertAfter(p, x, lists)}
    PROVE  Laid(new, E \cup {p}) /\ Detached(p, new) = Detached(p, lists)
<1> DEFINE d == Detached(p, lists)
           c == ListOf(x, d)
           n == Place(x, d[c])
           Put(i) == [d EXCEPT ![c] = InsertAt(@, i, p)]
<1>1. Laid(d, E \ {p}) /\ x \in E \ {p} /\ p \in SortNodes \ (E \ {p})
    BY DetachedIs
<1>2. new = Put(n) \/ new = Put(n + 1)
    <2>1. InsertBefore(p, x, lists) = [d EXCEPT ![c] = InsertAt(@, Place(x, @), p)]
        BY DEF InsertBefore
    <2>2. InsertAfter(p, x, lists) = [d EXCEPT ![c] = InsertAt(@, Place(x, @) + 1, p)]
        BY DEF InsertAfter
    <2> QED
        BY <2>1, <2>2
<1> HIDE DEF d
<1>3. c \in Lists /\ n \in 1 .. Len(d[c])
    BY <1>1, FoundIs
<1>4. Len(d[c]) \in Nat
    BY <1>1, <1>3, LenProperties DEF Laid
<1> HIDE DEF c, n
<1>5. n \in 1 .. Len(d[c]) + 1 /\ n + 1 \in 1 .. Len(d[c]) + 1
    BY <1>3, <1>4
<1>6. (E \ {p}) \cup {p} = E \cup {p}
    OBVIOUS
<1>7. ASSUME NEW i \in 1 .. Len(d[c]) + 1
      PROVE  Laid(Put(i), (E \ {p}) \cup {p}) /\ Detached(p, Put(i)) = d
    BY <1>1, <1>3, PutIs
<1> HIDE DEF Put
<1>8. Laid(new, (E \ {p}) \cup {p}) /\ Detached(p, new) = d
    BY <1>2, <1>5, <1>7
<1> QED
    BY <1>6, <1>8 DEF d

-----------------------------------------------------------------------------
(* Drags of items.                                                            *)

Drags == [phase : {"idle", "down", "dragging", "reverting"}, item : SortItems \cup {NoItem},
          prev : SortNodes \cup {NoItem}, parent : Lists \cup {NoList},
          in : Lists \cup {NoList}, items : SUBSET SortNodes]

(* The lists whose placeholder is in the document, and what is then there.     *)
ActiveIn(drags) == {l \in Lists : drags[l].phase \in {"dragging", "reverting"}}

InDocument(active) == {Item(i) : i \in SortItems} \cup {Placeholder(l) : l \in active}

(* Every item is in the document once, and so is the placeholder of every drag. *)
(* What is dragged is an item of its list, and of no other drag.               *)
DragsLaid(lists, drags) ==
    /\ drags \in [Lists -> Drags]
    /\ Laid(lists, InDocument(ActiveIn(drags)))
    /\ \A l \in Lists : drags[l].phase # "idle" =>
          /\ drags[l].item \in SortItems
          /\ Contains(lists[l], Item(drags[l].item))
          /\ Placeholder(l) \notin drags[l].items
    /\ \A l \in Lists : \A k \in Lists \ {l} :
          drags[l].phase # "idle" /\ drags[k].phase # "idle" => drags[l].item # drags[k].item

(* With one drag at most, the order that was told last is that of the lists     *)
(* without the placeholder, and the drag knows where its item was in it.       *)
OrderKnown(lists, drags, told) ==
    /\ \A l \in ActiveIn(drags) : \A k \in ActiveIn(drags) : l = k
    /\ ActiveIn(drags) = {} => told = lists
    /\ \A l \in ActiveIn(drags) :
          /\ told = Detached(Placeholder(l), lists)
          /\ drags[l].parent = l
          /\ drags[l].prev = Prev(Item(drags[l].item), told)

SortInv ==
    /\ DragsLaid(children, sorting)
    /\ containerOver \in SUBSET Lists /\ mixed \in BOOLEAN
    /\ containerOver # {} => ActiveIn(sorting) # {}
    /\ ~mixed => OrderKnown(children, sorting, known)

LEMMA NodesDiffer ==
    /\ \A i \in SortItems : Item(i) \in SortNodes
    /\ \A l \in Lists : Placeholder(l) \in SortNodes
    /\ \A i \in SortItems : \A j \in SortItems : Item(i) = Item(j) => i = j
    /\ \A l \in Lists : \A k \in Lists : Placeholder(l) = Placeholder(k) => l = k
    /\ \A i \in SortItems : \A l \in Lists : Item(i) # Placeholder(l)
    /\ NoItem \notin SortNodes
BY SortableAssumption DEF SortNodes, Item, Placeholder

LEMMA InDocumentIs ==
    ASSUME NEW active \in SUBSET Lists
    PROVE  /\ InDocument(active) \subseteq SortNodes
           /\ \A i \in SortItems : Item(i) \in InDocument(active)
           /\ \A l \in Lists : Placeholder(l) \in InDocument(active) <=> l \in active
           /\ \A l \in Lists : InDocument(active) \cup {Placeholder(l)} = InDocument(active \cup {l})
           /\ \A l \in Lists : InDocument(active) \ {Placeholder(l)} = InDocument(active \ {l})
BY NodesDiffer DEF InDocument, SortNodes

LEMMA SortStart == SortableInit => SortInv
<1> SUFFICES ASSUME SortableInit PROVE SortInv
    OBVIOUS
<1>1. /\ children = [l \in Lists |-> [n \in 1 .. Len(StartLists[l]) |-> Item(StartLists[l][n])]]
      /\ known = children /\ sorting = [l \in Lists |-> NotSorting]
      /\ containerOver = {} /\ mixed = FALSE
    BY DEF SortableInit
<1>2. NotSorting \in Drags /\ NotSorting.phase = "idle"
    BY DEF NotSorting, Drags
<1>3. sorting \in [Lists -> Drags] /\ ActiveIn(sorting) = {} /\ \A l \in Lists : sorting[l].phase = "idle"
    BY <1>1, <1>2 DEF ActiveIn
<1>4. \A l \in Lists :
          /\ StartLists[l] \in Seq(SortItems) /\ Len(StartLists[l]) \in Nat
          /\ \A n \in 1 .. Len(StartLists[l]) : StartLists[l][n] \in SortItems
          /\ \A n \in 1 .. Len(StartLists[l]) : \A m \in 1 .. Len(StartLists[l]) :
                StartLists[l][n] = StartLists[l][m] => n = m
    <2> SUFFICES ASSUME NEW l \in Lists
                 PROVE  /\ StartLists[l] \in Seq(SortItems) /\ Len(StartLists[l]) \in Nat
                        /\ \A n \in 1 .. Len(StartLists[l]) : StartLists[l][n] \in SortItems
                        /\ \A n \in 1 .. Len(StartLists[l]) : \A m \in 1 .. Len(StartLists[l]) :
                              StartLists[l][n] = StartLists[l][m] => n = m
        OBVIOUS
    <2>1. StartLists[l] \in Seq(SortItems)
        BY SortableAssumption
    <2>2. IsInjective(StartLists[l])
        BY SortableAssumption
    <2> QED
        BY <2>1, <2>2, LenProperties, ElementOfSeq DEF IsInjective
<1>5. \A l \in Lists :
          /\ children[l] \in Seq(SortNodes) /\ Len(children[l]) = Len(StartLists[l])
          /\ \A n \in 1 .. Len(StartLists[l]) : children[l][n] = Item(StartLists[l][n])
    <2> SUFFICES ASSUME NEW l \in Lists
                 PROVE  /\ children[l] \in Seq(SortNodes) /\ Len(children[l]) = Len(StartLists[l])
                        /\ \A n \in 1 .. Len(StartLists[l]) : children[l][n] = Item(StartLists[l][n])
        OBVIOUS
    <2>1. children[l] = [n \in 1 .. Len(StartLists[l]) |-> Item(StartLists[l][n])]
        BY <1>1
    <2>2. \A n \in 1 .. Len(StartLists[l]) : Item(StartLists[l][n]) \in SortNodes
        BY <1>4, NodesDiffer
    <2> QED
        BY <1>4, <2>1, <2>2
<1>6. Laid(children, InDocument({}))
    <2>1. children \in [Lists -> Seq(SortNodes)]
        <3>1. children = [l \in Lists |-> children[l]]
            BY <1>1
        <3> QED
            BY <1>5, <3>1
    <2>2. \A l \in Lists : Distinct(children[l])
        BY <1>4, <1>5, NodesDiffer DEF Distinct
    <2>3. ASSUME NEW l \in Lists, NEW k \in Lists, NEW e \in SortNodes,
                 Contains(children[l], e), Contains(children[k], e)
          PROVE  l = k
        <3>1. PICK n \in 1 .. Len(StartLists[l]) : e = Item(StartLists[l][n])
            BY <1>5, <2>3 DEF Contains
        <3>2. PICK m \in 1 .. Len(StartLists[k]) : e = Item(StartLists[k][m])
            BY <1>5, <2>3 DEF Contains
        <3>3. StartLists[l][n] = StartLists[k][m]
            BY <1>4, <3>1, <3>2, NodesDiffer
        <3>4. StartLists[l][n] \in ToSet(StartLists[l]) /\ StartLists[k][m] \in ToSet(StartLists[k])
            BY <1>4, LenProperties DEF ToSet
        <3> QED
            BY <3>3, <3>4, SortableAssumption
    <2>4. ASSUME NEW e \in SortNodes
          PROVE  e \in InDocument({}) <=> \E l \in Lists : Contains(children[l], e)
        <3>1. ASSUME e \in InDocument({}) PROVE \E l \in Lists : Contains(children[l], e)
            <4>1. PICK i \in SortItems : e = Item(i)
                BY <3>1 DEF InDocument
            <4>2. PICK l \in Lists : i \in ToSet(StartLists[l])
                BY DEF SortItems
            <4>3. PICK n \in 1 .. Len(StartLists[l]) : i = StartLists[l][n]
                BY <1>4, <4>2, LenProperties DEF ToSet
            <4> QED
                BY <1>5, <4>1, <4>3 DEF Contains
        <3>2. ASSUME NEW l \in Lists, Contains(children[l], e) PROVE e \in InDocument({})
            BY <1>4, <1>5, <3>2 DEF Contains, InDocument
        <3> QED
            BY <3>1, <3>2
    <2> QED
        BY <2>1, <2>2, <2>3, <2>4 DEF Laid
<1> QED
    BY <1>1, <1>3, <1>6 DEF SortInv, DragsLaid, OrderKnown

(* Where the placeholder of a drag goes matters to that drag alone, and to it    *)
(* as little as the list that it is over.                                    *)
LEMMA PlaceholderMoves ==
    ASSUME NEW lists, NEW drags, DragsLaid(lists, drags), NEW l \in ActiveIn(drags),
           NEW new, Laid(new, InDocument(ActiveIn(drags))),
           Detached(Placeholder(l), new) = Detached(Placeholder(l), lists),
           NEW others \in [Lists -> Drags],
           \A k \in Lists : /\ others[k].phase = drags[k].phase /\ others[k].item = drags[k].item
                            /\ others[k].items = drags[k].items /\ others[k].prev = drags[k].prev
                            /\ others[k].parent = drags[k].parent,
           NEW told
    PROVE  /\ DragsLaid(new, others) /\ ActiveIn(others) = ActiveIn(drags)
           /\ OrderKnown(lists, drags, told) => OrderKnown(new, others, told)
<1>1. ActiveIn(others) = ActiveIn(drags) /\ l \in Lists /\ Placeholder(l) \in SortNodes
    BY NodesDiffer DEF ActiveIn
<1>a. Laid(lists, InDocument(ActiveIn(drags)))
    BY DEF DragsLaid
<1>b. \A k \in Lists : \A e \in SortNodes \ {Placeholder(l)} :
          Contains(Detached(Placeholder(l), lists)[k], e) <=> Contains(lists[k], e)
    BY <1>1, <1>a, DetachedIs
<1>c. \A k \in Lists : \A e \in SortNodes \ {Placeholder(l)} :
          Contains(Detached(Placeholder(l), new)[k], e) <=> Contains(new[k], e)
    BY <1>1, DetachedIs
<1>2. ASSUME NEW k \in Lists, drags[k].phase # "idle"
      PROVE  Contains(new[k], Item(drags[k].item))
    <2>1. Item(drags[k].item) \in SortNodes \ {Placeholder(l)} /\ Contains(lists[k], Item(drags[k].item))
        BY <1>1, <1>2, NodesDiffer DEF DragsLaid
    <2> QED
        BY <1>b, <1>c, <2>1
<1>3. DragsLaid(new, others)
    BY <1>1, <1>2 DEF DragsLaid
<1>4. ASSUME OrderKnown(lists, drags, told) PROVE OrderKnown(new, others, told)
    BY <1>1, <1>4 DEF OrderKnown
<1> QED
    BY <1>1, <1>3, <1>4

LEMMA PressItemKeeps ==
    ASSUME SortInv, NEW l \in Lists, NEW i \in SortItems, PressItem(l, i)
    PROVE  SortInv'
<1> DEFINE U == UNION {ToSet(children[k]) : k \in Lists}
           d == [NotSorting EXCEPT !.phase = "down", !.item = i, !.items = U]
<1>1. /\ \A k \in Lists : sorting[k].phase \in {"idle", "reverting"}
      /\ sorting[l].phase = "idle"
      /\ Contains(children[l], Item(i)) /\ Item(i) \notin Helpers
      /\ sorting' = [sorting EXCEPT ![l] = d]
      /\ UNCHANGED <<children, known, containerOver, mixed>>
    BY DEF PressItem
<1>2. Laid(children, InDocument(ActiveIn(sorting))) /\ sorting \in [Lists -> Drags]
    BY DEF SortInv, DragsLaid
<1>3. U \subseteq SortNodes /\ Placeholder(l) \notin U
    <2>1. ASSUME NEW e \in U PROVE e \in InDocument(ActiveIn(sorting)) /\ e \in SortNodes
        <3>1. PICK k \in Lists : e \in ToSet(children[k])
            OBVIOUS
        <3>2. children[k] \in Seq(SortNodes)
            BY <1>2 DEF Laid
        <3>3. Contains(children[k], e) /\ e \in SortNodes
            BY <3>1, <3>2, LenProperties, ElementOfSeq DEF ToSet, Contains
        <3> QED
            BY <1>2, <3>3 DEF Laid
    <2>2. l \notin ActiveIn(sorting) /\ ActiveIn(sorting) \subseteq Lists
        BY <1>1 DEF ActiveIn
    <2> QED
        BY <2>1, <2>2, InDocumentIs
<1> HIDE DEF U
<1>4. NotSorting \in Drags
    BY DEF NotSorting, Drags
<1>5. d \in Drags /\ d.phase = "down" /\ d.item = i /\ d.items = U
    BY <1>3, <1>4 DEF Drags
<1> HIDE DEF d
<1>6. /\ sorting' \in [Lists -> Drags] /\ sorting'[l] = d
      /\ \A k \in Lists \ {l} : sorting'[k] = sorting[k]
    BY <1>1, <1>2, <1>5
<1>7. ActiveIn(sorting') = ActiveIn(sorting)
    BY <1>1, <1>5, <1>6 DEF ActiveIn
<1>8. ASSUME NEW k \in Lists \ {l}, sorting[k].phase # "idle" PROVE sorting[k].item # i
    <2>1. sorting[k].phase = "reverting"
        BY <1>1, <1>8
    <2>2. Item(sorting[k].item) \in Helpers
        BY <2>1 DEF Helpers, Dragged
    <2> QED
        BY <1>1, <2>2
<1>9. DragsLaid(children, sorting')
    <2>1. \A k \in Lists : sorting'[k].phase # "idle" =>
              /\ sorting'[k].item \in SortItems
              /\ Contains(children[k], Item(sorting'[k].item))
              /\ Placeholder(k) \notin sorting'[k].items
        BY <1>1, <1>3, <1>5, <1>6 DEF SortInv, DragsLaid
    <2>2. \A k \in Lists : \A m \in Lists \ {k} :
              sorting'[k].phase # "idle" /\ sorting'[m].phase # "idle" => sorting'[k].item # sorting'[m].item
        BY <1>5, <1>6, <1>8 DEF SortInv, DragsLaid
    <2> QED
        BY <1>2, <1>6, <1>7, <2>1, <2>2 DEF DragsLaid
<1>10. ~mixed => OrderKnown(children, sorting', known)
    <2>1. \A k \in ActiveIn(sorting) : sorting'[k] = sorting[k]
        BY <1>1, <1>6 DEF ActiveIn
    <2> QED
        BY <1>7, <2>1 DEF SortInv, OrderKnown
<1> QED
    BY <1>1, <1>7, <1>9, <1>10 DEF SortInv

(* A press that never becomes a drag is forgotten.                             *)
LEMMA ForgottenKeeps ==
    ASSUME SortInv, NEW l \in Lists, sorting[l].phase = "down",
           sorting' = [sorting EXCEPT ![l] = NotSorting],
           UNCHANGED <<children, known, containerOver, mixed>>
    PROVE  SortInv'
<1>1. sorting \in [Lists -> Drags]
    BY DEF SortInv, DragsLaid
<1>2. NotSorting \in Drags /\ NotSorting.phase = "idle"
    BY DEF NotSorting, Drags
<1>3. /\ sorting' \in [Lists -> Drags] /\ sorting'[l] = NotSorting
      /\ \A k \in Lists \ {l} : sorting'[k] = sorting[k]
    BY <1>1, <1>2
<1>4. ActiveIn(sorting') = ActiveIn(sorting) /\ \A k \in ActiveIn(sorting) : sorting'[k] = sorting[k]
    BY <1>2, <1>3 DEF ActiveIn
<1>5. DragsLaid(children, sorting')
    BY <1>2, <1>3, <1>4 DEF SortInv, DragsLaid
<1>6. ~mixed => OrderKnown(children, sorting', known)
    BY <1>4 DEF SortInv, OrderKnown
<1> QED
    BY <1>4, <1>5, <1>6 DEF SortInv

(* The animation of a drop begins.                                            *)
LEMMA RevertingKeeps ==
    ASSUME SortInv, NEW l \in Lists, sorting[l].phase = "dragging",
           sorting' = [sorting EXCEPT ![l].phase = "reverting"],
           UNCHANGED <<children, known, containerOver, mixed>>
    PROVE  SortInv'
<1>1. sorting \in [Lists -> Drags] /\ l \in ActiveIn(sorting)
      /\ Laid(children, InDocument(ActiveIn(sorting)))
    BY DEF SortInv, DragsLaid, ActiveIn
<1> DEFINE d == [sorting[l] EXCEPT !.phase = "reverting"]
<1>2. /\ d \in Drags /\ d.phase = "reverting" /\ d.item = sorting[l].item /\ d.items = sorting[l].items
      /\ d.prev = sorting[l].prev /\ d.parent = sorting[l].parent
    BY <1>1 DEF Drags
<1>3. sorting' = [sorting EXCEPT ![l] = d]
    BY <1>1
<1> HIDE DEF d
<1>4. /\ sorting' \in [Lists -> Drags] /\ sorting'[l] = d
      /\ \A k \in Lists \ {l} : sorting'[k] = sorting[k]
    BY <1>1, <1>2, <1>3
<1>5. ActiveIn(sorting') = ActiveIn(sorting)
    BY <1>1, <1>2, <1>4 DEF ActiveIn
<1>6. DragsLaid(children, sorting')
    BY <1>1, <1>2, <1>4, <1>5 DEF SortInv, DragsLaid
<1>7. ~mixed => OrderKnown(children, sorting', known)
    BY <1>1, <1>2, <1>4, <1>5 DEF SortInv, OrderKnown, ActiveIn
<1> QED
    BY <1>5, <1>6, <1>7 DEF SortInv

LEMMA AppendIs ==
    ASSUME NEW V, NEW s \in Seq(V), NEW e \in V
    PROVE  Append(s, e) = InsertAt(s, Len(s) + 1, e)
<1> DEFINE i == Len(s) + 1
           t == Append(s, e)
           b == InsertAt(s, i, e)
<1>1. Len(s) \in Nat /\ i \in 1 .. Len(s) + 1
    BY LenProperties
<1>a. i = Len(s) + 1
    OBVIOUS
<1> HIDE DEF i
<1>2. /\ b \in Seq(V) /\ Len(b) = Len(s) + 1
      /\ \A n \in 1 .. Len(s) + 1 :
            b[n] = IF n < i THEN s[n] ELSE IF n = i THEN e ELSE s[n - 1]
    BY <1>1, InsertedAtIs
<1>3. t \in Seq(V) /\ Len(t) = Len(s) + 1
      /\ \A n \in 1 .. Len(s) : t[n] = s[n]
      /\ t[Len(s) + 1] = e
    BY AppendProperties
<1>4a. t[i] = e
    <2>1. Append(s, e)[Len(s) + 1] = e
        BY AppendProperties
    <2> QED
        BY <2>1 DEF i
<1> HIDE DEF t, b
<1>4. ASSUME NEW n \in 1 .. Len(t) PROVE t[n] = b[n]
    <2>1. n \in 1 .. Len(s) \/ n = i
        BY <1>1, <1>3, <1>a
    <2>2. CASE n \in 1 .. Len(s)
        BY <1>1, <1>2, <1>3, <1>a, <2>2
    <2>3. CASE n = i
        <3>1. b[i] = e
            BY <1>1, <1>2
        <3>2. t[i] = e
            BY <1>4a
        <3> QED
            BY <2>3, <3>1, <3>2
    <2> QED
        BY <2>1, <2>2, <2>3
<1>5. t = b
    BY <1>2, <1>3, <1>4, SameSequence
<1> QED
    BY <1>5 DEF t, b, i

(* The press becomes a drag.                                                  *)
LEMMA BeginKeeps ==
    ASSUME SortInv, NEW l \in Lists, sorting[l].phase = "down",
           NEW drags, drags = [sorting EXCEPT ![l] = Begun(l).drag]
    PROVE  /\ DragsLaid(Begun(l).lists, drags) /\ l \in ActiveIn(drags)
           /\ ~mixed /\ Helpers = {} => OrderKnown(Begun(l).lists, drags, known)
<1> DEFINE P == Placeholder(l)
           D == Dragged(l)
           E == InDocument(ActiveIn(sorting))
           lists == InsertAfter(P, D, children)
           drag == [sorting[l] EXCEPT !.phase = "dragging", !.prev = Prev(D, children),
                                      !.parent = ListOf(D, children), !.in = l]
<1>1. Begun(l).lists = lists /\ Begun(l).drag = drag
    BY DEF Begun
<1>2. /\ sorting \in [Lists -> Drags] /\ Laid(children, E) /\ sorting[l] \in Drags
      /\ sorting[l].item \in SortItems /\ D = Item(sorting[l].item) /\ Contains(children[l], D)
      /\ P \notin sorting[l].items
    BY DEF SortInv, DragsLaid, Dragged
<1>3. ActiveIn(sorting) \in SUBSET Lists /\ l \notin ActiveIn(sorting)
    BY DEF ActiveIn
<1> HIDE DEF P, D
<1>4. P \in SortNodes /\ D \in SortNodes /\ D \in E /\ P \notin E /\ D # P
    BY <1>2, <1>3, NodesDiffer, InDocumentIs DEF P
<1>5. E \cup {P} = InDocument(ActiveIn(sorting) \cup {l})
    BY <1>3, InDocumentIs DEF P
<1> HIDE DEF E
<1>6. lists \in {InsertBefore(P, D, children), InsertAfter(P, D, children)}
    OBVIOUS
<1> HIDE DEF lists
<1>7. Laid(lists, E \cup {P}) /\ Detached(P, lists) = Detached(P, children)
    BY <1>2, <1>4, <1>6, GoesNextTo
<1>8. Detached(P, children) = children
    BY <1>2, <1>4, DetachedIs
<1>9. ListOf(D, children) = l
    BY <1>2, <1>4, FoundIs
<1>10. Prev(D, children) \in SortNodes \cup {NoItem}
    <2> DEFINE n == Place(D, children[l])
    <2>1. n \in 1 .. Len(children[l])
        BY <1>2, <1>4, <1>9, FoundIs
    <2>2. children[l] \in Seq(SortNodes)
        BY <1>2 DEF Laid
    <2>3. Prev(D, children) = IF n > 1 THEN children[l][n - 1] ELSE NoItem
        BY <1>9 DEF Prev
    <2> HIDE DEF n
    <2>4. n > 1 => n - 1 \in 1 .. Len(children[l])
        BY <2>1, <2>2, LenProperties
    <2> QED
        BY <2>2, <2>3, <2>4, ElementOfSeq
<1>11. /\ drag \in Drags /\ drag.phase = "dragging" /\ drag.item = sorting[l].item
       /\ drag.items = sorting[l].items /\ drag.prev = Prev(D, children) /\ drag.parent = l
    BY <1>2, <1>9, <1>10 DEF Drags
<1> HIDE DEF drag
<1>12. drags \in [Lists -> Drags] /\ drags[l] = drag /\ \A k \in Lists \ {l} : drags[k] = sorting[k]
    BY <1>1, <1>2, <1>11
<1>13. ActiveIn(drags) = ActiveIn(sorting) \cup {l}
    BY <1>11, <1>12 DEF ActiveIn
<1>14. ASSUME NEW k \in Lists, drags[k].phase # "idle"
       PROVE  /\ drags[k].item \in SortItems /\ Contains(lists[k], Item(drags[k].item))
              /\ Placeholder(k) \notin drags[k].items
    <2>1. /\ drags[k].item = sorting[k].item /\ drags[k].items = sorting[k].items
          /\ sorting[k].phase # "idle"
        BY <1>11, <1>12, <1>14
    <2>2. /\ sorting[k].item \in SortItems /\ Contains(children[k], Item(sorting[k].item))
          /\ Placeholder(k) \notin sorting[k].items
        BY <2>1 DEF SortInv, DragsLaid
    <2>3. Item(sorting[k].item) \in SortNodes \ {P}
        BY <2>2, NodesDiffer DEF P
    <2>4. Contains(lists[k], Item(sorting[k].item))
        BY <1>4, <1>7, <1>8, <2>2, <2>3, DetachedIs
    <2> QED
        BY <2>1, <2>2, <2>4
<1>15. \A k \in Lists : \A m \in Lists \ {k} :
           drags[k].phase # "idle" /\ drags[m].phase # "idle" => drags[k].item # drags[m].item
    <2>1. \A k \in Lists : drags[k].item = sorting[k].item
                           /\ (drags[k].phase # "idle" => sorting[k].phase # "idle")
        BY <1>11, <1>12
    <2> QED
        BY <2>1 DEF SortInv, DragsLaid
<1>16. DragsLaid(lists, drags)
    BY <1>5, <1>7, <1>12, <1>13, <1>14, <1>15 DEF DragsLaid
<1>17. ASSUME ~mixed, Helpers = {} PROVE OrderKnown(lists, drags, known)
    <2>1. ActiveIn(sorting) = {}
        BY <1>17 DEF ActiveIn, Helpers
    <2>2. known = children
        BY <1>17, <2>1 DEF SortInv, OrderKnown
    <2>3. ActiveIn(drags) = {l}
        BY <1>13, <2>1
    <2>4. known = Detached(Placeholder(l), lists)
        BY <1>7, <1>8, <2>2 DEF P
    <2>5. drags[l].parent = l /\ drags[l].prev = Prev(Item(drags[l].item), known)
        BY <1>2, <1>11, <1>12, <2>2
    <2> QED
        BY <2>3, <2>4, <2>5 DEF OrderKnown
<1> QED
    BY <1>1, <1>13, <1>16, <1>17

(* The places of the placeholder of a drag.                                   *)
LEMMA NextToKeeps ==
    ASSUME NEW lists, NEW E, Laid(lists, E), NEW p \in SortNodes, p \in E,
           NEW items \in SUBSET SortNodes, p \notin items,
           \A x \in items : ListOf(x, lists) \in Lists,
           NEW new \in {lists} \cup NextTo(p, items, lists)
    PROVE  Laid(new, E) /\ Detached(p, new) = Detached(p, lists)
<1>1. CASE new = lists
    BY <1>1
<1>2. CASE new \in NextTo(p, items, lists)
    <2>1. PICK x \in items : new \in {InsertBefore(p, x, lists), InsertAfter(p, x, lists)}
        BY <1>2 DEF NextTo
    <2>2. x \in SortNodes /\ x # p /\ x \in E
        BY <2>1, FoundIs
    <2>3. Laid(new, E \cup {p}) /\ Detached(p, new) = Detached(p, lists)
        BY <2>1, <2>2, GoesNextTo
    <2>4. E \cup {p} = E
        OBVIOUS
    <2> QED
        BY <2>3, <2>4
<1> QED
    BY <1>1, <1>2

LEMMA EnteredKeeps ==
    ASSUME NEW lists, NEW E, Laid(lists, E), NEW l \in Lists, Placeholder(l) \in E,
           NEW drag, drag.items \in SUBSET SortNodes, Placeholder(l) \notin drag.items,
           NEW c \in Lists, NEW new \in Entered(l, drag, c, lists)
    PROVE  /\ Laid(new, E)
           /\ Detached(Placeholder(l), new) = Detached(Placeholder(l), lists)
<1> DEFINE p == Placeholder(l)
           near == ItemsIn(drag, lists, {c})
           rest == Detached(p, lists)
<1>1. p \in SortNodes
    BY NodesDiffer
<1>2. near \in SUBSET SortNodes /\ p \notin near /\ \A x \in near : ListOf(x, lists) \in Lists
    BY DEF ItemsIn
<1>3. new \in NextTo(p, near, lists) \/ new = [rest EXCEPT ![c] = Append(@, p)]
    BY DEF Entered
<1> HIDE DEF p, near, rest
<1>4. CASE new \in NextTo(p, near, lists)
    <2>1. p \in E
        BY DEF p
    <2> QED
        BY <1>1, <1>2, <1>4, <2>1, NextToKeeps DEF p
<1>5. CASE new = [rest EXCEPT ![c] = Append(@, p)]
    <2>1. Laid(rest, E \ {p})
        BY <1>1, DetachedIs DEF rest
    <2>2. rest[c] \in Seq(SortNodes) /\ rest \in [Lists -> Seq(SortNodes)]
        BY <2>1 DEF Laid
    <2>3. Append(rest[c], p) = InsertAt(rest[c], Len(rest[c]) + 1, p)
        BY <1>1, <2>2, AppendIs
    <2> DEFINE i == Len(rest[c]) + 1
    <2>4. i \in 1 .. Len(rest[c]) + 1
        BY <2>2, LenProperties
    <2>5. new = [rest EXCEPT ![c] = InsertAt(@, i, p)]
        BY <1>5, <2>3
    <2> HIDE DEF i
    <2>6. p \in SortNodes \ (E \ {p}) /\ (E \ {p}) \cup {p} = E
        BY <1>1 DEF p
    <2>7. Laid(new, (E \ {p}) \cup {p}) /\ Detached(p, new) = rest
        BY <2>1, <2>4, <2>5, <2>6, PutIs
    <2> QED
        BY <2>6, <2>7 DEF p, rest
<1> QED
    BY <1>3, <1>4, <1>5

LEMMA DragItemKeeps ==
    ASSUME SortInv, NEW l \in Lists, NEW c \in Lists \cup {NoList}, DragItem(l, c)
    PROVE  SortInv'
<1> DEFINE begins == sorting[l].phase = "down"
           drag == IF begins THEN Begun(l).drag ELSE sorting[l]
           lists == IF begins THEN Begun(l).lists ELSE children
           drags == [sorting EXCEPT ![l] = drag]
           P == Placeholder(l)
<1>1. /\ sorting[l].phase \in {"down", "dragging"}
      /\ \E moved \in Rearranged(l, drag, lists) : Contact(l, drag, c, moved)
      /\ mixed' = (mixed \/ (begins /\ Helpers # {})) /\ known' = known
    BY DEF DragItem
<1>2. sorting \in [Lists -> Drags] /\ mixed \in BOOLEAN
    BY DEF SortInv, DragsLaid
<1>3. /\ DragsLaid(lists, drags) /\ l \in ActiveIn(drags)
      /\ ~mixed' => OrderKnown(lists, drags, known)
    <2>1. CASE begins
        <3>1. drags = [sorting EXCEPT ![l] = Begun(l).drag] /\ lists = Begun(l).lists
            BY <2>1
        <3> HIDE DEF drags, lists, drag
        <3> QED
            BY <1>1, <2>1, <3>1, BeginKeeps
    <2>2. CASE ~begins
        <3>1. drags = sorting /\ lists = children
            BY <1>2, <2>2
        <3>2. l \in ActiveIn(sorting)
            BY <1>1, <2>2 DEF ActiveIn
        <3> HIDE DEF drags, lists, drag
        <3> QED
            BY <1>1, <2>2, <3>1, <3>2 DEF SortInv
    <2> QED
        BY <2>1, <2>2
<1>4. drags[l] = drag /\ \A k \in Lists \ {l} : drags[k] = sorting[k]
    BY <1>2
<1> HIDE DEF lists, drag
<1>5. PICK moved \in Rearranged(l, drag, lists) : Contact(l, drag, c, moved)
    BY <1>1
<1> DEFINE E == InDocument(ActiveIn(drags))
           next == IF sorting'[l] = drag THEN drag ELSE [drag EXCEPT !.in = c]
<1>6. /\ drag \in Drags /\ drag.items \in SUBSET SortNodes /\ P \notin drag.items
      /\ Laid(lists, E) /\ P \in SortNodes /\ P \in E /\ ActiveIn(drags) \in SUBSET Lists
      /\ drags \in [Lists -> Drags]
    <2>1. drags \in [Lists -> Drags] /\ Laid(lists, E) /\ drag \in Drags
        BY <1>3, <1>4 DEF DragsLaid
    <2>2. P \notin drag.items
        BY <1>3, <1>4 DEF DragsLaid, ActiveIn
    <2>3. drag.items \in SUBSET SortNodes
        BY <2>1 DEF Drags
    <2>4. ActiveIn(drags) \in SUBSET Lists
        BY DEF ActiveIn
    <2>5. P \in SortNodes /\ P \in E
        BY <1>3, <2>4, NodesDiffer, InDocumentIs
    <2> QED
        BY <2>1, <2>2, <2>3, <2>4, <2>5
<1>7. Laid(moved, E) /\ Detached(P, moved) = Detached(P, lists)
    <2> DEFINE items == ItemsIn(drag, lists, Lists) \ {Dragged(l)}
    <2>1. items \in SUBSET SortNodes /\ P \notin items /\ \A x \in items : ListOf(x, lists) \in Lists
        BY <1>6 DEF ItemsIn
    <2>2. moved \in {lists} \cup NextTo(P, items, lists)
        BY <1>5 DEF Rearranged
    <2> HIDE DEF items, E, P
    <2> QED
        BY <1>6, <2>1, <2>2, NextToKeeps
<1>8. Laid(children', E) /\ Detached(P, children') = Detached(P, lists)
    <2>1. children' = moved \/ (c \in Lists /\ children' \in Entered(l, drag, c, moved))
        BY <1>5 DEF Contact
    <2> HIDE DEF E
    <2> QED
        BY <1>6, <1>7, <2>1, EnteredKeeps
<1>9. PICK d \in {drag, [drag EXCEPT !.in = c]} : sorting' = [sorting EXCEPT ![l] = d]
    BY <1>5 DEF Contact
<1>10. /\ d \in Drags /\ d.phase = drag.phase /\ d.item = drag.item /\ d.items = drag.items
       /\ d.prev = drag.prev /\ d.parent = drag.parent
    BY <1>6, <1>9 DEF Drags
<1>11. /\ sorting' \in [Lists -> Drags]
       /\ \A k \in Lists : /\ sorting'[k].phase = drags[k].phase /\ sorting'[k].item = drags[k].item
                           /\ sorting'[k].items = drags[k].items /\ sorting'[k].prev = drags[k].prev
                           /\ sorting'[k].parent = drags[k].parent
    BY <1>2, <1>4, <1>9, <1>10
<1> HIDE DEF drags
<1>12. /\ DragsLaid(children', sorting') /\ ActiveIn(sorting') = ActiveIn(drags)
       /\ OrderKnown(lists, drags, known) => OrderKnown(children', sorting', known)
    BY <1>3, <1>8, <1>11, PlaceholderMoves
<1>13. containerOver' \in SUBSET Lists
    BY <1>5 DEF Contact, SortInv
<1>14. mixed' \in BOOLEAN
    BY <1>1, <1>2
<1> QED
    BY <1>1, <1>3, <1>12, <1>13, <1>14 DEF SortInv

(* All that is in a list is shown when none of it is a placeholder or dragged.  *)
LEMMA AllShown ==
    ASSUME NEW lists, NEW k \in Lists, lists[k] \in Seq(SortNodes),
           \A n \in 1 .. Len(lists[k]) : lists[k][n] \in {Item(i) : i \in SortItems}
    PROVE  ToArray(k, lists, {}) = lists[k]
<1> DEFINE s == lists[k]
           n == Len(s)
           V == {Item(i) : i \in SortItems} \ {}
           Next1(f, m) == IF s[m] \in V THEN Append(f[m - 1], s[m]) ELSE f[m - 1]
           Val(f, m) == IF m = 0 THEN <<>> ELSE Next1(f, m)
           Body(f) == [m \in 0 .. n |-> Val(f, m)]
           U == CHOOSE f : f = Body(f)
           F == [m \in 0 .. n |-> SubSeq(s, 1, m)]
<1>1. n \in Nat /\ s \in Seq(SortNodes) /\ \A m \in 1 .. n : s[m] \in V
    BY LenProperties
<1>2. ToArray(k, lists, {}) = U[n]
    BY DEF ToArray
<1>a. n = Len(s)
    OBVIOUS
<1> HIDE DEF n, s, V
<1>3. \A m \in 0 .. n : SubSeq(s, 1, m) \in Seq(SortNodes) /\ Len(SubSeq(s, 1, m)) = m
                        /\ \A j \in 1 .. m : SubSeq(s, 1, m)[j] = s[j]
    <2> SUFFICES ASSUME NEW m \in 0 .. n
                 PROVE  SubSeq(s, 1, m) \in Seq(SortNodes) /\ Len(SubSeq(s, 1, m)) = m
                        /\ \A j \in 1 .. m : SubSeq(s, 1, m)[j] = s[j]
        OBVIOUS
    <2>1. 1 \in Int /\ m \in Int /\ \A j \in 1 .. m : j \in 1 .. Len(s)
        BY <1>1, <1>a
    <2> QED
        BY <1>1, <1>a, <2>1, SubSeqProperties
<1>4. SubSeq(s, 1, 0) = <<>>
    <2>1. SubSeq(s, 1, 0) \in Seq(SortNodes) /\ Len(SubSeq(s, 1, 0)) = 0
        BY <1>1, <1>3
    <2> QED
        BY <2>1, EmptySeq
<1>5. ASSUME NEW m \in 1 .. n PROVE Append(SubSeq(s, 1, m - 1), s[m]) = SubSeq(s, 1, m)
    <2> DEFINE t == SubSeq(s, 1, m - 1)
               b == SubSeq(s, 1, m)
               x == s[m]
               a == Append(t, x)
    <2>1. m - 1 \in 0 .. n /\ m \in 0 .. n /\ x \in SortNodes
        BY <1>1, <1>a, ElementOfSeq
    <2>2. t \in Seq(SortNodes) /\ Len(t) = m - 1 /\ \A j \in 1 .. m - 1 : t[j] = s[j]
        BY <1>3, <2>1
    <2>3. b \in Seq(SortNodes) /\ Len(b) = m /\ \A j \in 1 .. m : b[j] = s[j]
        BY <1>3, <2>1
    <2>x. x = s[m]
        OBVIOUS
    <2> HIDE DEF t, b, x
    <2>4. a \in Seq(SortNodes) /\ Len(a) = Len(t) + 1 /\ (\A j \in 1 .. Len(t) : a[j] = t[j])
          /\ a[Len(t) + 1] = x
        BY <2>1, <2>2, AppendProperties
    <2> HIDE DEF a
    <2>5. Len(a) = m /\ Len(t) + 1 = m
        BY <2>2, <2>4
    <2>6. a[m] = x
        BY <2>4, <2>5
    <2>7. ASSUME NEW j \in 1 .. Len(a) PROVE a[j] = b[j]
        <3>1. CASE j = m
            BY <2>3, <2>5, <2>6, <2>x, <3>1
        <3>2. CASE j \in 1 .. m - 1
            <4>1. j \in 1 .. Len(t) /\ j \in 1 .. m
                BY <2>2, <3>2
            <4>2. a[j] = t[j] /\ t[j] = s[j] /\ b[j] = s[j]
                BY <2>2, <2>3, <2>4, <3>2, <4>1
            <4> QED
                BY <4>2
        <3> QED
            BY <2>5, <3>1, <3>2
    <2>8. a = b
        BY <2>3, <2>4, <2>5, <2>7, SameSequence
    <2> QED
        BY <2>8 DEF a, b, t, x
<1>6. F = Body(F)
    <2>1. ASSUME NEW m \in 0 .. n PROVE F[m] = Val(F, m)
        <3>1. CASE m = 0
            BY <1>4, <3>1
        <3>2. CASE m \in 1 .. n
            <4>a. m - 1 \in 0 .. n
                BY <1>1, <3>2
            <4>1. F[m - 1] = SubSeq(s, 1, m - 1)
                BY <4>a
            <4> HIDE DEF F
            <4>2. Val(F, m) = Append(SubSeq(s, 1, m - 1), s[m])
                BY <1>1, <3>2, <4>1
            <4> QED
                BY <1>5, <3>2, <4>2 DEF F
        <3>3. m = 0 \/ m \in 1 .. n
            BY <1>1
        <3> QED
            BY <3>1, <3>2, <3>3
    <2> HIDE DEF Val
    <2> QED
        BY <2>1
<1>7. U = Body(U)
    <2> HIDE DEF Body, F
    <2> QED
        BY <1>6, Zenon
<1> HIDE DEF U, F
<1>8. U[0] = <<>> /\ \A m \in 1 .. n : U[m] = Next1(U, m)
    <2>1. \A m \in 0 .. n : U[m] = Val(U, m)
        <3> HIDE DEF Val
        <3> QED
            BY <1>7
    <2> HIDE DEF Next1
    <2> QED
        BY <1>1, <2>1
<1> DEFINE S == {m \in 0 .. n : U[m] = SubSeq(s, 1, m)}
<1>9. 0 \in S
    <2>1. 0 \in 0 .. n
        BY <1>1
    <2>2. U[0] = SubSeq(s, 1, 0)
        BY <1>4, <1>8
    <2> QED
        BY <2>1, <2>2
<1>10. ASSUME NEW m \in 1 .. n, m - 1 \in S PROVE m \in S
    <2>1. U[m - 1] = SubSeq(s, 1, m - 1)
        BY <1>10
    <2>2. U[m] = Append(SubSeq(s, 1, m - 1), s[m])
        BY <1>1, <1>8, <2>1
    <2>3. U[m] = SubSeq(s, 1, m)
        BY <1>5, <2>2
    <2> QED
        BY <2>3
<1>11. \A m \in 0 .. n : m \in S
    <2> HIDE DEF S
    <2> QED
        BY <1>1, <1>9, <1>10, GoesOn
<1>12. U[n] = SubSeq(s, 1, n)
    BY <1>1, <1>11
<1>13. SubSeq(s, 1, n) = s
    <2> DEFINE b == SubSeq(s, 1, n)
    <2>1. b \in Seq(SortNodes) /\ Len(b) = n /\ \A j \in 1 .. n : b[j] = s[j]
        BY <1>1, <1>3
    <2> HIDE DEF b
    <2>2. b = s
        BY <1>1, <1>a, <2>1, SameSequence
    <2> QED
        BY <2>2 DEF b
<1> QED
    BY <1>2, <1>12, <1>13 DEF s

(* What a drop leaves: its item at a place n of a list c, where the placeholder *)
(* was, and all else as it is without the item and the placeholder.            *)
Remaining(p, x, lists) == Detached(x, Detached(p, lists))

DroppedAt(p, x, lists, c, n) ==
    LET placed == InsertBefore(x, p, lists)
        rest == Remaining(p, x, lists)
    IN  /\ c \in Lists /\ n \in 1 .. Len(rest[c]) + 1
        /\ ListOf(x, placed) = c /\ ListOf(x, Detached(p, placed)) = c
        /\ Detached(p, placed)[c] = InsertAt(rest[c], n, x)
        /\ \A k \in Lists \ {c} : Detached(p, placed)[k] = rest[k]
        /\ Prev(x, placed) = IF n > 1 THEN rest[c][n - 1] ELSE NoItem

LEMMA DropIs ==
    ASSUME NEW lists, NEW E, Laid(lists, E), NEW p \in SortNodes, NEW x \in SortNodes,
           p \in E, x \in E, x # p
    PROVE  /\ Laid(InsertBefore(x, p, lists), E)
           /\ Laid(Detached(p, InsertBefore(x, p, lists)), E \ {p})
           /\ Detached(x, InsertBefore(x, p, lists)) = Detached(x, lists)
           /\ \E c \in Lists : \E n \in Nat : DroppedAt(p, x, lists, c, n)
<1> DEFINE r == Detached(x, lists)
           q == Detached(p, lists)
           placed == InsertBefore(x, p, lists)
           cleared == Detached(p, placed)
           rest == Remaining(p, x, lists)
           c == ListOf(p, r)
           n == Place(p, r[c])
<1>1. Laid(r, E \ {x}) /\ Laid(q, E \ {p})
    <2>1. Laid(Detached(x, lists), E \ {x})
        BY DetachedIs
    <2>2. Laid(Detached(p, lists), E \ {p})
        BY DetachedIs
    <2> QED
        BY <2>1, <2>2
<1>2. Laid(rest, (E \ {p}) \ {x})
    BY <1>1, DetachedIs DEF Remaining
<1>3. \A k \in Lists : r[k] = RemoveChild(lists[k], x) /\ q[k] = RemoveChild(lists[k], p)
    BY DEF Detached
<1>4. \A k \in Lists : rest[k] = RemoveChild(q[k], x)
    BY <1>1, DetachedIs DEF Remaining
<1>5. \A k \in Lists : rest[k] = RemoveChild(r[k], p)
    <2> SUFFICES ASSUME NEW k \in Lists PROVE rest[k] = RemoveChild(r[k], p)
        OBVIOUS
    <2>1. lists[k] \in Seq(SortNodes) /\ Distinct(lists[k])
        BY DEF Laid
    <2>2. RemoveChild(RemoveChild(lists[k], p), x) = RemoveChild(RemoveChild(lists[k], x), p)
        BY <2>1, Commutes
    <2> QED
        BY <1>3, <1>4, <2>2
<1>6. placed = [r EXCEPT ![c] = InsertAt(@, n, x)]
    BY DEF InsertBefore
<1>7. placed \in {InsertBefore(x, p, lists), InsertAfter(x, p, lists)}
    OBVIOUS
<1> HIDE DEF placed, rest, r, q
<1>8. /\ Laid(placed, E \cup {x}) /\ Detached(x, placed) = Detached(x, lists)
    BY <1>7, GoesNextTo
<1>9. E \cup {x} = E
    OBVIOUS
<1>10. Laid(placed, E)
    BY <1>8, <1>9
<1>11. Laid(cleared, E \ {p}) /\ \A k \in Lists : cleared[k] = RemoveChild(placed[k], p)
    BY <1>10, DetachedIs
<1>12. c \in Lists /\ n \in 1 .. Len(r[c]) /\ r[c][n] = p
    BY <1>1, FoundIs
<1> HIDE DEF cleared, c, n
<1>13. /\ r[c] \in Seq(SortNodes) /\ Distinct(r[c]) /\ ~Contains(r[c], x) /\ Len(r[c]) \in Nat
       /\ n \in 1 .. Len(r[c]) + 1
    <2>1. r[c] \in Seq(SortNodes) /\ Distinct(r[c]) /\ ~Contains(r[c], x)
        BY <1>1, <1>12 DEF Laid
    <2> QED
        BY <1>12, <2>1, LenProperties
<1>14. placed[c] = InsertAt(r[c], n, x) /\ \A k \in Lists \ {c} : placed[k] = r[k]
    BY <1>1, <1>6, <1>12 DEF Laid
<1>15. cleared[c] = InsertAt(rest[c], n, x)
    <2>1. RemoveChild(InsertAt(r[c], n, x), r[c][n]) = InsertAt(RemoveChild(r[c], r[c][n]), n, x)
        BY <1>12, <1>13, TakesThePlace
    <2> QED
        BY <1>5, <1>11, <1>12, <1>14, <2>1
<1>16. \A k \in Lists \ {c} : cleared[k] = rest[k]
    BY <1>5, <1>11, <1>14
<1>17. /\ rest[c] = RemoveAt(r[c], n) /\ Len(rest[c]) = Len(r[c]) - 1
       /\ \A m \in 1 .. Len(r[c]) - 1 : rest[c][m] = IF m < n THEN r[c][m] ELSE r[c][m + 1]
    <2>1. RemoveChild(r[c], p) = RemoveAt(r[c], n)
        BY <1>12, <1>13, WithoutIs
    <2>2. /\ Len(RemoveAt(r[c], n)) = Len(r[c]) - 1
          /\ \A m \in 1 .. Len(r[c]) - 1 :
                RemoveAt(r[c], n)[m] = IF m < n THEN r[c][m] ELSE r[c][m + 1]
        BY <1>12, <1>13, RemovedAtIs
    <2> QED
        BY <1>5, <1>12, <2>1, <2>2
<1>18. n \in 1 .. Len(rest[c]) + 1 /\ n \in Nat
    BY <1>12, <1>13, <1>17
<1>19. /\ placed[c] \in Seq(SortNodes) /\ Len(placed[c]) = Len(r[c]) + 1
       /\ \A m \in 1 .. Len(r[c]) + 1 :
             placed[c][m] = IF m < n THEN r[c][m] ELSE IF m = n THEN x ELSE r[c][m - 1]
    <2>1. /\ InsertAt(r[c], n, x) \in Seq(SortNodes) /\ Len(InsertAt(r[c], n, x)) = Len(r[c]) + 1
          /\ \A m \in 1 .. Len(r[c]) + 1 : InsertAt(r[c], n, x)[m]
                = IF m < n THEN r[c][m] ELSE IF m = n THEN x ELSE r[c][m - 1]
        <3>1. r[c] \in Seq(SortNodes)
            BY <1>13
        <3>2. n \in 1 .. Len(r[c]) + 1
            BY <1>13
        <3> DEFINE s == r[c]
        <3>3. s \in Seq(SortNodes) /\ n \in 1 .. Len(s) + 1
            BY <3>1, <3>2
        <3> HIDE DEF s
        <3>4. /\ InsertAt(s, n, x) \in Seq(SortNodes) /\ Len(InsertAt(s, n, x)) = Len(s) + 1
              /\ \A m \in 1 .. Len(s) + 1 : InsertAt(s, n, x)[m]
                    = IF m < n THEN s[m] ELSE IF m = n THEN x ELSE s[m - 1]
            BY <3>3, InsertedAtIs
        <3> QED
            BY <3>4 DEF s
    <2> QED
        BY <1>14, <2>1
<1>20. placed[c][n] = x /\ n \in 1 .. Len(placed[c])
    BY <1>13, <1>19
<1>21. ListOf(x, placed) = c
    <2>1. Contains(placed[c], x)
        BY <1>20 DEF Contains
    <2> QED
        BY <1>10, <1>12, <2>1, FoundIs
<1>22. ListOf(x, cleared) = c
    <2>1. Contains(placed[c], x)
        BY <1>20 DEF Contains
    <2>2. Distinct(placed[c])
        BY <1>10, <1>12 DEF Laid
    <2>3. Contains(cleared[c], x)
        BY <1>11, <1>12, <1>19, <2>1, <2>2, WithoutIs
    <2> QED
        BY <1>11, <1>12, <2>3, FoundIs
<1>23. Place(x, placed[c]) = n
    <2>1. Distinct(placed[c])
        BY <1>10, <1>12 DEF Laid
    <2> QED
        BY <1>20, <2>1, PlaceIs
<1>24. Prev(x, placed) = IF n > 1 THEN rest[c][n - 1] ELSE NoItem
    <2>1. Prev(x, placed) = IF n > 1 THEN placed[c][n - 1] ELSE NoItem
        BY <1>21, <1>23 DEF Prev
    <2>2. ASSUME n > 1 PROVE placed[c][n - 1] = rest[c][n - 1]
        <3>1. n - 1 \in 1 .. Len(r[c]) - 1 /\ n - 1 \in 1 .. Len(r[c]) + 1 /\ n - 1 < n
            BY <1>12, <1>13, <2>2
        <3>2. placed[c][n - 1] = r[c][n - 1]
            BY <1>19, <3>1
        <3>3. rest[c][n - 1] = r[c][n - 1]
            BY <1>17, <3>1
        <3> QED
            BY <3>2, <3>3
    <2> QED
        BY <2>1, <2>2
<1>25. DroppedAt(p, x, lists, c, n)
    BY <1>12, <1>15, <1>16, <1>18, <1>21, <1>22, <1>24 DEF DroppedAt, placed, cleared, rest
<1> QED
    BY <1>8, <1>10, <1>11, <1>12, <1>18, <1>25 DEF placed, cleared

(* An item that is dropped where it was has the element before it that it had,   *)
(* and the order of its list is what it was.                                  *)
LEMMA DroppedWhereItWas ==
    ASSUME NEW told, NEW E, Laid(told, E), NEW x \in SortNodes, NEW l \in Lists,
           Contains(told[l], x), NEW rest, rest = RemoveChild(told[l], x),
           NEW n \in 1 .. Len(rest) + 1,
           Prev(x, told) = IF n > 1 THEN rest[n - 1] ELSE NoItem
    PROVE  InsertAt(rest, n, x) = told[l]
<1> DEFINE s == told[l]
           j == Place(x, s)
<1>1. s \in Seq(SortNodes) /\ Distinct(s) /\ Len(s) \in Nat
    <2>1. s \in Seq(SortNodes) /\ Distinct(s)
        BY DEF Laid
    <2> QED
        BY <2>1, LenProperties
<1>2. ListOf(x, told) = l
    BY FoundIs
<1>3. j \in 1 .. Len(s) /\ s[j] = x
    BY DEF Place, Contains
<1>4. Prev(x, told) = IF j > 1 THEN s[j - 1] ELSE NoItem
    BY <1>2 DEF Prev
<1>5. rest = RemoveChild(s, x)
    OBVIOUS
<1> HIDE DEF s, j
<1>6. rest \in Seq(SortNodes) /\ Distinct(rest) /\ rest = RemoveAt(s, j)
    BY <1>1, <1>3, <1>5, WithoutIs
<1>7. /\ Len(rest) = Len(s) - 1
      /\ \A m \in 1 .. Len(s) - 1 : rest[m] = IF m < j THEN s[m] ELSE s[m + 1]
    BY <1>1, <1>3, <1>6, RemovedAtIs
<1>8. j > 1 => j - 1 \in 1 .. Len(rest) /\ s[j - 1] = rest[j - 1]
    <2> HAVE j > 1
    <2>1. j - 1 \in 1 .. Len(s) - 1 /\ j - 1 < j
        BY <1>1, <1>3
    <2> QED
        BY <1>7, <2>1
<1>9. n > 1 => n - 1 \in 1 .. Len(rest)
    BY <1>1, <1>7
<1>10. j = n
    <2>1. CASE j > 1 /\ n > 1
        <3>1. rest[n - 1] = rest[j - 1] /\ n - 1 \in 1 .. Len(rest) /\ j - 1 \in 1 .. Len(rest)
            BY <1>4, <1>8, <1>9, <2>1
        <3>2. n - 1 = j - 1
            BY <1>6, <3>1 DEF Distinct
        <3> QED
            BY <1>1, <1>3, <1>7, <3>2
    <2>2. CASE j > 1 /\ ~(n > 1)
        <3>1. rest[j - 1] \in SortNodes /\ rest[j - 1] = NoItem
            <4>1. rest[j - 1] \in SortNodes
                BY <1>6, <1>8, <2>2, ElementOfSeq
            <4> QED
                BY <1>4, <1>8, <2>2, <4>1
        <3> QED
            BY <3>1, NodesDiffer
    <2>3. CASE ~(j > 1) /\ n > 1
        <3>1. rest[n - 1] \in SortNodes /\ rest[n - 1] = NoItem
            <4>1. rest[n - 1] \in SortNodes
                BY <1>6, <1>9, <2>3, ElementOfSeq
            <4> QED
                BY <1>4, <2>3, <4>1
        <3> QED
            BY <3>1, NodesDiffer
    <2>4. CASE ~(j > 1) /\ ~(n > 1)
        BY <1>1, <1>3, <1>7, <2>4
    <2> QED
        BY <2>1, <2>2, <2>3, <2>4
<1>11. InsertAt(RemoveChild(s, s[j]), j, s[j]) = s
    BY <1>1, <1>3, PutBack
<1> QED
    BY <1>3, <1>5, <1>10, <1>11 DEF s

(* The lists of a drop are told the order they have, and the others have theirs. *)
LEMMA ToldOrder ==
    ASSUME SortInv, ~mixed, NEW l \in ActiveIn(sorting), Clear(l)
    PROVE  known' = children'
<1> DEFINE P == Placeholder(l)
           D == Dragged(l)
           E == InDocument(ActiveIn(sorting))
           placed == InsertBefore(D, P, children)
           lists == Detached(P, placed)
           told == (IF Moved(l, placed) THEN {l} ELSE {})
                   \cup ({ListOf(D, lists)} \ {l})
           rest == Remaining(P, D, children)
<1>1. /\ children' = lists
      /\ known' = [k \in Lists |-> IF k \in told
                                   THEN ToArray(k, lists, Helpers \ {D})
                                   ELSE known[k]]
    BY DEF Clear
<1>2. /\ Laid(children, E) /\ sorting[l].item \in SortItems /\ l \in Lists
      /\ D = Item(sorting[l].item) /\ Contains(children[l], D)
    BY DEF SortInv, DragsLaid, ActiveIn, Dragged
<1>3. ActiveIn(sorting) = {l}
    BY DEF SortInv, OrderKnown
<1>4. /\ known = Detached(P, children) /\ sorting[l].parent = l
      /\ sorting[l].prev = Prev(D, known)
    BY <1>2 DEF SortInv, OrderKnown
<1>5. Helpers \ {D} = {}
    BY <1>3 DEF Helpers, ActiveIn
<1>6. Moved(l, placed) <=> (Prev(D, placed) # Prev(D, known) \/ ListOf(D, placed) # l)
    <2>1. PrevAtRest(l, placed) = Prev(D, placed)
        BY <1>5 DEF PrevAtRest
    <2> HIDE DEF placed
    <2> QED
        BY <1>4, <2>1 DEF Moved
<1>a. told = (IF Moved(l, placed) THEN {l} ELSE {}) \cup ({ListOf(D, lists)} \ {l})
    OBVIOUS
<1> HIDE DEF P, D, placed, lists, told, rest
<1>7. P \in SortNodes /\ D \in SortNodes /\ P \in E /\ D \in E /\ D # P
    BY <1>2, <1>3, NodesDiffer, InDocumentIs DEF P
<1>8. E \ {P} = InDocument({})
    BY <1>2, <1>3, InDocumentIs DEF P
<1> HIDE DEF E
<1>9. Laid(lists, InDocument({}))
    BY <1>2, <1>7, <1>8, DropIs DEF lists, placed
<1>10. \E c \in Lists : \E n \in Nat : DroppedAt(P, D, children, c, n)
    BY <1>2, <1>7, DropIs
<1>11. PICK c \in Lists, n \in Nat : DroppedAt(P, D, children, c, n)
    BY <1>10
<1>12. /\ n \in 1 .. Len(rest[c]) + 1
       /\ ListOf(D, placed) = c /\ ListOf(D, lists) = c
       /\ lists[c] = InsertAt(rest[c], n, D)
       /\ \A k \in Lists \ {c} : lists[k] = rest[k]
       /\ Prev(D, placed) = IF n > 1 THEN rest[c][n - 1] ELSE NoItem
    BY <1>11 DEF DroppedAt, rest, lists, placed
<1>13. /\ Laid(known, E \ {P}) /\ Contains(known[l], D)
       /\ \A k \in Lists : rest[k] = RemoveChild(known[k], D)
    <2>1. Laid(known, E \ {P}) /\ Contains(known[l], D)
        BY <1>2, <1>4, <1>7, DetachedIs
    <2>2. \A k \in Lists : Detached(D, known)[k] = RemoveChild(known[k], D)
        BY DEF Detached
    <2> QED
        BY <1>4, <2>1, <2>2 DEF rest, Remaining
<1>14. ASSUME NEW k \in Lists, k \in told PROVE known'[k] = lists[k]
    <2>1. known'[k] = ToArray(k, lists, {})
        BY <1>1, <1>5, <1>14
    <2>2. lists[k] \in Seq(SortNodes)
        BY <1>9 DEF Laid
    <2>3. \A m \in 1 .. Len(lists[k]) : lists[k][m] \in {Item(i) : i \in SortItems}
        <3> SUFFICES ASSUME NEW m \in 1 .. Len(lists[k])
                     PROVE  lists[k][m] \in {Item(i) : i \in SortItems}
            OBVIOUS
        <3>1. lists[k][m] \in SortNodes /\ Contains(lists[k], lists[k][m])
            BY <2>2, ElementOfSeq DEF Contains
        <3>2. lists[k][m] \in InDocument({})
            BY <1>9, <3>1 DEF Laid
        <3> QED
            BY <3>2 DEF InDocument
    <2> QED
        BY <2>1, <2>2, <2>3, AllShown
<1>15. ASSUME NEW k \in Lists, k \notin told PROVE known'[k] = lists[k]
    <2>1. known'[k] = known[k]
        BY <1>1, <1>15
    <2>2. k # c \/ k = l
        BY <1>12, <1>15, <1>a
    <2>3. k = l => Prev(D, placed) = Prev(D, known) /\ c = l
        BY <1>6, <1>12, <1>15, <1>a
    <2>4. CASE k # l
        <3>1. k # c
            BY <2>2, <2>4
        <3>2. ~Contains(known[k], D)
            BY <1>2, <1>7, <1>13, <2>4 DEF Laid
        <3>3. known[k] \in Seq(SortNodes) /\ Distinct(known[k])
            BY <1>13 DEF Laid
        <3>4. RemoveChild(known[k], D) = known[k]
            BY <3>2, <3>3, WithoutIs
        <3> QED
            BY <1>12, <1>13, <2>1, <3>1, <3>4
    <2>5. CASE k = l
        <3> DEFINE kept == rest[l]
        <3>1. c = l /\ Prev(D, known) = IF n > 1 THEN kept[n - 1] ELSE NoItem
            BY <1>12, <2>3, <2>5
        <3>2. n \in 1 .. Len(kept) + 1 /\ kept = RemoveChild(known[l], D) /\ lists[l] = InsertAt(kept, n, D)
            BY <1>2, <1>12, <1>13, <3>1
        <3> HIDE DEF kept
        <3>3. InsertAt(kept, n, D) = known[l]
            BY <1>2, <1>7, <1>13, <3>1, <3>2, DroppedWhereItWas
        <3> QED
            BY <2>1, <2>5, <3>2, <3>3
    <2> QED
        BY <2>4, <2>5
<1>16. known' = [k \in Lists |-> known'[k]]
    BY <1>1
<1>17. lists = [k \in Lists |-> lists[k]]
    BY <1>9 DEF Laid
<1> QED
    BY <1>1, <1>14, <1>15, <1>16, <1>17

LEMMA ClearKeeps ==
    ASSUME SortInv, NEW l \in ActiveIn(sorting), Clear(l), mixed' = mixed
    PROVE  SortInv'
<1> DEFINE P == Placeholder(l)
           D == Dragged(l)
           E == InDocument(ActiveIn(sorting))
           placed == InsertBefore(D, P, children)
           lists == Detached(P, placed)
<1>1. /\ children' = lists /\ sorting' = [sorting EXCEPT ![l] = NotSorting]
      /\ containerOver' = {}
    BY DEF Clear
<1>2. /\ Laid(children, E) /\ sorting[l].item \in SortItems /\ l \in Lists
      /\ D = Item(sorting[l].item) /\ sorting \in [Lists -> Drags]
      /\ sorting[l].phase # "idle" /\ ActiveIn(sorting) \in SUBSET Lists
    BY DEF SortInv, DragsLaid, ActiveIn, Dragged
<1> HIDE DEF P, D, placed, lists
<1>3. P \in SortNodes /\ D \in SortNodes /\ P \in E /\ D \in E /\ D # P
    BY <1>2, NodesDiffer, InDocumentIs DEF P
<1>4. E \ {P} = InDocument(ActiveIn(sorting) \ {l})
    BY <1>2, InDocumentIs DEF P
<1> HIDE DEF E
<1>5. /\ Laid(placed, E) /\ Laid(lists, E \ {P})
      /\ Detached(D, placed) = Detached(D, children)
    BY <1>2, <1>3, DropIs DEF lists, placed
<1>6. NotSorting \in Drags /\ NotSorting.phase = "idle"
    BY DEF NotSorting, Drags
<1>7. /\ sorting' \in [Lists -> Drags] /\ sorting'[l] = NotSorting
      /\ \A k \in Lists \ {l} : sorting'[k] = sorting[k]
    BY <1>1, <1>2, <1>6
<1>8. ActiveIn(sorting') = ActiveIn(sorting) \ {l}
    BY <1>6, <1>7 DEF ActiveIn
<1>9. ASSUME NEW k \in Lists, sorting'[k].phase # "idle"
      PROVE  /\ sorting'[k].item \in SortItems /\ Contains(lists[k], Item(sorting'[k].item))
             /\ Placeholder(k) \notin sorting'[k].items
    <2>1. k # l /\ sorting'[k] = sorting[k]
        BY <1>6, <1>7, <1>9
    <2>2. /\ sorting[k].item \in SortItems /\ Contains(children[k], Item(sorting[k].item))
          /\ Placeholder(k) \notin sorting[k].items /\ sorting[k].item # sorting[l].item
        BY <1>2, <1>9, <2>1 DEF SortInv, DragsLaid
    <2>3. Item(sorting[k].item) \in (SortNodes \ {D}) \ {P}
        BY <1>2, <2>2, NodesDiffer DEF P
    <2> DEFINE x == Item(sorting[k].item)
    <2>a. x \in SortNodes \ {D} /\ x \in SortNodes \ {P}
        BY <2>3
    <2> HIDE DEF x
    <2>4. Contains(Detached(D, placed)[k], x) <=> Contains(placed[k], x)
        <3>1. \A m \in Lists : \A e \in SortNodes \ {D} :
                  Contains(Detached(D, placed)[m], e) <=> Contains(placed[m], e)
            BY <1>3, <1>5, DetachedIs
        <3> QED
            BY <2>a, <3>1
    <2>5. Contains(Detached(D, children)[k], x) <=> Contains(children[k], x)
        <3>1. \A m \in Lists : \A e \in SortNodes \ {D} :
                  Contains(Detached(D, children)[m], e) <=> Contains(children[m], e)
            <4>1. Laid(children, E) /\ D \in SortNodes
                BY <1>2, <1>3
            <4> QED
                BY <4>1, DetachedIs
        <3> QED
            BY <2>a, <3>1
    <2>6. Contains(lists[k], x) <=> Contains(placed[k], x)
        BY <1>3, <1>5, <2>a, DetachedIs DEF lists
    <2>7. Contains(lists[k], x)
        BY <1>5, <2>2, <2>4, <2>5, <2>6 DEF x
    <2> QED
        BY <2>1, <2>2, <2>7 DEF x
<1>10. DragsLaid(lists, sorting')
    <2>1. \A k \in Lists : \A m \in Lists \ {k} :
              sorting'[k].phase # "idle" /\ sorting'[m].phase # "idle" => sorting'[k].item # sorting'[m].item
        BY <1>6, <1>7 DEF SortInv, DragsLaid
    <2> QED
        BY <1>4, <1>5, <1>7, <1>8, <1>9, <2>1 DEF DragsLaid
<1>11. ASSUME ~mixed' PROVE OrderKnown(children', sorting', known')
    <2>1. known' = children'
        BY <1>11, ToldOrder
    <2>2. ActiveIn(sorting') = {}
        BY <1>8, <1>11 DEF SortInv, OrderKnown
    <2> QED
        BY <2>1, <2>2 DEF OrderKnown
<1> QED
    BY <1>1, <1>10, <1>11 DEF SortInv

LEMMA SortStep == SortInv /\ [SortableNext]_sortVars => SortInv'
<1> SUFFICES ASSUME SortInv, [SortableNext]_sortVars PROVE SortInv'
    OBVIOUS
<1>1. CASE UNCHANGED sortVars
    BY <1>1 DEF sortVars, SortInv, DragsLaid, OrderKnown, ActiveIn
<1>2. ASSUME NEW l \in Lists, NEW i \in SortItems, PressItem(l, i) PROVE SortInv'
    BY <1>2, PressItemKeeps
<1>3. ASSUME NEW l \in Lists, NEW c \in Lists \cup {NoList}, DragItem(l, c) PROVE SortInv'
    BY <1>3, DragItemKeeps
<1>4. ASSUME NEW l \in Lists, ReleaseItem(l) PROVE SortInv'
    <2>1. sorting[l].phase \in {"down", "dragging"} /\ mixed' = mixed
        BY <1>4 DEF ReleaseItem
    <2>2. CASE sorting[l].phase = "down"
        BY <1>4, <2>2, ForgottenKeeps DEF ReleaseItem
    <2>3. CASE sorting[l].phase = "dragging" /\ l \in Reverts
        BY <1>4, <2>3, RevertingKeeps DEF ReleaseItem
    <2>4. CASE sorting[l].phase = "dragging" /\ l \notin Reverts
        <3>1. Clear(l) /\ l \in ActiveIn(sorting)
            BY <1>4, <2>4 DEF ReleaseItem, ActiveIn
        <3> QED
            BY <2>1, <3>1, ClearKeeps
    <2> QED
        BY <2>1, <2>2, <2>3, <2>4
<1>5. ASSUME NEW l \in Lists, RevertEnds(l) PROVE SortInv'
    <2>1. Clear(l) /\ l \in ActiveIn(sorting) /\ mixed' = mixed
        BY <1>5 DEF RevertEnds, ActiveIn
    <2> QED
        BY <2>1, ClearKeeps
<1> QED
    BY <1>1, <1>2, <1>3, <1>4, <1>5 DEF SortableNext

LEMMA SortInvTells == SortInv => OrderIsTold
<1> SUFFICES ASSUME SortInv, \A l \in Lists : sorting[l].phase = "idle"
             PROVE  /\ \A i \in SortItems : \E l \in Lists : \E n \in 1 .. Len(children[l]) :
                           /\ children[l][n] = Item(i)
                           /\ \A k \in Lists : \A m \in 1 .. Len(children[k]) :
                                  children[k][m] = Item(i) => k = l /\ m = n
                    /\ \A l \in Lists : ToSet(children[l]) \subseteq {Item(i) : i \in SortItems}
                    /\ containerOver = {}
                    /\ ~mixed => known = children
    BY DEF OrderIsTold
<1>1. ActiveIn(sorting) = {}
    BY DEF ActiveIn
<1>2. Laid(children, InDocument({}))
    BY <1>1 DEF SortInv, DragsLaid
<1>3. ASSUME NEW i \in SortItems
      PROVE  \E l \in Lists : \E n \in 1 .. Len(children[l]) :
                 /\ children[l][n] = Item(i)
                 /\ \A k \in Lists : \A m \in 1 .. Len(children[k]) :
                        children[k][m] = Item(i) => k = l /\ m = n
    <2>1. Item(i) \in SortNodes /\ Item(i) \in InDocument({})
        BY NodesDiffer DEF InDocument
    <2>2. PICK l \in Lists : Contains(children[l], Item(i))
        BY <1>2, <2>1 DEF Laid
    <2>3. PICK n \in 1 .. Len(children[l]) : children[l][n] = Item(i)
        BY <2>2 DEF Contains
    <2>4. ASSUME NEW k \in Lists, NEW m \in 1 .. Len(children[k]), children[k][m] = Item(i)
          PROVE  k = l /\ m = n
        <3>1. Contains(children[k], Item(i))
            BY <2>4 DEF Contains
        <3>2. k = l
            BY <1>2, <2>1, <2>2, <3>1 DEF Laid
        <3>3. Distinct(children[l])
            BY <1>2 DEF Laid
        <3> QED
            BY <2>3, <2>4, <3>2, <3>3 DEF Distinct
    <2> QED
        BY <2>3, <2>4
<1>4. ASSUME NEW l \in Lists PROVE ToSet(children[l]) \subseteq {Item(i) : i \in SortItems}
    <2>1. children[l] \in Seq(SortNodes)
        BY <1>2 DEF Laid
    <2>2. ASSUME NEW e \in ToSet(children[l]) PROVE e \in {Item(i) : i \in SortItems}
        <3>1. Contains(children[l], e) /\ e \in SortNodes
            BY <2>1, LenProperties, ElementOfSeq DEF ToSet, Contains
        <3>2. e \in InDocument({})
            BY <1>2, <3>1 DEF Laid
        <3> QED
            BY <3>2 DEF InDocument
    <2> QED
        BY <2>2
<1>5. containerOver = {} /\ (~mixed => known = children)
    BY <1>1 DEF SortInv, OrderKnown
<1> QED
    BY <1>3, <1>4, <1>5

(* For every set of connected lists, with every choice of revert and of          *)
(* dropOnEmpty, every item ends in one list when no drag is under way, no      *)
(* placeholder and no list marked as hovered is left, and the order told last   *)
(* is the order of the lists unless one drag was begun while another ended.    *)
THEOREM OrderIsToldRight == SortableSpec => []OrderIsTold
<1>1. SortableInit => SortInv
    BY SortStart
<1>2. SortInv /\ [SortableNext]_sortVars => SortInv'
    BY SortStep
<1>3. SortInv => OrderIsTold
    BY SortInvTells
<1> QED
    BY <1>1, <1>2, <1>3, PTL DEF SortableSpec

=============================================================================
