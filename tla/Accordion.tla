------------------------------- MODULE Accordion -------------------------------
(* The accordion of jQuery UI: headers, each with a content, of which at most *)
(* one is shown; a click hides one content and shows another in an animation, *)
(* and clicks are ignored as long as that animation is counted as running.   *)
EXTENDS Integers, Sequences, FiniteSets

CONSTANTS Headers,      \* the number of headers
          Collapsible,  \* the option collapsible
          ClosesAtWill  \* whether a page calls activate(false) at any time

ASSUME AccordionAssumption ==
    /\ Headers \in Nat \ {0}
    /\ Collapsible \in BOOLEAN /\ ClosesAtWill \in BOOLEAN

VARIABLES activeHeader, \* this.active, as a set of at most one header
          running,      \* this.running
          toHide,       \* this.toHide
          displayed,    \* the contents that are displayed
          marked,       \* the contents with the class of an active content
          slides,       \* the animations queued at each content, the first one plays
          tabStops,     \* the headers with tabIndex 0
          focusedHeader \* the header with the focus, as a set of at most one

accordionVars == <<activeHeader, running, toHide, displayed, marked, slides, tabStops,
                   focusedHeader>>

AllHeaders == 1 .. Headers

-----------------------------------------------------------------------------

AccordionInit ==
    /\ activeHeader = {1} /\ displayed = {1} /\ marked = {1} /\ tabStops = {1}
    /\ running = 0 /\ toHide = {}
    /\ slides = [h \in AllHeaders |-> <<>>]
    /\ focusedHeader = {}

(* _completed, as a function of what it finds.                             *)
Completed(r, mark, hide) ==
    [running |-> r - 1, marked |-> IF r = 1 THEN mark \ hide ELSE mark]

(* The animation of a content ends, or is found to have nothing to do.      *)
SlideEnds(h) ==
    /\ slides[h] # <<>>
    /\ displayed' = IF Head(slides[h]) = "hide" THEN displayed \ {h} ELSE displayed \cup {h}
    /\ slides' = [slides EXCEPT ![h] = Tail(@)]
    /\ LET c == Completed(running, marked, toHide) IN
       running' = c.running /\ marked' = c.marked
    /\ UNCHANGED <<activeHeader, toHide, tabStops, focusedHeader>>

(* _toggle with animated = slide: if there is a content to hide, its slide   *)
(* also unfolds the one to show, which is displayed at once.                *)
Toggle(show, hide, mark) ==
    LET visible == hide \cap displayed
        counted == IF hide = {} THEN Cardinality(show) ELSE Cardinality(hide)
        c == IF hide \ visible # {} THEN Completed(counted, mark, hide)
             ELSE [running |-> counted, marked |-> mark]
    IN /\ toHide' = hide
       /\ running' = c.running /\ marked' = c.marked
       /\ displayed' = displayed \cup show
       /\ slides' = [h \in AllHeaders |->
                        CASE h \in visible -> Append(slides[h], "hide")
                          [] h \in show /\ hide = {} -> Append(slides[h], "show")
                          [] OTHER -> slides[h]]

(* What follows the animations' start: the headers lose and take the focus.  *)
Refocus(show, hide, before) ==
    /\ tabStops' = (tabStops \ hide) \cup show
    /\ focusedHeader' = IF show # {} THEN show ELSE before \ hide

IgnoredIfActive(h) == ~Collapsible /\ activeHeader = {h}

Ignored(h) == running # 0 \/ (~Collapsible /\ activeHeader = {h})

(* _clickHandler for a header: the active one closes, another one opens.     *)
ClickHeader(h) ==
    IF Ignored(h)
    THEN /\ focusedHeader' = {h}
         /\ UNCHANGED <<activeHeader, running, toHide, displayed, marked, slides, tabStops>>
    ELSE IF activeHeader = {h}
    THEN activeHeader' = {} /\ Toggle({}, {h}, marked) /\ Refocus({h}, {h}, {h})
    ELSE activeHeader' = {h} /\ Toggle({h}, activeHeader, marked \cup {h})
         /\ Refocus({h}, activeHeader, {h})

(* activate(false): the only way past the test for a running animation.      *)
CloseAll ==
    /\ Collapsible
    /\ ~ClosesAtWill => running = 0
    /\ activeHeader' = {}
    /\ Toggle({}, activeHeader, marked \cup activeHeader)
    /\ Refocus({}, activeHeader, focusedHeader)

(* _keydown: an arrow moves the focus and the place in the tab order, space   *)
(* and Enter click.                                                        *)
MoveTo(from, h) ==
    /\ tabStops' = (tabStops \ {from}) \cup {h}
    /\ focusedHeader' = {h}
    /\ UNCHANGED <<activeHeader, running, toHide, displayed, marked, slides>>

Key(from) ==
    /\ from \in focusedHeader
    /\ \/ MoveTo(from, (from % Headers) + 1)
       \/ MoveTo(from, ((from - 2 + Headers) % Headers) + 1)
       \/ ClickHeader(from)

(* The user moves the focus with Tab.                                      *)
TabTo(h) ==
    /\ h \in tabStops
    /\ focusedHeader' = {h}
    /\ UNCHANGED <<activeHeader, running, toHide, displayed, marked, slides, tabStops>>

AccordionNext ==
    \/ \E h \in AllHeaders : ClickHeader(h) \/ Key(h) \/ TabTo(h) \/ SlideEnds(h)
    \/ CloseAll

AccordionSpec == AccordionInit /\ [][AccordionNext]_accordionVars

-----------------------------------------------------------------------------
(* Properties.                                                             *)

(* When no animation is left the accordion takes clicks again, and exactly    *)
(* the active content is displayed and marked, whatever was clicked or typed  *)
(* while the animations ran ("if animations are still active, or the active  *)
(* header is the target, ignore click").                                    *)
ShowsActiveOnly ==
    (\A h \in AllHeaders : slides[h] = <<>>) =>
        running = 0 /\ displayed = activeHeader /\ marked = activeHeader
=============================================================================
