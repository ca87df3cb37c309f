------------------------------- MODULE Effects -------------------------------
(* The animations of a page: the queue of effects that jQuery keeps for each *)
(* element, the timers that all animations share, and the two users of them: *)
(* the sliding menu, which opens and closes as the pointer comes and goes,   *)
(* and the window of a monitor, which scrolls to each answer.                *)
(*                                                                           *)
(* A browser runs one callback at a time to its end.  The callback of the    *)
(* interval visits the timers one by one, and what it visits may start other *)
(* animations, so it is modelled as steps; no event comes between them.      *)
(* Time is left out: a tick may come as late as the browser likes, so an     *)
(* effect is over at any visit, and after "Ticks" visits at the latest.      *)
EXTENDS Naturals, Sequences

CONSTANTS Menus,       \* the lists that slide, each below its header
          ParentOf,    \* the list that holds the header of a list, or NoMenu
          NoMenu,
          Panes,       \* the windows that scroll
          Replace,     \* whether an answer replaces the text of a window
          Ticks,       \* visits of a timer until its effect must be over
          MaxQueue,    \* bound of the model: the effects of each element
          MaxHeight    \* bound of the model: how far a window can scroll

ASSUME EffectsAssumption ==
    /\ Menus \cap Panes = {}
    /\ NoMenu \notin Menus
    /\ ParentOf \in [Menus -> Menus \cup {NoMenu}]
    /\ \A m \in Menus : ParentOf[m] # NoMenu => ParentOf[ParentOf[m]] = NoMenu
    /\ Replace \in BOOLEAN
    /\ Ticks \in Nat /\ MaxHeight \in Nat
    /\ MaxQueue \in [Menus \cup Panes -> Nat]

VARIABLES queue,     \* effects of each element, the first of them running
          timers,    \* jQuery.timers: one for each property that moves
          ticking,   \* whether the interval is set (timerId)
          visit,     \* the timer that the interval's callback visits, or 0
          display,   \* which lists are displayed, as far as they decide it
          style,     \* inline style of an element: its own, or an effect's
          over,      \* the lists whose header holds the pointer
          height,    \* how far a window can scroll: up to its last line
          scroll     \* how far it has scrolled

effectVars == <<queue, timers, ticking, visit, display, style, over, height, scroll>>

EffectElements == Menus \cup Panes

-----------------------------------------------------------------------------
(* Effects and their timers.                                               *)

(* An effect: "show" and "hide" slide a list, "scroll" moves a window to     *)
(* "to".  "orig" is the style it found, "moved" the properties it is done    *)
(* with.                                                                     *)
Effect(kind, to) == [kind |-> kind, to |-> to, orig |-> "own", moved |-> {}]

(* genFx: the properties that an effect moves.  Two stand for the five of    *)
(* a slide.                                                                  *)
PropsOf(kind) == IF kind = "scroll" THEN <<"scrollTop">> ELSE <<"height", "margin">>

Timer(e, p) == [elem |-> e, prop |-> p, left |-> Ticks]

TimersFor(e, kind) == [i \in 1..Len(PropsOf(kind)) |-> Timer(e, PropsOf(kind)[i])]

PropSet(kind) == {PropsOf(kind)[i] : i \in 1..Len(PropsOf(kind))}

(* The :hidden selector: an element without a box, because it or a list      *)
(* around it is not displayed.                                               *)
Hidden(e, shown) ==
    /\ e \in Menus
    /\ \/ e \notin shown
       \/ ParentOf[e] # NoMenu /\ ParentOf[e] \notin shown

(* animate, its first loop: to hide what is hidden, or show what is shown,   *)
(* is complete at once.                                                      *)
Skipped(a, hidden) == (a.kind = "hide" /\ hidden) \/ (a.kind = "show" /\ ~hidden)

(* dequeue: what is left of a queue when the effects that are complete at    *)
(* once have taken each other out of it.                                     *)
Playable(q, hidden) ==
    LET played == {i \in 1..Len(q) : ~Skipped(q[i], hidden)}
    IN  IF played = {} THEN <<>>
        ELSE SubSeq(q, CHOOSE i \in played : \A j \in played : i <= j, Len(q))

(* The queue q of e starts its first effect that is not complete at once;    *)
(* the timers of the others are tms, and the lists displayed are shown.      *)
Play(e, q, tms, shown, styles) ==
    LET r == Playable(q, Hidden(e, shown))
    IN  IF r = <<>>
        THEN /\ queue' = [queue EXCEPT ![e] = <<>>]
             /\ timers' = tms
             /\ display' = shown
             /\ style' = styles
             /\ UNCHANGED ticking
        ELSE LET a == Head(r) IN
             /\ queue' = [queue EXCEPT ![e] = <<[a EXCEPT !.orig = styles[e]]>> \o Tail(r)]
             /\ timers' = tms \o TimersFor(e, a.kind)
             /\ display' = IF a.kind = "show" THEN shown \cup {e} ELSE shown
             /\ style' = [styles EXCEPT ![e] = IF a.kind = "scroll" THEN @ ELSE "moved"]
             /\ ticking' = TRUE

(* queue: an effect waits behind the others, and starts if it is alone.      *)
Animate(e, a) ==
    IF queue[e] = <<>>
    THEN Play(e, <<a>>, timers, display, style)
    ELSE /\ queue' = [queue EXCEPT ![e] = Append(@, a)]
         /\ UNCHANGED <<timers, ticking, display, style>>

-----------------------------------------------------------------------------
(* The events of the page.                                                   *)

EffectsInit ==
    /\ queue = [e \in EffectElements |-> <<>>]
    /\ timers = <<>>
    /\ ticking = FALSE
    /\ visit = 0
    /\ display = {}
    /\ style = [e \in EffectElements |-> "own"]
    /\ over = {}
    /\ height = [w \in Panes |-> 0]
    /\ scroll = [w \in Panes |-> 0]

(* The pointer comes on the header of a list, which can be seen: the list    *)
(* slides down unless more than one effect waits for it.                     *)
Enter(m) ==
    /\ visit = 0
    /\ m \notin over
    /\ ParentOf[m] # NoMenu => ParentOf[m] \in over \cap display
    /\ over' = over \cup {m}
    /\ IF Len(queue[m]) <= 1
       THEN Animate(m, Effect("show", 0))
       ELSE UNCHANGED <<queue, timers, ticking, display, style>>
    /\ UNCHANGED <<visit, height, scroll>>

(* Mutant of Leave: a list that is still moving is not asked to close.       *)
LeaveAtRest(m) ==
    /\ visit = 0
    /\ m \in over
    /\ \A c \in over : ParentOf[c] # m
    /\ over' = over \ {m}
    /\ IF queue[m] = <<>>
       THEN Animate(m, Effect("hide", 0))
       ELSE UNCHANGED <<queue, timers, ticking, display, style>>
    /\ UNCHANGED <<visit, height, scroll>>

(* The pointer leaves the header and the list, from the inside out.          *)
Leave(m) ==
    /\ visit = 0
    /\ m \in over
    /\ \A c \in over : ParentOf[c] # m
    /\ Len(queue[m]) < MaxQueue[m]
    /\ over' = over \ {m}
    /\ Animate(m, Effect("hide", 0))
    /\ UNCHANGED <<visit, height, scroll>>

(* Mutant of Update: where to scroll to is computed before the text changes.  *)
UpdateLate(w, h) ==
    /\ visit = 0
    /\ Len(queue[w]) < MaxQueue[w]
    /\ ~Replace => h > height[w]
    /\ height' = [height EXCEPT ![w] = h]
    /\ scroll' = [scroll EXCEPT ![w] = IF @ < h THEN @ ELSE h]
    /\ Animate(w, Effect("scroll", height[w]))
    /\ UNCHANGED <<visit, over>>

(* An answer of the server changes the text of a window to a height of h,    *)
(* and the window scrolls to its end.  The browser keeps what is scrolled    *)
(* within the text.                                                          *)
Update(w, h) ==
    /\ visit = 0
    /\ Len(queue[w]) < MaxQueue[w]
    /\ ~Replace => h > height[w]
    /\ height' = [height EXCEPT ![w] = h]
    /\ scroll' = [scroll EXCEPT ![w] = IF @ < h THEN @ ELSE h]
    /\ Animate(w, Effect("scroll", h))
    /\ UNCHANGED <<visit, over>>

-----------------------------------------------------------------------------
(* The callback of the interval.                                             *)

Tick ==
    /\ ticking
    /\ visit = 0
    /\ visit' = 1
    /\ UNCHANGED <<queue, timers, ticking, display, style, over, height, scroll>>

(* step, with time left: the property moves on.                              *)
Move ==
    /\ visit \in 1..Len(timers)
    /\ timers[visit].left > 0
    /\ timers' = [timers EXCEPT ![visit].left = @ - 1]
    /\ visit' = visit + 1
    /\ UNCHANGED <<queue, ticking, display, style, over, height, scroll>>

Without(s, i) == SubSeq(s, 1, i - 1) \o SubSeq(s, i + 1, Len(s))

(* step, when time is up: the property gets its last value and its timer is  *)
(* taken out, so that the next one comes to its place.  With the last        *)
(* property the effect is done: what it borrowed is given back, a list that  *)
(* was to hide is hidden, and the queue goes on with the next effect.        *)
Finish ==
    /\ visit \in 1..Len(timers)
    /\ LET t == timers[visit]
           e == t.elem
           a == Head(queue[e])
           rest == Without(timers, visit)
       IN  /\ IF a.moved \cup {t.prop} = PropSet(a.kind)
              THEN Play(e, Tail(queue[e]), rest,
                        IF a.kind = "hide" THEN display \ {e} ELSE display,
                        [style EXCEPT ![e] = a.orig])
              ELSE /\ queue' = [queue EXCEPT ![e][1].moved = @ \cup {t.prop}]
                   /\ timers' = rest
                   /\ UNCHANGED <<ticking, display, style>>
           /\ scroll' = IF a.kind = "scroll"
                        THEN [scroll EXCEPT ![e] = IF a.to < height[e] THEN a.to ELSE height[e]]
                        ELSE scroll
    /\ UNCHANGED <<visit, over, height>>

(* Mutant of Pause: timers that were added during the callback are forgotten. *)
PauseForGood ==
    /\ visit > Len(timers)
    /\ ticking' = FALSE
    /\ visit' = 0
    /\ UNCHANGED <<queue, timers, display, style, over, height, scroll>>

(* The end of the callback: without timers the interval is cleared.          *)
Pause ==
    /\ visit > Len(timers)
    /\ ticking' = (timers # <<>>)
    /\ visit' = 0
    /\ UNCHANGED <<queue, timers, display, style, over, height, scroll>>

Interval == Tick \/ Move \/ Finish \/ Pause

EffectsNext ==
    \/ \E m \in Menus : Enter(m) \/ Leave(m)
    \/ \E w \in Panes, h \in 1..MaxHeight : Update(w, h)
    \/ Interval

EffectsSpec == EffectsInit /\ [][EffectsNext]_effectVars

(* The browser calls an interval that is set again and again, and runs each  *)
(* callback to its end.                                                      *)
EffectsFairSpec == EffectsSpec /\ WF_effectVars(Interval)

-----------------------------------------------------------------------------
(* The properties that the timers of an element move.                        *)
Moving(e) == {timers[i].prop : i \in {j \in 1..Len(timers) : timers[j].elem = e}}

(* No queue is stuck and no timer runs wild: the timers of an element are    *)
(* those of the first effect of its queue, one for each property that it is  *)
(* not done with, and the interval is set as long as there is a timer.       *)
(* fx.custom starts the interval, its callback clears it and takes timers    *)
(* out of the array that complete functions add to.                          *)
NothingStuck ==
    /\ \A e \in EffectElements :
          Moving(e) = IF queue[e] = <<>> THEN {}
                      ELSE PropSet(Head(queue[e]).kind) \ Head(queue[e]).moved
    /\ \A i, j \in 1..Len(timers) :
          timers[i].elem = timers[j].elem /\ timers[i].prop = timers[j].prop => i = j
    /\ \A e \in EffectElements : queue[e] # <<>> => Moving(e) # {}
    /\ timers # <<>> => ticking

(* What rests is as it should be: it has its own style again, a list of the  *)
(* top level is displayed only if the pointer is over it (for each effect    *)
(* that opened it one that closes it has been played, however the pointer    *)
(* moved), and a window shows its last line, though several scrolls to places *)
(* that the text has outgrown may have waited for each other.                *)
RestsAsMeant ==
    \A e \in EffectElements : queue[e] = <<>> =>
        /\ style[e] = "own"
        /\ e \in Menus /\ e \in display /\ ParentOf[e] = NoMenu => e \in over
        /\ e \in Panes => scroll[e] = height[e]

(* A list of the top level that the pointer does not come back to is closed  *)
(* in the end: no effect is left waiting, the last one played hides it.      *)
AwayCloses ==
    \A m \in Menus : ParentOf[m] = NoMenu =>
        (<>[](m \notin over) => <>[](queue[m] = <<>> /\ m \notin display))
=============================================================================
