-------------------------------- MODULE Popup --------------------------------
(* The calendars of a page: every date field has an instance, and all of     *)
(* them share one popup, which opens when a field gets the focus or its      *)
(* image is clicked, and is shown and hidden by animations.                  *)
(*                                                                           *)
(* A browser runs one handler at a time to its end, with the handlers of the *)
(* events it causes.  An animation ends some time after it has begun.        *)
EXTENDS Naturals, Sequences

CONSTANTS Fields,        \* the date fields
          NoField,
          MaxAnimations  \* bound of the model: animations in the queue

ASSUME PopupAssumption == NoField \notin Fields /\ MaxAnimations \in Nat \ {0}

VARIABLES curInst,      \* the field whose calendar was shown last (_curInst)
          lastInput,    \* the field that need not be shown again (_lastInput)
          showing,      \* _datepickerShowing, set when an animation has ended
          drawn,        \* the field whose calendar is in the popup
          display,      \* whether the popup is displayed
          animations,   \* the queue of effects of the popup, the first running
          focusOn       \* the field that has the focus, or NoField

popupVars == <<curInst, lastInput, showing, drawn, display, animations, focusOn>>

-----------------------------------------------------------------------------
(* The popup and its animations.                                           *)

Popup(d, s, q) == [display |-> d, showing |-> s, queue |-> q]

Now == Popup(display, showing, animations)

(* postProcess of the two: that of the hiding means to forget curInst, and   *)
(* its "this" is another object.                                            *)
PostProcess(p, kind) == IF kind = "show" THEN Popup(p.display, TRUE, p.queue) ELSE p

(* The first animation of the queue begins.  One that finds the popup as it  *)
(* would leave it is over at once, and the next one begins.                 *)
Passed(p) ==
    LET done(i) == p.display = (p.queue[i] = "show") IN
    CHOOSE n \in 0 .. Len(p.queue) :
        (\A i \in 1 .. n : done(i)) /\ (n < Len(p.queue) => ~done(n + 1))

Begin(p) ==
    LET n == Passed(p) IN
    Popup(p.display \/ n < Len(p.queue),
          p.showing \/ (n > 0 /\ p.display),
          SubSeq(p.queue, n + 1, Len(p.queue)))

(* jQuery.speed: the next animation begins before the callback of the one    *)
(* that is over.                                                            *)
Over(p) ==
    LET kind == Head(p.queue) IN
    PostProcess(Begin(Popup(kind = "show", p.showing, Tail(p.queue))), kind)

Animate(p, kind) ==
    IF p.queue = <<>> THEN Begin(Popup(p.display, p.showing, <<kind>>))
    ELSE Popup(p.display, p.showing, Append(p.queue, kind))

(* stop(true, true): the running animation jumps to its end, the rest is     *)
(* dropped.                                                                 *)
Stopped(p) == IF p.queue = <<>> THEN p
              ELSE Over(Popup(p.display, p.showing, <<Head(p.queue)>>))

PopupBecomes(p) ==
    /\ Len(p.queue) <= MaxAnimations
    /\ display' = p.display
    /\ showing' = p.showing
    /\ animations' = p.queue

-----------------------------------------------------------------------------
(* _showDatepicker and _hideDatepicker.                                    *)

(* Placed anew, which hides it, and shown.                                 *)
Shown(p) == Animate(Popup(FALSE, p.showing, p.queue), "show")

(* The popup is drawn, put in its place and shown; then its field gets the   *)
(* focus, whose handler finds it in lastInput.                              *)
Show(f) ==
    LET p == IF curInst \in Fields \ {f} THEN Stopped(Now) ELSE Now IN
    /\ lastInput' = f
    /\ drawn' = f
    /\ curInst' = f
    /\ focusOn' = f
    /\ PopupBecomes(Shown(p))

(* Mutant of ShowUnlessThere: a popup that is open is not shown again, for    *)
(* whatever field it is.                                                    *)
ShowUnlessOpen(f) ==
    IF lastInput = f \/ showing
    THEN focusOn' = f /\ UNCHANGED <<curInst, lastInput, showing, drawn, display, animations>>
    ELSE Show(f)

ShowUnlessThere(f) ==
    IF lastInput = f
    THEN focusOn' = f /\ UNCHANGED <<curInst, lastInput, showing, drawn, display, animations>>
    ELSE Show(f)

Hidden(p) == IF showing THEN Animate(Popup(p.display, FALSE, p.queue), "hide") ELSE p

(* What hiding leaves, with the focus on "f" after it.                     *)
Hide(f) ==
    /\ PopupBecomes(Hidden(Now))
    /\ lastInput' = IF showing THEN NoField ELSE lastInput
    /\ focusOn' = f
    /\ UNCHANGED <<curInst, drawn>>

-----------------------------------------------------------------------------
(* Events.                                                                 *)

PopupInit ==
    /\ curInst = NoField /\ lastInput = NoField /\ drawn = NoField /\ focusOn = NoField
    /\ showing = FALSE /\ display = FALSE
    /\ animations = <<>>

(* A field gets the focus, by the mouse: a click on a date field is not an   *)
(* external one.                                                            *)
FocusField(f) ==
    /\ focusOn # f
    /\ ShowUnlessThere(f)

(* The image of a field is clicked: the press takes the focus away and is    *)
(* not an external one, the click hides or shows.                           *)
ClickTrigger(f) ==
    IF showing /\ lastInput = f THEN Hide(NoField)
    ELSE IF lastInput = f
    THEN focusOn' = NoField /\ UNCHANGED <<curInst, lastInput, showing, drawn, display, animations>>
    ELSE Show(f)

(* _checkExternalClick: a press anywhere else.                             *)
ClickElsewhere == Hide(NoField)

(* Tab hides the popup, and the next field with a date, or another element,  *)
(* gets the focus.                                                          *)
TabOut(to) ==
    /\ focusOn \in Fields
    /\ to # focusOn
    /\ IF to = NoField THEN Hide(NoField)
       ELSE LET p == Hidden(Now)
                q == IF curInst # to THEN Stopped(p) ELSE p IN
            IF ~showing /\ lastInput = to
            THEN focusOn' = to /\ UNCHANGED <<curInst, lastInput, showing, drawn, display, animations>>
            ELSE /\ lastInput' = to /\ drawn' = to /\ curInst' = to /\ focusOn' = to
                 /\ PopupBecomes(Shown(q))

(* Escape, and Enter without a day to select.                              *)
Escape == focusOn \in Fields /\ showing /\ Hide(focusOn)

(* Control and Home show the calendar of the field again.                  *)
ShowByKey ==
    /\ focusOn \in Fields
    /\ ~showing
    /\ lastInput # focusOn
    /\ Show(focusOn)

(* A day is selected, by a click in the popup or by Enter in the field: the  *)
(* popup is hidden if it can be, and the field is forgotten either way.      *)
SelectDay ==
    /\ \/ display /\ drawn # NoField /\ focusOn' = NoField
       \/ showing /\ focusOn \in Fields /\ UNCHANGED focusOn
    /\ PopupBecomes(Hidden(Now))
    /\ lastInput' = NoField
    /\ UNCHANGED <<curInst, drawn>>

(* A key is released in a field whose text was changed to a date: its        *)
(* calendar is drawn in the popup, and the field has the focus already.      *)
KeyUpRedraws ==
    /\ focusOn \in Fields
    /\ drawn' = focusOn
    /\ UNCHANGED <<curInst, lastInput, showing, display, animations, focusOn>>

AnimationEnds ==
    /\ animations # <<>>
    /\ PopupBecomes(Over(Now))
    /\ UNCHANGED <<curInst, lastInput, drawn, focusOn>>

PopupNext ==
    \/ \E f \in Fields : FocusField(f) \/ ClickTrigger(f) \/ TabOut(f)
    \/ TabOut(NoField)
    \/ ClickElsewhere
    \/ Escape
    \/ ShowByKey
    \/ SelectDay
    \/ KeyUpRedraws
    \/ AnimationEnds

PopupSpec == PopupInit /\ [][PopupNext]_popupVars

-----------------------------------------------------------------------------
(* Properties.                                                             *)

(* When nothing moves, a popup on the screen is one that a click elsewhere,  *)
(* Tab or Escape will hide: they ask _datepickerShowing, which the callbacks *)
(* of the animations and the handlers set in no fixed order.  And the keys of *)
(* a field act on the calendar in the popup, which all fields share: while    *)
(* they do, it is the calendar of that field.                               *)
PopupServesField ==
    /\ animations = <<>> /\ display => showing
    /\ showing /\ focusOn \in Fields => drawn = focusOn
=============================================================================
