-------------------------------- MODULE Slider --------------------------------
(* The slider of jQuery UI with range: true, that is with two handles, moved by *)
(* the mouse and by keys.  A place of the mouse is the value it stands for.    *)
EXTENDS Integers

CONSTANTS SMin, SMax, SStep, \* the options min, max and step
          Grip               \* how far from its middle a handle can be taken

ASSUME SliderAssumption ==
    /\ SMin \in Int /\ SMax \in Int /\ SMin < SMax /\ SStep \in Nat \ {0} /\ Grip \in Nat
    /\ (SMax - SMin) % 5 = 0  \* numPages: a page is a whole number

VARIABLES handleValues,  \* options.values: the value of handle 0 and of handle 1
          keySliding,    \* _keySliding
          activeHandles, \* those with the class ui-state-active
          handleIndex,   \* _handleIndex while the mouse is down, or NoHandle
          clickOffset,   \* _clickOffset: where the handle is held
          handleFocus    \* the handle that has the focus, or NoHandle

sliderVars == <<handleValues, keySliding, activeHandles, handleIndex, clickOffset, handleFocus>>

Handles == {0, 1}
NoHandle == 2

-----------------------------------------------------------------------------

TrimValue(v) == IF v < SMin THEN SMin ELSE IF v > SMax THEN SMax ELSE v

(* _normValueFromMouse: the nearest step, a half rounded down.                *)
NormValue(place) ==
    LET mouse == TrimValue(place) - SMin
        mod == mouse % SStep
    IN  SMin + mouse - mod + (IF 2 * mod > SStep THEN SStep ELSE 0)

Distance(x, y) == IF x < y THEN y - x ELSE x - y

ClosestOnly(values, norm) ==
    IF Distance(norm, values[1]) < Distance(norm, values[0]) THEN 1 ELSE 0

(* _mouseCapture: the first of the closest handles, and the other one if both *)
(* are at the minimum.                                                        *)
Closest(values, norm) ==
    IF values[1] = SMin THEN 1
    ELSE IF Distance(norm, values[1]) < Distance(norm, values[0]) THEN 1 ELSE 0

(* _slide and _trimValue: a handle goes as far as the other one.              *)
Slid(values, i, v) ==
    LET other == values[1 - i]
        held == IF (i = 0 /\ v > other) \/ (i = 1 /\ v < other) THEN other ELSE v
    IN  [values EXCEPT ![i] = TrimValue(held)]

(* The callback slide of the page may forbid the move.                        *)
Slide(i, v) == handleValues' \in {handleValues, Slid(handleValues, i, v)}

SliderInit ==
    /\ handleValues = [i \in Handles |-> SMin]
    /\ keySliding = FALSE /\ activeHandles = {}
    /\ handleIndex = NoHandle /\ clickOffset = 0 /\ handleFocus = NoHandle

(* The mouse goes down on the track; a mouseup that was missed is made up for *)
(* by _mouseStop, which releases every handle.                                *)
PressTrack(place) ==
    LET i == Closest(handleValues, NormValue(place)) IN
    /\ handleIndex' = i /\ clickOffset' = 0 /\ handleFocus' = i
    /\ activeHandles' = (IF handleIndex = NoHandle THEN activeHandles ELSE {}) \cup {i}
    /\ Slide(i, NormValue(place))
    /\ UNCHANGED keySliding

(* It goes down on a handle, and the closest one is taken all the same.       *)
PressHandle(target, place) ==
    LET i == Closest(handleValues, NormValue(place)) IN
    /\ Distance(place, handleValues[target]) <= Grip
    /\ handleIndex' = i /\ clickOffset' = place - handleValues[i] /\ handleFocus' = i
    /\ activeHandles' = (IF handleIndex = NoHandle THEN activeHandles ELSE {}) \cup {i}
    /\ Slide(i, NormValue(handleValues[i]))
    /\ UNCHANGED keySliding

DragHandle(place) ==
    /\ handleIndex # NoHandle
    /\ Slide(handleIndex, NormValue(place - clickOffset))
    /\ UNCHANGED <<keySliding, activeHandles, handleIndex, clickOffset, handleFocus>>

ReleaseHandle ==
    /\ handleIndex # NoHandle
    /\ handleIndex' = NoHandle /\ clickOffset' = 0 /\ activeHandles' = {}
    /\ UNCHANGED <<handleValues, keySliding, handleFocus>>

(* Where a key takes a handle from v: an arrow ends at the ends.              *)
KeyTarget(key, v) ==
    LET page == (SMax - SMin) \div 5 IN
    CASE key = "Home" -> SMin
      [] key = "End" -> SMax
      [] key = "PageUp" -> v + page
      [] key = "PageDown" -> v - page
      [] key = "Up" -> IF v = SMax THEN v ELSE v + SStep
      [] key = "Down" -> IF v = SMin THEN v ELSE v - SStep

SliderKeyDown(key) ==
    /\ handleFocus # NoHandle
    /\ keySliding' = TRUE
    /\ activeHandles' = IF keySliding THEN activeHandles ELSE activeHandles \cup {handleFocus}
    /\ Slide(handleFocus, KeyTarget(key, handleValues[handleFocus]))
    /\ UNCHANGED <<handleIndex, clickOffset, handleFocus>>

SliderKeyUp ==
    /\ handleFocus # NoHandle /\ keySliding
    /\ keySliding' = FALSE /\ activeHandles' = activeHandles \ {handleFocus}
    /\ UNCHANGED <<handleValues, handleIndex, clickOffset, handleFocus>>

(* The focus moves by the Tab key or leaves the slider.                       *)
FocusHandle(i) ==
    /\ i # handleFocus /\ handleFocus' = i
    /\ UNCHANGED <<handleValues, keySliding, activeHandles, handleIndex, clickOffset>>

Places == SMin - Grip .. SMax + Grip
SliderKeys == {"Home", "End", "PageUp", "PageDown", "Up", "Down"}

SliderNext ==
    \/ \E place \in SMin .. SMax : PressTrack(place)
    \/ \E target \in Handles, place \in Places : PressHandle(target, place)
    \/ \E place \in Places : DragHandle(place)
    \/ ReleaseHandle
    \/ \E key \in SliderKeys : SliderKeyDown(key)
    \/ SliderKeyUp
    \/ \E i \in Handles \cup {NoHandle} : FocusHandle(i)

SliderSpec == SliderInit /\ [][SliderNext]_sliderVars

-----------------------------------------------------------------------------
(* Whatever mouse and keys do, the two values stay a range within min and max, *)
(* and a press on the track brings a handle to the step next to it.  Two      *)
(* handles at one value above the minimum are left out: the first is taken,   *)
(* and cannot be pulled up past the second.                                   *)
RangeIsUsable ==
    /\ SMin <= handleValues[0] /\ handleValues[0] <= handleValues[1] /\ handleValues[1] <= SMax
    /\ \A place \in SMin .. SMax :
           LET norm == NormValue(place)
               i == Closest(handleValues, norm)
           IN  (handleValues[0] < handleValues[1] \/ handleValues[1] = SMin
                                                  \/ norm <= handleValues[1])
                   => Slid(handleValues, i, norm)[i] = TrimValue(norm)

=============================================================================
