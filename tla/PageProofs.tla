----------------------------- MODULE PageProofs -----------------------------
(* Proofs about the parts of a page: the popup that its calendars share, the   *)
(* calendar of a date field, the tables, listeners and loops of the handlers   *)
(* of an element, the list whose rows are filtered, the functions that wait    *)
(* for the document, the engine that finds what a selector means, and the      *)
(* filters of one of its parts.                                              *)
EXTENDS Popup, Calendar, Events, Table, Ready, Sizzle, Filters, TLAPS, SequenceTheorems, FiniteSetTheorems, WellFoundedInduction

-----------------------------------------------------------------------------
(* The popup.                                                                *)

Kinds == {"show", "hide"}

(* Of what the animations make of the popup: with none left, one that is       *)
(* displayed is one that is known to be.                                      *)
PopupTyped(p) ==
    /\ p = Popup(p.display, p.showing, p.queue)
    /\ p.display \in BOOLEAN /\ p.showing \in BOOLEAN /\ p.queue \in Seq(Kinds)

Settled(p) == PopupTyped(p) /\ (p.queue = <<>> /\ p.display => p.showing)

PopupInv ==
    /\ Settled(Now)
    /\ lastInput \in Fields => drawn = lastInput
    /\ focusOn \in Fields => drawn = focusOn

LEMMA PartsOfPopup ==
    ASSUME NEW d, NEW s, NEW q
    PROVE  /\ Popup(d, s, q).display = d /\ Popup(d, s, q).showing = s /\ Popup(d, s, q).queue = q
BY DEF Popup

LEMMA PopupIs ==
    ASSUME NEW d \in BOOLEAN, NEW s \in BOOLEAN, NEW q \in Seq(Kinds)
    PROVE  /\ PopupTyped(Popup(d, s, q))
           /\ (q = <<>> /\ d => s) => Settled(Popup(d, s, q))
BY PartsOfPopup DEF Settled, PopupTyped

(* A set of numbers has a least one.                                          *)
LEMMA LeastExists ==
    ASSUME NEW S, S \subseteq Nat, S # {}
    PROVE  \E x \in S : \A y \in S : x <= y
<1>1. PICK x \in S : \A y \in S : <<y, x>> \notin OpToRel(<, Nat)
    BY NatLessThanWellFounded, WFMin, Zenon
<1>2. \A y \in S : ~(y < x)
    BY <1>1 DEF OpToRel
<1> QED
    BY <1>2

(* What holds of 0 and goes on from each number to the next holds up to n: else *)
(* there is a least number of which it does not.                              *)
LEMMA GoesOn ==
    ASSUME NEW n \in Nat, NEW S, 0 \in S, \A i \in 1 .. n : i - 1 \in S => i \in S
    PROVE  \A i \in 0 .. n : i \in S
<1> SUFFICES ASSUME {i \in 0 .. n : i \notin S} # {} PROVE FALSE
    OBVIOUS
<1> DEFINE Not == {i \in 0 .. n : i \notin S}
<1>1. PICK x \in Not : \A y \in Not : x <= y
    <2>1. Not \subseteq Nat /\ Not # {}
        OBVIOUS
    <2> HIDE DEF Not
    <2> QED
        BY <2>1, LeastExists
<1>2. x \in 1 .. n /\ x - 1 \in S
    BY <1>1
<1> QED
    BY <1>1, <1>2

(* A recursion over numbers defines a function: there is one whose values are   *)
(* each made of the one before.                                               *)
Stepwise(f, n, V, a, F) ==
    /\ f \in [0 .. n -> V] /\ f[0] = a
    /\ \A i \in 1 .. n : f[i] = F[<<i, f[i - 1]>>]

Steps(n, V, a, F) == CHOOSE f : Stepwise(f, n, V, a, F)

LEMMA StepsDefine ==
    ASSUME NEW n \in Nat, NEW V, NEW a \in V, NEW F \in [(1 .. n) \X V -> V]
    PROVE  Stepwise(Steps(n, V, a, F), n, V, a, F)
<1> DEFINE Holds(k, f) == f[0] = a /\ \A i \in 1 .. k : f[i] = F[<<i, f[i - 1]>>]
           S == {k \in 0 .. n : \E f \in [0 .. k -> V] : Holds(k, f)}
<1>1. 0 \in S
    <2>1. [x \in 0 .. 0 |-> a] \in [0 .. 0 -> V] /\ Holds(0, [x \in 0 .. 0 |-> a])
        OBVIOUS
    <2> HIDE DEF Holds
    <2> QED
        BY <2>1
<1>2. ASSUME NEW k \in 1 .. n, k - 1 \in S PROVE k \in S
    <2>1. PICK f \in [0 .. k - 1 -> V] : Holds(k - 1, f)
        BY <1>2
    <2> DEFINE g == [x \in 0 .. k |-> IF x = k THEN F[<<k, f[k - 1]>>] ELSE f[x]]
    <2>2. f[k - 1] \in V
        OBVIOUS
    <2>3. F[<<k, f[k - 1]>>] \in V
        BY <2>2
    <2>4. g \in [0 .. k -> V]
        BY <2>3
    <2>5. g[k] = F[<<k, f[k - 1]>>] /\ \A x \in 0 .. k - 1 : g[x] = f[x]
        OBVIOUS
    <2> HIDE DEF g
    <2>6. ASSUME NEW i \in 1 .. k PROVE g[i] = F[<<i, g[i - 1]>>]
        <3>1. g[i - 1] = f[i - 1]
            BY <2>5
        <3>2. CASE i = k
            BY <2>5, <3>1, <3>2
        <3>3. CASE i \in 1 .. k - 1
            BY <2>1, <2>5, <3>1, <3>3
        <3> QED
            BY <3>2, <3>3
    <2>7. Holds(k, g)
        BY <2>1, <2>5, <2>6
    <2> QED
        BY <2>4, <2>7
<1>3. n \in S
    <2> HIDE DEF S
    <2> QED
        BY <1>1, <1>2, GoesOn
<1>4. PICK f : Stepwise(f, n, V, a, F)
    BY <1>3 DEF Stepwise
<1> QED
    BY <1>4, Zenon DEF Steps

(* The animations at the front that are over at once.                          *)
LEMMA PassedIs ==
    ASSUME NEW p, p.queue \in Seq(Kinds), p.display \in BOOLEAN
    PROVE  /\ Passed(p) \in 0 .. Len(p.queue)
           /\ \A i \in 1 .. Passed(p) : p.display <=> p.queue[i] = "show"
           /\ Passed(p) < Len(p.queue) => ~(p.display <=> p.queue[Passed(p) + 1] = "show")
<1> DEFINE done(i) == p.display = (p.queue[i] = "show")
           k == Len(p.queue)
           Open == {i \in 1 .. k : ~done(i)} \cup {k + 1}
<1>1. k \in Nat
    OBVIOUS
<1> HIDE DEF done
<1>2. PICK m \in Open : \A y \in Open : m <= y
    <2>1. Open \subseteq Nat /\ Open # {}
        BY <1>1
    <2> HIDE DEF Open
    <2> QED
        BY <2>1, LeastExists
<1> DEFINE Holds(n) == (\A i \in 1 .. n : done(i)) /\ (n < k => ~done(n + 1))
<1>3. m - 1 \in 0 .. k /\ Holds(m - 1)
    BY <1>1, <1>2
<1>4. Passed(p) = CHOOSE n \in 0 .. k : Holds(n)
    BY Zenon DEF Passed, done
<1> HIDE DEF Holds, k
<1>5. Passed(p) \in 0 .. k /\ Holds(Passed(p))
    BY <1>3, <1>4
<1>6. \A i : done(i) <=> (p.display <=> p.queue[i] = "show")
    BY Zenon DEF done
<1> QED
    BY <1>5, <1>6 DEF Holds, k

LEMMA BeginSettles ==
    ASSUME NEW d \in BOOLEAN, NEW s \in BOOLEAN, NEW q \in Seq(Kinds)
    PROVE  /\ PopupTyped(Begin(Popup(d, s, q)))
           /\ (q = <<>> /\ d => s) => Settled(Begin(Popup(d, s, q)))
<1> DEFINE p == Popup(d, s, q)
           n == Passed(p)
           rest == SubSeq(q, n + 1, Len(q))
<1>1. p.display = d /\ p.showing = s /\ p.queue = q
    BY PartsOfPopup
<1> HIDE DEF p
<1>2. n \in 0 .. Len(q)
    BY <1>1, PassedIs
<1> HIDE DEF n
<1>3. rest \in Seq(Kinds) /\ (rest = <<>> <=> n = Len(q))
    <2>1. Len(q) \in Nat /\ \A i \in 1 .. Len(q) : q[i] \in Kinds
        OBVIOUS
    <2>2. \A i \in n + 1 .. Len(q) : q[i] \in Kinds
        BY <1>2, <2>1
    <2>3. /\ rest \in Seq(Kinds)
          /\ Len(rest) = IF n + 1 <= Len(q) THEN Len(q) - (n + 1) + 1 ELSE 0
        BY <1>2, <2>1, <2>2, SubSeqProperties
    <2> HIDE DEF rest
    <2>4. Len(rest) = Len(q) - n
        BY <1>2, <2>1, <2>3
    <2>5. rest = <<>> <=> Len(rest) = 0
        BY <2>3, EmptySeq
    <2> QED
        BY <1>2, <2>1, <2>3, <2>4, <2>5
<1> DEFINE dd == d \/ n < Len(q)
           ss == s \/ (n > 0 /\ d)
<1>4. Begin(p) = Popup(dd, ss, rest)
    BY <1>1, Zenon DEF Begin, n
<1>5. dd \in BOOLEAN /\ ss \in BOOLEAN
    OBVIOUS
<1>6. ASSUME q = <<>> /\ d => s, rest = <<>>, dd PROVE ss
    <2>1. n = Len(q) /\ d
        BY <1>2, <1>3, <1>6
    <2>2. CASE q = <<>>
        BY <1>6, <2>1, <2>2
    <2>3. CASE q # <<>>
        <3>1. Len(q) \in Nat /\ Len(q) > 0
            BY <2>3
        <3> QED
            BY <2>1, <3>1
    <2> QED
        BY <2>2, <2>3
<1> HIDE DEF dd, ss, rest
<1>7. /\ PopupTyped(Popup(dd, ss, rest))
      /\ (q = <<>> /\ d => s) => Settled(Popup(dd, ss, rest))
    BY <1>3, <1>5, <1>6, PartsOfPopup DEF Settled, PopupTyped
<1> QED
    BY <1>4, <1>7 DEF p

(* The animation that runs is over.                                           *)
LEMMA OverSettles ==
    ASSUME NEW p, PopupTyped(p), p.queue # <<>>
    PROVE  Settled(Over(p))
<1> DEFINE kind == Head(p.queue)
           b == Begin(Popup(kind = "show", p.showing, Tail(p.queue)))
<1>1. kind \in Kinds /\ Tail(p.queue) \in Seq(Kinds)
    BY DEF PopupTyped
<1>2. /\ (kind = "show") \in BOOLEAN /\ p.showing \in BOOLEAN
    BY DEF PopupTyped
<1>3. Over(p) = PostProcess(b, kind)
    BY DEF Over
<1>4. CASE kind = "show"
    <2> DEFINE c == Begin(Popup(TRUE, p.showing, Tail(p.queue)))
    <2>1. PopupTyped(c)
        BY <1>1, <1>2, BeginSettles
    <2>2. b = c
        <3>1. (kind = "show") = TRUE
            BY <1>4, Zenon
        <3> QED
            BY <3>1, Zenon
    <2> HIDE DEF b, c
    <2>3. Over(p) = Popup(c.display, TRUE, c.queue)
        BY <1>3, <1>4, <2>2 DEF PostProcess
    <2>4. Settled(Popup(c.display, TRUE, c.queue))
        BY <2>1, PopupIs DEF PopupTyped
    <2> QED
        BY <2>3, <2>4
<1>5. CASE kind # "show"
    <2> DEFINE c == Begin(Popup(FALSE, p.showing, Tail(p.queue)))
    <2>1. Settled(c)
        BY <1>1, <1>2, BeginSettles
    <2>2. b = c
        <3>1. (kind = "show") = FALSE
            BY <1>5, Zenon
        <3> QED
            BY <3>1, Zenon
    <2> HIDE DEF b, c
    <2>3. Over(p) = c
        BY <1>3, <1>5, <2>2 DEF PostProcess
    <2> QED
        BY <2>1, <2>3
<1> QED
    BY <1>4, <1>5

(* An animation joins the queue.                                              *)
LEMMA AnimateSettles ==
    ASSUME NEW d \in BOOLEAN, NEW s \in BOOLEAN, NEW q \in Seq(Kinds), NEW kind \in Kinds
    PROVE  Settled(Animate(Popup(d, s, q), kind))
<1> DEFINE p == Popup(d, s, q)
<1>1. p.display = d /\ p.showing = s /\ p.queue = q
    BY PartsOfPopup
<1> HIDE DEF p
<1>2. CASE q = <<>>
    <2>1. Animate(p, kind) = Begin(Popup(d, s, <<kind>>))
        BY <1>1, <1>2 DEF Animate
    <2>2. <<kind>> \in Seq(Kinds) /\ <<kind>> # <<>>
        OBVIOUS
    <2> QED
        BY <2>1, <2>2, BeginSettles DEF p
<1>3. CASE q # <<>>
    <2>1. Animate(p, kind) = Popup(d, s, Append(q, kind))
        BY <1>1, <1>3 DEF Animate
    <2>2. Append(q, kind) \in Seq(Kinds) /\ Append(q, kind) # <<>>
        OBVIOUS
    <2> QED
        BY <2>1, <2>2, PopupIs DEF p
<1> QED
    BY <1>2, <1>3

LEMMA StoppedSettles ==
    ASSUME NEW p, Settled(p)
    PROVE  Settled(Stopped(p))
<1>1. CASE p.queue = <<>>
    BY <1>1 DEF Stopped
<1>2. CASE p.queue # <<>>
    <2> DEFINE s == <<Head(p.queue)>>
               c == Popup(p.display, p.showing, s)
    <2>1. s \in Seq(Kinds) /\ s # <<>>
        BY <1>2 DEF Settled, PopupTyped
    <2>2. c.queue # <<>>
        BY <2>1, PartsOfPopup
    <2>3. p.display \in BOOLEAN /\ p.showing \in BOOLEAN
        BY DEF Settled, PopupTyped
    <2> HIDE DEF s
    <2>4. PopupTyped(c)
        BY <2>1, <2>3, PopupIs
    <2>5. Settled(Over(c))
        BY <2>2, <2>4, OverSettles
    <2> QED
        BY <1>2, <2>5 DEF Stopped, s
<1> QED
    BY <1>1, <1>2

LEMMA ShownSettles ==
    ASSUME NEW p, Settled(p)
    PROVE  Settled(Shown(p))
BY AnimateSettles DEF Settled, PopupTyped, Shown, Kinds

LEMMA HiddenSettles ==
    ASSUME NEW p, Settled(p)
    PROVE  Settled(Hidden(p))
BY AnimateSettles DEF Settled, PopupTyped, Hidden, Kinds

LEMMA BecomesSettled ==
    ASSUME NEW p, Settled(p), PopupBecomes(p)
    PROVE  Settled(Now)'
BY PartsOfPopup DEF PopupBecomes, Settled, PopupTyped, Now

-----------------------------------------------------------------------------

LEMMA ShowKeeps == ASSUME PopupInv, NEW f \in Fields, Show(f) PROVE PopupInv'
<1> DEFINE p == IF curInst \in Fields \ {f} THEN Stopped(Now) ELSE Now
<1>1. Settled(p)
    BY StoppedSettles DEF PopupInv
<1>2. PopupBecomes(Shown(p)) /\ lastInput' = f /\ drawn' = f /\ focusOn' = f
    BY DEF Show
<1> HIDE DEF p
<1> QED
    BY <1>1, <1>2, ShownSettles, BecomesSettled DEF PopupInv

LEMMA HideKeeps ==
    ASSUME PopupInv, NEW f \in {NoField, focusOn}, Hide(f)
    PROVE  PopupInv'
<1>1. Settled(Now)'
    BY HiddenSettles, BecomesSettled DEF Hide, PopupInv
<1>2. NoField \notin Fields
    BY PopupAssumption
<1> QED
    BY <1>1, <1>2 DEF Hide, PopupInv

(* The field that need not be shown again gets the focus, or no field does.    *)
LEMMA FocusKeeps ==
    ASSUME PopupInv, focusOn' \in Fields => focusOn' = lastInput,
           UNCHANGED <<curInst, lastInput, showing, drawn, display, animations>>
    PROVE  PopupInv'
BY DEF PopupInv, Now

LEMMA PopupStep == PopupInv /\ [PopupNext]_popupVars => PopupInv'
<1> SUFFICES ASSUME PopupInv, [PopupNext]_popupVars PROVE PopupInv'
    OBVIOUS
<1> USE PopupAssumption
<1>1. ASSUME NEW f \in Fields, FocusField(f) PROVE PopupInv'
    BY <1>1, ShowKeeps, FocusKeeps DEF FocusField, ShowUnlessThere
<1>2. ASSUME NEW f \in Fields, ClickTrigger(f) PROVE PopupInv'
    BY <1>2, ShowKeeps, HideKeeps, FocusKeeps DEF ClickTrigger
<1>3. ASSUME NEW f \in Fields, TabOut(f) PROVE PopupInv'
    <2> DEFINE p == Hidden(Now)
               q == IF curInst # f THEN Stopped(p) ELSE p
    <2>1. Settled(q)
        BY HiddenSettles, StoppedSettles DEF PopupInv
    <2>2. CASE ~showing /\ lastInput = f
        BY <1>3, <2>2, FocusKeeps DEF TabOut
    <2>3. CASE ~(~showing /\ lastInput = f)
        <3>1. PopupBecomes(Shown(q)) /\ lastInput' = f /\ drawn' = f /\ focusOn' = f
            BY <1>3, <2>3 DEF TabOut
        <3> HIDE DEF q
        <3> QED
            BY <2>1, <3>1, ShownSettles, BecomesSettled DEF PopupInv
    <2> QED
        BY <2>2, <2>3
<1>4. CASE TabOut(NoField)
    BY <1>4, HideKeeps DEF TabOut
<1>5. CASE ClickElsewhere
    BY <1>5, HideKeeps DEF ClickElsewhere
<1>6. CASE Escape
    BY <1>6, HideKeeps DEF Escape
<1>7. CASE ShowByKey
    BY <1>7, ShowKeeps DEF ShowByKey
<1>8. CASE SelectDay
    <2>1. Settled(Now)'
        BY <1>8, HiddenSettles, BecomesSettled DEF SelectDay, PopupInv
    <2> QED
        BY <1>8, <2>1 DEF SelectDay, PopupInv
<1>9. CASE KeyUpRedraws
    BY <1>9 DEF KeyUpRedraws, PopupInv, Now
<1>10. CASE AnimationEnds
    <2>1. Settled(Over(Now))
        BY <1>10, OverSettles, PartsOfPopup DEF AnimationEnds, PopupInv, Settled, Now
    <2>2. Settled(Now)'
        BY <1>10, <2>1, BecomesSettled DEF AnimationEnds
    <2> QED
        BY <1>10, <2>2 DEF AnimationEnds, PopupInv
<1>11. CASE UNCHANGED popupVars
    BY <1>11 DEF popupVars, PopupInv, Now
<1> QED
    BY <1>1, <1>2, <1>3, <1>4, <1>5, <1>6, <1>7, <1>8, <1>9, <1>10, <1>11 DEF PopupNext

(* With no animation left, a popup on the screen is one that a click elsewhere *)
(* will hide; and while the keys of a field act on it, it is the calendar of   *)
(* that field (_showDatepicker, _hideDatepicker and their animations).        *)
THEOREM PopupServes == PopupSpec => []PopupServesField
<1>1. PopupInit => PopupInv
    <2>1. <<>> \in Seq(Kinds) /\ FALSE \in BOOLEAN
        OBVIOUS
    <2> QED
        BY <2>1, PopupAssumption, PopupIs DEF PopupInit, PopupInv, Now
<1>2. PopupInv => PopupServesField
    BY PartsOfPopup DEF PopupInv, PopupServesField, Settled, Now
<1> QED
    BY <1>1, <1>2, PopupStep, PTL DEF PopupSpec

-----------------------------------------------------------------------------
(* The calendar.                                                              *)

(* While the calendar is shown, its instance holds the date that was read last *)
(* and the one that the field shows, unless the field was changed since, and   *)
(* the current date is marked if the month that is drawn has it.              *)
ReadInv ==
    calendarShown =>
        /\ lastVal \in Dates => current = lastVal
        /\ ~unheard /\ inputText \in Dates => current = inputText

MarkInv ==
    calendarShown =>
        active = IF current # NoDay /\ current.month = selected.month THEN current ELSE NoDay

LEMMA DrawMarks ==
    ASSUME NEW pressed, Draw(pressed)
    PROVE  MarkInv'
BY DEF Draw, MarkInv

LEMMA FieldIsRead ==
    ASSUME SetDateFromField, inputText' = inputText
    PROVE  ReadInv'
BY CalendarAssumption DEF SetDateFromField, ReadInv

(* While the calendar is shown, the date of the field that was read last is    *)
(* the current one, and it is marked in its month (setDateFromField,           *)
(* updateDatepicker, adjustDate and gotoToday of the datepicker).              *)
THEOREM FieldDateIsCurrent == CalendarSpec => []FieldIsCurrent
<1>1. CalendarInit => ReadInv /\ MarkInv
    BY DEF CalendarInit, ReadInv, MarkInv
<1>2. ReadInv /\ MarkInv /\ [CalendarNext]_calendarVars => ReadInv' /\ MarkInv'
    <2> SUFFICES ASSUME ReadInv, MarkInv, [CalendarNext]_calendarVars PROVE ReadInv' /\ MarkInv'
        OBVIOUS
    <2>1. ASSUME NEW pressed \in BOOLEAN, ShowCalendar(pressed) PROVE ReadInv' /\ MarkInv'
        BY <2>1, DrawMarks, FieldIsRead DEF ShowCalendar
    <2>2. CASE Close \/ ClearDate
        BY <2>2 DEF Close, ClearDate, HideCalendar, ReadInv, MarkInv
    <2>3. ASSUME NEW t, EditText(t) PROVE ReadInv' /\ MarkInv'
        BY <2>3 DEF EditText, ReadInv, MarkInv
    <2>4. CASE FieldKeyUp
        <3>1. CASE inputText # lastVal /\ inputText \in Dates
            BY <2>4, <3>1, DrawMarks, FieldIsRead DEF FieldKeyUp
        <3>2. CASE ~(inputText # lastVal /\ inputText \in Dates)
            BY <2>4, <3>2 DEF FieldKeyUp, ReadInv, MarkInv
        <3> QED
            BY <3>1, <3>2
    <2>5. ASSUME NEW months, NEW days, NEW pressed, AdjustDate(months, days, pressed)
          PROVE  ReadInv' /\ MarkInv'
        <3>1. MarkInv'
            BY <2>5, DrawMarks DEF AdjustDate
        <3> QED
            BY <2>5, <3>1 DEF AdjustDate, ReadInv
    <2>6. CASE GotoToday
        <3>1. MarkInv'
            BY <2>6, DrawMarks DEF GotoToday
        <3> QED
            BY <2>6, <3>1 DEF GotoToday, ReadInv
    <2>7. CASE Click \/ EnterKey
        <3>1. ~calendarShown'
            BY <2>7 DEF Click, EnterKey, ClickDay, HideCalendar
        <3> QED
            BY <3>1 DEF ReadInv, MarkInv
    <2>8. CASE UNCHANGED calendarVars
        BY <2>8 DEF calendarVars, ReadInv, MarkInv
    <2> QED
        BY <2>1, <2>2, <2>3, <2>4, <2>5, <2>6, <2>7, <2>8 DEF CalendarNext, Page, WalkDays
<1>3. ReadInv /\ MarkInv => FieldIsCurrent
    BY CalendarAssumption DEF ReadInv, MarkInv, FieldIsCurrent
<1> QED
    BY <1>1, <1>2, <1>3, PTL DEF CalendarSpec

-----------------------------------------------------------------------------
(* The handlers of an element.                                                *)

Functions == Handlers \cup {WithinElement}

FrameSet == [type : Types, of : Types, todo : SUBSET Functions,
             running : Handlers \cup {Nothing}]

(* The handlers in the table of a type.                                       *)
Table(ev, t) == IF t \in DOMAIN ev THEN DOMAIN ev[t] ELSE {}

(* A loop has to do only what the table of its type still has, and those over  *)
(* "enter" have an event of that type.                                        *)
Loops(ev, fr) ==
    /\ fr \in Seq(FrameSet)
    /\ \A i \in 1..Len(fr) :
          /\ fr[i].todo \subseteq Table(ev, fr[i].of)
          /\ fr[i].of = "enter" => fr[i].type = "enter"

Tables(ev, li) ==
    /\ DOMAIN ev \subseteq Types
    /\ \A t \in Types : Table(ev, t) \subseteq Functions
    /\ "over" \in DOMAIN ev <=> "over" \in li

(* The special type is heard by the handler of jQuery, unless it is deaf.      *)
Special(ev, d) == WithinElement \in Table(ev, "over") <=> "enter" \in DOMAIN ev /\ d = FALSE

EventsInv ==
    /\ Tables(events, listening) /\ Loops(events, frames) /\ Special(events, deaf)
    /\ deaf \in BOOLEAN /\ (deaf => "enter" \in DOMAIN events)
    /\ \A h \in Handlers : <<"enter", h>> \in spent => h \notin Table(events, "enter")

-----------------------------------------------------------------------------
(* The loops when handlers are taken out of a table.                          *)

TodoLeft(f, t, hs) == IF f.of = t THEN f.todo \ hs ELSE f.todo

Spared(f, hs) == [f EXCEPT !.todo = @ \ hs]

LEMMA SparedIs ==
    ASSUME NEW f \in FrameSet, NEW hs
    PROVE  /\ Spared(f, hs) \in FrameSet /\ Spared(f, hs).todo = f.todo \ hs
           /\ Spared(f, hs).of = f.of /\ Spared(f, hs).type = f.type
BY DEF FrameSet, Spared

LEMMA DroppedIs ==
    ASSUME NEW fr \in Seq(FrameSet), NEW t, NEW hs
    PROVE  /\ Dropped(fr, t, hs) \in Seq(FrameSet) /\ Len(Dropped(fr, t, hs)) = Len(fr)
           /\ \A i \in 1..Len(fr) :
                 /\ Dropped(fr, t, hs)[i].of = fr[i].of
                 /\ Dropped(fr, t, hs)[i].type = fr[i].type
                 /\ Dropped(fr, t, hs)[i].todo = TodoLeft(fr[i], t, hs)
<1> DEFINE g(i) == IF fr[i].of = t THEN Spared(fr[i], hs) ELSE fr[i]
<1>1. DOMAIN fr = 1..Len(fr) /\ Len(fr) \in Nat /\ \A i \in 1..Len(fr) : fr[i] \in FrameSet
    OBVIOUS
<1>2. ASSUME NEW i \in 1..Len(fr)
      PROVE  /\ g(i) \in FrameSet /\ g(i).of = fr[i].of /\ g(i).type = fr[i].type
             /\ g(i).todo = TodoLeft(fr[i], t, hs)
    <2>1. fr[i] \in FrameSet
        BY <1>1
    <2>2. CASE fr[i].of = t
        BY <2>1, <2>2, SparedIs DEF TodoLeft
    <2>3. CASE fr[i].of # t
        BY <2>1, <2>3 DEF TodoLeft
    <2> QED
        BY <2>2, <2>3
<1>3. Dropped(fr, t, hs) = [i \in 1..Len(fr) |-> g(i)]
    <2>1. Dropped(fr, t, hs) = [i \in DOMAIN fr |-> g(i)]
        BY Zenon DEF Dropped, Spared
    <2> QED
        BY <1>1, <2>1, Zenon
<1> HIDE DEF g
<1>4. Dropped(fr, t, hs) \in Seq(FrameSet) /\ Len(Dropped(fr, t, hs)) = Len(fr)
    <2> DEFINE n == Len(fr)
    <2>1. n \in Nat /\ (\A i \in 1..n : g(i) \in FrameSet)
          /\ Dropped(fr, t, hs) = [i \in 1..n |-> g(i)]
        BY <1>1, <1>2, <1>3
    <2> HIDE DEF n
    <2>2. Dropped(fr, t, hs) \in Seq(FrameSet) /\ Len(Dropped(fr, t, hs)) = n
        BY <2>1
    <2> QED
        BY <2>2 DEF n
<1>5. \A i \in 1..Len(fr) : Dropped(fr, t, hs)[i] = g(i)
    BY <1>3
<1> QED
    BY <1>2, <1>4, <1>5

(* Taking handlers out of the table of a type takes them out of the loops.     *)
LEMMA DeleteIs ==
    ASSUME NEW ev, NEW li, NEW fr, NEW t \in DOMAIN ev, NEW hs
    PROVE  \E ev2 :
             /\ Delete(ElementOf(ev, li, fr), t, hs) = ElementOf(ev2, li, Dropped(fr, t, hs))
             /\ DOMAIN ev2 = DOMAIN ev
             /\ Table(ev2, t) = Table(ev, t) \ hs
             /\ \A u : u # t => Table(ev2, u) = Table(ev, u)
<1> DEFINE ev2 == Put(ev, t, Without(ev[t], hs))
<1>1. Delete(ElementOf(ev, li, fr), t, hs) = ElementOf(ev2, li, Dropped(fr, t, hs))
    BY DEF Delete, ElementOf
<1>2. DOMAIN ev2 = DOMAIN ev
    BY DEF Put
<1>3. Table(ev2, t) = Table(ev, t) \ hs
    BY DEF Table, Without, Put
<1>4. \A u : u # t => Table(ev2, u) = Table(ev, u)
    BY DEF Table, Put
<1> QED
    BY <1>1, <1>2, <1>3, <1>4

(* A table without handlers goes.                                             *)
LEMMA NoTableIs ==
    ASSUME NEW ev, NEW li, NEW fr, NEW t
    PROVE  \E ev2 :
             /\ NoTable(ElementOf(ev, li, fr), t) = ElementOf(ev2, li, fr)
             /\ \A u : u \in DOMAIN ev2 <=> u \in DOMAIN ev /\ u # t
             /\ Table(ev2, t) = {}
             /\ \A u : u # t => Table(ev2, u) = Table(ev, u)
<1> DEFINE ev2 == [u \in DOMAIN ev \ {t} |-> ev[u]]
<1>1. NoTable(ElementOf(ev, li, fr), t) = ElementOf(ev2, li, fr)
    BY DEF NoTable, ElementOf, Without
<1>2. \A u : u \in DOMAIN ev2 <=> u \in DOMAIN ev /\ u # t
    OBVIOUS
<1>3. Table(ev2, t) = {} /\ \A u : u # t => Table(ev2, u) = Table(ev, u)
    BY DEF Table
<1> QED
    BY <1>1, <1>2, <1>3

LEMMA ElementParts ==
    ASSUME NEW ev, NEW li, NEW fr
    PROVE  /\ ElementOf(ev, li, fr).events = ev /\ ElementOf(ev, li, fr).listening = li
           /\ ElementOf(ev, li, fr).frames = fr
BY DEF ElementOf

(* A state of the element between two steps, but for what hears the special    *)
(* type.                                                                     *)
Sound(ev, li, fr) == Tables(ev, li) /\ Loops(ev, fr)

LEMMA LoopsDropped ==
    ASSUME NEW ev, NEW ev2, NEW fr, Loops(ev, fr), NEW t, NEW hs,
           Table(ev2, t) = Table(ev, t) \ hs,
           \A u : u # t => Table(ev2, u) = Table(ev, u)
    PROVE  Loops(ev2, Dropped(fr, t, hs))
<1>1. fr \in Seq(FrameSet)
    BY DEF Loops
<1>2. /\ Dropped(fr, t, hs) \in Seq(FrameSet) /\ Len(Dropped(fr, t, hs)) = Len(fr)
      /\ \A i \in 1..Len(fr) :
            /\ Dropped(fr, t, hs)[i].of = fr[i].of
            /\ Dropped(fr, t, hs)[i].type = fr[i].type
            /\ Dropped(fr, t, hs)[i].todo = TodoLeft(fr[i], t, hs)
    <2>1. Dropped(fr, t, hs) \in Seq(FrameSet) /\ Len(Dropped(fr, t, hs)) = Len(fr)
        BY <1>1, DroppedIs
    <2>2. ASSUME NEW i \in 1..Len(fr)
          PROVE  /\ Dropped(fr, t, hs)[i].of = fr[i].of
                 /\ Dropped(fr, t, hs)[i].type = fr[i].type
                 /\ Dropped(fr, t, hs)[i].todo = TodoLeft(fr[i], t, hs)
        BY <1>1, DroppedIs
    <2> QED
        BY <2>1, <2>2
<1>3. ASSUME NEW i \in 1..Len(fr)
      PROVE  Dropped(fr, t, hs)[i].todo \subseteq Table(ev2, fr[i].of)
    <2>1. fr[i].todo \subseteq Table(ev, fr[i].of)
        BY DEF Loops
    <2>2. CASE fr[i].of = t
        BY <1>2, <2>1, <2>2 DEF TodoLeft
    <2>3. CASE fr[i].of # t
        BY <1>2, <2>1, <2>3 DEF TodoLeft
    <2> QED
        BY <2>2, <2>3
<1> QED
    BY <1>2, <1>3 DEF Loops

(* What remove does to the type of the browser: its functions leave the table,  *)
(* and the table goes with the listener when it is empty, unless "ret" is set. *)
OverOut(ev, hs, ret, x) ==
    \E ev2, li2, fr2 :
       /\ x.element = ElementOf(ev2, li2, fr2) /\ x.ret \in BOOLEAN
       /\ Sound(ev2, li2, fr2)
       /\ Table(ev2, "over") = Table(ev, "over") \ hs
       /\ Table(ev2, "enter") = Table(ev, "enter")
       /\ "enter" \in DOMAIN ev2 <=> "enter" \in DOMAIN ev
       /\ ~ret /\ Table(ev2, "over") = {} => "over" \notin DOMAIN ev2

LEMMA OverIsRemoved ==
    ASSUME NEW ev, NEW li, NEW fr, Sound(ev, li, fr), NEW hs, NEW ret \in BOOLEAN
    PROVE  OverOut(ev, hs, ret, RemoveOver(ElementOf(ev, li, fr), hs, ret))
<1> USE DEF OverOut
<1> DEFINE e == ElementOf(ev, li, fr)
           x == RemoveOver(e, hs, ret)
<1>1. e.events = ev /\ e.listening = li /\ e.frames = fr
    BY ElementParts
<1> HIDE DEF e
<1>2. CASE "over" \notin DOMAIN ev
    <2>1. x = [element |-> e, ret |-> ret]
        BY <1>1, <1>2 DEF RemoveOver
    <2>2. x.element = ElementOf(ev, li, fr) /\ x.ret \in BOOLEAN
        BY <2>1 DEF e
    <2>3. Table(ev, "over") = {}
        BY <1>2 DEF Table
    <2> QED
        BY <1>2, <2>2, <2>3 DEF e
<1>3. CASE "over" \in DOMAIN ev
    <2> DEFINE d == Delete(e, "over", hs)
               fr2 == Dropped(fr, "over", hs)
    <2>1. PICK ev2 :
             /\ d = ElementOf(ev2, li, fr2)
             /\ DOMAIN ev2 = DOMAIN ev
             /\ Table(ev2, "over") = Table(ev, "over") \ hs
             /\ \A u : u # "over" => Table(ev2, u) = Table(ev, u)
        BY <1>3, DeleteIs DEF Sound, Tables, e
    <2>2. d.events = ev2 /\ d.listening = li /\ d.frames = fr2
        BY <2>1, ElementParts
    <2>3. DOMAIN d.events["over"] = Table(ev2, "over")
        BY <1>3, <2>1, <2>2 DEF Table
    <2>4. Loops(ev2, fr2)
        BY <2>1, LoopsDropped DEF Sound
    <2>5. Tables(ev2, li)
        BY <2>1 DEF Sound, Tables, Types
    <2>6. Table(ev2, "enter") = Table(ev, "enter") /\ ("enter" \in DOMAIN ev2 <=> "enter" \in DOMAIN ev)
        BY <2>1
    <2> HIDE DEF d, fr2
    <2>7. x = IF DOMAIN d.events["over"] # {} THEN [element |-> d, ret |-> TRUE]
              ELSE IF ret THEN [element |-> d, ret |-> TRUE]
              ELSE [element |-> ElementOf(NoTable(d, "over").events, d.listening \ {"over"}, d.frames),
                    ret |-> FALSE]
        BY <1>1, <1>3, Zenon DEF RemoveOver, d
    <2>8. CASE DOMAIN d.events["over"] # {} \/ ret
        <3>1. x = [element |-> d, ret |-> TRUE]
            BY <2>7, <2>8, Zenon
        <3>2. x.element = ElementOf(ev2, li, fr2) /\ x.ret \in BOOLEAN
            BY <2>1, <3>1
        <3>3. ~(~ret /\ Table(ev2, "over") = {})
            BY <2>3, <2>8
        <3> QED
            BY <2>1, <2>4, <2>5, <2>6, <3>2, <3>3 DEF Sound, e
    <2>9. CASE ~(DOMAIN d.events["over"] # {} \/ ret)
        <3>1. x = [element |-> ElementOf(NoTable(d, "over").events, d.listening \ {"over"}, d.frames),
                   ret |-> FALSE]
            BY <2>7, <2>9, Zenon
        <3>2. PICK ev3 :
                 /\ NoTable(d, "over") = ElementOf(ev3, li, fr2)
                 /\ \A u : u \in DOMAIN ev3 <=> u \in DOMAIN ev2 /\ u # "over"
                 /\ Table(ev3, "over") = {}
                 /\ \A u : u # "over" => Table(ev3, u) = Table(ev2, u)
            <4> DEFINE b == ElementOf(ev2, li, fr2)
            <4>1. \E ev3 :
                     /\ NoTable(b, "over") = ElementOf(ev3, li, fr2)
                     /\ \A u : u \in DOMAIN ev3 <=> u \in DOMAIN ev2 /\ u # "over"
                     /\ Table(ev3, "over") = {}
                     /\ \A u : u # "over" => Table(ev3, u) = Table(ev2, u)
                BY NoTableIs
            <4>2. b = d
                BY <2>1
            <4> HIDE DEF b
            <4> QED
                BY <4>1, <4>2
        <3>3. NoTable(d, "over").events = ev3
            BY <3>2, ElementParts
        <3>4. x.element = ElementOf(ev3, li \ {"over"}, fr2) /\ x.ret \in BOOLEAN
            BY <2>2, <3>1, <3>3
        <3>5. Table(ev2, "over") = {}
            BY <2>3, <2>9
        <3>6. \A u : Table(ev3, u) = Table(ev2, u)
            BY <3>2, <3>5
        <3>7. Loops(ev3, fr2)
            BY <2>4, <3>6 DEF Loops
        <3>8. Tables(ev3, li \ {"over"})
            BY <2>5, <3>2, <3>6 DEF Tables
        <3>9. "enter" \in DOMAIN ev3 <=> "enter" \in DOMAIN ev2
            BY <3>2
        <3> QED
            BY <2>1, <2>6, <3>2, <3>4, <3>6, <3>7, <3>8, <3>9 DEF Sound, e
    <2> QED
        BY <2>8, <2>9
<1> QED
    BY <1>2, <1>3

(* What remove does to the special type: its table goes with the handler of    *)
(* jQuery that hears for it.                                                  *)
EnterOut(ev, hs, ret, x) ==
    \E ev2, li2, fr2 :
       /\ x.element = ElementOf(ev2, li2, fr2) /\ x.ret \in BOOLEAN
       /\ Sound(ev2, li2, fr2)
       /\ Table(ev2, "enter") = Table(ev, "enter") \ hs
       /\ \/ /\ "enter" \in DOMAIN ev2 <=> "enter" \in DOMAIN ev
             /\ Table(ev2, "over") = Table(ev, "over")
          \/ /\ "enter" \notin DOMAIN ev2
             /\ Table(ev2, "over") = Table(ev, "over") \ {WithinElement}
       /\ ~ret /\ Table(ev2, "enter") = {} => "enter" \notin DOMAIN ev2

LEMMA EnterIsRemoved ==
    ASSUME NEW ev, NEW li, NEW fr, Sound(ev, li, fr), NEW hs, NEW ret \in BOOLEAN
    PROVE  EnterOut(ev, hs, ret, RemoveEnter(ElementOf(ev, li, fr), hs, ret))
<1> USE DEF EnterOut
<1> DEFINE e == ElementOf(ev, li, fr)
           x == RemoveEnter(e, hs, ret)
<1>1. e.events = ev /\ e.listening = li /\ e.frames = fr
    BY ElementParts
<1> HIDE DEF e
<1>2. CASE "enter" \notin DOMAIN ev
    <2>1. x = [element |-> e, ret |-> ret]
        BY <1>1, <1>2 DEF RemoveEnter
    <2>2. x.element = ElementOf(ev, li, fr) /\ x.ret \in BOOLEAN
        BY <2>1 DEF e
    <2>3. Table(ev, "enter") = {}
        BY <1>2 DEF Table
    <2> QED
        BY <1>2, <2>2, <2>3 DEF e
<1>3. CASE "enter" \in DOMAIN ev
    <2> DEFINE d == Delete(e, "enter", hs)
               fr2 == Dropped(fr, "enter", hs)
    <2>1. PICK ev2 :
             /\ d = ElementOf(ev2, li, fr2)
             /\ DOMAIN ev2 = DOMAIN ev
             /\ Table(ev2, "enter") = Table(ev, "enter") \ hs
             /\ \A u : u # "enter" => Table(ev2, u) = Table(ev, u)
        BY <1>3, DeleteIs DEF Sound, Tables, e
    <2>2. d.events = ev2 /\ d.listening = li /\ d.frames = fr2
        BY <2>1, ElementParts
    <2>3. DOMAIN d.events["enter"] = Table(ev2, "enter")
        BY <1>3, <2>1, <2>2 DEF Table
    <2>4. Loops(ev2, fr2)
        BY <2>1, LoopsDropped DEF Sound
    <2>5. Tables(ev2, li)
        BY <2>1 DEF Sound, Tables, Types
    <2>6. Table(ev2, "over") = Table(ev, "over")
        BY <2>1
    <2> HIDE DEF d, fr2
    <2>7. x = IF DOMAIN d.events["enter"] # {} \/ ret THEN [element |-> d, ret |-> TRUE]
              ELSE [element |-> NoTable(RemoveOver(d, {WithinElement}, FALSE).element, "enter"),
                    ret |-> FALSE]
        BY <1>1, <1>3, Zenon DEF RemoveEnter, d
    <2>8. CASE DOMAIN d.events["enter"] # {} \/ ret
        <3>1. x = [element |-> d, ret |-> TRUE]
            BY <2>7, <2>8, Zenon
        <3>2. x.element = ElementOf(ev2, li, fr2) /\ x.ret \in BOOLEAN
            BY <2>1, <3>1
        <3>3. ~(~ret /\ Table(ev2, "enter") = {})
            BY <2>3, <2>8
        <3> QED
            BY <2>1, <2>4, <2>5, <2>6, <3>2, <3>3 DEF Sound, e
    <2>9. CASE ~(DOMAIN d.events["enter"] # {} \/ ret)
        <3> DEFINE o == RemoveOver(d, {WithinElement}, FALSE).element
        <3>1. x = [element |-> NoTable(o, "enter"), ret |-> FALSE]
            BY <2>7, <2>9, Zenon
        <3>2. PICK ev3, li3, fr3 :
                 /\ o = ElementOf(ev3, li3, fr3)
                 /\ Sound(ev3, li3, fr3)
                 /\ Table(ev3, "over") = Table(ev2, "over") \ {WithinElement}
                 /\ Table(ev3, "enter") = Table(ev2, "enter")
            <4>1. Sound(ev2, li, fr2)
                BY <2>4, <2>5 DEF Sound
            <4> DEFINE b == ElementOf(ev2, li, fr2)
                       y == RemoveOver(b, {WithinElement}, FALSE)
            <4>2. OverOut(ev2, {WithinElement}, FALSE, y)
                BY <4>1, OverIsRemoved, Zenon
            <4>3. b = d
                BY <2>1
            <4>4. y.element = o
                BY <4>3, Zenon
            <4> HIDE DEF y, o
            <4> QED
                BY <4>2, <4>4 DEF OverOut
        <3> HIDE DEF o
        <3>3. PICK ev4 :
                 /\ NoTable(o, "enter") = ElementOf(ev4, li3, fr3)
                 /\ \A u : u \in DOMAIN ev4 <=> u \in DOMAIN ev3 /\ u # "enter"
                 /\ Table(ev4, "enter") = {}
                 /\ \A u : u # "enter" => Table(ev4, u) = Table(ev3, u)
            BY <3>2, NoTableIs
        <3>4. x.element = ElementOf(ev4, li3, fr3) /\ x.ret \in BOOLEAN
            BY <3>1, <3>3
        <3>5. Table(ev2, "enter") = {}
            BY <2>3, <2>9
        <3>6. \A u : Table(ev4, u) = Table(ev3, u)
            BY <3>2, <3>3, <3>5
        <3>7. Loops(ev4, fr3)
            BY <3>2, <3>6 DEF Sound, Loops
        <3>8. Tables(ev4, li3)
            BY <3>2, <3>3, <3>6 DEF Sound, Tables
        <3>9. "enter" \notin DOMAIN ev4
            BY <3>3
        <3>10. Table(ev4, "over") = Table(ev, "over") \ {WithinElement}
            BY <2>6, <3>2, <3>6
        <3>11. Table(ev4, "enter") = Table(ev, "enter") \ hs
            BY <2>1, <3>3, <3>5
        <3> QED
            BY <3>4, <3>7, <3>8, <3>9, <3>10, <3>11 DEF Sound, e
    <2> QED
        BY <2>8, <2>9
<1> QED
    BY <1>2, <1>3

(* One type of the call; the helper of jQuery is not among what is taken out.  *)
LEMMA TypeIsRemoved ==
    ASSUME NEW ev, NEW li, NEW fr, Sound(ev, li, fr), NEW d, Special(ev, d),
           NEW r, r.element = ElementOf(ev, li, fr), r.ret \in BOOLEAN,
           NEW t \in Types, NEW hs, t = "over" => WithinElement \notin hs
    PROVE  \E ev2, li2, fr2 :
             /\ RemoveType(r, t, hs).element = ElementOf(ev2, li2, fr2)
             /\ RemoveType(r, t, hs).ret \in BOOLEAN
             /\ Sound(ev2, li2, fr2) /\ Special(ev2, d)
             /\ Table(ev2, "enter") \subseteq Table(ev, "enter")
             /\ t = "enter" => Table(ev2, "enter") \cap hs = {}
<1>1. CASE t = "over"
    <2>1. RemoveType(r, t, hs) = RemoveOver(ElementOf(ev, li, fr), hs, r.ret)
        BY <1>1 DEF RemoveType
    <2>2. PICK ev2, li2, fr2 :
             /\ RemoveOver(ElementOf(ev, li, fr), hs, r.ret).element = ElementOf(ev2, li2, fr2)
             /\ RemoveOver(ElementOf(ev, li, fr), hs, r.ret).ret \in BOOLEAN
             /\ Sound(ev2, li2, fr2)
             /\ Table(ev2, "over") = Table(ev, "over") \ hs
             /\ Table(ev2, "enter") = Table(ev, "enter")
             /\ "enter" \in DOMAIN ev2 <=> "enter" \in DOMAIN ev
        BY OverIsRemoved DEF OverOut
    <2>3. Special(ev2, d)
        BY <1>1, <2>2 DEF Special
    <2> QED
        BY <1>1, <2>1, <2>2, <2>3
<1>2. CASE t = "enter"
    <2>1. RemoveType(r, t, hs) = RemoveEnter(ElementOf(ev, li, fr), hs, r.ret)
        BY <1>2 DEF RemoveType
    <2>2. PICK ev2, li2, fr2 :
             /\ RemoveEnter(ElementOf(ev, li, fr), hs, r.ret).element = ElementOf(ev2, li2, fr2)
             /\ RemoveEnter(ElementOf(ev, li, fr), hs, r.ret).ret \in BOOLEAN
             /\ Sound(ev2, li2, fr2)
             /\ Table(ev2, "enter") = Table(ev, "enter") \ hs
             /\ \/ /\ "enter" \in DOMAIN ev2 <=> "enter" \in DOMAIN ev
                   /\ Table(ev2, "over") = Table(ev, "over")
                \/ /\ "enter" \notin DOMAIN ev2
                   /\ Table(ev2, "over") = Table(ev, "over") \ {WithinElement}
        BY EnterIsRemoved DEF EnterOut
    <2>3. Special(ev2, d)
        BY <2>2 DEF Special
    <2> QED
        BY <2>1, <2>2, <2>3
<1> QED
    BY <1>1, <1>2 DEF Types

(* The call for some functions of the page.                                   *)
LEMMA SomeAreRemoved ==
    ASSUME NEW ev, NEW li, NEW fr, Sound(ev, li, fr), NEW d, Special(ev, d),
           NEW types, types[1] \in Types, Len(types) # 1 => types[2] \in Types,
           NEW hs, types = <<"enter">> \/ WithinElement \notin hs
    PROVE  \E ev2, li2, fr2 :
             /\ RemoveFrom(ElementOf(ev, li, fr), types, hs) = ElementOf(ev2, li2, fr2)
             /\ Sound(ev2, li2, fr2) /\ Special(ev2, d)
             /\ Table(ev2, "enter") \subseteq Table(ev, "enter")
             /\ Len(types) = 1 /\ types[1] = "enter" => Table(ev2, "enter") \cap hs = {}
<1> DEFINE r == [element |-> ElementOf(ev, li, fr), ret |-> FALSE]
           first == RemoveType(r, types[1], hs)
<1>1. r.element = ElementOf(ev, li, fr) /\ r.ret \in BOOLEAN
    OBVIOUS
<1>2. RemoveFrom(ElementOf(ev, li, fr), types, hs)
         = IF Len(types) = 1 THEN first.element ELSE RemoveType(first, types[2], hs).element
    BY Zenon DEF RemoveFrom
<1> HIDE DEF r
<1>3. PICK ev1, li1, fr1 :
         /\ first.element = ElementOf(ev1, li1, fr1) /\ first.ret \in BOOLEAN
         /\ Sound(ev1, li1, fr1) /\ Special(ev1, d)
         /\ Table(ev1, "enter") \subseteq Table(ev, "enter")
         /\ types[1] = "enter" => Table(ev1, "enter") \cap hs = {}
    BY <1>1, TypeIsRemoved
<1> HIDE DEF first
<1>4. CASE Len(types) = 1
    <2>1. RemoveFrom(ElementOf(ev, li, fr), types, hs) = ElementOf(ev1, li1, fr1)
        BY <1>2, <1>3, <1>4
    <2> QED
        BY <1>3, <2>1
<1>5. CASE Len(types) # 1
    <2>1. PICK ev2, li2, fr2 :
             /\ RemoveType(first, types[2], hs).element = ElementOf(ev2, li2, fr2)
             /\ Sound(ev2, li2, fr2) /\ Special(ev2, d)
             /\ Table(ev2, "enter") \subseteq Table(ev1, "enter")
        BY <1>3, <1>5, TypeIsRemoved
    <2>2. RemoveFrom(ElementOf(ev, li, fr), types, hs) = ElementOf(ev2, li2, fr2)
        BY <1>2, <1>5, <2>1
    <2> QED
        BY <1>3, <1>5, <2>1, <2>2
<1> QED
    BY <1>4, <1>5

(* unbind of all, each type by a call of its own.                             *)
OverGone(ev, x) ==
    \E ev2, li2, fr2 :
       /\ x = ElementOf(ev2, li2, fr2) /\ Sound(ev2, li2, fr2)
       /\ Table(ev2, "over") = {} /\ Table(ev2, "enter") = Table(ev, "enter")
       /\ "enter" \in DOMAIN ev2 <=> "enter" \in DOMAIN ev

LEMMA OverIsGone ==
    ASSUME NEW ev, NEW li, NEW fr, Sound(ev, li, fr)
    PROVE  OverGone(ev, RemoveFrom(ElementOf(ev, li, fr), <<"over">>, Functions))
<1> DEFINE e == ElementOf(ev, li, fr)
           y == RemoveOver(e, Functions, FALSE)
<1>2. OverOut(ev, Functions, FALSE, y)
    BY OverIsRemoved, Zenon
<1>3. RemoveFrom(e, <<"over">>, Functions) = y.element
    BY DEF RemoveFrom, RemoveType
<1>4. Table(ev, "over") \ Functions = {}
    BY DEF Sound, Tables, Types
<1> HIDE DEF y, Functions
<1> QED
    BY <1>2, <1>3, <1>4 DEF OverOut, OverGone

LEMMA EnterIsGone ==
    ASSUME NEW ev, NEW li, NEW fr, Sound(ev, li, fr)
    PROVE  \E ev2, li2, fr2 :
             /\ RemoveFrom(ElementOf(ev, li, fr), <<"enter">>, Functions) = ElementOf(ev2, li2, fr2)
             /\ Sound(ev2, li2, fr2)
             /\ "enter" \notin DOMAIN ev2
             /\ Table(ev2, "over") \subseteq Table(ev, "over")
<1> DEFINE e == ElementOf(ev, li, fr)
           y == RemoveEnter(e, Functions, FALSE)
<1>2. EnterOut(ev, Functions, FALSE, y)
    BY EnterIsRemoved, Zenon
<1>3. RemoveFrom(e, <<"enter">>, Functions) = y.element
    BY DEF RemoveFrom, RemoveType
<1>4. Table(ev, "enter") \ Functions = {}
    BY DEF Sound, Tables, Types
<1> HIDE DEF y, Functions
<1>5. PICK ev2, li2, fr2 :
         /\ y.element = ElementOf(ev2, li2, fr2)
         /\ Sound(ev2, li2, fr2)
         /\ Table(ev2, "enter") = Table(ev, "enter") \ Functions
         /\ Table(ev2, "over") \subseteq Table(ev, "over")
         /\ Table(ev2, "enter") = {} => "enter" \notin DOMAIN ev2
    BY <1>2 DEF EnterOut
<1>6. "enter" \notin DOMAIN ev2
    BY <1>4, <1>5
<1> QED
    BY <1>3, <1>5, <1>6

AllGone(x) ==
    \E ev2, li2, fr2 :
       /\ x = ElementOf(ev2, li2, fr2)
       /\ Sound(ev2, li2, fr2) /\ \A d : Special(ev2, d)
       /\ Table(ev2, "enter") = {}

LEMMA AllAreRemoved ==
    ASSUME NEW ev, NEW li, NEW fr, Sound(ev, li, fr), NEW t1 \in Types, NEW t2 \in Types, t1 # t2
    PROVE  AllGone(RemoveFrom(RemoveFrom(ElementOf(ev, li, fr), <<t1>>, Functions),
                              <<t2>>, Functions))
<1> HIDE DEF Functions
<1>1. CASE t1 = "over"
    <2>1. t2 = "enter"
        BY <1>1 DEF Types
    <2>2. PICK ev1, li1, fr1 :
             /\ RemoveFrom(ElementOf(ev, li, fr), <<"over">>, Functions) = ElementOf(ev1, li1, fr1)
             /\ Sound(ev1, li1, fr1)
             /\ Table(ev1, "over") = {}
        BY OverIsGone DEF OverGone
    <2>3. PICK ev2, li2, fr2 :
             /\ RemoveFrom(ElementOf(ev1, li1, fr1), <<"enter">>, Functions)
                  = ElementOf(ev2, li2, fr2)
             /\ Sound(ev2, li2, fr2)
             /\ "enter" \notin DOMAIN ev2
             /\ Table(ev2, "over") \subseteq Table(ev1, "over")
        BY <2>2, EnterIsGone
    <2>4. RemoveFrom(RemoveFrom(ElementOf(ev, li, fr), <<t1>>, Functions), <<t2>>, Functions)
            = ElementOf(ev2, li2, fr2)
        BY <1>1, <2>1, <2>2, <2>3
    <2>5. (\A d : Special(ev2, d)) /\ Table(ev2, "enter") = {}
        BY <2>2, <2>3 DEF Special, Table
    <2> QED
        BY <2>3, <2>4, <2>5 DEF AllGone
<1>2. CASE t1 = "enter"
    <2>1. t2 = "over"
        BY <1>2 DEF Types
    <2>2. PICK ev1, li1, fr1 :
             /\ RemoveFrom(ElementOf(ev, li, fr), <<"enter">>, Functions) = ElementOf(ev1, li1, fr1)
             /\ Sound(ev1, li1, fr1)
             /\ "enter" \notin DOMAIN ev1
        BY EnterIsGone
    <2>3. PICK ev2, li2, fr2 :
             /\ RemoveFrom(ElementOf(ev1, li1, fr1), <<"over">>, Functions)
                  = ElementOf(ev2, li2, fr2)
             /\ Sound(ev2, li2, fr2)
             /\ Table(ev2, "over") = {}
             /\ "enter" \in DOMAIN ev2 <=> "enter" \in DOMAIN ev1
        <3>1. OverGone(ev1, RemoveFrom(ElementOf(ev1, li1, fr1), <<"over">>, Functions))
            BY <2>2, OverIsGone
        <3> QED
            BY <3>1 DEF OverGone
    <2>4. RemoveFrom(RemoveFrom(ElementOf(ev, li, fr), <<t1>>, Functions), <<t2>>, Functions)
            = ElementOf(ev2, li2, fr2)
        BY <1>2, <2>1, <2>2, <2>3
    <2>5. (\A d : Special(ev2, d)) /\ Table(ev2, "enter") = {}
        BY <2>2, <2>3 DEF Special, Table
    <2> QED
        BY <2>3, <2>4, <2>5 DEF AllGone
<1> QED
    BY <1>1, <1>2 DEF Types

-----------------------------------------------------------------------------
(* add.                                                                       *)

(* What x has become of the tables and listeners of an element when h joined   *)
(* the table of t, if need be a new one.                                      *)
Grown(ev, fr, t, h, x) ==
    \E ev2, li2 :
       /\ x = ElementOf(ev2, li2, fr) /\ Tables(ev2, li2)
       /\ Table(ev2, t) = Table(ev, t) \cup {h}
       /\ \A u : u # t => (u \in DOMAIN ev2 <=> u \in DOMAIN ev) /\ Table(ev2, u) = Table(ev, u)
       /\ t \in DOMAIN ev2

LEMMA JoinIs ==
    ASSUME NEW ev, NEW li, NEW fr, Tables(ev, li), NEW t \in DOMAIN ev, NEW h \in Functions, NEW kind
    PROVE  Grown(ev, fr, t, h, Join(ElementOf(ev, li, fr), t, h, kind))
<1> DEFINE ev2 == Put(ev, t, Put(ev[t], h, kind))
<1>1. Join(ElementOf(ev, li, fr), t, h, kind) = ElementOf(ev2, li, fr)
    BY DEF Join, ElementOf
<1>2. DOMAIN ev2 = DOMAIN ev
    BY DEF Put
<1>3. Table(ev2, t) = Table(ev, t) \cup {h}
    BY DEF Table, Put
<1>4. \A u : u # t => Table(ev2, u) = Table(ev, u)
    BY DEF Table, Put
<1> HIDE DEF ev2
<1>5. Tables(ev2, li)
    BY <1>2, <1>3, <1>4 DEF Tables
<1> QED
    BY <1>1, <1>2, <1>3, <1>4, <1>5 DEF Grown

LEMMA OverIsAdded ==
    ASSUME NEW ev, NEW li, NEW fr, Tables(ev, li), NEW h \in Functions, NEW kind
    PROVE  Grown(ev, fr, "over", h, AddOver(ElementOf(ev, li, fr), h, kind))
<1> DEFINE e == ElementOf(ev, li, fr)
<1>1. e.events = ev /\ e.listening = li /\ e.frames = fr
    BY ElementParts
<1>2. CASE "over" \in DOMAIN ev
    <2>1. AddOver(e, h, kind) = Join(e, "over", h, kind)
        BY <1>1, <1>2 DEF AddOver
    <2> QED
        BY <1>2, <2>1, JoinIs
<1>3. CASE "over" \notin DOMAIN ev
    <2> DEFINE ev2 == Put(ev, "over", Put(<<>>, h, kind))
    <2>1. AddOver(e, h, kind) = ElementOf(ev2, li \cup {"over"}, fr)
        BY <1>1, <1>3, Zenon DEF AddOver
    <2>2. DOMAIN ev2 = DOMAIN ev \cup {"over"}
        BY DEF Put
    <2>3. Table(ev2, "over") = {h} /\ Table(ev, "over") = {}
        BY <1>3 DEF Table, Put
    <2>4. \A u : u # "over" => Table(ev2, u) = Table(ev, u)
        BY DEF Table, Put
    <2> HIDE DEF ev2, e
    <2>5. Tables(ev2, li \cup {"over"})
        BY <2>2, <2>3, <2>4 DEF Tables, Types
    <2> QED
        BY <2>1, <2>2, <2>3, <2>4, <2>5 DEF Grown, e
<1> QED
    BY <1>2, <1>3

(* A handler of the page joins the table of its type, the only one that gets   *)
(* it, and a special type is heard.                                           *)
Bound(ev, fr, t, h, d, x) ==
    \E ev2, li2 :
       /\ x = ElementOf(ev2, li2, fr) /\ Tables(ev2, li2) /\ Special(ev2, d)
       /\ \A u : Table(ev, u) \subseteq Table(ev2, u)
       /\ h \in Table(ev2, t)
       /\ Table(ev2, "enter") \subseteq Table(ev, "enter") \cup {h}
       /\ t # "enter" => Table(ev2, "enter") = Table(ev, "enter")

LEMMA HandlerIsBound ==
    ASSUME NEW ev, NEW li, NEW fr, Tables(ev, li), NEW d, Special(ev, d),
           d # FALSE => "enter" \in DOMAIN ev, NEW t \in Types, NEW h \in Handlers, NEW kind
    PROVE  Bound(ev, fr, t, h, d, AddHandler(ElementOf(ev, li, fr), t, h, kind))
<1> DEFINE e == ElementOf(ev, li, fr)
           x == AddHandler(e, t, h, kind)
<1>1. e.events = ev /\ e.listening = li /\ e.frames = fr
    BY ElementParts
<1>2. h \in Functions /\ WithinElement \in Functions /\ h # WithinElement
    BY EventsAssumption DEF Functions
<1>3. CASE t = "over"
    <2>1. x = AddOver(e, h, kind)
        BY <1>3 DEF AddHandler
    <2>2. Grown(ev, fr, "over", h, x)
        BY <1>2, <2>1, OverIsAdded
    <2> HIDE DEF x
    <2>3. PICK ev2, li2 :
             /\ x = ElementOf(ev2, li2, fr) /\ Tables(ev2, li2)
             /\ Table(ev2, "over") = Table(ev, "over") \cup {h}
             /\ \A u : u # "over" => ("enter" \in DOMAIN ev2 <=> "enter" \in DOMAIN ev)
                                     /\ Table(ev2, u) = Table(ev, u)
        BY <2>2 DEF Grown
    <2>4. Special(ev2, d)
        BY <1>2, <2>3 DEF Special
    <2> QED
        BY <1>3, <2>3, <2>4 DEF Bound, x, e
<1>4. CASE t = "enter"
    <2>1. x = AddEnter(e, h, kind)
        BY <1>4 DEF AddHandler
    <2>2. CASE "enter" \in DOMAIN ev
        <3>1. x = Join(e, "enter", h, kind)
            BY <1>1, <2>1, <2>2 DEF AddEnter
        <3>2. Grown(ev, fr, "enter", h, x)
            BY <1>2, <2>2, <3>1, JoinIs
        <3> HIDE DEF x
        <3>3. PICK ev2, li2 :
                 /\ x = ElementOf(ev2, li2, fr) /\ Tables(ev2, li2)
                 /\ Table(ev2, "enter") = Table(ev, "enter") \cup {h}
                 /\ \A u : u # "enter" => Table(ev2, u) = Table(ev, u)
                 /\ "enter" \in DOMAIN ev2
            BY <3>2 DEF Grown
        <3>4. Special(ev2, d)
            BY <2>2, <3>3 DEF Special
        <3> QED
            BY <1>4, <3>3, <3>4 DEF Bound, x, e
    <2>3. CASE "enter" \notin DOMAIN ev
        <3> DEFINE ev1 == Put(ev, "enter", <<>>)
                   e1 == ElementOf(ev1, li, fr)
                   y == AddOver(e1, WithinElement, "bind")
        <3>1. x = Join(y, "enter", h, kind)
            BY <1>1, <2>1, <2>3, Zenon DEF AddEnter
        <3>2. DOMAIN ev1 = DOMAIN ev \cup {"enter"}
            BY DEF Put
        <3>3. Table(ev1, "enter") = {} /\ Table(ev, "enter") = {}
            BY <2>3 DEF Table, Put
        <3>4. \A u : u # "enter" => Table(ev1, u) = Table(ev, u)
            BY DEF Table, Put
        <3> HIDE DEF ev1, x, e
        <3>5. Tables(ev1, li)
            BY <3>2, <3>3, <3>4 DEF Tables, Types
        <3>6. Grown(ev1, fr, "over", WithinElement, y)
            BY <1>2, <3>5, OverIsAdded
        <3> HIDE DEF y, e1
        <3>7. PICK ev2, li2 :
                 /\ y = ElementOf(ev2, li2, fr) /\ Tables(ev2, li2)
                 /\ Table(ev2, "over") = Table(ev1, "over") \cup {WithinElement}
                 /\ \A u : u # "over" => (u \in DOMAIN ev2 <=> u \in DOMAIN ev1)
                                         /\ Table(ev2, u) = Table(ev1, u)
            BY <3>6 DEF Grown
        <3>8. "enter" \in DOMAIN ev2
            BY <3>2, <3>7
        <3>9. Grown(ev2, fr, "enter", h, x)
            BY <1>2, <3>1, <3>7, <3>8, JoinIs
        <3>10. PICK ev3, li3 :
                 /\ x = ElementOf(ev3, li3, fr) /\ Tables(ev3, li3)
                 /\ Table(ev3, "enter") = Table(ev2, "enter") \cup {h}
                 /\ \A u : u # "enter" => Table(ev3, u) = Table(ev2, u)
                 /\ "enter" \in DOMAIN ev3
            BY <3>9 DEF Grown
        <3>11. Special(ev3, d)
            BY <2>3, <3>7, <3>10 DEF Special
        <3>12. Table(ev3, "enter") = Table(ev, "enter") \cup {h}
            BY <3>3, <3>7, <3>10
        <3>13. \A u : Table(ev, u) \subseteq Table(ev3, u)
            BY <3>3, <3>4, <3>7, <3>10
        <3> QED
            BY <1>4, <3>10, <3>11, <3>12, <3>13 DEF Bound, x, e
    <2> QED
        BY <2>2, <2>3
<1> QED
    BY <1>3, <1>4 DEF Types

-----------------------------------------------------------------------------
(* The loops.                                                                 *)

LEMMA LoopsStay ==
    ASSUME NEW ev, NEW ev2, NEW fr, Loops(ev, fr), \A u : Table(ev, u) \subseteq Table(ev2, u)
    PROVE  Loops(ev2, fr)
BY DEF Loops

LEMMA FrameIs ==
    ASSUME NEW type \in Types, NEW of \in Types, NEW todo \in SUBSET Functions,
           NEW running \in Handlers \cup {Nothing}
    PROVE  /\ Frame(type, of, todo, running) \in FrameSet
           /\ Frame(type, of, todo, running).type = type /\ Frame(type, of, todo, running).of = of
           /\ Frame(type, of, todo, running).todo = todo
BY DEF FrameSet, Frame

(* A loop is right when it has to do only what is left in its table.           *)
Right(ev, f) ==
    /\ f \in FrameSet
    /\ f.todo \subseteq Table(ev, f.of)
    /\ f.of = "enter" => f.type = "enter"

LEMMA LoopsAre ==
    ASSUME NEW ev, NEW fr \in Seq(FrameSet)
    PROVE  Loops(ev, fr) <=> \A i \in 1..Len(fr) : Right(ev, fr[i])
<1>1. \A i \in 1..Len(fr) : fr[i] \in FrameSet
    OBVIOUS
<1> QED
    BY <1>1 DEF Loops, Right

LEMMA LoopsPush ==
    ASSUME NEW ev, NEW fr, Loops(ev, fr), NEW f, Right(ev, f)
    PROVE  Loops(ev, <<f>> \o fr)
<1>1. fr \in Seq(FrameSet) /\ f \in FrameSet
    BY DEF Loops, Right
<1> DEFINE s == <<f>> \o fr
<1>2. s \in Seq(FrameSet) /\ Len(s) = Len(fr) + 1 /\ Len(fr) \in Nat
    BY <1>1
<1>3. s[1] = f /\ \A i \in 2..Len(fr) + 1 : s[i] = fr[i - 1]
    BY <1>1
<1>4. \A i \in 1..Len(fr) : Right(ev, fr[i])
    BY <1>1, LoopsAre
<1> HIDE DEF s
<1>5. ASSUME NEW i \in 1..Len(s)
      PROVE  Right(ev, s[i])
    <2>1. CASE i = 1
        BY <1>3, <2>1
    <2>2. CASE i # 1
        <3>1. i \in 2..Len(fr) + 1 /\ i - 1 \in 1..Len(fr)
            BY <1>2, <2>2
        <3>2. s[i] = fr[i - 1]
            BY <1>3, <3>1
        <3> QED
            BY <1>4, <3>1, <3>2
    <2> QED
        BY <2>1, <2>2
<1>6. Loops(ev, s)
    BY <1>2, <1>5, LoopsAre
<1> QED
    BY <1>6 DEF s

LEMMA LoopsTail ==
    ASSUME NEW ev, NEW fr, Loops(ev, fr), fr # <<>>
    PROVE  /\ Loops(ev, Tail(fr)) /\ Right(ev, fr[1])
<1>1. fr \in Seq(FrameSet)
    BY DEF Loops
<1>2. Len(fr) \in Nat /\ Len(fr) >= 1
    BY <1>1
<1>3. \A i \in 1..Len(fr) : Right(ev, fr[i])
    BY <1>1, LoopsAre
<1>4. Tail(fr) \in Seq(FrameSet) /\ Len(Tail(fr)) = Len(fr) - 1
      /\ \A i \in 1..Len(fr) - 1 : Tail(fr)[i] = fr[i + 1]
    BY <1>1, <1>2
<1>5. ASSUME NEW i \in 1..Len(Tail(fr))
      PROVE  Right(ev, Tail(fr)[i])
    <2>1. i \in 1..Len(fr) - 1 /\ i + 1 \in 1..Len(fr)
        BY <1>2, <1>4
    <2> QED
        BY <1>3, <1>4, <2>1
<1>6. Loops(ev, Tail(fr))
    BY <1>4, <1>5, LoopsAre
<1> QED
    BY <1>2, <1>3, <1>6

(* A new handler joins the loops that run over its table.                      *)
TodoOf(f, t, h) == IF f.of = t THEN f.todo \cup {h} ELSE f.todo

Given(f, h) == [f EXCEPT !.todo = @ \cup {h}]

LEMMA GivenIs ==
    ASSUME NEW f \in FrameSet, NEW h \in Functions
    PROVE  /\ Given(f, h) \in FrameSet /\ Given(f, h).todo = f.todo \cup {h}
           /\ Given(f, h).of = f.of /\ Given(f, h).type = f.type
BY DEF FrameSet, Given

LEMMA LoopsJoined ==
    ASSUME NEW ev, NEW fr, Loops(ev, fr), NEW t, NEW h \in Functions, h \in Table(ev, t)
    PROVE  Loops(ev, Joined(fr, t, h))
<1> DEFINE g(i) == IF fr[i].of = t THEN Given(fr[i], h) ELSE fr[i]
           n == Len(fr)
<1>1. fr \in Seq(FrameSet)
    BY DEF Loops
<1>2. DOMAIN fr = 1..n /\ n \in Nat
    BY <1>1
<1>3. \A i \in 1..n : Right(ev, fr[i])
    BY <1>1, LoopsAre
<1>4. ASSUME NEW i \in 1..n
      PROVE  Right(ev, g(i))
    <2>1. Right(ev, fr[i]) /\ fr[i] \in FrameSet
        BY <1>3 DEF Right
    <2>2. CASE fr[i].of = t
        BY <2>1, <2>2, GivenIs DEF Right
    <2>3. CASE fr[i].of # t
        BY <2>1, <2>3
    <2> QED
        BY <2>2, <2>3
<1>5. Joined(fr, t, h) = [i \in 1..n |-> g(i)]
    <2>1. Joined(fr, t, h) = [i \in DOMAIN fr |-> g(i)]
        BY Zenon DEF Joined, Given
    <2> QED
        BY <1>2, <2>1, Zenon
<1>6. \A i \in 1..n : g(i) \in FrameSet
    BY <1>4 DEF Right
<1> HIDE DEF g, n
<1>7. Joined(fr, t, h) \in Seq(FrameSet) /\ Len(Joined(fr, t, h)) = n
    BY <1>2, <1>5, <1>6
<1>8. \A i \in 1..n : Joined(fr, t, h)[i] = g(i)
    BY <1>5
<1>9. \A i \in 1..Len(Joined(fr, t, h)) : Right(ev, Joined(fr, t, h)[i])
    BY <1>4, <1>7, <1>8
<1> QED
    BY <1>7, <1>9, LoopsAre

-----------------------------------------------------------------------------
(* The steps.                                                                 *)

(* A handler of "one" that was called is not in the table of its type.         *)
Once(ev, sp) == \A h \in Handlers : <<"enter", h>> \in sp => h \notin Table(ev, "enter")

GoodWith(ev, li, fr, sp, d) ==
    Sound(ev, li, fr) /\ Special(ev, d) /\ Once(ev, sp) /\ d \in BOOLEAN

LEMMA NextIsGoodWith ==
    ASSUME NEW ev, NEW li, NEW fr, NEW d, GoodWith(ev, li, fr, spent', d),
           EventsBecomeWith(ElementOf(ev, li, fr), d)
    PROVE  EventsInv'
<1>1. /\ events' = ev /\ listening' = li /\ frames' = fr
      /\ deaf' = ("enter" \in DOMAIN ev /\ d)
    BY ElementParts DEF EventsBecomeWith
<1>2. d \in BOOLEAN
    BY DEF GoodWith
<1>3. deaf' \in BOOLEAN /\ (deaf' => "enter" \in DOMAIN ev)
    BY <1>1, <1>2
<1>4. WithinElement \in Table(ev, "over") <=> "enter" \in DOMAIN ev /\ d = FALSE
    BY DEF GoodWith, Special
<1>5. Special(ev, deaf')
    BY <1>1, <1>2, <1>4 DEF Special
<1>6. Tables(ev, li) /\ Loops(ev, fr) /\ Once(ev, spent')
    BY DEF GoodWith, Sound
<1> QED
    BY <1>1, <1>3, <1>5, <1>6 DEF EventsInv, Once

LEMMA NextIsGood ==
    ASSUME EventsInv, NEW ev, NEW li, NEW fr, Sound(ev, li, fr), Special(ev, deaf), Once(ev, spent'),
           EventsBecome(ElementOf(ev, li, fr))
    PROVE  EventsInv'
BY NextIsGoodWith DEF GoodWith, EventsBecome, EventsInv

LEMMA FirstLoop ==
    ASSUME EventsInv, frames # <<>>
    PROVE  /\ Loops(events, Tail(frames)) /\ Right(events, frames[1])
           /\ frames[1].type \in Types /\ frames[1].of \in Types
           /\ frames[1].todo \in SUBSET Functions
<1>1. Loops(events, Tail(frames)) /\ Right(events, frames[1])
    BY LoopsTail DEF EventsInv
<1> QED
    BY <1>1 DEF Right, FrameSet

(* The innermost loop goes on, with less to do.                                *)
LEMMA LoopGoesOn ==
    ASSUME EventsInv, frames # <<>>, NEW type \in Types, NEW todo,
           todo \subseteq frames[1].todo, NEW running \in Handlers \cup {Nothing},
           frames[1].of = "enter" => type = "enter"
    PROVE  Loops(events, <<Frame(type, frames[1].of, todo, running)>> \o Tail(frames))
<1> DEFINE f == Frame(type, frames[1].of, todo, running)
<1>1. /\ Loops(events, Tail(frames)) /\ Right(events, frames[1])
      /\ frames[1].of \in Types /\ frames[1].todo \in SUBSET Functions
    BY FirstLoop
<1>2. f \in FrameSet /\ f.type = type /\ f.of = frames[1].of /\ f.todo = todo
    BY <1>1, FrameIs
<1> HIDE DEF f
<1>3. Right(events, f)
    BY <1>1, <1>2 DEF Right
<1>4. Loops(events, <<f>> \o Tail(frames))
    BY <1>1, <1>3, LoopsPush
<1> QED
    BY <1>4 DEF f

LEMMA PushIs ==
    ASSUME NEW ev, NEW li, NEW fr, Sound(ev, li, fr), NEW t \in Types
    PROVE  \E fr2 : /\ Push(ElementOf(ev, li, fr), t) = ElementOf(ev, li, fr2)
                    /\ Sound(ev, li, fr2)
<1> DEFINE e == ElementOf(ev, li, fr)
           f == Frame(t, t, Table(ev, t), Nothing)
<1>1. e.events = ev /\ e.listening = li /\ e.frames = fr
    BY ElementParts
<1>2. HandlersOf(e, t) = Table(ev, t)
    BY <1>1 DEF HandlersOf, Table
<1>3. Push(e, t) = ElementOf(ev, li, <<f>> \o fr)
    BY <1>1, <1>2 DEF Push
<1>4. Table(ev, t) \in SUBSET Functions
    BY DEF Sound, Tables
<1>5. f \in FrameSet /\ f.type = t /\ f.of = t /\ f.todo = Table(ev, t)
    BY <1>4, FrameIs
<1> HIDE DEF e, f
<1>6. Right(ev, f)
    BY <1>5 DEF Right
<1>7. Loops(ev, <<f>> \o fr)
    BY <1>6, LoopsPush DEF Sound
<1> QED
    BY <1>3, <1>7 DEF Sound, e

LEMMA CallKeeps ==
    ASSUME EventsInv, CanCall, NEW h \in frames[1].todo \cap Handlers, Call(h)
    PROVE  EventsInv'
<1> DEFINE f == frames[1]
           fr == <<Frame(f.type, f.of, f.todo \ {h}, h)>> \o Tail(frames)
           c == ElementOf(events, listening, fr)
<1>1. /\ f.type \in Types /\ f.of \in Types /\ (f.of = "enter" => f.type = "enter")
    BY FirstLoop DEF CanCall, Right
<1>2. Loops(events, fr)
    BY <1>1, LoopGoesOn DEF CanCall
<1>3. Sound(events, listening, fr) /\ Special(events, deaf) /\ Once(events, spent)
    BY <1>2 DEF EventsInv, Sound, Once
<1>4. Called(Element, h) = c
    <2>1. Element.events = events /\ Element.listening = listening /\ Element.frames = frames
        BY ElementParts DEF Element
    <2> QED
        BY <2>1, Zenon DEF Called
<1>5. CASE events[f.of][h] = "one"
    <2> DEFINE x == RemoveFrom(c, <<f.type>>, {h})
    <2>1. EventsBecome(x) /\ spent' = spent \cup {<<f.of, h>>}
        BY <1>4, <1>5 DEF Call
    <2>2. WithinElement \notin {h}
        BY EventsAssumption
    <2>3. \E ev2, li2, fr2 :
             /\ x = ElementOf(ev2, li2, fr2)
             /\ Sound(ev2, li2, fr2) /\ Special(ev2, deaf)
             /\ Table(ev2, "enter") \subseteq Table(events, "enter")
             /\ f.type = "enter" => Table(ev2, "enter") \cap {h} = {}
        <3> DEFINE types == <<f.type>>
        <3>1. types[1] = f.type /\ Len(types) = 1
            OBVIOUS
        <3> HIDE DEF types, fr, f
        <3>3. /\ types[1] \in Types /\ (Len(types) # 1 => types[2] \in Types)
              /\ types = <<"enter">> \/ WithinElement \notin {h}
            BY <1>1, <2>2, <3>1
        <3>2. \E ev2, li2, fr2 :
                 /\ RemoveFrom(c, types, {h}) = ElementOf(ev2, li2, fr2)
                 /\ Sound(ev2, li2, fr2) /\ Special(ev2, deaf)
                 /\ Table(ev2, "enter") \subseteq Table(events, "enter")
                 /\ Len(types) = 1 /\ types[1] = "enter" => Table(ev2, "enter") \cap {h} = {}
            BY <1>3, <3>3, SomeAreRemoved
        <3> QED
            BY <3>1, <3>2 DEF types
    <2> HIDE DEF x, c, fr
    <2>4. PICK ev2, li2, fr2 :
             /\ x = ElementOf(ev2, li2, fr2)
             /\ Sound(ev2, li2, fr2) /\ Special(ev2, deaf)
             /\ Table(ev2, "enter") \subseteq Table(events, "enter")
             /\ f.type = "enter" => Table(ev2, "enter") \cap {h} = {}
        BY <2>3
    <2>5. Once(ev2, spent')
        BY <1>1, <1>3, <2>1, <2>4 DEF Once
    <2> QED
        BY <2>1, <2>4, <2>5, NextIsGood
<1>6. CASE events[f.of][h] # "one"
    <2>1. EventsBecome(c) /\ spent' = spent
        BY <1>4, <1>6 DEF Call
    <2> QED
        BY <1>3, <2>1, NextIsGood
<1> QED
    BY <1>5, <1>6

LEMMA CallWithinKeeps ==
    ASSUME EventsInv, CanCall, NEW outside \in BOOLEAN, CallWithin(outside)
    PROVE  EventsInv'
<1> DEFINE f == frames[1]
           type == IF outside THEN "enter" ELSE f.type
           fr == <<Frame(type, f.of, f.todo \ {WithinElement}, Nothing)>> \o Tail(frames)
           c == ElementOf(events, listening, fr)
<1>1. type \in Types /\ (f.of = "enter" => type = "enter")
    BY FirstLoop DEF CanCall, Right, Types
<1> HIDE DEF type
<1>2. Loops(events, fr)
    BY <1>1, LoopGoesOn DEF CanCall
<1>3. Sound(events, listening, fr) /\ Special(events, deaf) /\ Once(events, spent)
    BY <1>2 DEF EventsInv, Sound, Once
<1>4. EventsBecome(IF outside THEN Push(c, "enter") ELSE c) /\ spent' = spent
    BY DEF CallWithin, type
<1> HIDE DEF fr
<1>5. CASE outside
    <2>1. "enter" \in Types
        BY DEF Types
    <2>2. PICK fr2 : Push(c, "enter") = ElementOf(events, listening, fr2)
                     /\ Sound(events, listening, fr2)
        BY <1>3, <2>1, PushIs
    <2>3. EventsBecome(ElementOf(events, listening, fr2))
        BY <1>4, <1>5, <2>2
    <2> QED
        BY <1>3, <1>4, <2>2, <2>3, NextIsGood
<1>6. CASE ~outside
    <2>1. EventsBecome(c)
        BY <1>4, <1>6
    <2> QED
        BY <1>3, <1>4, <2>1, NextIsGood
<1> QED
    BY <1>5, <1>6

LEMMA ReturnKeeps == ASSUME EventsInv, Return PROVE EventsInv'
<1> DEFINE rest == Tail(frames)
           within == rest # <<>> /\ rest[1].running = Nothing
           outer == Frame(rest[1].type, rest[1].of, {}, Nothing)
           loop(stops) == Frame(frames[1].type, frames[1].of,
                                IF stops THEN {} ELSE frames[1].todo, Nothing)
           loops(stops) == IF stops /\ within THEN <<outer>> \o Tail(rest) ELSE rest
<1>1. PICK stops \in BOOLEAN : frames' = <<loop(stops)>> \o loops(stops)
    BY DEF Return
<1>2. frames # <<>>
    BY DEF Return
<1>3. Loops(events, rest) /\ Right(events, frames[1])
    BY <1>2, LoopsTail DEF EventsInv
<1>4. Right(events, loop(stops))
    <2> DEFINE todo == IF stops THEN {} ELSE frames[1].todo
    <2>1. todo \in SUBSET Functions /\ todo \subseteq frames[1].todo
          /\ frames[1].type \in Types /\ frames[1].of \in Types
        BY <1>3 DEF Right, FrameSet
    <2>2. loop(stops) = Frame(frames[1].type, frames[1].of, todo, Nothing)
        OBVIOUS
    <2> HIDE DEF todo, loop
    <2> QED
        BY <1>3, <2>1, <2>2, FrameIs DEF Right
<1> HIDE DEF rest, loop
<1>5. Loops(events, loops(stops))
    <2>1. CASE stops /\ within
        <3>1. Loops(events, Tail(rest)) /\ Right(events, rest[1])
            BY <1>3, <2>1, LoopsTail
        <3>2. Right(events, outer)
            <4> DEFINE ty == rest[1].type
                       of == rest[1].of
            <4>1. ty \in Types /\ of \in Types /\ (of = "enter" => ty = "enter")
                BY <3>1 DEF Right, FrameSet
            <4>2. outer = Frame(ty, of, {}, Nothing)
                OBVIOUS
            <4> HIDE DEF ty, of, outer
            <4> QED
                BY <4>1, <4>2, FrameIs DEF Right
        <3> HIDE DEF outer
        <3>3. Loops(events, <<outer>> \o Tail(rest))
            BY <3>1, <3>2, LoopsPush
        <3> QED
            BY <2>1, <3>3
    <2>2. CASE ~(stops /\ within)
        BY <1>3, <2>2
    <2> QED
        BY <2>1, <2>2
<1> HIDE DEF loops
<1>6. Loops(events, <<loop(stops)>> \o loops(stops))
    BY <1>4, <1>5, LoopsPush
<1>7. events' = events /\ listening' = listening /\ spent' = spent /\ deaf' = deaf
    BY DEF Return
<1> QED
    BY <1>1, <1>6, <1>7 DEF EventsInv

LEMMA EndHandleKeeps == ASSUME EventsInv, EndHandle PROVE EventsInv'
<1>1. Loops(events, Tail(frames))
    BY FirstLoop DEF EndHandle, CanCall
<1>2. events' = events /\ listening' = listening /\ spent' = spent /\ frames' = Tail(frames)
      /\ deaf' = deaf
    BY DEF EndHandle
<1> QED
    BY <1>1, <1>2 DEF EventsInv

LEMMA BindKeeps ==
    ASSUME EventsInv, NEW t \in Types, NEW h \in Handlers, NEW kind, Bind(t, h, kind)
    PROVE  EventsInv'
<1> DEFINE e == AddHandler(Element, t, h, kind)
<1>1. /\ Tables(events, listening) /\ Special(events, deaf) /\ Loops(events, frames)
      /\ Once(events, spent)
    BY DEF EventsInv, Once
<1>2. Bound(events, frames, t, h, deaf, e)
    <2>1. deaf # FALSE => "enter" \in DOMAIN events
        BY DEF EventsInv
    <2> QED
        BY <1>1, <2>1, HandlerIsBound DEF Element
<1>3. /\ \/ EventsBecome(e)
         \/ EventsBecome(ElementOf(e.events, e.listening, Joined(frames, t, h)))
      /\ spent' = spent \ {<<t, h>>}
    BY DEF Bind
<1> HIDE DEF e
<1>4. PICK ev2, li2 :
         /\ e = ElementOf(ev2, li2, frames) /\ Tables(ev2, li2) /\ Special(ev2, deaf)
         /\ \A u : Table(events, u) \subseteq Table(ev2, u)
         /\ h \in Table(ev2, t)
         /\ Table(ev2, "enter") \subseteq Table(events, "enter") \cup {h}
         /\ t # "enter" => Table(ev2, "enter") = Table(events, "enter")
    BY <1>2 DEF Bound
<1>5. e.events = ev2 /\ e.listening = li2
    BY <1>4, ElementParts
<1>6. Loops(ev2, frames)
    BY <1>1, <1>4, LoopsStay
<1>7. h \in Functions
    BY DEF Functions
<1>8. Loops(ev2, Joined(frames, t, h))
    BY <1>4, <1>6, <1>7, LoopsJoined
<1>9. Once(ev2, spent')
    BY <1>1, <1>3, <1>4 DEF Once, Types
<1>10. CASE EventsBecome(e)
    <2>1. EventsBecome(ElementOf(ev2, li2, frames))
        BY <1>4, <1>10
    <2> QED
        BY <1>4, <1>6, <1>9, <2>1, NextIsGood DEF Sound
<1>11. CASE EventsBecome(ElementOf(e.events, e.listening, Joined(frames, t, h)))
    <2>1. EventsBecome(ElementOf(ev2, li2, Joined(frames, t, h)))
        BY <1>5, <1>11
    <2> QED
        BY <1>4, <1>8, <1>9, <2>1, NextIsGood DEF Sound
<1> QED
    BY <1>3, <1>10, <1>11

LEMMA UnbindKeeps ==
    ASSUME EventsInv, NEW types, types[1] \in Types, Len(types) # 1 => types[2] \in Types,
           NEW h \in Handlers, Unbind(types, h)
    PROVE  EventsInv'
<1> DEFINE x == RemoveFrom(ElementOf(events, listening, frames), types, {h})
<1>1. EventsBecome(x) /\ spent' = spent
    BY DEF Unbind, Element
<1>2. WithinElement \notin {h}
    BY EventsAssumption
<1>3. Sound(events, listening, frames) /\ Special(events, deaf) /\ Once(events, spent)
    BY DEF EventsInv, Sound, Once
<1>4. \E ev2, li2, fr2 :
         /\ x = ElementOf(ev2, li2, fr2)
         /\ Sound(ev2, li2, fr2) /\ Special(ev2, deaf)
         /\ Table(ev2, "enter") \subseteq Table(events, "enter")
         /\ Len(types) = 1 /\ types[1] = "enter" => Table(ev2, "enter") \cap {h} = {}
    BY <1>2, <1>3, SomeAreRemoved
<1> HIDE DEF x
<1>5. PICK ev2, li2, fr2 :
         /\ x = ElementOf(ev2, li2, fr2)
         /\ Sound(ev2, li2, fr2) /\ Special(ev2, deaf)
         /\ Table(ev2, "enter") \subseteq Table(events, "enter")
    BY <1>4
<1>6. Once(ev2, spent')
    BY <1>1, <1>3, <1>5 DEF Once
<1> QED
    BY <1>1, <1>5, <1>6, NextIsGood

LEMMA UnbindTypeKeeps ==
    ASSUME EventsInv, NEW t \in Types, UnbindType(t)
    PROVE  EventsInv'
<1> DEFINE x == RemoveFrom(ElementOf(events, listening, frames), <<t>>, Functions)
<1>1. EventsBecomeWith(x, deaf \/ t = "over") /\ spent' = spent
    BY DEF UnbindType, Functions, Element
<1>2. Sound(events, listening, frames) /\ Special(events, deaf) /\ Once(events, spent)
    BY DEF EventsInv, Sound, Once
<1>3. deaf \in BOOLEAN
    BY DEF EventsInv
<1>4. CASE t = "over"
    <2>1. OverGone(events, x)
        BY <1>2, <1>4, OverIsGone
    <2> HIDE DEF x
    <2>2. PICK ev2, li2, fr2 :
             /\ x = ElementOf(ev2, li2, fr2) /\ Sound(ev2, li2, fr2)
             /\ Table(ev2, "over") = {} /\ Table(ev2, "enter") = Table(events, "enter")
        BY <2>1 DEF OverGone
    <2>3. EventsBecomeWith(ElementOf(ev2, li2, fr2), TRUE)
        BY <1>1, <1>3, <1>4, <2>2
    <2>4. GoodWith(ev2, li2, fr2, spent', TRUE)
        BY <1>1, <1>2, <2>2 DEF GoodWith, Special, Once
    <2> QED
        BY <2>3, <2>4, NextIsGoodWith
<1>5. CASE t = "enter"
    <2> DEFINE types == <<"enter">>
    <2>1. types[1] \in Types /\ Len(types) = 1 /\ types = <<"enter">>
        BY DEF Types
    <2> HIDE DEF types
    <2>2. \E ev2, li2, fr2 :
             /\ RemoveFrom(ElementOf(events, listening, frames), types, Functions)
                  = ElementOf(ev2, li2, fr2)
             /\ Sound(ev2, li2, fr2) /\ Special(ev2, deaf)
             /\ Table(ev2, "enter") \subseteq Table(events, "enter")
        BY <1>2, <2>1, SomeAreRemoved
    <2>3. PICK ev2, li2, fr2 :
             /\ x = ElementOf(ev2, li2, fr2)
             /\ Sound(ev2, li2, fr2) /\ Special(ev2, deaf)
             /\ Table(ev2, "enter") \subseteq Table(events, "enter")
        BY <1>5, <2>1, <2>2
    <2> HIDE DEF x
    <2>4. EventsBecomeWith(ElementOf(ev2, li2, fr2), deaf)
        BY <1>1, <1>3, <1>5, <2>3
    <2>5. GoodWith(ev2, li2, fr2, spent', deaf)
        BY <1>1, <1>2, <1>3, <2>3 DEF GoodWith, Once
    <2> QED
        BY <2>4, <2>5, NextIsGoodWith
<1> QED
    BY <1>4, <1>5 DEF Types

LEMMA UnbindAllKeeps == ASSUME EventsInv, UnbindAll PROVE EventsInv'
<1> DEFINE e == ElementOf(events, listening, frames)
<1>1. PICK t1 \in Types, t2 \in Types :
         /\ t1 # t2
         /\ EventsBecome(RemoveFrom(RemoveFrom(e, <<t1>>, Functions), <<t2>>, Functions))
    BY DEF UnbindAll, Functions, Element
<1> DEFINE x == RemoveFrom(RemoveFrom(e, <<t1>>, Functions), <<t2>>, Functions)
<1>2. Sound(events, listening, frames)
    BY DEF EventsInv, Sound
<1> HIDE DEF Functions
<1>3. AllGone(x)
    BY <1>1, <1>2, AllAreRemoved
<1> HIDE DEF x
<1>4. PICK ev2, li2, fr2 :
         /\ x = ElementOf(ev2, li2, fr2)
         /\ Sound(ev2, li2, fr2) /\ Special(ev2, deaf)
         /\ Table(ev2, "enter") = {}
    BY <1>3 DEF AllGone
<1>5. EventsBecome(x)
    BY <1>1 DEF x
<1> QED
    BY <1>4, <1>5, NextIsGood DEF Once

LEMMA PushKeeps ==
    ASSUME EventsInv, NEW t \in Types, EventsBecome(Push(Element, t)), spent' = spent
    PROVE  EventsInv'
<1>1. Sound(events, listening, frames) /\ Special(events, deaf) /\ Once(events, spent)
    BY DEF EventsInv, Sound, Once
<1>2. PICK fr2 : /\ Push(ElementOf(events, listening, frames), t)
                      = ElementOf(events, listening, fr2)
                 /\ Sound(events, listening, fr2)
    BY <1>1, PushIs
<1>3. EventsBecome(ElementOf(events, listening, fr2))
    BY <1>2 DEF Element
<1> QED
    BY <1>1, <1>2, <1>3, NextIsGood

LEMMA EventsStart == EventsInit => EventsInv
<1> SUFFICES ASSUME EventsInit PROVE EventsInv
    OBVIOUS
<1>1. events = <<>> /\ listening = {} /\ frames = <<>> /\ spent = {} /\ deaf = FALSE
    BY DEF EventsInit
<1>2. DOMAIN events = {}
    BY <1>1
<1>3. Loops(events, frames)
    BY <1>1 DEF Loops
<1> QED
    BY <1>1, <1>2, <1>3 DEF EventsInv, Tables, Special, Table

LEMMA EventsStep == EventsInv /\ [EventsNext]_eventVars => EventsInv'
<1> SUFFICES ASSUME EventsInv, [EventsNext]_eventVars PROVE EventsInv'
    OBVIOUS
<1>1. CASE Handle
    <2>1. ASSUME NEW h \in frames[1].todo \cap Handlers, Call(h)
          PROVE  EventsInv'
        BY <1>1, <2>1, CallKeeps DEF Handle
    <2>2. ASSUME NEW outside \in BOOLEAN, CallWithin(outside)
          PROVE  EventsInv'
        BY <1>1, <2>2, CallWithinKeeps DEF Handle
    <2> QED
        BY <1>1, <2>1, <2>2 DEF Handle
<1>2. CASE Return
    BY <1>2, ReturnKeeps
<1>3. CASE EndHandle
    BY <1>3, EndHandleKeeps
<1>4. CASE \E t \in Types, h \in Handlers, kind \in {"bind", "one"} : Bind(t, h, kind)
    BY <1>4, BindKeeps
<1>5. ASSUME NEW types \in {<<"over">>, <<"enter">>, <<"over", "enter">>, <<"enter", "over">>},
             NEW h \in Handlers, Unbind(types, h)
      PROVE  EventsInv'
    <2>1. types[1] \in Types /\ (Len(types) # 1 => types[2] \in Types)
        BY <1>5 DEF Types
    <2> QED
        BY <1>5, <2>1, UnbindKeeps
<1>6. CASE UnbindAll
    BY <1>6, UnbindAllKeeps
<1>10. CASE \E t \in Types : UnbindType(t)
    BY <1>10, UnbindTypeKeeps
<1>7. CASE Occur
    <2>1. "over" \in Types
        BY DEF Types
    <2> QED
        BY <1>7, <2>1, PushKeeps DEF Occur
<1>8. CASE \E t \in Types : Trigger(t)
    BY <1>8, PushKeeps DEF Trigger
<1>9. CASE UNCHANGED eventVars
    BY <1>9 DEF eventVars, EventsInv
<1> QED
    BY <1>1, <1>2, <1>3, <1>4, <1>5, <1>6, <1>7, <1>8, <1>9, <1>10 DEF EventsNext

(* A type of an element has a table exactly while it can be heard, and what    *)
(* "one" bound to enter is called once at most (add, remove and handle of      *)
(* jQuery.event).                                                             *)
THEOREM TablesHeard == EventsSpec => []TablesAreHeard
<1>1. EventsInv => TablesAreHeard
    <2> SUFFICES ASSUME EventsInv PROVE TablesAreHeard
        OBVIOUS
    <2>1. Element.events = events
        BY ElementParts DEF Element
    <2>2. HandlersOf(Element, "over") = Table(events, "over")
        BY <2>1 DEF HandlersOf, Table
    <2>3. ASSUME NEW i \in DOMAIN frames, NEW h \in Handlers,
                 frames[i].of = "enter", h \in frames[i].todo
          PROVE  <<"enter", h>> \notin spent
        <3>1. frames \in Seq(FrameSet) /\ frames[i].todo \subseteq Table(events, "enter")
            BY <2>3 DEF EventsInv, Loops
        <3> QED
            BY <2>3, <3>1 DEF EventsInv
    <2> QED
        BY <2>2, <2>3 DEF TablesAreHeard, EventsInv, Tables, Special
<1> QED
    BY <1>1, EventsStart, EventsStep, PTL DEF EventsSpec

-----------------------------------------------------------------------------
(* The list.  What a loop over its rows keeps is found by going from one row to  *)
(* the next.                                                                  *)

LEMMA KeptRowsAre ==
    ASSUME NEW V, NEW rows \in Seq(V), NEW K
    PROVE  \E f \in [0 .. Len(rows) -> Seq(V)] :
              /\ KeptRows(rows, K) = f[Len(rows)]
              /\ f[0] = <<>>
              /\ \A i \in 1 .. Len(rows) :
                    f[i] = IF i \in K THEN Append(f[i - 1], rows[i]) ELSE f[i - 1]
<1> DEFINE n == Len(rows)
           Next1(i, x) == IF i \in K THEN Append(x, rows[i]) ELSE x
           Val(f, i) == IF i = 0 THEN <<>> ELSE Next1(i, f[i - 1])
           Body(f) == [i \in 0 .. n |-> Val(f, i)]
           U == CHOOSE f : f = Body(f)
           W == Seq(V)
           F == [p \in (1 .. n) \X W |-> Next1(p[1], p[2])]
<1>1. n \in Nat /\ \A i \in 1 .. n : rows[i] \in V
    OBVIOUS
<1>2. KeptRows(rows, K) = U[n]
    BY DEF KeptRows
<1>3. <<>> \in W /\ \A i \in 1 .. n : \A x \in W : Next1(i, x) \in W
    BY <1>1
<1> HIDE DEF n, W, Next1
<1>a. F \in [(1 .. n) \X W -> W] /\ \A i \in 1 .. n : \A x \in W : F[<<i, x>>] = Next1(i, x)
    BY <1>3
<1> HIDE DEF F
<1>b. PICK f : Stepwise(f, n, W, <<>>, F)
    BY <1>1, <1>3, <1>a, StepsDefine
<1>4. f \in [0 .. n -> W] /\ f[0] = <<>> /\ \A i \in 1 .. n : f[i] = F[<<i, f[i - 1]>>]
    BY <1>b DEF Stepwise
<1>5. \A i \in 0 .. n : f[i] = Val(f, i)
    <2>1. \A i \in 1 .. n : f[i - 1] \in W
        BY <1>1, <1>4
    <2> QED
        <3>1. \A i \in 1 .. n : f[i] = Next1(i, f[i - 1])
            BY <1>4, <1>a, <2>1
        <3> QED
            BY <1>1, <1>4, <3>1
<1> HIDE DEF Val
<1>6. f = Body(f)
    BY <1>4, <1>5
<1>7. U = Body(U)
    <2> HIDE DEF Body
    <2> QED
        BY <1>6
<1>8. DOMAIN U = 0 .. n /\ \A i \in 0 .. n : U[i] = Val(U, i)
    <2> HIDE DEF U
    <2> QED
        BY <1>7
<1> HIDE DEF U
<1>9. \A i \in 0 .. n : U[i] \in W
    <2> DEFINE S == {i \in 0 .. n : U[i] \in W}
    <2>1. 0 \in S
        BY <1>1, <1>3, <1>8 DEF Val
    <2>2. ASSUME NEW i \in 1 .. n, i - 1 \in S PROVE i \in S
        <3>1. U[i] = Next1(i, U[i - 1])
            BY <1>1, <1>8 DEF Val
        <3> QED
            BY <1>1, <1>3, <2>2, <3>1
    <2> HIDE DEF S
    <2>3. \A i \in 0 .. n : i \in S
        BY <1>1, <2>1, <2>2, GoesOn
    <2> QED
        BY <2>3 DEF S
<1>10. U \in [0 .. n -> W]
    <2>1. U = [i \in 0 .. n |-> U[i]]
        BY <1>7, <1>8
    <2> QED
        BY <1>9, <2>1
<1>11. U[0] = <<>> /\ \A i \in 1 .. n : U[i] = Next1(i, U[i - 1])
    BY <1>1, <1>8 DEF Val
<1> QED
    BY <1>2, <1>10, <1>11 DEF n, W, Next1

(* The rows at the positions K are left, in the order in which they were.       *)
Ascending(s) == \A i \in 1 .. Len(s) : \A j \in 1 .. Len(s) : i < j => s[i] < s[j]

Members(s) == {s[i] : i \in 1 .. Len(s)}

LEMMA AppendAscends ==
    ASSUME NEW x \in Seq(Nat), Ascending(x), NEW r \in Nat, \A m \in Members(x) : m < r
    PROVE  /\ Append(x, r) \in Seq(Nat) /\ Ascending(Append(x, r))
           /\ Members(Append(x, r)) = Members(x) \cup {r}
<1> DEFINE y == Append(x, r)
<1>1. Len(x) \in Nat /\ \A k \in 1 .. Len(x) : x[k] \in Nat
    OBVIOUS
<1>2. /\ y \in Seq(Nat) /\ Len(y) = Len(x) + 1 /\ y[Len(x) + 1] = r
      /\ \A k \in 1 .. Len(x) : y[k] = x[k]
    OBVIOUS
<1> HIDE DEF y
<1>3. \A k \in 1 .. Len(x) : x[k] < r
    BY DEF Members
<1>4. ASSUME NEW i \in 1 .. Len(y), NEW j \in 1 .. Len(y), i < j PROVE y[i] < y[j]
    <2>1. i \in 1 .. Len(x) /\ y[i] = x[i]
        <3>1. Len(y) = Len(x) + 1
            BY <1>2
        <3>2. i \in 1 .. Len(x)
            BY <1>1, <1>4, <3>1
        <3> QED
            BY <1>2, <3>2
    <2>2. CASE j = Len(x) + 1
        BY <1>2, <1>3, <2>1, <2>2
    <2>3. CASE j \in 1 .. Len(x)
        BY <1>2, <1>4, <2>1, <2>3 DEF Ascending
    <2> QED
        BY <1>1, <1>2, <2>2, <2>3
<1>5. Members(y) = Members(x) \cup {r}
    <2>1. \A m : m \in Members(y) <=> \E k \in 1 .. Len(x) + 1 : m = y[k]
        BY <1>2 DEF Members
    <2>2. \A m : m \in Members(x) <=> \E k \in 1 .. Len(x) : m = x[k]
        BY DEF Members
    <2>3. ASSUME NEW k \in 1 .. Len(x) + 1 PROVE k \in 1 .. Len(x) \/ k = Len(x) + 1
        BY <1>1
    <2>4. Len(x) + 1 \in 1 .. Len(x) + 1 /\ \A k \in 1 .. Len(x) : k \in 1 .. Len(x) + 1
        BY <1>1
    <2>5. \A m \in Members(y) : m \in Members(x) \cup {r}
        BY <1>2, <2>1, <2>2, <2>3
    <2>6. \A m \in Members(x) \cup {r} : m \in Members(y)
        BY <1>2, <2>1, <2>2, <2>4
    <2> QED
        BY <2>5, <2>6
<1> QED
    BY <1>2, <1>4, <1>5 DEF Ascending, y

LEMMA KeptAscends ==
    ASSUME NEW rows \in Seq(Nat), Ascending(rows), NEW K
    PROVE  /\ KeptRows(rows, K) \in Seq(Nat) /\ Ascending(KeptRows(rows, K))
           /\ Members(KeptRows(rows, K)) = {rows[i] : i \in (1 .. Len(rows)) \cap K}
<1> DEFINE n == Len(rows)
           Upto(i) == {rows[k] : k \in (1 .. i) \cap K}
           Left(i, x) == x \in Seq(Nat) /\ Ascending(x) /\ Members(x) = Upto(i)
<1>1. n \in Nat /\ \A i \in 1 .. n : rows[i] \in Nat
    OBVIOUS
<1>2. \A i \in 1 .. n : \A k \in 1 .. n : i < k => rows[i] < rows[k]
    BY DEF Ascending
<1>3. PICK f \in [0 .. n -> Seq(Nat)] :
         /\ KeptRows(rows, K) = f[n] /\ f[0] = <<>>
         /\ \A i \in 1 .. n : f[i] = IF i \in K THEN Append(f[i - 1], rows[i]) ELSE f[i - 1]
    BY KeptRowsAre
<1> DEFINE S == {i \in 0 .. n : Left(i, f[i])}
<1> HIDE DEF n
<1>4. 0 \in S
    <2>1. Len(<<>>) = 0 /\ <<>> \in Seq(Nat)
        OBVIOUS
    <2>2. Ascending(<<>>) /\ Members(<<>>) = {}
        BY <2>1 DEF Ascending, Members
    <2>3. Upto(0) = {}
        OBVIOUS
    <2>4. Left(0, f[0])
        <3> HIDE DEF Upto
        <3> QED
            BY <1>3, <2>1, <2>2, <2>3
    <2> HIDE DEF Left
    <2> QED
        BY <1>1, <2>4
<1>5. ASSUME NEW i \in 1 .. n, i - 1 \in S PROVE i \in S
    <2>1. Left(i - 1, f[i - 1])
        BY <1>5
    <2>2. CASE i \in K
        <3>1. f[i] = Append(f[i - 1], rows[i])
            BY <1>3, <2>2
        <3>2. \A m \in Upto(i - 1) : m < rows[i]
            BY <1>1, <1>2
        <3>3. Upto(i) = Upto(i - 1) \cup {rows[i]}
            <4>1. \A k : k \in (1 .. i) \cap K <=> k \in (1 .. i - 1) \cap K \/ k = i
                BY <1>1, <2>2
            <4> QED
                BY <4>1
        <3> HIDE DEF Upto
        <3>4. Left(i, Append(f[i - 1], rows[i]))
            BY <1>1, <2>1, <3>2, <3>3, AppendAscends
        <3> HIDE DEF Left
        <3>5. Left(i, f[i])
            BY <3>1, <3>4, Zenon
        <3>6. i \in 0 .. n
            BY <1>1
        <3> QED
            BY <3>5, <3>6
    <2>3. CASE i \notin K
        <3>1. f[i] = f[i - 1]
            BY <1>3, <2>3
        <3>2. Upto(i) = Upto(i - 1)
            <4>1. \A k : k \in (1 .. i) \cap K <=> k \in (1 .. i - 1) \cap K
                BY <1>1, <2>3
            <4> QED
                BY <4>1
        <3> HIDE DEF Upto
        <3> QED
            BY <1>1, <2>1, <3>1, <3>2
    <2> QED
        BY <2>2, <2>3
<1>6. \A i \in 0 .. n : i \in S
    <2> HIDE DEF S
    <2> QED
        BY <1>1, <1>4, <1>5, GoesOn
<1>7. Left(n, f[n])
    BY <1>1, <1>6
<1> QED
    BY <1>3, <1>7 DEF n

(* Where a text occurs in another, character by character.                     *)
LEMMA OccursIs ==
    ASSUME NEW a \in Seq(Characters), NEW s \in Seq(Characters)
    PROVE  Occurs(a, s) <=> \E i \in 0 .. Len(s) : /\ i + Len(a) <= Len(s)
                                                   /\ \A k \in 1 .. Len(a) : s[i + k] = a[k]
<1>1. Len(a) \in Nat /\ Len(s) \in Nat
    OBVIOUS
<1> SUFFICES ASSUME NEW i \in 0 .. Len(s), i + Len(a) <= Len(s)
             PROVE  SubSeq(s, i + 1, i + Len(a)) = a <=> \A k \in 1 .. Len(a) : s[i + k] = a[k]
    BY Zenon DEF Occurs
<1> DEFINE b == SubSeq(s, i + 1, i + Len(a))
<1>2. \A k \in i + 1 .. i + Len(a) : s[k] \in Characters
    BY <1>1
<1>3. /\ b \in Seq(Characters) /\ Len(b) = Len(a)
      /\ \A k \in 1 .. Len(a) : b[k] = s[i + k]
    OBVIOUS
<1> HIDE DEF b
<1>4. (\A k \in 1 .. Len(a) : b[k] = a[k]) => b = a
    BY <1>3, SeqEqual
<1> QED
    BY <1>3, <1>4 DEF b

(* The beginning of what occurs in a text occurs in it as well.                *)
LEMMA BeginningOccurs ==
    ASSUME NEW a \in Seq(Characters), NEW b \in Seq(Characters), NEW s \in Seq(Characters),
           Len(a) <= Len(b), \A k \in 1 .. Len(a) : a[k] = b[k], Occurs(b, s)
    PROVE  Occurs(a, s)
<1>1. Len(a) \in Nat /\ Len(b) \in Nat /\ Len(s) \in Nat
    OBVIOUS
<1>2. PICK i \in 0 .. Len(s) : i + Len(b) <= Len(s) /\ \A k \in 1 .. Len(b) : s[i + k] = b[k]
    BY OccursIs
<1>3. i + Len(a) <= Len(s) /\ \A k \in 1 .. Len(a) : s[i + k] = a[k]
    BY <1>1, <1>2
<1> QED
    BY <1>3, OccursIs

(* The places before and after the words of a text.                            *)
Spot(t, i) == i \in {0, Len(t) + 1} \/ t[i] = Space

Spans(t, i, j) ==
    /\ i \in 0 .. Len(t) /\ j \in 1 .. Len(t) + 1 /\ i < j /\ Spot(t, i) /\ Spot(t, j)
    /\ \A k \in i + 1 .. j - 1 : ~Spot(t, k)

WordAt(t, i, j) == SubSeq(t, i + 1, j - 1)

IsPart(w, t, i, n) ==
    /\ w \in Seq(Characters) /\ Len(w) = n
    /\ \A k \in 1 .. n : w[k] = t[i + k]

LEMMA WordsAre ==
    ASSUME NEW t, Len(t) \in Nat
    PROVE  /\ \A w \in Words(t) : \E i, j : Spans(t, i, j) /\ w = WordAt(t, i, j)
           /\ \A i, j : Spans(t, i, j) => WordAt(t, i, j) \in Words(t)
<1> DEFINE P == {p \in (0 .. Len(t)) \X (1 .. Len(t) + 1) :
                    /\ p[1] < p[2] /\ Spot(t, p[1]) /\ Spot(t, p[2])
                    /\ \A k \in p[1] + 1 .. p[2] - 1 : ~Spot(t, k)}
<1>1. Words(t) = {WordAt(t, p[1], p[2]) : p \in P}
    BY Zenon DEF Words, Spot, WordAt
<1>2. ASSUME NEW p \in P PROVE Spans(t, p[1], p[2])
    BY DEF Spans
<1>3. ASSUME NEW i, NEW j, Spans(t, i, j) PROVE <<i, j>> \in P
    BY <1>3 DEF Spans
<1> HIDE DEF P
<1>4. ASSUME NEW w \in Words(t) PROVE \E i, j : Spans(t, i, j) /\ w = WordAt(t, i, j)
    <2>1. PICK p \in P : w = WordAt(t, p[1], p[2])
        BY <1>1
    <2> QED
        BY <1>2, <2>1
<1>5. ASSUME NEW i, NEW j, Spans(t, i, j) PROVE WordAt(t, i, j) \in Words(t)
    <2>1. <<i, j>> \in P
        BY <1>3, <1>5
    <2>2. WordAt(t, <<i, j>>[1], <<i, j>>[2]) \in Words(t)
        BY <1>1, <2>1
    <2> QED
        BY <2>2
<1> QED
    BY <1>4, <1>5

(* A word of a text is a sequence of its characters.                            *)
LEMMA WordIs ==
    ASSUME NEW t \in Seq(Characters), NEW i, NEW j, Spans(t, i, j)
    PROVE  IsPart(WordAt(t, i, j), t, i, j - 1 - i)
<1> DEFINE w == SubSeq(t, i + 1, j - 1)
<1>1. Len(t) \in Nat /\ i \in 0 .. Len(t) /\ j \in 1 .. Len(t) + 1 /\ i < j
    BY DEF Spans
<1>2. \A k \in i + 1 .. j - 1 : t[k] \in Characters
    BY <1>1
<1>3. /\ w \in Seq(Characters)
      /\ Len(w) = IF i + 1 <= j - 1 THEN (j - 1) - (i + 1) + 1 ELSE 0
      /\ \A k \in 1 .. Len(w) : w[k] = t[i + 1 + k - 1]
    BY <1>1, <1>2, SubSeqProperties
<1> HIDE DEF w
<1>4. Len(w) = j - 1 - i
    BY <1>1, <1>3
<1>5. \A k \in 1 .. Len(w) : i + 1 + k - 1 = i + k
    BY <1>1, <1>4
<1> QED
    BY <1>3, <1>4, <1>5 DEF w, IsPart, WordAt

(* A longer search restricts at least as much: each word of its beginning is     *)
(* the beginning of one of its words.                                          *)
LEMMA LongerRestricts ==
    ASSUME NEW p \in Seq(Characters), NEW t \in Seq(Characters), IsPrefixOf(p, t),
           NEW r \in 1 .. Len(Data), MatchesRow(t, r)
    PROVE  MatchesRow(p, r)
<1>1. Len(p) \in Nat /\ Len(t) \in Nat /\ Len(p) <= Len(t) /\ \A k \in 1 .. Len(p) : p[k] = t[k]
    <2>1. Len(p) \in Nat /\ Len(t) \in Nat /\ Len(p) <= Len(t) /\ SubSeq(t, 1, Len(p)) = p
        BY DEF IsPrefixOf
    <2>2. \A k \in 1 .. Len(p) : SubSeq(t, 1, Len(p))[k] = t[k]
        BY <2>1
    <2> QED
        BY <2>1, <2>2
<1>2. ASSUME NEW w \in Words(p) PROVE \E c \in Columns : Occurs(w, Data[r][c])
    <2>1. PICK i, j : Spans(p, i, j) /\ w = WordAt(p, i, j)
        BY <1>1, WordsAre
    <2>2. /\ w \in Seq(Characters) /\ Len(w) = j - 1 - i
          /\ \A k \in 1 .. j - 1 - i : w[k] = p[i + k]
        BY <2>1, WordIs DEF IsPart
    <2>3. /\ i \in 0 .. Len(p) /\ j \in 1 .. Len(p) + 1 /\ i < j
          /\ Spot(p, i) /\ \A k \in i + 1 .. j - 1 : ~Spot(p, k)
        BY <2>1 DEF Spans
    <2>4. Spot(t, i) /\ \A k \in i + 1 .. j - 1 : ~Spot(t, k)
        BY <1>1, <2>3 DEF Spot
    <2> DEFINE Ends == {e \in i + 1 .. Len(t) + 1 : Spot(t, e)}
    <2>5. PICK e \in Ends : \A d \in Ends : e <= d
        <3>1. Ends \subseteq Nat /\ Ends # {}
            <4>1. Len(t) + 1 \in Ends
                BY <1>1, <2>3 DEF Spot
            <4>2. ASSUME NEW d \in i + 1 .. Len(t) + 1 PROVE d \in Nat
                BY <1>1, <2>3
            <4> QED
                BY <4>1, <4>2
        <3> HIDE DEF Ends
        <3> QED
            BY <3>1, LeastExists
    <2>6. j <= e /\ e \in i + 1 .. Len(t) + 1 /\ Spot(t, e) /\ \A k \in i + 1 .. e - 1 : ~Spot(t, k)
        BY <1>1, <2>3, <2>4, <2>5
    <2>7. Spans(t, i, e)
        BY <1>1, <2>3, <2>4, <2>6 DEF Spans
    <2> DEFINE v == WordAt(t, i, e)
    <2>8. /\ v \in Words(t) /\ v \in Seq(Characters) /\ Len(v) = e - 1 - i
          /\ \A k \in 1 .. e - 1 - i : v[k] = t[i + k]
        <3>1. v \in Words(t)
            BY <1>1, <2>7, WordsAre
        <3>2. /\ v \in Seq(Characters) /\ Len(v) = e - 1 - i
              /\ \A k \in 1 .. e - 1 - i : v[k] = t[i + k]
            BY <2>7, WordIs DEF IsPart
        <3> HIDE DEF v
        <3> QED
            BY <3>1, <3>2
    <2> HIDE DEF v
    <2>9. PICK c \in Columns : Occurs(v, Data[r][c])
        BY <2>8 DEF MatchesRow
    <2>10. Data[r][c] \in Seq(Characters)
        BY TableAssumption
    <2>11. Len(w) <= Len(v) /\ \A k \in 1 .. Len(w) : w[k] = v[k]
        <3>1. Len(w) <= Len(v)
            BY <1>1, <2>2, <2>3, <2>6, <2>8
        <3>2. ASSUME NEW k \in 1 .. Len(w) PROVE w[k] = v[k]
            <4>1. k \in 1 .. j - 1 - i /\ k \in 1 .. e - 1 - i /\ i + k \in 1 .. Len(p)
                <5>1. Len(w) = j - 1 - i /\ j <= e /\ i \in Nat /\ j \in Nat /\ e \in Nat /\ j - 1 <= Len(p)
                    BY <1>1, <2>2, <2>3, <2>6
                <5> QED
                    BY <1>1, <5>1
            <4>2. w[k] = p[i + k] /\ v[k] = t[i + k]
                BY <2>2, <2>8, <4>1
            <4> QED
                BY <1>1, <4>1, <4>2
        <3> QED
            BY <3>1, <3>2
    <2>12. Occurs(w, Data[r][c])
        BY <2>2, <2>8, <2>9, <2>10, <2>11, BeginningOccurs
    <2> QED
        BY <2>12
<1> QED
    BY <1>2 DEF MatchesRow

(* A search for nothing restricts nothing.                                      *)
LEMMA NothingRestricts ==
    ASSUME NEW r \in 1 .. Len(Data)
    PROVE  /\ \A c \in Columns : MatchesColumn(<<>>, r, c)
           /\ MatchesRow(<<>>, r)
<1>1. \A s \in Seq(Characters) : Occurs(<<>>, s)
    <2> SUFFICES ASSUME NEW s \in Seq(Characters) PROVE Occurs(<<>>, s)
        OBVIOUS
    <2>1. Len(s) \in Nat /\ 0 \in 0 .. Len(s) /\ Len(<<>>) = 0 /\ <<>> \in Seq(Characters)
        OBVIOUS
    <2>2. \E i \in 0 .. Len(s) : /\ i + Len(<<>>) <= Len(s)
                                 /\ \A k \in 1 .. Len(<<>>) : s[i + k] = <<>>[k]
        BY <2>1
    <2> QED
        BY <2>1, <2>2, OccursIs, Zenon
<1>2. \A c \in Columns : Data[r][c] \in Seq(Characters)
    BY TableAssumption
<1>3. \A w \in Words(<<>>) : w = <<>>
    <2> SUFFICES ASSUME NEW w \in Words(<<>>) PROVE w = <<>>
        OBVIOUS
    <2>1. Len(<<>>) = 0 /\ <<>> \in Seq(Characters)
        OBVIOUS
    <2>2. PICK i, j : Spans(<<>>, i, j) /\ w = WordAt(<<>>, i, j)
        BY <2>1, WordsAre
    <2>3. i = 0 /\ j = 1
        BY <2>1, <2>2 DEF Spans
    <2>4. w \in Seq(Characters) /\ Len(w) = 0
        <3>1. IsPart(WordAt(<<>>, i, j), <<>>, i, j - 1 - i)
            BY <2>1, <2>2, WordIs
        <3> QED
            BY <2>2, <2>3, <3>1 DEF IsPart
    <2> QED
        BY <2>4, EmptySeq
<1> QED
    BY <1>1, <1>2, <1>3, TableAssumption DEF MatchesColumn, MatchesRow

-----------------------------------------------------------------------------
(* The rows that are displayed are those that match the searches that were     *)
(* done, and the texts kept for the next one are theirs, unless all match. The  *)
(* searches are the texts of the boxes in which a key was released since.      *)

SearchOf(b) == IF b = All THEN sPreviousSearch ELSE aoPreSearchCols[b]

ShownIn(b) == IF value[b] = Prompt THEN <<>> ELSE value[b]

Rows == 1 .. Len(Data)

MatchAll(t, cols) ==
    {r \in Rows : MatchesRow(t, r) /\ \A c \in Columns : MatchesColumn(cols[c], r, c)}

TableTyped ==
    /\ sPreviousSearch \in BoxTexts /\ aoPreSearchCols \in [Columns -> BoxTexts]
    /\ value \in [Boxes -> BoxTexts \cup {Prompt}] /\ value[All] # Prompt
    /\ focus \in Boxes \cup {NoBox}
    /\ focus \in Columns => value[focus] # Prompt

TableRows ==
    /\ aiDisplay \in Seq(Nat) /\ Ascending(aiDisplay)
    /\ Members(aiDisplay) = MatchAll(sPreviousSearch, aoPreSearchCols)
    /\ tbody = aiDisplay
    /\ Len(aiDisplay) # Len(aiDisplayMaster) => asDataSearch = aiDisplay

TableSearches == \A b \in Boxes \ boxUnheard : SearchOf(b) = ShownIn(b)

TableInv == TableTyped /\ TableRows /\ TableSearches

LEMMA MasterIs ==
    /\ Len(Data) \in Nat
    /\ aiDisplayMaster \in Seq(Nat) /\ Len(aiDisplayMaster) = Len(Data)
    /\ \A i \in Rows : aiDisplayMaster[i] = i
    /\ Ascending(aiDisplayMaster) /\ Members(aiDisplayMaster) = Rows
<1>1. Len(Data) \in Nat
    BY TableAssumption
<1>2. /\ aiDisplayMaster \in Seq(Nat) /\ Len(aiDisplayMaster) = Len(Data)
      /\ \A i \in Rows : aiDisplayMaster[i] = i
    BY <1>1 DEF aiDisplayMaster, Rows
<1>3. Ascending(aiDisplayMaster) /\ Members(aiDisplayMaster) = Rows
    BY <1>1, <1>2 DEF Ascending, Members, Rows
<1> QED
    BY <1>1, <1>2, <1>3

(* Filter gives the rows that match the text, of all rows or, when it narrows   *)
(* the last search, of those displayed.                                        *)
LEMMA FilterIs ==
    ASSUME TableTyped, TableRows, NEW t \in BoxTexts, NEW force \in BOOLEAN
    PROVE  /\ Filter(t, force) \in Seq(Nat) /\ Ascending(Filter(t, force))
           /\ \/ Members(Filter(t, force)) = {r \in Rows : MatchesRow(t, r)}
              \/ /\ ~force
                 /\ Members(Filter(t, force)) =
                       {r \in Rows : /\ MatchesRow(t, r)
                                     /\ \A c \in Columns : MatchesColumn(aoPreSearchCols[c], r, c)}
<1>1. CASE t = <<>>
    <2>1. Filter(t, force) = aiDisplayMaster
        BY <1>1 DEF Filter
    <2>2. Rows = {r \in Rows : MatchesRow(t, r)}
        BY <1>1, NothingRestricts DEF Rows
    <2> QED
        BY <2>1, <2>2, MasterIs
<1>2. CASE t # <<>> /\ Narrows(t, force)
    <2> DEFINE K == {i \in 1 .. Len(aiDisplay) : i \in 1 .. Len(asDataSearch) => MatchesRow(t, asDataSearch[i])}
               rest == KeptRows(aiDisplay, K)
    <2>1. Filter(t, force) = rest
        BY <1>2, Zenon DEF Filter, Narrowed
    <2>2. ~force /\ asDataSearch = aiDisplay /\ IsPrefixOf(sPreviousSearch, t)
        BY <1>2 DEF Narrows, TableRows
    <2>3. aiDisplay \in Seq(Nat) /\ Ascending(aiDisplay)
        BY DEF TableRows
    <2>4. \A i \in 1 .. Len(aiDisplay) : i \in K <=> MatchesRow(t, aiDisplay[i])
        BY <2>2
    <2> HIDE DEF K
    <2>5. /\ rest \in Seq(Nat) /\ Ascending(rest)
          /\ Members(rest) = {aiDisplay[i] : i \in (1 .. Len(aiDisplay)) \cap K}
        BY <2>3, KeptAscends
    <2> HIDE DEF rest
    <2>6. Members(rest) = {r \in Members(aiDisplay) : MatchesRow(t, r)}
        BY <2>4, <2>5 DEF Members
    <2>7. \A r \in Rows : MatchesRow(t, r) => MatchesRow(sPreviousSearch, r)
        BY <2>2, LongerRestricts, TableAssumption DEF TableTyped, Rows
    <2>8. Members(aiDisplay) = MatchAll(sPreviousSearch, aoPreSearchCols)
        BY DEF TableRows
    <2>9. Members(rest) = {r \in Rows : /\ MatchesRow(t, r)
                                        /\ \A c \in Columns : MatchesColumn(aoPreSearchCols[c], r, c)}
        BY <2>6, <2>7, <2>8 DEF MatchAll
    <2> QED
        BY <2>1, <2>2, <2>5, <2>9
<1>3. CASE t # <<>> /\ ~Narrows(t, force)
    <2> DEFINE K == {i \in 1 .. Len(Data) : MatchesRow(t, aiDisplayMaster[i])}
               rest == KeptRows(aiDisplayMaster, K)
    <2>1. Filter(t, force) = rest
        BY <1>3, Zenon DEF Filter
    <2>2. K = {r \in Rows : MatchesRow(t, r)}
        BY MasterIs DEF Rows
    <2> HIDE DEF K
    <2>3. /\ rest \in Seq(Nat) /\ Ascending(rest)
          /\ Members(rest) = {aiDisplayMaster[i] : i \in (1 .. Len(aiDisplayMaster)) \cap K}
        BY MasterIs, KeptAscends
    <2>4. {aiDisplayMaster[i] : i \in (1 .. Len(aiDisplayMaster)) \cap K} = K
        BY <2>2, MasterIs DEF Rows
    <2> HIDE DEF rest
    <2> QED
        BY <2>1, <2>2, <2>3, <2>4
<1> QED
    BY <1>1, <1>2, <1>3

LEMMA ColumnsFiltered ==
    ASSUME NEW rows \in Seq(Nat), Ascending(rows), Members(rows) \subseteq Rows,
           NEW cols \in [Columns -> BoxTexts]
    PROVE  /\ FilterColumns(rows, cols) \in Seq(Nat) /\ Ascending(FilterColumns(rows, cols))
           /\ Members(FilterColumns(rows, cols)) =
                 {r \in Members(rows) : \A c \in Columns : MatchesColumn(cols[c], r, c)}
<1> DEFINE K == {i \in 1 .. Len(rows) :
                    \A c \in Columns : cols[c] # <<>> => MatchesColumn(cols[c], rows[i], c)}
           rest == KeptRows(rows, K)
<1>1. FilterColumns(rows, cols) = rest
    BY Zenon DEF FilterColumns
<1>2. \A i \in 1 .. Len(rows) : rows[i] \in Rows
    BY DEF Members
<1>3. \A i \in 1 .. Len(rows) : i \in K <=> \A c \in Columns : MatchesColumn(cols[c], rows[i], c)
    <2>1. \A r \in Rows : \A c \in Columns : MatchesColumn(<<>>, r, c)
        BY NothingRestricts DEF Rows
    <2> QED
        BY <1>2, <2>1
<1> HIDE DEF K
<1>4. /\ rest \in Seq(Nat) /\ Ascending(rest)
      /\ Members(rest) = {rows[i] : i \in (1 .. Len(rows)) \cap K}
    BY KeptAscends
<1> HIDE DEF rest
<1>5. Members(rest) = {r \in Members(rows) : \A c \in Columns : MatchesColumn(cols[c], r, c)}
    BY <1>3, <1>4 DEF Members
<1> QED
    BY <1>1, <1>4, <1>5

(* A search is done: of whole rows, for another text, or of the columns, each    *)
(* for its own.                                                               *)
LEMMA SearchIsDone ==
    ASSUME TableTyped, TableRows, NEW t \in BoxTexts, NEW cols \in [Columns -> BoxTexts],
           NEW force \in BOOLEAN, ~force => cols = aoPreSearchCols, FilterComplete(t, cols, force)
    PROVE  TableRows'
<1> DEFINE rows == Filter(t, force)
           rest == FilterColumns(rows, cols)
<1>1. /\ aiDisplay' = rest /\ tbody' = rest /\ asDataSearch' = rest
      /\ sPreviousSearch' = t /\ aoPreSearchCols' = cols
    BY Zenon DEF FilterComplete
<1>2. /\ rows \in Seq(Nat) /\ Ascending(rows)
      /\ \/ Members(rows) = {r \in Rows : MatchesRow(t, r)}
         \/ /\ cols = aoPreSearchCols
            /\ Members(rows) = {r \in Rows : /\ MatchesRow(t, r)
                                             /\ \A c \in Columns : MatchesColumn(aoPreSearchCols[c], r, c)}
    <2> HIDE DEF rows
    <2>1. /\ Filter(t, force) \in Seq(Nat) /\ Ascending(Filter(t, force))
          /\ \/ Members(Filter(t, force)) = {r \in Rows : MatchesRow(t, r)}
             \/ /\ ~force
                /\ Members(Filter(t, force)) =
                      {r \in Rows : /\ MatchesRow(t, r)
                                    /\ \A c \in Columns : MatchesColumn(aoPreSearchCols[c], r, c)}
        BY FilterIs
    <2> QED
        BY <2>1 DEF rows
<1> HIDE DEF rows
<1>3. /\ rest \in Seq(Nat) /\ Ascending(rest)
      /\ Members(rest) = {r \in Members(rows) : \A c \in Columns : MatchesColumn(cols[c], r, c)}
    BY <1>2, ColumnsFiltered
<1> HIDE DEF rest
<1>4. Members(rest) = MatchAll(t, cols)
    <2>1. CASE Members(rows) = {r \in Rows : MatchesRow(t, r)}
        BY <1>3, <2>1 DEF MatchAll
    <2>2. CASE /\ cols = aoPreSearchCols
               /\ Members(rows) = {r \in Rows : /\ MatchesRow(t, r)
                                                /\ \A c \in Columns : MatchesColumn(aoPreSearchCols[c], r, c)}
        BY <1>3, <2>2 DEF MatchAll
    <2> QED
        BY <1>2, <2>1, <2>2
<1>5. /\ Members(aiDisplay)' = Members(rest)
      /\ MatchAll(sPreviousSearch, aoPreSearchCols)' = MatchAll(t, cols)
      /\ Ascending(aiDisplay)' <=> Ascending(rest)
    BY <1>1 DEF MatchAll, Members, Ascending, MatchesRow, MatchesColumn, Rows
<1> QED
    BY <1>1, <1>3, <1>4, <1>5 DEF TableRows

LEMMA MoveKeeps == ASSUME TableInv, NEW to \in Boxes \cup {NoBox}, MoveFocus(to) PROVE TableInv'
<1>1. /\ focus' = to /\ focus # to
      /\ \A b \in Boxes : value'[b] = IF b = focus THEN Blurred(b)
                                      ELSE IF b = to THEN Focused(b) ELSE value[b]
      /\ DOMAIN value' = Boxes
    BY DEF MoveFocus
<1>2. /\ UNCHANGED <<aiDisplay, asDataSearch, sPreviousSearch, aoPreSearchCols, tbody, boxUnheard>>
    BY DEF MoveFocus
<1>3. <<>> \in BoxTexts /\ <<>> # Prompt /\ All \notin Columns /\ NoBox \notin Boxes /\ All \in Boxes
    BY TableAssumption DEF Boxes
<1>4. \A b \in Boxes : /\ value[b] \in BoxTexts \cup {Prompt}
                       /\ Blurred(b) \in BoxTexts \cup {Prompt} /\ Focused(b) \in BoxTexts \cup {Prompt}
                       /\ b = All => Blurred(b) = value[b] /\ Focused(b) = value[b]
    BY <1>3 DEF TableInv, TableTyped, Blurred, Focused
<1>5. TableTyped'
    <2>1. value' = [b \in Boxes |-> IF b = focus THEN Blurred(b)
                                    ELSE IF b = to THEN Focused(b) ELSE value[b]]
        BY DEF MoveFocus
    <2>2. value' \in [Boxes -> BoxTexts \cup {Prompt}]
        <3> HIDE DEF Blurred, Focused
        <3> QED
            BY <1>4, <2>1
    <2>3. value'[All] # Prompt
        BY <1>1, <1>3, <1>4 DEF TableInv, TableTyped
    <2>4. focus' \in Columns => value'[focus'] # Prompt
        BY <1>1, <1>3 DEF Focused, Boxes
    <2>5. sPreviousSearch \in BoxTexts /\ aoPreSearchCols \in [Columns -> BoxTexts]
        BY DEF TableInv, TableTyped
    <2> QED
        BY <1>1, <1>2, <2>2, <2>3, <2>4, <2>5 DEF TableTyped
<1>6. TableRows'
    BY <1>2 DEF TableInv, TableRows, Ascending, Members, MatchAll, MatchesRow, MatchesColumn, Rows
<1>7. ASSUME NEW b \in Boxes PROVE SearchOf(b)' = SearchOf(b) /\ ShownIn(b)' = ShownIn(b)
    <2>1. SearchOf(b)' = SearchOf(b)
        BY <1>2 DEF SearchOf
    <2>2. value'[b] = value[b] \/ (value'[b] \in {<<>>, Prompt} /\ value[b] \in {<<>>, Prompt})
        BY <1>1 DEF Blurred, Focused
    <2>3. ShownIn(b)' = ShownIn(b)
        BY <1>3, <2>2 DEF ShownIn
    <2> QED
        BY <2>1, <2>3
<1>8. TableSearches'
    BY <1>2, <1>7 DEF TableInv, TableSearches
<1> QED
    BY <1>5, <1>6, <1>8 DEF TableInv

LEMMA EditKeeps == ASSUME TableInv, NEW t \in BoxTexts, EditBox(t) PROVE TableInv'
<1>1. /\ focus # NoBox /\ value' = [value EXCEPT ![focus] = t] /\ boxUnheard' = boxUnheard \cup {focus}
      /\ UNCHANGED <<aiDisplay, asDataSearch, sPreviousSearch, aoPreSearchCols, tbody, focus>>
    BY DEF EditBox
<1>2. focus \in Boxes /\ Prompt \notin BoxTexts
    BY <1>1, TableAssumption DEF TableInv, TableTyped
<1>3. /\ value' \in [Boxes -> BoxTexts \cup {Prompt}] /\ value'[focus] = t
      /\ \A b \in Boxes \ {focus} : value'[b] = value[b]
    BY <1>1, <1>2 DEF TableInv, TableTyped
<1>4. TableTyped'
    <2>1. value'[All] # Prompt
        BY <1>2, <1>3 DEF TableInv, TableTyped, Boxes
    <2> QED
        BY <1>1, <1>2, <1>3, <2>1 DEF TableInv, TableTyped
<1>5. TableRows'
    BY <1>1 DEF TableInv, TableRows
<1>6. TableSearches'
    BY <1>1, <1>3 DEF TableInv, TableSearches, SearchOf, ShownIn
<1> QED
    BY <1>4, <1>5, <1>6 DEF TableInv

LEMMA KeyUpKeeps == ASSUME TableInv, BoxKeyUp PROVE TableInv'
<1>1. /\ focus # NoBox /\ boxUnheard' = boxUnheard \ {focus} /\ UNCHANGED <<value, focus>>
    BY DEF BoxKeyUp
<1>2. focus \in Boxes /\ All \notin Columns /\ TableTyped /\ TableRows
    BY <1>1, TableAssumption DEF TableInv, TableTyped
<1>3. value[focus] \in BoxTexts /\ ShownIn(focus) = value[focus]
    BY <1>2 DEF TableTyped, Boxes, ShownIn
<1>4. CASE focus = All
    <2>1. FilterComplete(value[All], aoPreSearchCols, FALSE)
        BY <1>4 DEF BoxKeyUp
    <2>2. TableRows'
        BY <1>2, <1>3, <1>4, <2>1, SearchIsDone DEF TableTyped
    <2>3. sPreviousSearch' = value[All] /\ aoPreSearchCols' = aoPreSearchCols
        BY <2>1 DEF FilterComplete
    <2>4. TableTyped'
        BY <1>1, <1>2, <1>3, <1>4, <2>3 DEF TableTyped
    <2>5. TableSearches'
        BY <1>1, <1>2, <1>3, <1>4, <2>3 DEF TableInv, TableSearches, SearchOf, ShownIn
    <2> QED
        BY <2>2, <2>4, <2>5 DEF TableInv
<1>5. CASE focus \in Columns
    <2> DEFINE cols == [aoPreSearchCols EXCEPT ![focus] = value[focus]]
    <2>1. FilterComplete(sPreviousSearch, cols, TRUE)
        BY <1>2, <1>5 DEF BoxKeyUp
    <2>2. /\ cols \in [Columns -> BoxTexts] /\ cols[focus] = value[focus]
          /\ \A c \in Columns \ {focus} : cols[c] = aoPreSearchCols[c]
        BY <1>2, <1>3, <1>5 DEF TableTyped
    <2> HIDE DEF cols
    <2>3. TableRows'
        <3>1. sPreviousSearch \in BoxTexts /\ TRUE \in BOOLEAN
            BY <1>2 DEF TableTyped
        <3> QED
            BY <1>2, <2>1, <2>2, <3>1, SearchIsDone
    <2>4. sPreviousSearch' = sPreviousSearch /\ aoPreSearchCols' = cols
        BY <2>1 DEF FilterComplete
    <2>5. TableTyped'
        BY <1>1, <1>2, <2>2, <2>4 DEF TableTyped
    <2>6. TableSearches'
        <3> SUFFICES ASSUME NEW b \in Boxes \ boxUnheard' PROVE SearchOf(b)' = ShownIn(b)'
            BY DEF TableSearches
        <3>1. ShownIn(b)' = ShownIn(b)
            BY <1>1 DEF ShownIn
        <3>2. CASE b = focus
            BY <1>2, <1>3, <1>5, <2>2, <2>4, <3>1, <3>2 DEF SearchOf
        <3>3. CASE b # focus
            <4>1. SearchOf(b) = ShownIn(b)
                BY <1>1, <3>3 DEF TableInv, TableSearches
            <4>2. SearchOf(b)' = SearchOf(b)
                BY <2>2, <2>4, <3>3 DEF SearchOf, Boxes
            <4> QED
                BY <3>1, <4>1, <4>2
        <3> QED
            BY <3>2, <3>3
    <2> QED
        BY <2>3, <2>5, <2>6 DEF TableInv
<1> QED
    BY <1>2, <1>4, <1>5 DEF Boxes

LEMMA TableStart == TableInit => TableInv
<1> SUFFICES ASSUME TableInit PROVE TableInv
    OBVIOUS
<1>1. /\ aiDisplay = aiDisplayMaster /\ tbody = aiDisplayMaster /\ sPreviousSearch = <<>>
      /\ aoPreSearchCols = [c \in Columns |-> <<>>]
      /\ value = [b \in Boxes |-> IF b = All THEN <<>> ELSE Prompt]
      /\ focus = NoBox /\ boxUnheard = {}
    BY DEF TableInit
<1>2. <<>> \in BoxTexts /\ <<>> # Prompt /\ All \notin Columns /\ NoBox \notin Columns
    BY TableAssumption
<1>3. TableTyped
    BY <1>1, <1>2 DEF TableTyped, Boxes
<1>4. TableRows
    <2>1. MatchAll(sPreviousSearch, aoPreSearchCols) = Rows
        BY <1>1, NothingRestricts DEF MatchAll, Rows
    <2> QED
        BY <1>1, <2>1, MasterIs DEF TableRows
<1>5. TableSearches
    BY <1>1, <1>2 DEF TableSearches, SearchOf, ShownIn, Boxes
<1> QED
    BY <1>3, <1>4, <1>5 DEF TableInv

LEMMA TableStep == TableInv /\ [TableNext]_tableVars => TableInv'
<1> SUFFICES ASSUME TableInv, [TableNext]_tableVars PROVE TableInv'
    OBVIOUS
<1>1. ASSUME NEW b \in Boxes \cup {NoBox}, MoveFocus(b) PROVE TableInv'
    BY <1>1, MoveKeeps
<1>2. ASSUME NEW t \in BoxTexts, EditBox(t) PROVE TableInv'
    BY <1>2, EditKeeps
<1>3. CASE BoxKeyUp
    BY <1>3, KeyUpKeeps
<1>4. CASE UNCHANGED tableVars
    <2>1. /\ sPreviousSearch' = sPreviousSearch /\ aoPreSearchCols' = aoPreSearchCols
          /\ value' = value /\ focus' = focus /\ aiDisplay' = aiDisplay /\ tbody' = tbody
          /\ asDataSearch' = asDataSearch /\ boxUnheard' = boxUnheard
        BY <1>4 DEF tableVars
    <2>2. TableTyped'
        BY <2>1 DEF TableInv, TableTyped
    <2>3. TableRows'
        BY <2>1 DEF TableInv, TableRows
    <2>4. TableSearches'
        BY <2>1 DEF TableInv, TableSearches, SearchOf, ShownIn
    <2> QED
        BY <2>2, <2>3, <2>4 DEF TableInv
<1> QED
    BY <1>1, <1>2, <1>3, <1>4 DEF TableNext

THEOREM TableShows == TableSpec => []ShowsWhatIsSearched
<1>1. TableInv => ShowsWhatIsSearched
    <2> SUFFICES ASSUME TableInv PROVE ShowsWhatIsSearched
        OBVIOUS
    <2> DEFINE searched(b) == IF b \notin boxUnheard THEN ShownIn(b) ELSE SearchOf(b)
               test(r) == MatchesRow(searched(All), r) /\ \A c \in Columns : MatchesColumn(searched(c), r, c)
    <2>1. \A b \in Boxes : searched(b) = SearchOf(b)
        BY DEF TableInv, TableSearches
    <2>2. \A r : test(r) <=> /\ MatchesRow(sPreviousSearch, r)
                             /\ \A c \in Columns : MatchesColumn(aoPreSearchCols[c], r, c)
        <3>1. searched(All) = sPreviousSearch /\ \A c \in Columns : searched(c) = aoPreSearchCols[c]
            <4> HIDE DEF searched
            <4> QED
                BY <2>1, TableAssumption DEF SearchOf, Boxes
        <3> HIDE DEF searched
        <3> QED
            BY <3>1
    <2>3. tbody \in Seq(Nat) /\ Ascending(tbody) /\ Members(tbody) = MatchAll(sPreviousSearch, aoPreSearchCols)
        BY DEF TableInv, TableRows
    <2>4. DOMAIN tbody = 1 .. Len(tbody)
        BY <2>3
    <2> HIDE DEF test
    <2>5. /\ {tbody[i] : i \in DOMAIN tbody} = {r \in 1 .. Len(Data) : test(r)}
          /\ \A i, j \in DOMAIN tbody : i < j => tbody[i] < tbody[j]
        BY <2>2, <2>3, <2>4 DEF Members, MatchAll, Rows, Ascending
    <2> QED
        BY <2>5, Zenon DEF ShowsWhatIsSearched, test, ShownIn, SearchOf
<1> QED
    BY <1>1, TableStart, TableStep, PTL DEF TableSpec

-----------------------------------------------------------------------------
(* ready.  The functions that wait are given by scripts, each once; before the    *)
(* document is ready they are all that was given and none has run, and what a     *)
(* function gave was given because that function ran.                          *)

Waiting == {readyList[i] : i \in 1 .. Len(readyList)}

ReadyTyped ==
    /\ isReady \in BOOLEAN /\ readyList \in Seq(Outer) /\ given \subseteq ReadyFns
    /\ ran \in [ReadyFns -> Nat]

ReadyInv ==
    /\ ReadyTyped
    /\ \A i, j \in 1 .. Len(readyList) : readyList[i] = readyList[j] => i = j
    /\ ~isReady => given = Waiting /\ \A f \in ReadyFns : ran[f] = 0
    /\ \A f \in ReadyFns : ran[f] <= 1 /\ (f \notin given => ran[f] = 0)
    /\ \A p \in Nests : p[2] \in given => p[1] \in given
    /\ (isReady /\ \A f \in Throwing : ran[f] = 0) => \A f \in given : ran[f] = 1

LEMMA CallsOfIs ==
    ASSUME NEW list, Len(list) \in Nat
    PROVE  LET n == CallsOf(list)
           IN  n \in 0 .. Len(list) /\ (n < Len(list) => n > 0 /\ Throws(list, n))
<1> DEFINE k == Len(list)
           Ends == {i \in 1 .. k : Throws(list, i)} \cup {k}
           Holds(n) == /\ \A i \in 1 .. n : Throws(list, i) => i = n
                       /\ n < k => n > 0 /\ Throws(list, n)
<1>1. k \in Nat
    OBVIOUS
<1>2. PICK m \in Ends : \A y \in Ends : m <= y
    <2>1. Ends \subseteq Nat /\ Ends # {}
        BY <1>1
    <2> HIDE DEF Ends
    <2> QED
        BY <2>1, LeastExists
<1>3. m \in 0 .. k /\ Holds(m)
    <2>1. m \in 0 .. k /\ (m < k => m > 0 /\ Throws(list, m))
        BY <1>1, <1>2
    <2>2. ASSUME NEW i \in 1 .. m, Throws(list, i) PROVE i = m
        <3>1. i \in Ends
            BY <1>1, <2>1, <2>2
        <3>2. m <= i
            BY <1>2, <3>1
        <3> QED
            BY <2>1, <3>2
    <2> QED
        BY <2>1, <2>2
<1>4. CallsOf(list) = CHOOSE n \in 0 .. k : Holds(n)
    BY Zenon DEF CallsOf
<1> HIDE DEF Holds, k
<1>5. CallsOf(list) \in 0 .. k /\ Holds(CallsOf(list))
    BY <1>3, <1>4
<1> QED
    BY <1>5 DEF Holds, k

(* A function is called once at most: by jQuery when a script gave it, or by the   *)
(* one function that gives it.                                                 *)
LEMMA CallsToIs ==
    ASSUME NEW list \in Seq(Outer), \A i, j \in 1 .. Len(list) : list[i] = list[j] => i = j,
           NEW n \in 0 .. Len(list), NEW f
    PROVE  CallsTo(f, list, n, TRUE) =
              IF f \in UNION {{list[i]} \cup Inner(list[i]) : i \in 1 .. n} THEN 1 ELSE 0
<1> DEFINE S == {i \in 1 .. n : list[i] = f \/ f \in Inner(list[i])}
           called == UNION {{list[i]} \cup Inner(list[i]) : i \in 1 .. n}
<1>1. CallsTo(f, list, n, TRUE) = Cardinality(S)
    BY DEF CallsTo
<1>2. \A i \in 1 .. n : i \in 1 .. Len(list) /\ list[i] \in Outer
    OBVIOUS
<1>3. ASSUME NEW i \in S, NEW j \in S PROVE i = j
    <2>1. CASE list[i] = f
        <3>1. f \notin Inner(list[j])
            BY <1>2, <2>1 DEF Outer, Inner
        <3> QED
            BY <1>2, <2>1, <3>1
    <2>2. CASE f \in Inner(list[i])
        <3>1. PICK p \in Nests : p[1] = list[i] /\ p[2] = f
            BY <2>2 DEF Inner
        <3>2. list[j] # f
            BY <1>2, <3>1 DEF Outer
        <3>3. PICK q \in Nests : q[1] = list[j] /\ q[2] = f
            BY <3>2 DEF Inner
        <3>4. p = q
            BY <3>1, <3>3, ReadyAssumption
        <3> QED
            BY <1>2, <3>1, <3>3, <3>4
    <2> QED
        BY <2>1, <2>2
<1>4. f \in called <=> S # {}
    OBVIOUS
<1> HIDE DEF called
<1>5. CASE S = {}
    BY <1>1, <1>4, <1>5, FS_EmptySet DEF called
<1>6. CASE S # {}
    <2>1. PICK i : i \in S
        BY <1>6
    <2>2. S = {i}
        BY <1>3, <2>1
    <2> HIDE DEF S
    <2>3. Cardinality(S) = 1
        BY <2>2, FS_Singleton
    <2> QED
        BY <1>1, <1>4, <1>6, <2>3 DEF called
<1> QED
    BY <1>5, <1>6

(* The functions of a list are called, of which none has run, nor any they give.   *)
LEMMA ListIsCalled ==
    ASSUME ReadyInv, NEW list \in Seq(Outer), \A i, j \in 1 .. Len(list) : list[i] = list[j] => i = j,
           \A i \in 1 .. Len(list) : ran[list[i]] = 0 /\ \A g \in Inner(list[i]) : ran[g] = 0,
           CallList(list, TRUE)
    PROVE  \E n \in 0 .. Len(list) :
             LET called == UNION {{list[i]} \cup Inner(list[i]) : i \in 1 .. n} IN
             /\ called \subseteq ReadyFns /\ given' = given \cup called
             /\ ran' = [f \in ReadyFns |-> IF f \in called THEN 1 ELSE ran[f]]
             /\ n < Len(list) => \E f \in Throwing : f \in called
             /\ \A p \in Nests : p[2] \in called => p[1] \in called
<1> DEFINE n == CallsOf(list)
           called == UNION {{list[i]} \cup Inner(list[i]) : i \in 1 .. n}
<1>1. n \in 0 .. Len(list) /\ (n < Len(list) => n > 0 /\ Throws(list, n))
    <2>1. Len(list) \in Nat
        OBVIOUS
    <2> QED
        BY <2>1, CallsOfIs
<1>2. /\ given' = given \cup called
      /\ ran' = [f \in ReadyFns |-> ran[f] + CallsTo(f, list, n, TRUE)]
    BY Zenon DEF CallList
<1> HIDE DEF n
<1>3. \A i \in 1 .. n : i \in 1 .. Len(list) /\ list[i] \in Outer
    BY <1>1
<1>4. called \subseteq ReadyFns
    BY <1>3, ReadyAssumption DEF Outer, Inner
<1>5. \A f \in called : ran[f] = 0
    BY <1>3
<1>6. n < Len(list) => \E f \in Throwing : f \in called
    BY <1>1 DEF Throws
<1>7. ASSUME NEW p \in Nests, p[2] \in called PROVE p[1] \in called
    <2>1. PICK i \in 1 .. n : p[2] = list[i] \/ p[2] \in Inner(list[i])
        BY <1>7
    <2>2. p[2] # list[i]
        BY <1>3 DEF Outer
    <2>3. PICK q \in Nests : q[1] = list[i] /\ q[2] = p[2]
        BY <2>1, <2>2 DEF Inner
    <2>4. p[1] = list[i]
        BY <2>3, ReadyAssumption
    <2> QED
        BY <2>4
<1> DEFINE calls(f) == CallsTo(f, list, n, TRUE)
<1>8. \A f \in ReadyFns : calls(f) = IF f \in called THEN 1 ELSE 0
    BY <1>1, CallsToIs
<1> HIDE DEF called, calls
<1>9. \A f \in ReadyFns : ran[f] \in Nat
    BY DEF ReadyInv, ReadyTyped
<1>10. ran' = [f \in ReadyFns |-> IF f \in called THEN 1 ELSE ran[f]]
    <2> DEFINE one(f) == IF f \in called THEN 1 ELSE ran[f]
               sum(f) == ran[f] + calls(f)
    <2>1. ASSUME NEW f \in ReadyFns PROVE sum(f) = one(f)
        <3>1. CASE f \in called
            <4>1. ran[f] = 0 /\ calls(f) = 1
                BY <1>5, <1>8, <3>1
            <4> QED
                BY <3>1, <4>1
        <3>2. CASE f \notin called
            <4>1. ran[f] \in Nat /\ calls(f) = 0
                BY <1>8, <1>9, <3>2
            <4> QED
                BY <3>2, <4>1
        <3> QED
            BY <3>1, <3>2
    <2>2. ran' = [f \in ReadyFns |-> sum(f)]
        BY <1>2, Zenon DEF calls
    <2> HIDE DEF one, sum
    <2>3. ran' = [f \in ReadyFns |-> one(f)]
        BY <2>1, <2>2
    <2> QED
        BY <2>3, Zenon DEF one
<1> QED
    BY <1>1, <1>2, <1>4, <1>6, <1>7, <1>10 DEF called

LEMMA ReportKeeps == ASSUME ReadyInv, NEW e, Report(e) PROVE ReadyInv'
<1>1. CASE e \in readyBound /\ ~isReady
    <2>1. /\ isReady' = TRUE /\ CallList(readyList, TRUE)
          /\ readyList' = IF Threw(readyList) THEN readyList ELSE <<>>
        BY <1>1 DEF Report, RunAll
    <2>2. /\ readyList \in Seq(Outer) /\ given = Waiting /\ given \subseteq ReadyFns
          /\ \A i, j \in 1 .. Len(readyList) : readyList[i] = readyList[j] => i = j
          /\ \A f \in ReadyFns : ran[f] = 0
        BY <1>1 DEF ReadyInv, ReadyTyped
    <2>3. \A i \in 1 .. Len(readyList) : ran[readyList[i]] = 0 /\ \A g \in Inner(readyList[i]) : ran[g] = 0
        BY <2>2, ReadyAssumption DEF Waiting, Inner
    <2>4. PICK n \in 0 .. Len(readyList) :
             LET called == UNION {{readyList[i]} \cup Inner(readyList[i]) : i \in 1 .. n} IN
             /\ called \subseteq ReadyFns /\ given' = given \cup called
             /\ ran' = [f \in ReadyFns |-> IF f \in called THEN 1 ELSE ran[f]]
             /\ n < Len(readyList) => \E f \in Throwing : f \in called
             /\ \A p \in Nests : p[2] \in called => p[1] \in called
        BY <2>1, <2>2, <2>3, ListIsCalled
    <2> DEFINE called == UNION {{readyList[i]} \cup Inner(readyList[i]) : i \in 1 .. n}
    <2>5. n = Len(readyList) => given \subseteq called
        BY <2>2 DEF Waiting
    <2> HIDE DEF called
    <2>6. /\ called \subseteq ReadyFns /\ given' = given \cup called
          /\ ran' = [f \in ReadyFns |-> IF f \in called THEN 1 ELSE ran[f]]
          /\ n < Len(readyList) => \E f \in Throwing : f \in called
          /\ \A p \in Nests : p[2] \in called => p[1] \in called
        BY <2>4 DEF called
    <2>7. ran' \in [ReadyFns -> Nat] /\ \A f \in ReadyFns : ran'[f] = IF f \in called THEN 1 ELSE 0
        BY <2>2, <2>6
    <2>8. ReadyTyped'
        <3>1. readyList' \in Seq(Outer)
            BY <2>1, <2>2
        <3> QED
            BY <2>1, <2>2, <2>6, <2>7, <3>1 DEF ReadyTyped
    <2>9. \A i, j \in 1 .. Len(readyList') : readyList'[i] = readyList'[j] => i = j
        <3>1. CASE readyList' = readyList
            BY <2>2, <3>1
        <3>2. CASE readyList' = <<>>
            BY <3>2
        <3> QED
            BY <2>1, <3>1, <3>2
    <2>10. \A f \in ReadyFns : ran'[f] <= 1 /\ (f \notin given' => ran'[f] = 0)
        BY <2>6, <2>7
    <2>11. \A p \in Nests : p[2] \in given' => p[1] \in given'
        BY <2>6 DEF ReadyInv
    <2>12. (\A f \in Throwing : ran'[f] = 0) => \A f \in given' : ran'[f] = 1
        <3> SUFFICES ASSUME \A f \in Throwing : ran'[f] = 0 PROVE \A f \in given' : ran'[f] = 1
            OBVIOUS
        <3>1. \A f \in Throwing : f \notin called
            <4>1. \A f \in Throwing : f \in ReadyFns /\ ran'[f] # 1
                BY ReadyAssumption
            <4> QED
                BY <2>7, <4>1
        <3>2. Len(readyList) \in Nat
            BY <2>2
        <3>3. n = Len(readyList)
            BY <2>6, <3>1, <3>2
        <3> QED
            BY <2>5, <2>6, <2>7, <3>3
    <2> QED
        BY <2>1, <2>8, <2>9, <2>10, <2>11, <2>12 DEF ReadyInv
<1>2. CASE ~(e \in readyBound /\ ~isReady)
    BY <1>2 DEF Report, ReadyInv, ReadyTyped, Waiting
<1> QED
    BY <1>1, <1>2

LEMMA GiveKeeps == ASSUME ReadyInv, NEW f \in Outer, Give(f) PROVE ReadyInv'
<1>1. f \notin given /\ isReady' = isReady /\ f \in ReadyFns
    BY DEF Give, Outer
<1>2. CASE isReady
    <2>1. CallList(<<f>>, TRUE) /\ readyList' = readyList
        BY <1>2 DEF Give
    <2>2. ran[f] = 0 /\ \A g \in Inner(f) : ran[g] = 0
        <3> SUFFICES ASSUME NEW g \in Inner(f) PROVE ran[g] = 0
            BY <1>1 DEF ReadyInv
        <3>1. PICK p \in Nests : p[1] = f /\ p[2] = g
            BY DEF Inner
        <3> QED
            BY <1>1, <3>1, ReadyAssumption DEF ReadyInv
    <2>3. PICK n \in 0 .. 1 :
             LET called == UNION {{<<f>>[i]} \cup Inner(<<f>>[i]) : i \in 1 .. n} IN
             /\ called \subseteq ReadyFns /\ given' = given \cup called
             /\ ran' = [g \in ReadyFns |-> IF g \in called THEN 1 ELSE ran[g]]
             /\ n < 1 => \E g \in Throwing : g \in called
             /\ \A p \in Nests : p[2] \in called => p[1] \in called
        <3>1. <<f>> \in Seq(Outer) /\ Len(<<f>>) = 1 /\ <<f>>[1] = f
            OBVIOUS
        <3>2. \A i \in 1 .. Len(<<f>>) : i = 1
            BY <3>1
        <3>3. /\ \A i, j \in 1 .. Len(<<f>>) : <<f>>[i] = <<f>>[j] => i = j
              /\ \A i \in 1 .. Len(<<f>>) : ran[<<f>>[i]] = 0 /\ \A g \in Inner(<<f>>[i]) : ran[g] = 0
            BY <2>2, <3>1, <3>2
        <3> DEFINE list == <<f>>
        <3> HIDE DEF list
        <3>4. \E n \in 0 .. Len(list) :
                 LET called == UNION {{list[i]} \cup Inner(list[i]) : i \in 1 .. n} IN
                 /\ called \subseteq ReadyFns /\ given' = given \cup called
                 /\ ran' = [g \in ReadyFns |-> IF g \in called THEN 1 ELSE ran[g]]
                 /\ n < Len(list) => \E g \in Throwing : g \in called
                 /\ \A p \in Nests : p[2] \in called => p[1] \in called
            BY <2>1, <3>1, <3>3, ListIsCalled DEF list
        <3> QED
            BY <3>1, <3>4 DEF list
    <2> DEFINE called == UNION {{<<f>>[i]} \cup Inner(<<f>>[i]) : i \in 1 .. n}
    <2>4. /\ called \subseteq ReadyFns /\ given' = given \cup called
          /\ ran' = [g \in ReadyFns |-> IF g \in called THEN 1 ELSE ran[g]]
          /\ \A p \in Nests : p[2] \in called => p[1] \in called
        BY <2>3
    <2> HIDE DEF called
    <2>5. ran \in [ReadyFns -> Nat] /\ \A g \in ReadyFns : ran[g] \in Nat /\ ran[g] <= 1
        BY DEF ReadyInv, ReadyTyped
    <2>6. ran' \in [ReadyFns -> Nat] /\ \A g \in ReadyFns : ran'[g] = IF g \in called THEN 1 ELSE ran[g]
        BY <2>4, <2>5
    <2>7. ReadyTyped'
        BY <1>1, <2>1, <2>4, <2>6 DEF ReadyInv, ReadyTyped
    <2>8. \A g \in ReadyFns : ran'[g] <= 1 /\ (g \notin given' => ran'[g] = 0)
        BY <2>4, <2>5, <2>6 DEF ReadyInv
    <2>9. \A p \in Nests : p[2] \in given' => p[1] \in given'
        BY <2>4 DEF ReadyInv
    <2>10. (\A g \in Throwing : ran'[g] = 0) => \A g \in given' : ran'[g] = 1
        <3> SUFFICES ASSUME \A g \in Throwing : ran'[g] = 0 PROVE \A g \in given' : ran'[g] = 1
            OBVIOUS
        <3>1. \A g \in Throwing : ran[g] = 0
            BY <2>6, ReadyAssumption
        <3>2. \A g \in given : ran[g] = 1 /\ g \in ReadyFns
            BY <1>2, <3>1 DEF ReadyInv, ReadyTyped
        <3> QED
            BY <2>4, <2>6, <3>2
    <2> QED
        BY <1>1, <1>2, <2>1, <2>7, <2>8, <2>9, <2>10 DEF ReadyInv
<1>3. CASE ~isReady
    <2>1. readyList' = Append(readyList, f) /\ given' = given \cup {f} /\ ran' = ran
        BY <1>3 DEF Give
    <2>2. /\ readyList \in Seq(Outer) /\ given = Waiting /\ given \subseteq ReadyFns
          /\ \A g \in ReadyFns : ran[g] = 0
          /\ \A i, j \in 1 .. Len(readyList) : readyList[i] = readyList[j] => i = j
        BY <1>3 DEF ReadyInv, ReadyTyped
    <2> DEFINE k == Len(readyList)
    <2>3. /\ readyList' \in Seq(Outer) /\ Len(readyList') = k + 1 /\ readyList'[k + 1] = f
          /\ k \in Nat /\ \A i \in 1 .. k : readyList'[i] = readyList[i]
        BY <2>1, <2>2
    <2>4. \A i \in 1 .. k : readyList[i] # f
        BY <1>1, <2>2 DEF Waiting
    <2> HIDE DEF k
    <2>5. \A i \in 1 .. k + 1 : i \in 1 .. k \/ i = k + 1
        BY <2>3
    <2>6. \A i, j \in 1 .. k + 1 : readyList'[i] = readyList'[j] => i = j
        BY <2>2, <2>3, <2>4, <2>5 DEF k
    <2>7. given' = Waiting'
        <3>1. \A g : g \in Waiting' <=> \E i \in 1 .. k + 1 : g = readyList'[i]
            BY <2>3 DEF Waiting
        <3>2. \A g : g \in Waiting <=> \E i \in 1 .. k : g = readyList[i]
            BY DEF Waiting, k
        <3>3. k + 1 \in 1 .. k + 1 /\ \A i \in 1 .. k : i \in 1 .. k + 1
            BY <2>3
        <3>4. \A g \in Waiting' : g \in Waiting \cup {f}
            BY <2>3, <2>5, <3>1, <3>2
        <3>5. \A g \in Waiting \cup {f} : g \in Waiting'
            BY <2>3, <3>1, <3>2, <3>3
        <3> QED
            BY <2>1, <2>2, <3>4, <3>5
    <2>8. ReadyTyped'
        BY <1>1, <2>1, <2>2, <2>3 DEF ReadyInv, ReadyTyped
    <2>9. \A p \in Nests : p[2] \in given' => p[1] \in given'
        BY <2>1 DEF ReadyInv, Outer
    <2> QED
        BY <1>1, <1>3, <2>1, <2>2, <2>3, <2>6, <2>7, <2>8, <2>9 DEF ReadyInv
<1> QED
    BY <1>2, <1>3 DEF ReadyInv, ReadyTyped

LEMMA ReadyStart == ReadyInit => ReadyInv
<1> SUFFICES ASSUME ReadyInit PROVE ReadyInv
    OBVIOUS
<1>1. /\ isReady = FALSE /\ readyList = <<>> /\ given = {} /\ ran = [f \in ReadyFns |-> 0]
    BY DEF ReadyInit
<1>2. Len(readyList) = 0 /\ readyList \in Seq(Outer) /\ Waiting = {}
    BY <1>1 DEF Waiting
<1>3. ran \in [ReadyFns -> Nat] /\ \A f \in ReadyFns : ran[f] = 0
    BY <1>1
<1>4. ReadyTyped
    BY <1>1, <1>2, <1>3 DEF ReadyTyped
<1>5. \A i, j \in 1 .. Len(readyList) : readyList[i] = readyList[j] => i = j
    BY <1>2
<1>6. \A f \in ReadyFns : ran[f] <= 1
    BY <1>3
<1> QED
    BY <1>1, <1>2, <1>3, <1>4, <1>5, <1>6 DEF ReadyInv

(* No function runs twice, and all that were given have run once the document is   *)
(* ready and none threw.                                                        *)
THEOREM ReadyRunsOnce == ReadySpec => []EachRunsOnce
<1>1. ReadyInv /\ [ReadyNext]_readyVars => ReadyInv'
    <2> SUFFICES ASSUME ReadyInv, [ReadyNext]_readyVars PROVE ReadyInv'
        OBVIOUS
    <2>1. ASSUME NEW e, Report(e) PROVE ReadyInv'
        BY <2>1, ReportKeeps
    <2>2. ASSUME NEW f \in Outer, Give(f) PROVE ReadyInv'
        BY <2>2, GiveKeeps
    <2>3. CASE UNCHANGED readyVars
        BY <2>3 DEF readyVars, ReadyInv, ReadyTyped, Waiting
    <2> QED
        BY <2>1, <2>2, <2>3 DEF ReadyNext
<1>2. ReadyInv => EachRunsOnce
    <2> SUFFICES ASSUME ReadyInv PROVE EachRunsOnce
        OBVIOUS
    <2>1. \A f \in ReadyFns : ran[f] \in Nat
        BY DEF ReadyInv, ReadyTyped
    <2>2. ASSUME NEW f \in ReadyFns PROVE ran[f] <= (IF isReady /\ f \in given THEN 1 ELSE 0)
        BY <2>1 DEF ReadyInv, ReadyTyped
    <2> QED
        BY <2>2 DEF ReadyInv, EachRunsOnce
<1> QED
    BY <1>1, <1>2, ReadyStart, PTL DEF ReadySpec

-----------------------------------------------------------------------------
(* The selector engine.                                                      *)

Chosen == doc \in Documents /\ context \in Contexts /\ selector \in Selectors

Size == Len(doc.parent)

LEMMA DocumentIs ==
    ASSUME Chosen
    PROVE  /\ Size \in Nat /\ Nodes = 1 .. Size /\ context \in Nodes
           /\ ParentOf(0) = 0 /\ \A n \in Nodes : ParentOf(n) \in 0 .. n - 1
<1>1. /\ doc.parent \in Seq(Nat) /\ context \in 1 .. Len(doc.parent)
      /\ \A n \in 1 .. Len(doc.parent) : doc.parent[n] < n
    BY SizzleAssumption DEF Chosen
<1>2. \A n \in 1 .. Len(doc.parent) : doc.parent[n] \in Nat
    BY <1>1
<1>3. Len(doc.parent) \in Nat
    BY <1>1
<1> QED
    BY <1>1, <1>2, <1>3 DEF Size, Nodes, ParentOf

LEMMA SelectorIs ==
    ASSUME Chosen
    PROVE  /\ Len(selector) \in Nat \ {0} /\ selector[1].comb # " "
           /\ \A k \in 1 .. Len(selector) : selector[k].comb \in {"none", " ", ">", "+", "~"}
           /\ \A k \in 2 .. Len(selector) : selector[k].comb # "none"
<1>1. /\ selector \in Seq([comb : {"none", " ", ">", "+", "~"}, label : Labels])
      /\ selector # <<>> /\ selector[1].comb # " "
      /\ \A k \in 2 .. Len(selector) : selector[k].comb # "none"
    BY SizzleAssumption DEF Chosen
<1> DEFINE Part == [comb : {"none", " ", ">", "+", "~"}, label : Labels]
<1>2. /\ Len(selector) \in Nat \ {0}
      /\ \A k \in 1 .. Len(selector) : selector[k] \in Part
    <2>1. selector \in Seq(Part) /\ selector # <<>>
        BY <1>1
    <2> HIDE DEF Part
    <2>2. Len(selector) \in Nat /\ (Len(selector) = 0 => selector = <<>>)
        BY <2>1, EmptySeq
    <2> QED
        BY <2>1, <2>2
<1>3. \A k \in 1 .. Len(selector) : selector[k].comb \in {"none", " ", ">", "+", "~"}
    BY <1>2
<1> QED
    BY <1>1, <1>2, <1>3

(* The tree: the nodes above a node come before it and are in a line.          *)
AboveIs(f, n) == IF ParentOf(n) = 0 THEN {} ELSE {ParentOf(n)} \cup f[ParentOf(n)]

LEMMA AncestorsAre ==
    ASSUME Chosen
    PROVE  /\ Ancestors \in [0 .. Size -> SUBSET Nodes]
           /\ \A n \in 0 .. Size : Ancestors[n] = AboveIs(Ancestors, n)
<1> DEFINE Holds(f, k) == \A n \in 0 .. k : f[n] = AboveIs(f, n)
           S == {k \in 0 .. Size : \E f \in [0 .. k -> SUBSET Nodes] : Holds(f, k)}
<1>1. /\ Size \in Nat /\ Nodes = 1 .. Size
      /\ ParentOf(0) = 0 /\ \A n \in Nodes : ParentOf(n) \in 0 .. n - 1
    BY DocumentIs
<1>2. 0 \in S
    <2> DEFINE f == [n \in 0 .. 0 |-> {}]
    <2>1. f \in [0 .. 0 -> SUBSET Nodes] /\ f[0] = {}
        OBVIOUS
    <2> HIDE DEF f
    <2>2. Holds(f, 0)
        BY <1>1, <2>1 DEF AboveIs
    <2> HIDE DEF Holds
    <2> QED
        BY <1>1, <2>1, <2>2
<1>3. ASSUME NEW k \in 1 .. Size, k - 1 \in S PROVE k \in S
    <2>1. PICK f \in [0 .. k - 1 -> SUBSET Nodes] : Holds(f, k - 1)
        BY <1>3
    <2> DEFINE g == [n \in 0 .. k |-> IF n = k THEN AboveIs(f, k) ELSE f[n]]
    <2>2. k \in Nodes /\ ParentOf(k) \in 0 .. k - 1
        BY <1>1
    <2>3. ParentOf(k) # 0 => ParentOf(k) \in Nodes
        BY <1>1, <2>2
    <2>4. f[ParentOf(k)] \in SUBSET Nodes
        BY <2>2
    <2>5. AboveIs(f, k) \in SUBSET Nodes
        BY <2>3, <2>4 DEF AboveIs
    <2>6. k \in Nat /\ 0 .. k = 0 .. (k - 1) \cup {k}
        BY <1>1
    <2>7. g \in [0 .. k -> SUBSET Nodes] /\ g[k] = AboveIs(f, k) /\ \A n \in 0 .. k - 1 : g[n] = f[n]
        BY <2>5, <2>6
    <2> HIDE DEF g
    <2>8. ASSUME NEW n \in 0 .. k PROVE g[n] = AboveIs(g, n)
        <3>1. ParentOf(n) \in 0 .. k - 1
            <4>1. n = 0 \/ n \in Nodes
                BY <1>1, <2>6
            <4> QED
                BY <1>1, <2>6, <4>1
        <3>2. g[ParentOf(n)] = f[ParentOf(n)]
            BY <2>7, <3>1
        <3>3. AboveIs(g, n) = AboveIs(f, n)
            BY <3>2 DEF AboveIs
        <3>4. n = k \/ n \in 0 .. k - 1
            BY <2>6
        <3> QED
            BY <2>1, <2>7, <3>3, <3>4
    <2>9. Holds(g, k)
        BY <2>8
    <2> HIDE DEF Holds
    <2> QED
        BY <1>1, <2>7, <2>9
<1>4. Size \in S
    <2> HIDE DEF S
    <2>1. \A i \in 1 .. Size : i - 1 \in S => i \in S
        BY <1>3
    <2>2. Size \in 0 .. Size
        BY <1>1
    <2> QED
        BY <1>1, <1>2, <2>1, <2>2, GoesOn
<1>5. PICK f \in [0 .. Size -> SUBSET Nodes] : Holds(f, Size)
    BY <1>4
<1> DEFINE Body(h) == [n \in 0 .. Size |-> AboveIs(h, n)]
<1>6. f = Body(f)
    BY <1>5
<1>7. Ancestors = CHOOSE h : h = Body(h)
    BY DEF Ancestors, Size, AboveIs
<1>8. Ancestors = Body(Ancestors)
    <2> HIDE DEF Body
    <2> QED
        BY <1>6, <1>7
<1>9. \A n \in 0 .. Size : Ancestors[n] = AboveIs(Ancestors, n)
    BY <1>8
<1> DEFINE T == {n \in 0 .. Size : \A m \in 0 .. n : Ancestors[m] \in SUBSET Nodes}
<1>10. 0 \in T
    <2>1. 0 \in 0 .. Size /\ \A m \in 0 .. 0 : m = 0
        BY <1>1
    <2>2. Ancestors[0] = AboveIs(Ancestors, 0)
        BY <1>9, <2>1
    <2>3. AboveIs(Ancestors, 0) = {}
        BY <1>1 DEF AboveIs
    <2> QED
        BY <2>1, <2>2, <2>3
<1>11. ASSUME NEW n \in 1 .. Size, n - 1 \in T PROVE n \in T
    <2>1. ParentOf(n) \in 0 .. n - 1
        BY <1>1
    <2>2. ParentOf(n) # 0 => ParentOf(n) \in Nodes
        BY <1>1, <2>1
    <2>3. Ancestors[ParentOf(n)] \in SUBSET Nodes
        BY <1>11, <2>1
    <2>4. Ancestors[n] = AboveIs(Ancestors, n)
        BY <1>1, <1>9
    <2>5. Ancestors[n] \in SUBSET Nodes
        BY <2>2, <2>3, <2>4 DEF AboveIs
    <2> QED
        BY <1>1, <1>11, <2>5
<1>12. \A n \in 0 .. Size : n \in T
    <2> HIDE DEF T
    <2>1. \A i \in 1 .. Size : i - 1 \in T => i \in T
        BY <1>11
    <2> QED
        BY <1>1, <1>10, <2>1, GoesOn
<1>13. \A n \in 0 .. Size : Ancestors[n] \in SUBSET Nodes
    BY <1>1, <1>12
<1> QED
    BY <1>8, <1>9, <1>13

LEMMA GreatestIs ==
    ASSUME NEW n \in Nat, NEW S, S \subseteq 1 .. n, S # {}
    PROVE  Max(S) \in S /\ \A x \in S : x <= Max(S)
<1>5. \A x \in S : x \in Nat /\ x <= n
    OBVIOUS
<1> DEFINE T == {n - x : x \in S}
<1>1. PICK y \in T : \A z \in T : y <= z
    <2>1. \A x \in S : n - x \in Nat
        BY <1>5
    <2>2. T \subseteq Nat /\ T # {}
        BY <2>1
    <2> HIDE DEF T
    <2> QED
        BY <2>2, LeastExists
<1>2. PICK m \in S : y = n - m
    BY <1>1
<1>3. \A x \in S : m >= x
    <2> TAKE x \in S
    <2>1. n - m <= n - x
        BY <1>1, <1>2
    <2>2. m \in Nat /\ x \in Nat
        BY <1>5
    <2> HIDE DEF T
    <2> QED
        BY <2>1, <2>2
<1>4. Max(S) \in S /\ \A x \in S : Max(S) >= x
    BY <1>3, Zenon DEF Max
<1> QED
    BY <1>4, <1>5

(* The nodes above a node are its parent and those above its parent; they come   *)
(* before it, those above them are above it, and of two of them the first is     *)
(* above the other.                                                            *)
InLine(A, n) ==
    /\ A[n] \subseteq 1 .. n - 1
    /\ \A m \in A[n] : A[m] \subseteq A[n]
    /\ \A m \in A[n] : \A l \in A[n] : l < m => l \in A[m]

LEMMA AncestorsLine ==
    ASSUME Chosen
    PROVE  \A n \in 0 .. Size : InLine(Ancestors, n)
<1> DEFINE S == {n \in 0 .. Size : \A m \in 0 .. n : InLine(Ancestors, m)}
<1>1. /\ Size \in Nat /\ Nodes = 1 .. Size
      /\ ParentOf(0) = 0 /\ \A n \in Nodes : ParentOf(n) \in 0 .. n - 1
    BY DocumentIs
<1>2. \A n \in 0 .. Size : Ancestors[n] = AboveIs(Ancestors, n)
    BY AncestorsAre
<1>3. 0 \in S
    <2>1. 0 \in 0 .. Size /\ \A m \in 0 .. 0 : m = 0
        BY <1>1
    <2>2. Ancestors[0] = AboveIs(Ancestors, 0)
        BY <1>2, <2>1
    <2>3. Ancestors[0] = {}
        BY <1>1, <2>2 DEF AboveIs
    <2>4. InLine(Ancestors, 0)
        BY <2>3 DEF InLine
    <2> QED
        BY <2>1, <2>4
<1>4. ASSUME NEW n \in 1 .. Size, n - 1 \in S PROVE n \in S
    <2> DEFINE p == ParentOf(n)
    <2>1. p \in 0 .. n - 1
        BY <1>1
    <2>2. InLine(Ancestors, p)
        BY <1>4, <2>1
    <2>3. n \in 0 .. Size /\ p \in 0 .. Size /\ n \in Nat
        BY <1>1, <2>1
    <2>4. Ancestors[n] = AboveIs(Ancestors, n)
        BY <1>2, <2>3
    <2> HIDE DEF p
    <2>5. Ancestors[n] = IF p = 0 THEN {} ELSE {p} \cup Ancestors[p]
        BY <2>4 DEF AboveIs, p
    <2>6. InLine(Ancestors, n)
        <3>1. CASE p = 0
            BY <2>5, <3>1 DEF InLine
        <3>2. CASE p # 0
            <4>1. Ancestors[n] = {p} \cup Ancestors[p]
                BY <2>5, <3>2
            <4>2. Ancestors[p] \subseteq 1 .. p - 1
                BY <2>2 DEF InLine
            <4>3. Ancestors[n] \subseteq 1 .. n - 1
                BY <2>1, <2>3, <3>2, <4>1, <4>2
            <4>4. ASSUME NEW m \in Ancestors[n] PROVE Ancestors[m] \subseteq Ancestors[n]
                BY <2>2, <4>1 DEF InLine
            <4>5. ASSUME NEW m \in Ancestors[n], NEW l \in Ancestors[n], l < m
                  PROVE  l \in Ancestors[m]
                <5>1. CASE m = p
                    BY <2>1, <4>1, <4>2, <4>5, <5>1
                <5>2. CASE m \in Ancestors[p]
                    <6>1. l # p
                        BY <2>1, <4>2, <4>5, <5>2
                    <6> QED
                        BY <2>2, <4>1, <4>5, <5>2, <6>1 DEF InLine
                <5> QED
                    BY <4>1, <5>1, <5>2
            <4> QED
                BY <4>3, <4>4, <4>5 DEF InLine
        <3> QED
            BY <3>1, <3>2
    <2>7. ASSUME NEW m \in 0 .. n PROVE InLine(Ancestors, m)
        <3>1. m = n \/ m \in 0 .. n - 1
            BY <2>3
        <3> QED
            BY <1>4, <2>6, <3>1
    <2> QED
        BY <2>3, <2>7
<1>5. \A n \in 0 .. Size : n \in S
    <2> HIDE DEF S
    <2>1. \A i \in 1 .. Size : i - 1 \in S => i \in S
        BY <1>4
    <2> QED
        BY <1>1, <1>3, <2>1, GoesOn
<1>6. \A n \in 0 .. Size : n \in 0 .. n
    BY <1>1
<1> QED
    BY <1>5, <1>6

LEMMA BeforeLine ==
    ASSUME Chosen, NEW n \in Nodes
    PROVE  /\ Before(n) \subseteq 1 .. n - 1
           /\ \A m \in Before(n) : Before(m) \subseteq Before(n)
           /\ \A m \in Before(n) : \A l \in Before(n) : l < m => l \in Before(m)
<1>1. Size \in Nat /\ Nodes = 1 .. Size
    BY DocumentIs
<1> QED
    BY <1>1 DEF Before

(* The same of both kinds of walks.                                           *)
LEMMA LineIs ==
    ASSUME Chosen, NEW back \in BOOLEAN, NEW n \in Nodes
    PROVE  /\ Line(n, back) \subseteq 1 .. n - 1 /\ Line(n, back) \subseteq Nodes
           /\ \A m \in Line(n, back) : Line(m, back) \subseteq Line(n, back)
           /\ \A m \in Line(n, back) : \A l \in Line(n, back) : l < m => l \in Line(m, back)
<1>1. Size \in Nat /\ Nodes = 1 .. Size
    BY DocumentIs
<1>2. /\ Line(n, back) \subseteq 1 .. n - 1
      /\ \A m \in Line(n, back) : Line(m, back) \subseteq Line(n, back)
      /\ \A m \in Line(n, back) : \A l \in Line(n, back) : l < m => l \in Line(m, back)
    <2>1. CASE back
        <3>1. \A m : Line(m, back) = Before(m)
            BY <2>1 DEF Line
        <3> QED
            BY <3>1, BeforeLine
    <2>2. CASE ~back
        <3>1. \A m : Line(m, back) = Ancestors[m]
            BY <2>2 DEF Line
        <3>2. InLine(Ancestors, n)
            BY <1>1, AncestorsLine
        <3> QED
            BY <3>1, <3>2 DEF InLine
    <2> QED
        BY <2>1, <2>2
<1>3. Line(n, back) \subseteq Nodes
    BY <1>1, <1>2
<1> QED
    BY <1>2, <1>3

(* What a selector means, part by part.                                        *)
LEMMA MeansAre ==
    ASSUME Chosen
    PROVE  /\ Means[0] = {context}
           /\ \A k \in 1 .. Len(selector) :
                 Means[k] = {n \in Nodes : /\ Fits(n, k)
                                           /\ \E m \in Means[k - 1] : Stands(m, selector[k].comb, n)}
<1> DEFINE L == Len(selector)
           V == SUBSET Nodes
           Next(k, M) == {n \in Nodes : Fits(n, k) /\ \E m \in M : Stands(m, selector[k].comb, n)}
           F == [p \in (1 .. L) \X V |-> Next(p[1], p[2])]
           f == Steps(L, V, {context}, F)
<1>1. L \in Nat /\ {context} \in V
    BY DocumentIs, SelectorIs
<1>2. F \in [(1 .. L) \X V -> V]
    OBVIOUS
<1>3. Stepwise(f, L, V, {context}, F)
    <2> HIDE DEF F, V, L
    <2> QED
        BY <1>1, <1>2, StepsDefine
<1>4. /\ f \in [0 .. L -> V] /\ f[0] = {context}
      /\ \A k \in 1 .. L : f[k] = F[<<k, f[k - 1]>>]
    <2> HIDE DEF f, F, V, L
    <2> QED
        BY <1>3 DEF Stepwise
<1>5. \A k \in 1 .. L : f[k] = Next(k, f[k - 1])
    <2> TAKE k \in 1 .. L
    <2>1. k - 1 \in 0 .. L
        BY <1>1
    <2>2. f[k - 1] \in V
        BY <1>4, <2>1
    <2> HIDE DEF f
    <2>3. F[<<k, f[k - 1]>>] = Next(k, f[k - 1])
        BY <2>2
    <2> QED
        BY <1>4, <2>3
<1> DEFINE Body(g) == [k \in 0 .. L |-> IF k = 0 THEN {context} ELSE Next(k, g[k - 1])]
<1>6. f = Body(f)
    <2> HIDE DEF Next, f
    <2>1. \A k \in 0 .. L : k = 0 \/ k \in 1 .. L
        BY <1>1
    <2>2. f = [k \in 0 .. L |-> f[k]]
        BY <1>4
    <2>3. \A k \in 0 .. L : f[k] = IF k = 0 THEN {context} ELSE Next(k, f[k - 1])
        BY <1>4, <1>5, <2>1
    <2> QED
        BY <2>2, <2>3
<1>7. Means = CHOOSE g : g = Body(g)
    BY DEF Means
<1>8. Means = Body(Means)
    <2> HIDE DEF Body, f
    <2> QED
        BY <1>6, <1>7
<1>9. 0 \in 0 .. L /\ \A k \in 1 .. L : k \in 0 .. L /\ k # 0
    BY <1>1
<1>10. Means[0] = {context} /\ \A k \in 1 .. L : Means[k] = Next(k, Means[k - 1])
    <2> HIDE DEF Next, L
    <2>1. \A k \in 0 .. L : Means[k] = IF k = 0 THEN {context} ELSE Next(k, Means[k - 1])
        BY <1>8
    <2> QED
        BY <1>9, <2>1
<1> QED
    BY <1>10

(* The nodes of a set that fit a part, the nearest of them to the node that the  *)
(* walk begins at, and the candidates that any walk through the set may end with. *)
Hits(S, k) == {q \in S : Fits(q, k)}

Nearest(H, k) == IF H = {} THEN 0 ELSE Candidate(Max(H), k)

Any(H, k) == {0} \cup {Candidate(q, k) : q \in H}

(* A walk that ends with r, having seen all of S, of which H are the hits.       *)
Ended(r, S, k, exact) == r \in Any(Hits(S, k), k) /\ (exact => r = Nearest(Hits(S, k), k))



Values == Nodes \cup {0, True}

(* The walks of the elements up to i are done.                                *)
Walked(s, i, k, back, exact) ==
    /\ s = [check |-> s.check, marks |-> s.marks]
    /\ s.check \in [set -> Values] /\ s.marks \in [Nodes -> set \cup {0}]
    /\ \A n \in set : n > i => s.check[n] = checkSet[n]
    /\ \A n \in set : n <= i /\ checkSet[n] = 0 => s.check[n] = 0
    /\ \A n \in set : n <= i /\ checkSet[n] # 0 =>
          Ended(s.check[n], Line(checkSet[n], back), k, exact)
    /\ \A p \in Nodes : s.marks[p] # 0 =>
          s.marks[p] <= i /\ Ended(s.check[s.marks[p]], {p} \cup Line(p, back), k, exact)

(* What walks begin from: the nodes that the part before looked at.             *)
Started == set \subseteq Nodes /\ checkSet \in [set -> Nodes \cup {0}]

(* Begun at node p and gone on in the line of p, a walk sees what a walk begun   *)
(* further sees after it.                                                     *)
LEMMA HitsAgree ==
    ASSUME Chosen, NEW back \in BOOLEAN, NEW k, NEW p \in Nodes,
           NEW q \in Line(p, back), \A h \in Hits(Line(p, back), k) : h <= q
    PROVE  Hits(Line(p, back), k) = Hits({q} \cup Line(q, back), k)
<1>1. /\ Line(p, back) \subseteq 1 .. p - 1 /\ Line(q, back) \subseteq Line(p, back)
      /\ \A l \in Line(p, back) : l < q => l \in Line(q, back)
    BY LineIs
<1>2. \A h \in Line(p, back) : h <= q => h = q \/ h < q
    BY <1>1
<1> QED
    BY <1>1, <1>2 DEF Hits

LEMMA EndedAlike ==
    ASSUME NEW r, NEW S, NEW T, NEW k, NEW exact, Hits(S, k) = Hits(T, k), Ended(r, S, k, exact)
    PROVE  Ended(r, T, k, exact)
BY DEF Ended

LEMMA AnyIs ==
    ASSUME NEW S, S \subseteq Nodes, NEW k, NEW r \in Any(Hits(S, k), k)
    PROVE  r \in Values
<1>1. CASE r = 0
    BY <1>1 DEF Values
<1>2. CASE r # 0
    <2>1. PICK q \in Hits(S, k) : r = Candidate(q, k)
        BY <1>2 DEF Any
    <2>2. q \in Nodes
        BY DEF Hits
    <2> QED
        BY <2>1, <2>2 DEF Candidate, Values
<1> QED
    BY <1>1, <1>2

(* Where a walk may stop, the nodes it visits, and what it ends with.           *)
Stops(start, marks, k, back) == {m \in Line(start, back) : marks[m] # 0 \/ Fits(m, k)}

Visited(start, stops, back) == {m \in Line(start, back) : stops # {} => m >= Max(stops)}

EndOf(stops, marks, ends, k) ==
    IF stops = {} THEN 0
    ELSE IF marks[Max(stops)] # 0 THEN ends[marks[Max(stops)]]
    ELSE Candidate(Max(stops), k)

Marked(start, marks, ends, k, back, exact) ==
    \A p \in Line(start, back) : marks[p] # 0 =>
        Ended(ends[marks[p]], {p} \cup Line(p, back), k, exact)

LEMMA StopIs ==
    ASSUME Chosen, NEW back \in BOOLEAN, NEW k, NEW exact \in BOOLEAN, NEW start \in Nodes,
           NEW marks, NEW ends, Marked(start, marks, ends, k, back, exact),
           NEW stops, stops = Stops(start, marks, k, back),
           NEW r, r = EndOf(stops, marks, ends, k)
    PROVE  /\ Ended(r, Line(start, back), k, exact)
           /\ \A p \in Visited(start, stops, back) : Ended(r, {p} \cup Line(p, back), k, exact)
<1> DEFINE visited == Visited(start, stops, back)
<1>0. /\ \A m : m \in stops <=> m \in Line(start, back) /\ (marks[m] # 0 \/ Fits(m, k))
      /\ \A m : m \in visited <=> m \in Line(start, back) /\ (stops # {} => m >= Max(stops))
      /\ r = IF stops = {} THEN 0 ELSE IF marks[Max(stops)] # 0 THEN ends[marks[Max(stops)]]
             ELSE Candidate(Max(stops), k)
      /\ \A p \in Line(start, back) : marks[p] # 0 =>
             Ended(ends[marks[p]], {p} \cup Line(p, back), k, exact)
    BY DEF Stops, Visited, EndOf, Marked
<1> HIDE DEF visited
<1> DEFINE line == Line(start, back)
           stop == Max(stops)
<1>1. /\ Size \in Nat /\ Nodes = 1 .. Size
      /\ line \subseteq 1 .. start - 1 /\ line \subseteq Nodes
      /\ \A m \in line : Line(m, back) \subseteq line
      /\ \A m \in line : \A l \in line : l < m => l \in Line(m, back)
    BY LineIs, DocumentIs
<1>2. Hits(line, k) \subseteq stops
    BY <1>0 DEF Hits
<1>3. CASE stops = {}
    <2>1. Hits(line, k) = {} /\ r = 0
        BY <1>2, <1>3, <1>0
    <2>2. Ended(r, line, k, exact)
        BY <2>1 DEF Ended, Any, Nearest
    <2>3. ASSUME NEW p \in visited PROVE Ended(r, {p} \cup Line(p, back), k, exact)
        <3>1. {p} \cup Line(p, back) \subseteq line
            BY <1>1, <1>0
        <3>2. Hits({p} \cup Line(p, back), k) = Hits(line, k)
            BY <2>1, <3>1 DEF Hits
        <3> QED
            BY <2>2, <3>2, EndedAlike
    <2> QED
        BY <2>2, <2>3 DEF visited
<1>4. CASE stops # {}
    <2>1. stop \in stops /\ \A m \in stops : m <= stop
        <3>1. stops \subseteq 1 .. Size
            BY <1>1, <1>0
        <3> QED
            BY <1>1, <1>4, <3>1, GreatestIs
    <2>2. r = IF marks[stop] # 0 THEN ends[marks[stop]] ELSE Candidate(stop, k)
        BY <1>4, <1>0
    <2>3. \A m \in visited : m \in line /\ m >= stop
        BY <1>4, <1>0
    <2> HIDE DEF stop
    <2>4. stop \in line /\ stop \in Nodes
        BY <1>1, <1>0, <2>1
    <2> DEFINE below == {stop} \cup Line(stop, back)
    <2>5. Hits(line, k) = Hits(below, k)
        BY <1>2, <2>1, <2>4, HitsAgree
    <2>6. Ended(r, below, k, exact)
        <3>1. CASE marks[stop] # 0
            BY <1>0, <2>2, <2>4, <3>1
        <3>2. CASE marks[stop] = 0
            <4>1. Fits(stop, k) /\ r = Candidate(stop, k)
                BY <1>0, <2>1, <2>2, <3>2
            <4>2. Line(stop, back) \subseteq 1 .. stop - 1
                BY <2>4, LineIs
            <4>3. stop \in Hits(below, k) /\ \A h \in Hits(below, k) : h <= stop
                BY <1>1, <2>4, <4>1, <4>2 DEF Hits
            <4>4. Hits(below, k) \subseteq 1 .. Size
                BY <1>1, <2>4 DEF Hits
            <4> DEFINE H == Hits(below, k)
            <4> HIDE DEF H, below
            <4>5. Max(H) \in H /\ \A h \in H : h <= Max(H)
                BY <1>1, <4>3, <4>4, GreatestIs DEF H
            <4>6. Max(H) = stop
                BY <1>1, <4>3, <4>4, <4>5 DEF H
            <4>7. r = Nearest(H, k) /\ r \in Any(H, k)
                BY <4>1, <4>3, <4>6 DEF Nearest, Any, H
            <4> QED
                BY <4>7 DEF Ended, H
        <3> QED
            BY <3>1, <3>2
    <2>7. Ended(r, line, k, exact)
        BY <2>5, <2>6, EndedAlike
    <2>8. ASSUME NEW p \in visited PROVE Ended(r, {p} \cup Line(p, back), k, exact)
        <3>1. p \in line /\ p >= stop
            BY <2>3
        <3>2. {p} \cup Line(p, back) \subseteq line
            BY <1>1, <3>1
        <3>3. stop = p \/ stop < p
            BY <1>1, <2>4, <3>1
        <3>4. stop = p \/ stop \in Line(p, back)
            BY <1>1, <2>4, <3>1, <3>3
        <3>5. below \subseteq {p} \cup Line(p, back)
            <4>1. p \in Nodes
                BY <1>1, <3>1
            <4>2. \A m \in Line(p, back) : Line(m, back) \subseteq Line(p, back)
                BY <4>1, LineIs
            <4> QED
                BY <3>4, <4>2
        <3>6. Hits({p} \cup Line(p, back), k) = Hits(line, k)
            BY <2>5, <3>2, <3>5 DEF Hits
        <3> QED
            BY <2>7, <3>6, EndedAlike
    <2> QED
        BY <2>7, <2>8 DEF visited
<1> QED
    BY <1>3, <1>4

(* One element's walk.                                                        *)
LEMMA VisitWalks ==
    ASSUME Chosen, Started, NEW back \in BOOLEAN, NEW k, NEW exact \in BOOLEAN,
           exact /\ back => \A n \in set : checkSet[n] # 0 => ~Fits(checkSet[n], k),
           NEW s, NEW n \in set, Walked(s, n - 1, k, back, exact)
    PROVE  Walked(Visit(s, n, k, back), n, k, back, exact)
<1> DEFINE start == s.check[n]
<1>1. /\ Size \in Nat /\ Nodes = 1 .. Size /\ n \in Nodes
      /\ \A m \in set : m \in Nat /\ (m <= n => m = n \/ m <= n - 1) /\ (m > n => m > n - 1)
      /\ \A m \in set : m <= n - 1 => m <= n /\ m # n
    BY DocumentIs DEF Started
<1>2. /\ s = [check |-> s.check, marks |-> s.marks]
      /\ s.check \in [set -> Values] /\ s.marks \in [Nodes -> set \cup {0}]
      /\ \A m \in set : m > n - 1 => s.check[m] = checkSet[m]
      /\ \A m \in set : m <= n - 1 /\ checkSet[m] = 0 => s.check[m] = 0
      /\ \A m \in set : m <= n - 1 /\ checkSet[m] # 0 =>
            Ended(s.check[m], Line(checkSet[m], back), k, exact)
      /\ \A p \in Nodes : s.marks[p] # 0 =>
            s.marks[p] <= n - 1 /\ Ended(s.check[s.marks[p]], {p} \cup Line(p, back), k, exact)
    BY DEF Walked
<1>3. start = checkSet[n] /\ start \in Nodes \cup {0}
    BY <1>1, <1>2 DEF Started
<1>4. CASE start = 0
    <2>1. Visit(s, n, k, back) = s
        BY <1>4 DEF Visit
    <2>2. \A p \in Nodes : s.marks[p] # 0 => s.marks[p] <= n
        BY <1>1, <1>2
    <2> QED
        BY <1>1, <1>2, <1>3, <1>4, <2>1, <2>2 DEF Walked
<1>5. CASE start # 0
    <2> DEFINE marks == IF back THEN [s.marks EXCEPT ![start] = n] ELSE s.marks
               line == Line(start, back)
               stops == Stops(start, marks, k, back)
               visited == Visited(start, stops, back)
               r == EndOf(stops, marks, s.check, k)
               check == [s.check EXCEPT ![n] = r]
               after == [m \in Nodes |-> IF m \in visited /\ marks[m] = 0 THEN n ELSE marks[m]]
    <2>1. Visit(s, n, k, back) = [check |-> check, marks |-> after]
        BY <1>5, Zenon DEF Visit, Stops, Visited, EndOf
    <2>2. start \in Nodes /\ line \subseteq 1 .. start - 1 /\ line \subseteq Nodes
        BY <1>3, <1>5, LineIs
    <2>3. \A p \in line : p # start /\ marks[p] = s.marks[p]
        BY <1>1, <1>2, <2>2
    <2>4. \A p \in Nodes : marks[p] = s.marks[p] \/ (back /\ p = start /\ marks[p] = n)
        BY <1>2, <2>2
    <2>5. \A p \in line : marks[p] # 0 =>
              Ended(s.check[marks[p]], {p} \cup Line(p, back), k, exact)
        BY <1>2, <2>2, <2>3
    <2> HIDE DEF marks, start
    <2>6. /\ Ended(r, line, k, exact)
          /\ \A p \in visited : Ended(r, {p} \cup Line(p, back), k, exact)
        <3> DEFINE ends == s.check
        <3>1. Marked(start, marks, ends, k, back, exact)
            BY <2>5 DEF Marked
        <3>2. stops = Stops(start, marks, k, back) /\ r = EndOf(stops, marks, ends, k)
            OBVIOUS
        <3> HIDE DEF r, stops, ends
        <3>3. start \in Nodes
            BY <2>2
        <3> QED
            BY <3>1, <3>2, <3>3, StopIs
    <2>7. back => Ended(r, {start} \cup line, k, exact)
        <3> HIDE DEF r, line
        <3> SUFFICES ASSUME back PROVE Ended(r, {start} \cup line, k, exact)
            OBVIOUS
        <3>1. r \in Any(Hits({start} \cup line, k), k)
            BY <2>6 DEF Ended, Any, Hits
        <3>2. ASSUME exact PROVE r = Nearest(Hits({start} \cup line, k), k)
            <4>1. ~Fits(start, k)
                BY <1>3, <1>5, <3>2
            <4>2. Hits({start} \cup line, k) = Hits(line, k)
                BY <4>1 DEF Hits
            <4> QED
                BY <2>6, <3>2, <4>2 DEF Ended
        <3> QED
            BY <3>1, <3>2 DEF Ended
    <2>8. r \in Values
        <3> HIDE DEF r, line
        <3> QED
            BY <2>2, <2>6, AnyIs DEF Ended
    <2> HIDE DEF r, visited, line
    <2>9. /\ check \in [set -> Values] /\ check[n] = r
          /\ \A m \in set : m # n => check[m] = s.check[m]
        BY <1>2, <2>8
    <2>10. \A p \in Nodes : after[p] = IF p \in visited /\ marks[p] = 0 THEN n ELSE marks[p]
        OBVIOUS
    <2>11. after \in [Nodes -> set \cup {0}]
        <3>1. \A p \in Nodes : marks[p] \in set \cup {0}
            BY <1>2, <2>4
        <3> QED
            BY <3>1
    <2> HIDE DEF check, after
    <2>12. ASSUME NEW p \in Nodes, after[p] # 0
           PROVE  after[p] <= n /\ Ended(check[after[p]], {p} \cup Line(p, back), k, exact)
        <3>1. CASE p \in visited /\ marks[p] = 0
            <4>1. after[p] = n /\ n <= n
                BY <1>1, <2>10, <3>1
            <4> QED
                BY <2>6, <2>9, <3>1, <4>1
        <3>2. CASE back /\ p = start /\ marks[p] = n /\ after[p] = n
            BY <1>1, <2>7, <2>9, <3>2 DEF line
        <3>3. CASE after[p] = s.marks[p]
            <4>1. s.marks[p] \in set /\ s.marks[p] <= n - 1
                BY <1>2, <2>12, <3>3
            <4>2. s.marks[p] <= n /\ s.marks[p] # n
                BY <1>1, <4>1
            <4>3. check[after[p]] = s.check[s.marks[p]] /\ after[p] <= n
                BY <2>9, <3>3, <4>1, <4>2
            <4> QED
                BY <1>2, <2>12, <3>3, <4>3
        <3>4. after[p] = marks[p] \/ (p \in visited /\ marks[p] = 0)
            BY <2>10
        <3> QED
            BY <2>4, <3>1, <3>2, <3>3, <3>4
    <2>13. ASSUME NEW m \in set
           PROVE  /\ m > n => check[m] = checkSet[m]
                  /\ m <= n /\ checkSet[m] = 0 => check[m] = 0
                  /\ m <= n /\ checkSet[m] # 0 => Ended(check[m], Line(checkSet[m], back), k, exact)
        <3>1. CASE m = n
            BY <1>1, <1>3, <1>5, <2>6, <2>9, <3>1 DEF line
        <3>2. CASE m # n
            BY <1>1, <1>2, <2>9, <3>2
        <3> QED
            BY <3>1, <3>2
    <2> DEFINE t == [check |-> check, marks |-> after]
    <2>14. t.check = check /\ t.marks = after /\ t = [check |-> t.check, marks |-> t.marks]
        OBVIOUS
    <2> HIDE DEF t
    <2>15. Walked(t, n, k, back, exact)
        BY <2>9, <2>11, <2>12, <2>13, <2>14 DEF Walked
    <2> QED
        BY <2>1, <2>15 DEF t
<1> QED
    BY <1>4, <1>5

(* The walks of all elements.                                                 *)
LEMMA WalkIs ==
    ASSUME Chosen, Started, NEW back \in BOOLEAN, NEW k, NEW exact \in BOOLEAN,
           exact /\ back => \A n \in set : checkSet[n] # 0 => ~Fits(checkSet[n], k)
    PROVE  Walked(Walk(k, back), Size, k, back, exact)
<1> DEFINE W(s, i) == Walked(s, i, k, back, exact)
           V == [check : [set -> Values], marks : [Nodes -> set \cup {0}]]
           a == [check |-> checkSet, marks |-> Unmarked]
           Next(s, n) == IF n \in set THEN Visit(s, n, k, back) ELSE s
           F == [p \in (1 .. Size) \X V |->
                    IF W(p[2], p[1] - 1) THEN Next(p[2], p[1]) ELSE p[2]]
<1>1. Size \in Nat /\ Nodes = 1 .. Size
    BY DocumentIs
<1>2. \A s, i : W(s, i) => s \in V
    BY DEF Walked
<1>3. W(a, 0)
    <2>1. checkSet \in [set -> Values] /\ Unmarked \in [Nodes -> set \cup {0}]
        BY DEF Started, Values, Unmarked
    <2>2. \A p \in Nodes : Unmarked[p] = 0
        BY DEF Unmarked
    <2>3. \A n \in set : ~(n <= 0)
        BY <1>1 DEF Started
    <2>4. a.check = checkSet /\ a.marks = Unmarked /\ a = [check |-> a.check, marks |-> a.marks]
        OBVIOUS
    <2> HIDE DEF a
    <2> QED
        BY <2>1, <2>2, <2>3, <2>4 DEF Walked
<1>4. ASSUME NEW n \in 1 .. Size, NEW s, W(s, n - 1) PROVE W(Next(s, n), n)
    <2>1. CASE n \in set
        <3>1. Next(s, n) = Visit(s, n, k, back)
            BY <2>1
        <3> QED
            BY <1>4, <2>1, <3>1, VisitWalks
    <2>2. CASE n \notin set
        <3>1. Next(s, n) = s
            BY <2>2
        <3>2. \A m \in set : m \in Nat /\ m # n /\ (m > n => m > n - 1) /\ (m <= n => m <= n - 1)
            BY <1>1, <2>2 DEF Started
        <3>3. /\ s = [check |-> s.check, marks |-> s.marks]
              /\ s.check \in [set -> Values] /\ s.marks \in [Nodes -> set \cup {0}]
            BY <1>4 DEF Walked
        <3>4. \A m \in Nodes : s.marks[m] # 0 => s.marks[m] \in set /\ s.marks[m] <= n - 1
            BY <1>4, <3>3 DEF Walked
        <3>5. \A m \in set : m <= n - 1 => m <= n
            BY <1>1 DEF Started
        <3>6. \A m \in Nodes : s.marks[m] # 0 => s.marks[m] <= n
            BY <3>4, <3>5
        <3> QED
            BY <1>4, <3>1, <3>2, <3>3, <3>6 DEF Walked
    <2> QED
        BY <2>1, <2>2
<1> HIDE DEF W, Next
<1>5. a \in V
    BY <1>2, <1>3
<1>6. F \in [(1 .. Size) \X V -> V]
    <2>1. ASSUME NEW n \in 1 .. Size, NEW s \in V
          PROVE  (IF W(s, n - 1) THEN Next(s, n) ELSE s) \in V
        BY <1>2, <1>4
    <2> HIDE DEF V
    <2> QED
        BY <2>1
<1> DEFINE f == Steps(Size, V, a, F)
<1>7. Stepwise(f, Size, V, a, F)
    <2> HIDE DEF F, V, a
    <2> QED
        BY <1>1, <1>5, <1>6, StepsDefine
<1>8. f \in [0 .. Size -> V] /\ f[0] = a /\ \A n \in 1 .. Size : f[n] = F[<<n, f[n - 1]>>]
    <2> HIDE DEF f, F, V, a
    <2> QED
        BY <1>7 DEF Stepwise
<1> HIDE DEF V, a, f
<1>9. ASSUME NEW n \in 1 .. Size, W(f[n - 1], n - 1) PROVE f[n] = Next(f[n - 1], n)
    <2>1. n - 1 \in 0 .. Size
        BY <1>1
    <2>2. f[n - 1] \in V
        BY <1>8, <2>1
    <2>3. F[<<n, f[n - 1]>>] = Next(f[n - 1], n)
        BY <1>9, <2>2
    <2> QED
        BY <1>8, <2>3
<1> HIDE DEF F
<1>10. \A n \in 0 .. Size : W(f[n], n)
    <2> DEFINE S == {n \in 0 .. Size : W(f[n], n)}
    <2>1. 0 \in S
        BY <1>1, <1>3, <1>8
    <2>2. ASSUME NEW n \in 1 .. Size, n - 1 \in S PROVE n \in S
        <3>1. W(f[n - 1], n - 1) /\ n \in 0 .. Size
            BY <2>2
        <3>2. f[n] = Next(f[n - 1], n)
            BY <1>9, <3>1
        <3> QED
            BY <1>4, <3>1, <3>2
    <2>3. \A n \in 0 .. Size : n \in S
        <3> HIDE DEF S
        <3> QED
            BY <1>1, <2>1, <2>2, GoesOn
    <2> QED
        BY <2>3
<1> DEFINE Body(g) == [n \in 0 .. Size |->
                          IF n = 0 THEN a ELSE IF n \in set THEN Visit(g[n - 1], n, k, back) ELSE g[n - 1]]
<1>11. f = Body(f)
    <2>1. ASSUME NEW n \in 1 .. Size
          PROVE  f[n] = IF n \in set THEN Visit(f[n - 1], n, k, back) ELSE f[n - 1]
        <3>1. n - 1 \in 0 .. Size
            BY <1>1
        <3>2. f[n] = Next(f[n - 1], n)
            BY <1>9, <1>10, <3>1
        <3> QED
            BY <3>2 DEF Next
    <2>2. \A n \in 0 .. Size : n = 0 \/ n \in 1 .. Size
        BY <1>1
    <2>3. f = [n \in 0 .. Size |-> f[n]]
        BY <1>8
    <2> QED
        BY <1>8, <2>1, <2>2, <2>3
<1> DEFINE h == CHOOSE g : g = Body(g)
<1>12. h = Body(h)
    <2> HIDE DEF Body
    <2> QED
        BY <1>11
<1>13. Walk(k, back) = h[Size]
    BY Zenon DEF Walk, Size, a
<1> HIDE DEF h
<1>14. h[0] = a /\ \A n \in 1 .. Size : h[n] = Next(h[n - 1], n)
    <2>1. 0 \in 0 .. Size /\ \A n \in 1 .. Size : n \in 0 .. Size /\ n # 0
        BY <1>1
    <2>2. \A n \in 0 .. Size : h[n] = IF n = 0 THEN a ELSE IF n \in set THEN Visit(h[n - 1], n, k, back) ELSE h[n - 1]
        BY <1>12
    <2> QED
        BY <2>1, <2>2 DEF Next
<1>15. \A n \in 0 .. Size : W(h[n], n)
    <2> DEFINE S == {n \in 0 .. Size : W(h[n], n)}
    <2>1. 0 \in S
        BY <1>1, <1>3, <1>14
    <2>2. ASSUME NEW n \in 1 .. Size, n - 1 \in S PROVE n \in S
        <3>1. W(h[n - 1], n - 1) /\ n \in 0 .. Size
            BY <2>2
        <3> QED
            BY <1>4, <1>14, <3>1
    <2>3. \A n \in 0 .. Size : n \in S
        <3> HIDE DEF S
        <3> QED
            BY <1>1, <2>1, <2>2, GoesOn
    <2> QED
        BY <2>3
<1>16. Size \in 0 .. Size
    BY <1>1
<1>17. W(Walk(k, back), Size)
    BY <1>13, <1>15, <1>16
<1> QED
    BY <1>17 DEF W

(* What no step changes.                                                      *)
LEMMA MeaningStays ==
    ASSUME UNCHANGED <<doc, context, selector>>
    PROVE  /\ Means' = Means /\ Meant' = Meant /\ Nodes' = Nodes /\ Values' = Values
           /\ NearestSuffices' <=> NearestSuffices
           /\ \A n, k : Fits(n, k)' <=> Fits(n, k)
<1>1. Ancestors' = Ancestors
    BY DEF Ancestors, ParentOf
<1>2. Means' = Means
    BY <1>1 DEF Means, Nodes, Fits, Stands, ParentOf, Previous, Before, Max
<1>3. Meant' = Meant
    BY <1>2 DEF Meant
<1>4. Nodes' = Nodes /\ Values' = Values
    BY DEF Nodes, Values
<1>5. \A n, k : Fits(n, k)' <=> Fits(n, k)
    BY DEF Fits, Nodes
<1>6. NearestSuffices' <=> NearestSuffices
    BY DEF NearestSuffices, Fits, Nodes
<1> QED
    BY <1>2, <1>3, <1>4, <1>5, <1>6

(* The node that a candidate stands for.                                      *)
NodeOf(c) == IF c = True THEN context ELSE c

IsCandidate(c, k) == IF k = 0 THEN c = True ELSE c \in Nodes /\ Fits(c, k)

LEMMA CandidateIs ==
    ASSUME Chosen, NEW k, NEW q
    PROVE  /\ Candidate(q, k) # 0 =>
                  /\ Fits(q, k) /\ Candidate(q, k) \in Values
                  /\ IsCandidate(Candidate(q, k), k) /\ NodeOf(Candidate(q, k)) = q
           /\ q \in Nodes /\ Fits(q, k) => Candidate(q, k) # 0
<1>1. Size \in Nat /\ Nodes = 1 .. Size /\ context \in Nodes
    BY DocumentIs
<1> QED
    BY <1>1 DEF Candidate, Fits, IsCandidate, NodeOf, Values, True

LEMMA MeansFit ==
    ASSUME Chosen, NEW k \in 0 .. Len(selector), NEW n \in Means[k]
    PROVE  n \in Nodes /\ Fits(n, k)
<1>1. Len(selector) \in Nat /\ context \in Nodes
    BY SelectorIs, DocumentIs
<1>2. CASE k = 0
    BY <1>1, <1>2, MeansAre DEF Fits
<1>3. CASE k \in 1 .. Len(selector)
    BY <1>3, MeansAre
<1> QED
    BY <1>1, <1>2, <1>3

LEMMA MeansOne ==
    ASSUME Chosen, NEW k \in 1 .. Len(selector), NEW n
    PROVE  n \in Means[k] <=> /\ n \in Nodes /\ Fits(n, k)
                              /\ \E m \in Means[k - 1] : Stands(m, selector[k].comb, n)
BY MeansAre

(* The elements found with k parts left: what a candidate stands for decides     *)
(* whether its element is meant, and if the nearest candidates suffice each      *)
(* meant element is found and has a candidate that says so.                     *)
HeldBy(k, found, check) ==
    /\ k \in 0 .. Len(selector)
    /\ found \subseteq Nodes /\ check \in [found -> Values]
    /\ \A n \in found : check[n] # 0 =>
          IsCandidate(check[n], k) /\ (NodeOf(check[n]) \in Means[k] => n \in Meant)
    /\ NearestSuffices => \A n \in Meant :
          n \in found /\ check[n] # 0 /\ NodeOf(check[n]) \in Means[k]

Answers(found) == found \subseteq Meant /\ (NearestSuffices => Meant \subseteq found)

LEMMA StandsAbove ==
    ASSUME NEW m, NEW comb, NEW n
    PROVE  /\ comb \in {"none", " "} => (Stands(m, comb, n) <=> m \in Ancestors[n])
           /\ comb = ">" => (Stands(m, comb, n) <=> ParentOf(n) = m)
           /\ comb = "+" => (Stands(m, comb, n) <=> Previous(n) = m)
           /\ comb = "~" => (Stands(m, comb, n) <=> m \in Before(n))
BY DEF Stands

(* One combinator further to the left.                                        *)
LEMMA OneFurther ==
    ASSUME Chosen, NEW k \in 1 .. Len(selector), HeldBy(k, set, checkSet),
           NEW check \in [set -> Values],
           \A n \in set : check[n] # 0 =>
               /\ checkSet[n] # 0 /\ IsCandidate(check[n], k - 1)
               /\ Stands(NodeOf(check[n]), selector[k].comb, checkSet[n]),
           NearestSuffices => \A n \in set : checkSet[n] \in Means[k] =>
               check[n] # 0 /\ NodeOf(check[n]) \in Means[k - 1]
    PROVE  HeldBy(k - 1, set, check)
<1>1. /\ Size \in Nat /\ Nodes = 1 .. Size /\ Len(selector) \in Nat
    BY DocumentIs, SelectorIs
<1>2. k - 1 \in 0 .. Len(selector) /\ k # 0
    BY <1>1
<1>3. \A n \in set : checkSet[n] # 0 =>
          /\ checkSet[n] \in Nodes /\ Fits(checkSet[n], k)
          /\ checkSet[n] \in Means[k] => n \in Meant
    BY <1>1, <1>2 DEF HeldBy, IsCandidate, NodeOf, True
<1>4. ASSUME NEW n \in set, check[n] # 0, NodeOf(check[n]) \in Means[k - 1] PROVE n \in Meant
    <2>1. checkSet[n] \in Means[k]
        BY <1>3, <1>4, MeansOne
    <2> QED
        BY <1>3, <1>4, <2>1
<1>5. ASSUME NearestSuffices, NEW n \in Meant
      PROVE  n \in set /\ check[n] # 0 /\ NodeOf(check[n]) \in Means[k - 1]
    <2>1. n \in set /\ checkSet[n] # 0 /\ NodeOf(checkSet[n]) \in Means[k]
        BY <1>5 DEF HeldBy
    <2>2. checkSet[n] \in Means[k]
        BY <1>1, <1>3, <2>1 DEF NodeOf, True
    <2> QED
        BY <1>5, <2>1, <2>2
<1> QED
    BY <1>2, <1>4, <1>5 DEF HeldBy

LEMMA StepKeeps ==
    ASSUME Chosen, NEW k \in 1 .. Len(selector), HeldBy(k, set, checkSet),
           selector[k].comb \in {">", "+"}
    PROVE  HeldBy(k - 1, set, [n \in set |-> OneStep(checkSet[n], selector[k].comb, k - 1)])
<1>0. Len(selector) \in Nat
    BY SelectorIs
<1>1. k - 1 \in 0 .. Len(selector)
    BY <1>0
<1> DEFINE comb == selector[k].comb
           check == [n \in set |-> OneStep(checkSet[n], comb, k - 1)]
           At(c) == IF comb = ">" THEN ParentOf(c) ELSE Previous(c)
<1>2. \A n \in set : check[n] = IF checkSet[n] = 0 THEN 0 ELSE Candidate(At(checkSet[n]), k - 1)
    BY DEF OneStep
<1>3. \A m, c : Stands(m, comb, c) <=> At(c) = m
    BY StandsAbove
<1> HIDE DEF check, At, comb
<1>4. ASSUME NEW n \in set, check[n] # 0
      PROVE  /\ checkSet[n] # 0 /\ IsCandidate(check[n], k - 1) /\ check[n] \in Values
             /\ Stands(NodeOf(check[n]), comb, checkSet[n])
    <2>1. checkSet[n] # 0 /\ check[n] = Candidate(At(checkSet[n]), k - 1)
        BY <1>2, <1>4
    <2>2. /\ IsCandidate(check[n], k - 1) /\ check[n] \in Values
          /\ NodeOf(check[n]) = At(checkSet[n])
        BY <1>4, <2>1, CandidateIs
    <2> QED
        BY <1>3, <2>1, <2>2
<1>5. check \in [set -> Values]
    <2>1. \A n \in set : check[n] \in Values
        BY <1>4 DEF Values
    <2> QED
        BY <2>1 DEF check
<1>6. ASSUME NEW n \in set, checkSet[n] \in Means[k]
      PROVE  check[n] # 0 /\ NodeOf(check[n]) \in Means[k - 1]
    <2>1. PICK m \in Means[k - 1] : Stands(m, comb, checkSet[n])
        BY <1>6, MeansOne DEF comb
    <2>2. m \in Nodes /\ Fits(m, k - 1) /\ At(checkSet[n]) = m
        BY <1>1, <1>3, <2>1, MeansFit
    <2>3. checkSet[n] # 0
        <3>1. checkSet[n] \in Nodes /\ Nodes = 1 .. Size
            BY <1>6, MeansOne, DocumentIs
        <3> QED
            BY <3>1
    <2>4. check[n] = Candidate(m, k - 1)
        BY <1>2, <2>2, <2>3
    <2> QED
        BY <2>1, <2>2, <2>4, CandidateIs
<1>7. HeldBy(k - 1, set, check)
    BY <1>4, <1>5, <1>6, OneFurther DEF comb
<1> QED
    BY <1>7 DEF check, comb

LEMMA BesideIs ==
    ASSUME NEW n \in Nat, NEW k \in 1 .. n
    PROVE  /\ k \in Nat /\ k - 1 \in 0 .. n /\ k # 0 /\ k - 1 # k
           /\ k = 1 => k - 1 = 0
           /\ k # 1 => k \in 2 .. n /\ k - 1 \in 1 .. n /\ k - 1 \in 1 .. k - 1
OBVIOUS

LEMMA NotAfterIs ==
    ASSUME NEW m \in Nat, NEW q \in Nat, m <= q
    PROVE  m = q \/ m < q
OBVIOUS

LEMMA NodesAre ==
    ASSUME Chosen
    PROVE  /\ Size \in Nat /\ Nodes = 1 .. Size /\ context \in Nodes
           /\ ~(0 \in Nodes) /\ ~(True \in Nodes) /\ 0 # True
           /\ \A n \in Nodes : n \in Nat /\ n \in 0 .. Size /\ n <= Size
<1>1. Size \in Nat /\ Nodes = 1 .. Size /\ context \in Nodes
    BY DocumentIs
<1>2. True = -1
    BY DEF True
<1>3. ~(0 \in Nodes) /\ ~(True \in Nodes) /\ 0 # True
    BY <1>1, <1>2
<1>4. \A n \in Nodes : n \in Nat /\ n \in 0 .. Size /\ n <= Size
    BY <1>1
<1> QED
    BY <1>1, <1>3, <1>4

(* If the nearest candidates suffice, the first node above that fits is meant    *)
(* when any node above is.                                                    *)
LEMMA NearestIsMeant ==
    ASSUME Chosen, NearestSuffices, NEW k \in 1 .. Len(selector), NEW c \in Nodes,
           NEW back \in BOOLEAN, selector[k].comb \in {" ", "~"}, back <=> selector[k].comb = "~",
           NEW m \in Means[k - 1], NEW q \in Line(c, back), m \in Line(c, back),
           Fits(q, k - 1), m <= q
    PROVE  q \in Means[k - 1]
<1>0. Len(selector) \in Nat
    BY SelectorIs
<1>1. /\ k \in Nat /\ k - 1 \in 0 .. Len(selector) /\ k # 0 /\ k - 1 # k
      /\ k = 1 => k - 1 = 0
      /\ k # 1 => k \in 2 .. Len(selector) /\ k - 1 \in 1 .. Len(selector) /\ k - 1 \in 1 .. k - 1
    BY <1>0, BesideIs
<1>6. Line(c, back) \subseteq Nodes
    BY LineIs
<1>7. m \in Nat /\ q \in Nat /\ q \in Nodes /\ q \in 0 .. Size
    BY <1>6, NodesAre
<1>2. CASE m = q
    BY <1>2
<1>3. CASE k = 1
    <2>1. k - 1 = 0
        BY <1>1, <1>3
    <2>2. q = context
        BY <2>1 DEF Fits
    <2> QED
        BY <2>1, <2>2, MeansAre
<1>4. CASE m < q /\ k # 1
    <2>1. k \in 2 .. Len(selector) /\ k - 1 \in 1 .. Len(selector) /\ k - 1 \in 1 .. k - 1
        BY <1>1, <1>4
    <2>9. \A p \in Line(c, back) : \A l \in Line(c, back) : l < p => l \in Line(p, back)
        BY LineIs
    <2>2. selector[k].comb = " " /\ selector[k - 1].comb \in {" ", "none"}
        BY <1>1, <2>1 DEF NearestSuffices
    <2>3. Line(c, back) = Ancestors[c] /\ Line(q, back) = Ancestors[q]
        BY <2>2 DEF Line
    <2>4. m \in Ancestors[q]
        BY <1>4, <2>3, <2>9
    <2>5. PICK l \in Means[k - 1 - 1] : Stands(l, selector[k - 1].comb, m)
        BY <2>1, MeansOne
    <2>6. l \in Ancestors[m]
        BY <2>2, <2>5, StandsAbove
    <2>7. Ancestors[m] \subseteq Ancestors[q]
        <3>2. InLine(Ancestors, q)
            BY <1>7, AncestorsLine
        <3> QED
            BY <2>4, <3>2 DEF InLine
    <2>8. Stands(l, selector[k - 1].comb, q)
        BY <2>2, <2>6, <2>7, StandsAbove
    <2> QED
        BY <1>7, <2>1, <2>5, <2>8, MeansOne
<1>5. m < q \/ m = q
    BY <1>7, NotAfterIs
<1> QED
    BY <1>2, <1>3, <1>4, <1>5

LEMMA WalkKeeps ==
    ASSUME Chosen, NEW k \in 1 .. Len(selector), HeldBy(k, set, checkSet),
           NEW back \in BOOLEAN, selector[k].comb \in {" ", "~"}, back <=> selector[k].comb = "~"
    PROVE  HeldBy(k - 1, set, Walk(k - 1, back).check)
<1> DEFINE check == Walk(k - 1, back).check
           exact == NearestSuffices
<1>1. /\ Size \in Nat /\ Nodes = 1 .. Size /\ context \in Nodes /\ ~(0 \in Nodes) /\ ~(True \in Nodes)
      /\ \A n \in Nodes : n <= Size
    BY NodesAre
<1>2. Len(selector) \in Nat
    BY SelectorIs
<1>3. k - 1 \in 0 .. Len(selector) /\ k # 0 /\ k - 1 # k /\ (k # 1 => k \in 2 .. Len(selector))
      /\ (k = 1 => k - 1 = 0)
    BY <1>2, BesideIs
<1>4. \A n \in set : checkSet[n] # 0 => checkSet[n] \in Nodes /\ Fits(checkSet[n], k)
    BY <1>3 DEF HeldBy, IsCandidate
<1>5. Started
    BY <1>4 DEF Started, HeldBy
<1>6. exact \in BOOLEAN
    BY DEF NearestSuffices
<1>7. exact /\ back => \A n \in set : checkSet[n] # 0 => ~Fits(checkSet[n], k - 1)
    <2> SUFFICES ASSUME exact, back, NEW n \in set, checkSet[n] # 0, Fits(checkSet[n], k - 1)
                 PROVE  FALSE
        OBVIOUS
    <2>1. \A j \in 2 .. Len(selector) : selector[j].comb # "~"
        BY DEF NearestSuffices
    <2>2. k = 1
        BY <1>3, <2>1
    <2>3. ~Fits(context, 1)
        BY <2>2 DEF NearestSuffices
    <2>5. k - 1 = 0
        BY <1>3, <2>2
    <2>4. checkSet[n] = context
        BY <2>5 DEF Fits
    <2> QED
        BY <1>4, <2>2, <2>3, <2>4
<1> HIDE DEF exact
<1>8. Walked(Walk(k - 1, back), Size, k - 1, back, exact)
    BY <1>5, <1>6, <1>7, WalkIs
<1>9. /\ check \in [set -> Values]
      /\ \A n \in set : checkSet[n] = 0 => check[n] = 0
      /\ \A n \in set : checkSet[n] # 0 => Ended(check[n], Line(checkSet[n], back), k - 1, exact)
    <2>1. \A n \in set : n <= Size
        BY <1>1 DEF HeldBy
    <2> QED
        BY <1>8, <2>1 DEF Walked
<1> HIDE DEF check
<1>10. \A m, c : m \in Line(c, back) <=> Stands(m, selector[k].comb, c)
    BY StandsAbove DEF Line
<1>11. ASSUME NEW n \in set, check[n] # 0
       PROVE  /\ checkSet[n] # 0 /\ IsCandidate(check[n], k - 1)
              /\ Stands(NodeOf(check[n]), selector[k].comb, checkSet[n])
    <2>1. checkSet[n] # 0
        BY <1>9, <1>11
    <2>2. PICK q \in Hits(Line(checkSet[n], back), k - 1) : check[n] = Candidate(q, k - 1)
        BY <1>9, <1>11, <2>1 DEF Ended, Any
    <2>3. IsCandidate(check[n], k - 1) /\ NodeOf(check[n]) = q
        BY <1>11, <2>2, CandidateIs
    <2> QED
        BY <1>10, <2>1, <2>2, <2>3 DEF Hits
<1>12. ASSUME NearestSuffices, NEW n \in set, checkSet[n] \in Means[k]
       PROVE  check[n] # 0 /\ NodeOf(check[n]) \in Means[k - 1]
    <2> DEFINE c == checkSet[n]
               H == Hits(Line(c, back), k - 1)
    <2>1. c \in Nodes /\ c # 0
        BY <1>1, <1>12, MeansOne
    <2>2. PICK m \in Means[k - 1] : Stands(m, selector[k].comb, c)
        BY <1>12, MeansOne
    <2>3. m \in H /\ m \in Line(c, back)
        BY <1>3, <1>10, <2>2, MeansFit DEF Hits
    <2>4. H \subseteq 1 .. Size
        BY <1>1, <2>1, LineIs DEF Hits
    <2>5. check[n] = Nearest(H, k - 1)
        BY <1>9, <1>12, <2>1 DEF Ended, exact
    <2> HIDE DEF H
    <2>6. Max(H) \in H /\ m <= Max(H)
        BY <1>1, <2>3, <2>4, GreatestIs
    <2>7. check[n] = Candidate(Max(H), k - 1)
        BY <2>3, <2>5 DEF Nearest
    <2>8. Fits(Max(H), k - 1) /\ Max(H) \in Line(c, back) /\ Max(H) \in Nodes
        BY <1>1, <2>4, <2>6 DEF Hits, H
    <2> HIDE DEF c
    <2>9. Max(H) \in Means[k - 1]
        BY <1>12, <2>1, <2>2, <2>3, <2>6, <2>8, NearestIsMeant
    <2> QED
        BY <2>7, <2>8, <2>9, CandidateIs
<1>13. HeldBy(k - 1, set, check)
    BY <1>9, <1>11, <1>12, OneFurther
<1> QED
    BY <1>13 DEF check

(* The end: the first part has been processed, or the combinator in front of it.   *)
LEMMA PruneIsRight ==
    ASSUME Chosen, NEW k, HeldBy(k, set, checkSet), k = 0 \/ (k = 1 /\ selector[1].comb = "none")
    PROVE  Answers({n \in set : \/ checkSet[n] = True
                                \/ checkSet[n] # 0 /\ context \in Ancestors[checkSet[n]]})
<1> DEFINE found == {n \in set : \/ checkSet[n] = True
                                 \/ checkSet[n] # 0 /\ context \in Ancestors[checkSet[n]]}
<1>1. /\ Size \in Nat /\ Nodes = 1 .. Size /\ context \in Nodes /\ ~(0 \in Nodes) /\ ~(True \in Nodes)
      /\ 0 # True
    BY NodesAre
<1>8. Len(selector) \in Nat \ {0}
    BY SelectorIs
<1>2. 1 \in 1 .. Len(selector)
    BY <1>8
<1>3. \A n \in set : n \in found <=> checkSet[n] # 0 /\ NodeOf(checkSet[n]) \in Means[k]
    <2> TAKE n \in set
    <2>1. CASE k = 0
        <3>1. checkSet[n] # 0 => checkSet[n] = True /\ NodeOf(checkSet[n]) = context
            BY <2>1 DEF HeldBy, IsCandidate, NodeOf
        <3> QED
            BY <1>1, <2>1, <3>1, MeansAre
    <2>2. CASE k = 1 /\ selector[1].comb = "none"
        <3> DEFINE c == checkSet[n]
        <3>1. c # 0 => c \in Nodes /\ Fits(c, 1) /\ c # True /\ NodeOf(c) = c
            BY <1>1, <2>2 DEF HeldBy, IsCandidate, NodeOf
        <3>2. Means[0] = {context} /\ 1 - 1 = 0
            BY MeansAre
        <3>3. c \in Nodes /\ Fits(c, 1) => (c \in Means[1] <=> context \in Ancestors[c])
            <4>1. c \in Means[1] <=> /\ c \in Nodes /\ Fits(c, 1)
                                     /\ \E m \in Means[1 - 1] : Stands(m, selector[1].comb, c)
                BY <1>2, MeansOne
            <4>2. Stands(context, selector[1].comb, c) <=> context \in Ancestors[c]
                BY <2>2, StandsAbove
            <4> QED
                BY <3>2, <4>1, <4>2
        <3> QED
            BY <1>1, <2>2, <3>1, <3>3
    <2> QED
        BY <2>1, <2>2
<1>4. found \subseteq set
    OBVIOUS
<1> HIDE DEF found
<1>5. found \subseteq Meant
    BY <1>3, <1>4 DEF HeldBy
<1>6. NearestSuffices => Meant \subseteq found
    BY <1>3, <1>4 DEF HeldBy
<1>7. Answers(found)
    BY <1>5, <1>6 DEF Answers
<1> QED
    BY <1>7 DEF found

(* Where the engine looks: in the descendants of the context, or among its        *)
(* siblings and their descendants for a selector of one part after a combinator. *)
LEMMA SumIsOne == ASSUME NEW a \in Nat \ {0}, NEW b \in Nat, a + b = 1 PROVE a = 1 /\ b = 0
OBVIOUS

LEMMA PartsAre ==
    ASSUME Chosen
    PROVE  /\ Parts(selector) = 1 => Len(selector) = 1 /\ selector[1].comb = "none"
           /\ Len(selector) = 1 /\ selector[1].comb \in {"+", "~"} => Parts(selector) = 2
<1> DEFINE L == Len(selector)
           K == {k \in DOMAIN selector : selector[k].comb \in {">", "+", "~"}}
<1>1. /\ L \in Nat \ {0} /\ DOMAIN selector = 1 .. L /\ selector[1].comb # " "
      /\ \A k \in 1 .. L : selector[k].comb \in {"none", " ", ">", "+", "~"}
    <2>1. selector \in Seq([comb : {"none", " ", ">", "+", "~"}, label : Labels])
        BY SizzleAssumption DEF Chosen
    <2>2. DOMAIN selector = 1 .. Len(selector)
        <3> DEFINE Part == [comb : {"none", " ", ">", "+", "~"}, label : Labels]
        <3>1. selector \in Seq(Part)
            BY <2>1
        <3> HIDE DEF Part
        <3> QED
            BY <3>1
    <2> QED
        BY <2>2, SelectorIs
<1>2. Parts(selector) = L + Cardinality(K)
    BY DEF Parts
<1>3. K \subseteq 1 .. L
    BY <1>1
<1> HIDE DEF L
<1>4. IsFiniteSet(K) /\ Cardinality(K) \in Nat
    <2>0. L \in Nat
        BY <1>1
    <2>1. 1 \in Int /\ L \in Int
        BY <2>0
    <2>3. IsFiniteSet(1 .. L)
        BY <2>1, FS_Interval
    <2>2. IsFiniteSet(K)
        BY <1>3, <2>3, FS_Subset
    <2> QED
        BY <2>2, FS_CardinalityType
<1>5. ASSUME L + Cardinality(K) = 1 PROVE L = 1 /\ selector[1].comb = "none"
    <2>1. L = 1 /\ Cardinality(K) = 0
        BY <1>1, <1>4, <1>5, SumIsOne
    <2>2. K = {}
        BY <1>4, <2>1, FS_EmptySet
    <2>3. 1 \in 1 .. L
        BY <2>1
    <2>4. 1 \notin K /\ 1 \in DOMAIN selector
        BY <1>1, <2>2, <2>3
    <2> QED
        BY <1>1, <2>1, <2>3, <2>4
<1>6. ASSUME L = 1, selector[1].comb \in {"+", "~"} PROVE L + Cardinality(K) = 2
    <2>1. 1 .. L = {1}
        BY <1>6
    <2>2. K = {1}
        BY <1>1, <1>6, <2>1
    <2>3. Cardinality(K) = 1
        BY <2>2, FS_Singleton
    <2> QED
        BY <1>6, <2>3
<1> QED
    BY <1>2, <1>5, <1>6 DEF L

LEMMA PreviousIs ==
    ASSUME Chosen, NEW n \in Nodes, Previous(n) # 0
    PROVE  Previous(n) \in Before(n)
<1>1. Size \in Nat /\ Nodes = 1 .. Size
    BY NodesAre
<1>2. Before(n) \subseteq 1 .. Size
    BY <1>1 DEF Before
<1>3. Before(n) # {} /\ Previous(n) = Max(Before(n))
    BY DEF Previous
<1> QED
    BY <1>1, <1>2, <1>3, GreatestIs

(* What stands as a combinator says to a node below the context is below it.      *)
LEMMA BelowContext ==
    ASSUME Chosen, selector[1].comb \in {"none", ">"}
    PROVE  \A k \in 1 .. Len(selector) : \A n \in Means[k] : context \in Ancestors[n]
<1> DEFINE L == Len(selector)
           S == {k \in 0 .. L : k # 0 => \A n \in Means[k] : context \in Ancestors[n]}
<1>1. L \in Nat /\ \A k \in 1 .. L : selector[k].comb \in {"none", " ", ">", "+", "~"}
    BY SelectorIs
<1>6. L = Len(selector)
    OBVIOUS
<1> HIDE DEF L
<1>0. L \in Nat
    BY <1>1
<1>7. \A k \in 1 .. L :
          /\ k \in Nat /\ k \in 0 .. L /\ k # 0 /\ k - 1 \in 0 .. L
          /\ k = 1 => k - 1 = 0
          /\ k # 1 => k - 1 # 0
    BY <1>0
<1>2. 0 \in S
    BY <1>0
<1>3. ASSUME NEW k \in 1 .. L, k - 1 \in S PROVE k \in S
    <2>1. ASSUME NEW n \in Means[k] PROVE context \in Ancestors[n]
        <3>1. n \in Nodes
            BY <1>6, <2>1, MeansOne
        <3>2. PICK m \in Means[k - 1] : Stands(m, selector[k].comb, n)
            BY <1>6, <2>1, MeansOne
        <3>3. n \in 0 .. Size /\ InLine(Ancestors, n) /\ Ancestors[n] = AboveIs(Ancestors, n)
            BY <3>1, NodesAre, AncestorsLine, AncestorsAre
        <3>4. m \in Nodes /\ m # 0
            <4>1. k - 1 \in 0 .. Len(selector)
                BY <1>6, <1>7
            <4> QED
                BY <3>2, <4>1, MeansFit, NodesAre
        <3>5. m = context \/ context \in Ancestors[m]
            <4>1. CASE k = 1
                <5>1. k - 1 = 0
                    BY <1>7, <4>1
                <5> QED
                    BY <3>2, <5>1, MeansAre
            <4>2. CASE k # 1
                <5>1. k - 1 # 0
                    BY <1>7, <4>2
                <5> QED
                    BY <1>3, <3>2, <5>1
            <4> QED
                BY <4>1, <4>2
        <3>6. CASE m \in Ancestors[n]
            BY <3>3, <3>5, <3>6 DEF InLine
        <3>7. CASE selector[k].comb \in {"none", " "}
            BY <3>2, <3>6, <3>7, StandsAbove
        <3>8. CASE selector[k].comb = ">"
            <4>1. ParentOf(n) = m
                BY <3>2, <3>8, StandsAbove
            <4> QED
                BY <3>3, <3>4, <3>6, <4>1 DEF AboveIs
        <3>9. CASE selector[k].comb \in {"+", "~"}
            <4>1. m \in Before(n)
                <5>1. CASE selector[k].comb = "~"
                    BY <3>2, <5>1, StandsAbove
                <5>2. CASE selector[k].comb = "+"
                    <6>1. Previous(n) = m
                        BY <3>2, <5>2, StandsAbove
                    <6> QED
                        BY <3>1, <3>4, <6>1, PreviousIs
                <5> QED
                    BY <3>9, <5>1, <5>2
            <4>2. ParentOf(m) = ParentOf(n)
                BY <4>1 DEF Before
            <4>3. Ancestors[m] = Ancestors[n]
                <5>1. Ancestors[m] = AboveIs(Ancestors, m)
                    BY <3>4, NodesAre, AncestorsAre
                <5> QED
                    BY <3>3, <4>2, <5>1 DEF AboveIs
            <4>4. k - 1 # 0
                <5>1. k # 1
                    BY <3>9
                <5> QED
                    BY <1>7, <5>1
            <4> QED
                BY <1>3, <3>2, <4>3, <4>4
        <3> QED
            BY <1>1, <3>7, <3>8, <3>9
    <2> QED
        BY <1>7, <2>1
<1>4. \A k \in 0 .. L : k \in S
    <2> HIDE DEF S
    <2> QED
        BY <1>1, <1>2, <1>3, GoesOn
<1> QED
    BY <1>4, <1>6, <1>7

LEMMA MeantIsBelow ==
    ASSUME Chosen, NearestSuffices, NEW n \in Meant
    PROVE  n \in Descendants(SearchRoot(selector)) /\ Fits(n, Len(selector))
<1> DEFINE L == Len(selector)
           root == SearchRoot(selector)
<1>1. L \in Nat \ {0} /\ selector[1].comb \in {"none", ">", "+", "~"}
    <2>1. L \in Nat \ {0}
        BY SelectorIs
    <2>2. 1 \in 1 .. L
        BY <2>1
    <2>3. /\ selector[1].comb # " "
          /\ \A k \in 1 .. L : selector[k].comb \in {"none", " ", ">", "+", "~"}
        BY SelectorIs
    <2> QED
        BY <2>1, <2>2, <2>3
<1>2. L \in 1 .. L /\ L \in 0 .. L /\ n \in Means[L]
    BY <1>1 DEF Meant
<1>3. n \in Nodes /\ Fits(n, L)
    BY <1>2, MeansFit
<1>4. /\ n \in 0 .. Size /\ context \in 0 .. Size /\ context \in Nodes /\ context # 0
    BY <1>3, NodesAre
<1>5. /\ InLine(Ancestors, n) /\ Ancestors[n] = AboveIs(Ancestors, n)
      /\ Ancestors[context] = AboveIs(Ancestors, context)
    BY <1>4, AncestorsLine, AncestorsAre
<1>6. root = ParentOf(context) \/ (root = context /\ Parts(selector) # 2)
    BY DEF SearchRoot
<1> HIDE DEF root, L
<1>7. root = 0 \/ root \in Ancestors[n]
    <2>1. CASE selector[1].comb \in {"none", ">"}
        <3>1. context \in Ancestors[n]
            BY <1>2, <2>1, BelowContext DEF L
        <3>2. ParentOf(context) # 0 => ParentOf(context) \in Ancestors[n]
            BY <1>5, <3>1 DEF InLine, AboveIs
        <3> QED
            BY <1>6, <3>1, <3>2
    <2>2. CASE selector[1].comb \in {"+", "~"}
        <3>1. L = 1
            BY <2>2 DEF NearestSuffices, L
        <3>2. root = ParentOf(context)
            BY <1>6, <2>2, <3>1, PartsAre DEF L
        <3>3. n \in Means[1] /\ 1 \in 1 .. Len(selector) /\ Means[1 - 1] = {context}
            BY <1>2, <3>1, MeansAre DEF L
        <3>4. \E m \in Means[1 - 1] : Stands(m, selector[1].comb, n)
            BY <3>3, MeansOne
        <3>5. Stands(context, selector[1].comb, n)
            BY <3>3, <3>4
        <3>6. context \in Before(n)
            <4>1. CASE selector[1].comb = "~"
                BY <3>5, <4>1, StandsAbove
            <4>2. CASE selector[1].comb = "+"
                <5>1. Previous(n) = context
                    BY <3>5, <4>2, StandsAbove
                <5> QED
                    BY <1>3, <1>4, <5>1, PreviousIs
            <4> QED
                BY <2>2, <4>1, <4>2
        <3>7. ParentOf(n) = ParentOf(context)
            BY <3>6 DEF Before
        <3> QED
            BY <1>5, <3>2, <3>7 DEF AboveIs
    <2> QED
        BY <1>1, <2>1, <2>2
<1> QED
    BY <1>3, <1>7 DEF Descendants, root, L

FoundNodes == {n \in Descendants(SearchRoot(selector)) : Fits(n, Len(selector))}

LEMMA FindHolds ==
    ASSUME Chosen
    PROVE  HeldBy(Len(selector), FoundNodes, [n \in FoundNodes |-> n])
<1>1. Len(selector) \in Nat \ {0}
    BY SelectorIs
<1>2. Len(selector) \in 0 .. Len(selector) /\ Len(selector) # 0
    BY <1>1
<1>3. /\ \A n \in Nodes : NodeOf(n) = n
      /\ FoundNodes \subseteq Nodes
      /\ \A n \in FoundNodes : Fits(n, Len(selector)) /\ n # 0
    BY NodesAre DEF FoundNodes, Descendants, NodeOf
<1>4. NearestSuffices => \A n \in Meant : n \in FoundNodes
    BY MeantIsBelow DEF FoundNodes
<1> DEFINE check == [n \in FoundNodes |-> n]
<1>5. \A n \in FoundNodes : check[n] = n
    OBVIOUS
<1>6. check \in [FoundNodes -> Values]
    BY <1>3 DEF Values
<1> HIDE DEF check
<1>7. \A n \in FoundNodes : IsCandidate(check[n], Len(selector)) /\ NodeOf(check[n]) = n
    BY <1>2, <1>3, <1>5 DEF IsCandidate
<1>8. HeldBy(Len(selector), FoundNodes, check)
    BY <1>2, <1>3, <1>4, <1>5, <1>6, <1>7 DEF HeldBy, Meant
<1> QED
    BY <1>8 DEF check

LEMMA FindIsRight ==
    ASSUME Chosen, Parts(selector) = 1 \/ FoundNodes = {}
    PROVE  Answers(FoundNodes)
<1>1. NearestSuffices => Meant \subseteq FoundNodes
    BY MeantIsBelow DEF FoundNodes
<1>2. CASE FoundNodes = {}
    BY <1>1, <1>2 DEF Answers
<1>3. CASE Parts(selector) = 1
    <2>1. Len(selector) = 1 /\ selector[1].comb = "none"
        BY <1>3, PartsAre
    <2>2. SearchRoot(selector) = context /\ context # 0
        BY <1>3, NodesAre DEF SearchRoot
    <2>3. FoundNodes = {n \in Nodes : context \in Ancestors[n] /\ Fits(n, 1)}
        BY <2>1, <2>2 DEF FoundNodes, Descendants
    <2>4. 1 \in 1 .. Len(selector) /\ context \in Means[1 - 1]
        BY <2>1, MeansAre
    <2>5. \A n \in FoundNodes : Stands(context, selector[1].comb, n)
        BY <2>1, <2>3, StandsAbove
    <2>6. FoundNodes \subseteq Means[1]
        BY <2>3, <2>4, <2>5, MeansOne
    <2> QED
        BY <1>1, <2>1, <2>6 DEF Answers, Meant
<1> QED
    BY <1>2, <1>3

(* The engine searches in one document, which nothing changes; what it has found   *)
(* and not answered yet is held by its candidates.                             *)
SizzleInv ==
    /\ Chosen
    /\ results = Pending /\ set # {} => HeldBy(left, set, checkSet)
    /\ results # Pending => Answers(results)

LEMMA HoldsOn ==
    ASSUME UNCHANGED <<doc, context, selector>>, Chosen
    PROVE  /\ Chosen'
           /\ HeldBy(left', set', checkSet') => HeldBy(left, set, checkSet)'
           /\ Answers(results') => Answers(results)'
<1>1. /\ Means' = Means /\ Meant' = Meant /\ Nodes' = Nodes /\ Values' = Values
      /\ NearestSuffices' <=> NearestSuffices
      /\ \A n, k : Fits(n, k)' <=> Fits(n, k)
    BY MeaningStays
<1>2. Chosen'
    BY DEF Chosen
<1>3. HeldBy(left', set', checkSet') => HeldBy(left, set, checkSet)'
    BY <1>1 DEF HeldBy, IsCandidate, NodeOf
<1>4. Answers(results') => Answers(results)'
    BY <1>1 DEF Answers
<1> QED
    BY <1>2, <1>3, <1>4

LEMMA FindKeeps == ASSUME SizzleInv, Find PROVE SizzleInv'
<1>1. /\ Chosen /\ left = Len(selector) /\ results = Pending
      /\ set' = FoundNodes /\ checkSet' = [n \in FoundNodes |-> n]
      /\ UNCHANGED <<doc, context, selector>>
      /\ Parts(selector) = 1 \/ FoundNodes = {} => results' = FoundNodes
      /\ ~(Parts(selector) = 1 \/ FoundNodes = {}) => left' = left /\ results' = results
    BY DEF SizzleInv, Find, FoundNodes
<1>2. CASE Parts(selector) = 1 \/ FoundNodes = {}
    <2>1. Answers(results')
        BY <1>1, <1>2, FindIsRight
    <2>2. results' # Pending
        <3>1. FoundNodes \subseteq Nodes /\ -1 \notin Nodes
            BY <1>1, NodesAre DEF FoundNodes, Descendants, True
        <3> QED
            BY <1>1, <1>2, <3>1 DEF Pending
    <2> QED
        BY <1>1, <2>1, <2>2, HoldsOn DEF SizzleInv, Pending
<1>3. CASE ~(Parts(selector) = 1 \/ FoundNodes = {})
    <2>1. HeldBy(left', set', checkSet')
        BY <1>1, <1>3, FindHolds
    <2> QED
        BY <1>1, <1>3, <2>1, HoldsOn DEF SizzleInv, Pending
<1> QED
    BY <1>2, <1>3

LEMMA RelativeKeeps == ASSUME SizzleInv, Relative PROVE SizzleInv'
<1>1. /\ Chosen /\ HeldBy(left, set, checkSet) /\ results = Pending /\ MoreCombinators
      /\ left' = left - 1 /\ set' = set /\ results' = results
      /\ UNCHANGED <<doc, context, selector>>
      /\ selector[left].comb \in {">", "+"} =>
            checkSet' = [n \in set |-> OneStep(checkSet[n], selector[left].comb, left - 1)]
      /\ selector[left].comb \notin {">", "+"} =>
            checkSet' = Walk(left - 1, selector[left].comb = "~").check
    BY DEF SizzleInv, Relative
<1>2. left \in 1 .. Len(selector) /\ selector[left].comb # "none"
    <2>1. left \in 0 .. Len(selector)
        BY <1>1 DEF HeldBy
    <2>2. left > 1 \/ (left = 1 /\ selector[1].comb # "none")
        BY <1>1 DEF MoreCombinators
    <2>3. Len(selector) \in Nat
        BY <1>1, SelectorIs
    <2>4. left \in 1 .. Len(selector) /\ (left > 1 => left \in 2 .. Len(selector))
        BY <2>1, <2>2, <2>3
    <2>5. \A k \in 2 .. Len(selector) : selector[k].comb # "none"
        BY <1>1, SelectorIs
    <2> QED
        BY <2>2, <2>4, <2>5
<1>3. selector[left].comb \in {" ", ">", "+", "~"}
    BY <1>1, <1>2, SelectorIs
<1>4. CASE selector[left].comb \in {">", "+"}
    BY <1>1, <1>2, <1>4, StepKeeps, HoldsOn DEF SizzleInv
<1>5. CASE selector[left].comb \in {" ", "~"}
    <2> DEFINE back == selector[left].comb = "~"
    <2>1. back \in BOOLEAN /\ (back <=> selector[left].comb = "~")
        OBVIOUS
    <2>2. checkSet' = Walk(left - 1, back).check
        BY <1>1, <1>5
    <2> HIDE DEF back
    <2>3. HeldBy(left - 1, set, Walk(left - 1, back).check)
        BY <1>1, <1>2, <1>5, <2>1, WalkKeeps
    <2> QED
        BY <1>1, <2>2, <2>3, HoldsOn DEF SizzleInv
<1> QED
    BY <1>3, <1>4, <1>5

LEMMA PruneKeeps == ASSUME SizzleInv, Prune PROVE SizzleInv'
<1>1. /\ Chosen /\ HeldBy(left, set, checkSet) /\ results = Pending /\ ~MoreCombinators
      /\ UNCHANGED <<doc, context, selector>>
      /\ results' = {n \in set : \/ checkSet[n] = True
                                 \/ checkSet[n] # 0 /\ context \in Ancestors[checkSet[n]]}
    BY DEF SizzleInv, Prune
<1>2. left = 0 \/ (left = 1 /\ selector[1].comb = "none")
    <2>1. left \in 0 .. Len(selector) /\ Len(selector) \in Nat
        BY <1>1, SelectorIs DEF HeldBy
    <2>2. ~(left > 1) /\ ~(left = 1 /\ selector[1].comb # "none")
        BY <1>1 DEF MoreCombinators
    <2> QED
        BY <2>1, <2>2
<1>3. Answers(results')
    BY <1>1, <1>2, PruneIsRight
<1>4. results' # Pending
    <2>1. set \subseteq Nodes /\ -1 \notin Nodes
        BY <1>1, NodesAre DEF HeldBy, True
    <2> QED
        BY <1>1, <2>1 DEF Pending
<1> QED
    BY <1>1, <1>3, <1>4, HoldsOn DEF SizzleInv

LEMMA SizzleStart == SizzleInit => SizzleInv
BY DEF SizzleInit, SizzleInv, Chosen

LEMMA SizzleStep == SizzleInv /\ [SizzleNext]_sizzleVars => SizzleInv'
<1> SUFFICES ASSUME SizzleInv, [SizzleNext]_sizzleVars PROVE SizzleInv'
    OBVIOUS
<1>1. CASE UNCHANGED sizzleVars
    <2>1. /\ UNCHANGED <<doc, context, selector>> /\ Chosen
          /\ left' = left /\ set' = set /\ checkSet' = checkSet /\ results' = results
        BY <1>1 DEF sizzleVars, SizzleInv
    <2> QED
        BY <2>1, HoldsOn DEF SizzleInv, Pending
<1> QED
    BY <1>1, FindKeeps, RelativeKeeps, PruneKeeps DEF SizzleNext

(* FindsWhatIsMeant: for any documents, contexts and selectors, however long,    *)
(* whatever the walks of Expr.relative (dirCheck, dirNodeCheck) leave on the       *)
(* nodes for each other: nothing is found that the selector does not mean, and    *)
(* nothing that it means is missing where the nearest candidates suffice.       *)
THEOREM SelectorFindsMeant == SizzleSpec => []FindsWhatIsMeant
<1>1. SizzleInv => FindsWhatIsMeant
    BY DEF SizzleInv, Answers, FindsWhatIsMeant
<1> QED
    BY <1>1, SizzleStart, SizzleStep, PTL DEF SizzleSpec

-----------------------------------------------------------------------------
(* The filters of a selector.                                                 *)

AllFilters == Elementary \cup Positions \cup Negations

LEMMA FilterKinds ==
    /\ \A f \in Elementary : f.type \in {"TAG", "CLASS", "CHILD"}
    /\ \A f \in Positions : f.type = "POS"
    /\ \A f \in Negations : f.type = "PSEUDO"
BY DEF Elementary, Positions, Negations

LEMMA ElementsAre ==
    /\ Len(Items) \in Nat /\ DOMAIN Items = 1 .. Len(Items)
    /\ \A x \in 1 .. Len(Items) : Items[x] \in [place : Nat, of : Nat, tag : Marks, classes : SUBSET Marks]
<1> DEFINE R == [place : Nat, of : Nat, tag : Marks, classes : SUBSET Marks]
<1>1. Items \in Seq(R)
    BY FiltersAssumption
<1> HIDE DEF R
<1>2. /\ Len(Items) \in Nat /\ DOMAIN Items = 1 .. Len(Items)
      /\ \A x \in 1 .. Len(Items) : Items[x] \in R
    BY <1>1
<1> QED
    BY <1>2 DEF R

LEMMA KeptIsRows == ASSUME NEW loop, NEW K PROVE Kept(loop, K) = KeptRows(loop, K)
BY DEF Kept, KeptRows

(* The nth child: of a multiple of first, the quotient tells which it is.       *)
LEMMA QuotientIs ==
    ASSUME NEW d \in Int, NEW a \in Nat \ {0}, d % a = 0
    PROVE  d = a * (d \div a) /\ d \div a \in Int
OBVIOUS

LEMMA MultipleIs ==
    ASSUME NEW a \in Nat \ {0}, NEW n \in Int
    PROVE  (a * n) % a = 0
OBVIOUS

LEMMA SignOfProduct ==
    ASSUME NEW a \in Nat \ {0}, NEW q \in Int
    PROVE  /\ (a * q) * a >= 0 => q >= 0
           /\ q >= 0 => (a * q) * a >= 0 /\ a * q >= q
           /\ (a * q) * (-a) >= 0 => q <= 0
           /\ q <= 0 => (a * q) * (-a) >= 0 /\ a * q <= q
           /\ (-a) * (-q) = a * q
OBVIOUS

LEMMA NthIs ==
    ASSUME NEW p \in Nat, NEW first \in Int, NEW last \in Int,
           NEW f, f.first = first, f.last = last, NEW e, e.place = p
    PROVE  Nth(f, e) <=> \E n \in 0 .. p + (IF last < 0 THEN -last ELSE last) : p = (first * n) + last
<1> DEFINE d == p - last
           most == p + (IF last < 0 THEN -last ELSE last)
           a == IF first < 0 THEN -first ELSE first
           q == d \div a
<1>1. d \in Int /\ most \in Nat /\ d <= most /\ -d <= most
    OBVIOUS
<1>2. \A n \in 0 .. most : p = (first * n) + last <=> d = first * n
    OBVIOUS
<1>3. CASE first = 0
    <2>1. Nth(f, e) <=> d = 0
        BY <1>3 DEF Nth
    <2>2. \A n \in 0 .. most : first * n = 0
        BY <1>3
    <2>3. 0 \in 0 .. most
        BY <1>1
    <2> HIDE DEF d, most
    <2> QED
        BY <1>2, <2>1, <2>2, <2>3 DEF most, d
<1>4. CASE first # 0
    <2>1. a \in Nat \ {0}
        BY <1>4
    <2>2. Nth(f, e) <=> d % a = 0 /\ d * first >= 0
        BY <1>4 DEF Nth
    <2>3. first = a \/ first = -a
        OBVIOUS
    <2> HIDE DEF d, most, a
    <2>4. ASSUME Nth(f, e) PROVE \E n \in 0 .. most : d = first * n
        <3>1. d = a * q /\ q \in Int
            BY <1>1, <2>1, <2>2, <2>4, QuotientIs
        <3>2. CASE first = a
            <4>1. q >= 0 /\ d >= q
                BY <2>1, <2>2, <2>4, <3>1, <3>2, SignOfProduct
            <4>2. q \in 0 .. most
                BY <1>1, <3>1, <4>1
            <4> QED
                BY <3>1, <3>2, <4>2
        <3>3. CASE first = -a
            <4>1. q <= 0 /\ d <= q /\ d = first * (-q)
                BY <2>1, <2>2, <2>4, <3>1, <3>3, SignOfProduct
            <4>2. -q \in 0 .. most
                BY <1>1, <3>1, <4>1
            <4> QED
                BY <4>1, <4>2
        <3> QED
            BY <2>3, <3>2, <3>3
    <2>5. ASSUME NEW n \in 0 .. most, d = first * n PROVE Nth(f, e)
        <3>1. n \in Int /\ n >= 0
            BY <1>1
        <3>2. CASE first = a
            BY <2>1, <2>2, <2>5, <3>1, <3>2, MultipleIs, SignOfProduct
        <3>3. CASE first = -a
            <4>1. d = a * (-n) /\ -n \in Int /\ -n <= 0
                <5>1. (-a) * (-(-n)) = a * (-n)
                    BY <2>1, <3>1, SignOfProduct
                <5> QED
                    BY <2>5, <3>1, <3>3, <5>1
            <4>2. d % a = 0
                BY <2>1, <4>1, MultipleIs
            <4>3. d * first >= 0
                BY <2>1, <3>3, <4>1, SignOfProduct
            <4> QED
                BY <2>2, <4>2, <4>3
        <3> QED
            BY <2>3, <3>2, <3>3
    <2> QED
        BY <1>2, <2>4, <2>5 DEF most, d
<1> QED
    BY <1>3, <1>4

(* A filter of an element alone finds what it means.                            *)
LEMMA FoundIs ==
    ASSUME NEW f \in Elementary, NEW loop, NEW i, loop[i] \in 1 .. Len(Items)
    PROVE  Found(f, loop, i) <=> IsMet(f, Items[loop[i]])
<1> DEFINE e == Items[loop[i]]
<1>1. e.place \in Nat /\ e.of \in Nat
    BY ElementsAre
<1>2. f.type \in {"TAG", "CLASS", "CHILD"} /\ IsMet(f, e) = Meets(f, e)
    BY FilterKinds DEF IsMet
<1> HIDE DEF e
<1>3. CASE f.type = "TAG"
    BY <1>2, <1>3 DEF Found, Meets, e
<1>4. CASE f.type = "CLASS"
    BY <1>2, <1>4 DEF Found, Meets, e
<1>5. CASE f.type = "CHILD"
    <2>1. f.kind \in {"nth", "first", "last", "only"} /\ f.first \in Int /\ f.last \in Int
        BY <1>5 DEF Elementary
    <2>2. Found(f, loop, i) <=> IsChild(f, e)
        BY <1>5 DEF Found, e
    <2>3. CASE f.kind = "nth"
        <3>1. IsChild(f, e) <=> Nth(f, e)
            BY <2>3 DEF IsChild
        <3>2. Meets(f, e) <=> \E n \in 0 .. e.place + (IF f.last < 0 THEN -f.last ELSE f.last) :
                                  e.place = (f.first * n) + f.last
            BY <1>5, <2>3 DEF Meets
        <3>3. Nth(f, e) <=> \E n \in 0 .. e.place + (IF f.last < 0 THEN -f.last ELSE f.last) :
                                e.place = (f.first * n) + f.last
            BY <1>1, <2>1, NthIs
        <3> QED
            BY <1>2, <2>2, <3>1, <3>2, <3>3 DEF e
    <2>4. CASE f.kind # "nth"
        BY <1>2, <1>5, <2>1, <2>2, <2>4 DEF IsChild, Meets, e
    <2> QED
        BY <2>3, <2>4
<1> QED
    BY <1>2, <1>3, <1>4, <1>5 DEF e

(* The filter that is taken next is one of those left: a :not if it is the first *)
(* with a colon, and a position if there is no other before it or of an element  *)
(* alone.                                                                     *)
Alone == {"TAG", "CLASS", "CHILD"}

LEMMA FirstIs ==
    ASSUME NEW S, S \subseteq Nat, S # {}
    PROVE  First(S) \in S /\ \A j \in S : First(S) <= j
BY LeastExists DEF First

LEMMA RankIs ==
    ASSUME NEW f, f.type \in Alone \cup {"POS"}
    PROVE  /\ Rank(f) \in 1 .. 4
           /\ Rank(f) = 4 <=> f.type = "POS"
BY DEF Rank, Alone

LEMMA NextIs ==
    ASSUME NEW e \in Seq(AllFilters), NEW places, places \subseteq 1 .. Len(e), places # {}
    PROVE  LET next == NextFilter(e, places) IN
           /\ next \in places
           /\ e[next].type = "PSEUDO" =>
                 \A j \in places : e[j].type \in {"PSEUDO", "POS"} => next <= j
           /\ e[next].type = "POS" =>
                 \A j \in places : e[j].type \notin Alone /\ next <= j
<1> DEFINE colons == {i \in places : e[i].type \in {"PSEUDO", "CHILD", "POS"}}
           others == {i \in places : e[i].type # "PSEUDO"}
           Sooner(i, j) == Rank(e[i]) < Rank(e[j]) \/ (Rank(e[i]) = Rank(e[j]) /\ i <= j)
           next == NextFilter(e, places)
<1>1. places \subseteq Nat /\ \A i \in places : e[i] \in AllFilters
    OBVIOUS
<1>2. \A i \in places : e[i].type \in Alone \cup {"POS", "PSEUDO"}
    BY <1>1, FilterKinds DEF AllFilters, Alone
<1>3. \A i \in others : Rank(e[i]) \in 1 .. 4 /\ (Rank(e[i]) = 4 <=> e[i].type = "POS")
    BY <1>2, RankIs
<1>4. CASE colons # {} /\ e[First(colons)].type = "PSEUDO"
    <2>1. next = First(colons)
        BY <1>4 DEF NextFilter
    <2>2. next \in colons /\ \A j \in colons : next <= j
        BY <1>1, <1>4, <2>1, FirstIs
    <2>3. e[next].type = "PSEUDO"
        BY <1>4, <2>1
    <2> HIDE DEF next
    <2> QED
        BY <2>2, <2>3 DEF next
<1>5. CASE ~(colons # {} /\ e[First(colons)].type = "PSEUDO")
    <2>1. next = CHOOSE i \in others : \A j \in others : Sooner(i, j)
        BY <1>5 DEF NextFilter
    <2>2. others # {}
        <3>1. CASE colons = {}
            BY <3>1
        <3>2. CASE colons # {}
            <4>1. First(colons) \in colons
                BY <1>1, <3>2, FirstIs
            <4> QED
                BY <1>5, <3>2, <4>1
        <3> QED
            BY <3>1, <3>2
    <2>3. PICK i \in others : \A j \in others : Sooner(i, j)
        <3> DEFINE ranks == {Rank(e[i]) : i \in others}
        <3>1. ranks \subseteq Nat /\ ranks # {}
            <4>1. PICK k \in others : TRUE
                BY <2>2
            <4>2. Rank(e[k]) \in ranks
                BY <4>1
            <4>3. \A i \in others : Rank(e[i]) \in Nat
                BY <1>3
            <4> HIDE DEF others
            <4> QED
                BY <4>2, <4>3
        <3>2. PICK r \in ranks : \A s \in ranks : r <= s
            BY <3>1, LeastExists
        <3> DEFINE firsts == {i \in others : Rank(e[i]) = r}
        <3>3. firsts \subseteq Nat /\ firsts # {}
            BY <1>1
        <3>4. PICK i \in firsts : \A j \in firsts : i <= j
            BY <3>3, LeastExists
        <3>5. ASSUME NEW j \in others PROVE Sooner(i, j)
            <4>1. r \in 1 .. 4 /\ Rank(e[j]) \in 1 .. 4 /\ r <= Rank(e[j]) /\ Rank(e[i]) = r
                BY <1>3, <3>2
            <4>2. CASE Rank(e[j]) = r
                BY <3>4, <4>1, <4>2
            <4>3. CASE Rank(e[j]) # r
                BY <4>1, <4>3
            <4> QED
                BY <4>2, <4>3
        <3> QED
            BY <3>4, <3>5
    <2> HIDE DEF Sooner
    <2>4. next \in others /\ \A j \in others : Sooner(next, j)
        <3> HIDE DEF others, next
        <3> QED
            BY <2>1, <2>3
    <2>5. next \in places /\ e[next].type # "PSEUDO"
        BY <2>4
    <2>6. ASSUME e[next].type = "POS", NEW j \in places PROVE e[j].type \notin Alone /\ next <= j
        <3>1. \A k \in others : Rank(e[k]) = 4 /\ next <= k
            <4> TAKE k \in others
            <4>1. Rank(e[next]) = 4 /\ Rank(e[k]) \in 1 .. 4
                BY <1>3, <2>4, <2>6
            <4>2. Sooner(next, k)
                BY <2>4
            <4> HIDE DEF next
            <4> QED
                BY <4>1, <4>2 DEF Sooner
        <3>2. \A k \in others : e[k].type = "POS" /\ next <= k
            BY <1>3, <3>1
        <3>3. \A k \in places : e[k].type \in {"POS", "PSEUDO"}
            BY <3>2
        <3>4. j \in colons
            BY <3>3
        <3>5. First(colons) \in colons /\ \A k \in colons : First(colons) <= k
            BY <1>1, <3>4, FirstIs
        <3>6. First(colons) \in others
            BY <1>5, <3>4, <3>5
        <3>7. next <= First(colons) /\ First(colons) <= j
            BY <3>2, <3>4, <3>5, <3>6
        <3>8. next \in Nat /\ First(colons) \in Nat /\ j \in Nat
            BY <1>1, <2>5, <3>5
        <3>9. next <= j
            <4> HIDE DEF next, colons
            <4> QED
                BY <3>7, <3>8
        <3>10. e[j].type \notin Alone
            BY <3>3 DEF Alone
        <3> QED
            BY <3>9, <3>10
    <2> HIDE DEF next
    <2> QED
        BY <2>5, <2>6 DEF next
<1> QED
    BY <1>4, <1>5

(* The loop holds elements, in their order.                                    *)
InLoop(loop) == loop \in Seq(Nat) /\ Ascending(loop) /\ Members(loop) \subseteq 1 .. Len(Items)

LEMMA KeptInLoop ==
    ASSUME NEW loop, InLoop(loop), NEW K
    PROVE  /\ InLoop(Kept(loop, K))
           /\ Members(Kept(loop, K)) = {loop[i] : i \in (1 .. Len(loop)) \cap K}
<1>1. /\ Kept(loop, K) \in Seq(Nat) /\ Ascending(Kept(loop, K))
      /\ Members(Kept(loop, K)) = {loop[i] : i \in (1 .. Len(loop)) \cap K}
    BY KeptAscends, KeptIsRows DEF InLoop
<1>2. {loop[i] : i \in (1 .. Len(loop)) \cap K} \subseteq Members(loop)
    BY DEF Members
<1> QED
    BY <1>1, <1>2 DEF InLoop

LEMMA PassingIs ==
    ASSUME NEW loop, InLoop(loop), NEW f \in Elementary, NEW not \in BOOLEAN
    PROVE  /\ InLoop(Passing(f, loop, not))
           /\ Members(Passing(f, loop, not)) = {x \in Members(loop) : IsMet(f, Items[x]) <=> ~not}
<1> DEFINE K == {i \in 1 .. Len(loop) : Found(f, loop, i) <=> ~not}
<1>1. \A i \in 1 .. Len(loop) : loop[i] \in Members(loop) /\ loop[i] \in 1 .. Len(Items)
    BY DEF InLoop, Members
<1>2. \A i \in 1 .. Len(loop) : Found(f, loop, i) <=> IsMet(f, Items[loop[i]])
    BY <1>1, FoundIs
<1>3. Passing(f, loop, not) = Kept(loop, K)
    BY DEF Passing
<1>4. {loop[i] : i \in (1 .. Len(loop)) \cap K} = {x \in Members(loop) : IsMet(f, Items[x]) <=> ~not}
    BY <1>2 DEF Members
<1> QED
    BY <1>3, <1>4, KeptInLoop

(* The place of an element in the loop is the number of those before it.       *)
LEMMA CountedIs ==
    ASSUME NEW loop, InLoop(loop)
    PROVE  /\ Cardinality(Members(loop)) = Len(loop)
           /\ \A i \in 1 .. Len(loop) : Cardinality({y \in Members(loop) : y < loop[i]}) = i - 1
<1> DEFINE n == Len(loop)
           Front(k) == {loop[j] : j \in 1 .. k}
           S == {k \in 0 .. n : IsFiniteSet(Front(k)) /\ Cardinality(Front(k)) = k}
<1>1. n \in Nat /\ \A i \in 1 .. n : loop[i] \in Nat
    BY DEF InLoop
<1>2. \A i \in 1 .. n : \A j \in 1 .. n : i < j => loop[i] < loop[j]
    BY DEF InLoop, Ascending
<1> HIDE DEF n
<1>3. 0 \in S
    <2>1. Front(0) = {}
        OBVIOUS
    <2> HIDE DEF Front
    <2> QED
        BY <1>1, <2>1, FS_EmptySet
<1>4. ASSUME NEW i \in 1 .. n, i - 1 \in S PROVE i \in S
    <2>1. Front(i) = Front(i - 1) \cup {loop[i]}
        <3>1. \A j : j \in 1 .. i <=> j \in 1 .. i - 1 \/ j = i
            BY <1>1
        <3> QED
            BY <3>1
    <2>2. loop[i] \notin Front(i - 1)
        <3> SUFFICES ASSUME NEW j \in 1 .. i - 1, loop[i] = loop[j] PROVE FALSE
            OBVIOUS
        <3>1. j \in 1 .. n /\ j < i
            BY <1>1
        <3> QED
            BY <1>1, <1>2, <3>1
    <2>3. IsFiniteSet(Front(i - 1)) /\ Cardinality(Front(i - 1)) = i - 1
        BY <1>4
    <2> HIDE DEF Front
    <2>4. IsFiniteSet(Front(i)) /\ Cardinality(Front(i)) = (i - 1) + 1
        BY <2>1, <2>2, <2>3, FS_AddElement
    <2> QED
        BY <1>1, <2>4
<1> HIDE DEF S
<1>5. \A k \in 0 .. n : k \in S
    BY <1>1, <1>3, <1>4, GoesOn
<1>6. \A k \in 0 .. n : Cardinality(Front(k)) = k
    BY <1>5 DEF S
<1>7. Members(loop) = Front(n)
    BY DEF Members, n
<1>8. ASSUME NEW i \in 1 .. n PROVE {y \in Members(loop) : y < loop[i]} = Front(i - 1)
    <2>1. \A j \in 1 .. n : loop[j] < loop[i] <=> j \in 1 .. i - 1
        <3> TAKE j \in 1 .. n
        <3>1. CASE j < i
            BY <1>1, <1>2, <3>1
        <3>2. CASE j = i
            BY <1>1, <3>2
        <3>3. CASE i < j
            BY <1>1, <1>2, <3>3
        <3> QED
            BY <1>1, <3>1, <3>2, <3>3
    <2>2. \A j \in 1 .. i - 1 : j \in 1 .. n
        BY <1>1
    <2> QED
        BY <1>7, <2>1, <2>2
<1>9. n \in 0 .. n /\ \A i \in 1 .. n : i - 1 \in 0 .. n
    BY <1>1
<1> HIDE DEF Front
<1> QED
    BY <1>6, <1>7, <1>8, <1>9 DEF n

(* What an expression without :not and position makes of the loop: those that   *)
(* meet, or that do not meet, each of its filters.                            *)
LEMMA FilteredIs ==
    ASSUME NEW loop, InLoop(loop), NEW not \in BOOLEAN,
           NEW e \in Seq(AllFilters), \A j \in 1 .. Len(e) : e[j] \in Elementary
    PROVE  /\ InLoop(Filtered(e, loop, not))
           /\ Members(Filtered(e, loop, not)) =
                 {x \in Members(loop) : \A j \in 1 .. Len(e) : IsMet(e[j], Items[x]) <=> ~not}
<1> DEFINE L == Len(e)
           V == [expr : SUBSET (1 .. L), loop : {s \in Seq(Nat) : InLoop(s)}]
           a == [expr |-> DOMAIN e, loop |-> loop]
           Turn(k, was) ==
               LET next == NextFilter(e, was.expr)
               IN [expr |-> was.expr \ {next}, loop |-> Passing(e[next], was.loop, not)]
           T == [p \in (1 .. L) \X V |-> IF p[2].expr = {} THEN p[2] ELSE Turn(p[1], p[2])]
           f == Steps(L, V, a, T)
<1>1. L \in Nat /\ DOMAIN e = 1 .. L
    OBVIOUS
<1>2. a \in V
    BY <1>1 DEF InLoop
<1>3. \A k \in 1 .. L : \A was \in V : was.expr # {} =>
         /\ NextFilter(e, was.expr) \in was.expr
         /\ Turn(k, was) \in V
    <2> SUFFICES ASSUME NEW k \in 1 .. L, NEW was \in V, was.expr # {}
                 PROVE  NextFilter(e, was.expr) \in was.expr /\ Turn(k, was) \in V
        OBVIOUS
    <2> DEFINE next == NextFilter(e, was.expr)
    <2>1. was.expr \subseteq 1 .. Len(e) /\ InLoop(was.loop)
        OBVIOUS
    <2>2. next \in was.expr
        BY <2>1, NextIs
    <2> HIDE DEF next
    <2>3. e[next] \in Elementary
        BY <2>1, <2>2
    <2>4. InLoop(Passing(e[next], was.loop, not))
        BY <2>1, <2>3, PassingIs
    <2> QED
        BY <2>1, <2>2, <2>4 DEF next, InLoop
<1> HIDE DEF Turn, V, a, L
<1>4. T \in [(1 .. L) \X V -> V]
    BY <1>3
<1>5. Stepwise(f, L, V, a, T)
    <2> HIDE DEF T
    <2> QED
        BY <1>1, <1>2, <1>4, StepsDefine
<1>6. f \in [0 .. L -> V] /\ f[0] = a /\ \A k \in 1 .. L : f[k] = T[<<k, f[k - 1]>>]
    <2> HIDE DEF f, T
    <2> QED
        BY <1>5 DEF Stepwise
<1> HIDE DEF f
<1>7. \A k \in 1 .. L : f[k - 1] \in V /\ (f[k - 1].expr # {} => f[k] = Turn(k, f[k - 1]))
    BY <1>1, <1>6
<1> HIDE DEF T
<1> DEFINE IsLeft(k) ==
               /\ IsFiniteSet(f[k].expr) /\ Cardinality(f[k].expr) = L - k
               /\ Members(f[k].loop) =
                     {x \in Members(loop) : \A j \in (1 .. L) \ f[k].expr : IsMet(e[j], Items[x]) <=> ~not}
           S == {k \in 0 .. L : IsLeft(k)}
<1>8. 0 \in S
    <2>1. f[0].expr = 1 .. L /\ f[0].loop = loop
        BY <1>1, <1>6 DEF a
    <2>2. IsFiniteSet(1 .. L) /\ Cardinality(1 .. L) = L
        BY <1>1, FS_Interval
    <2>3. IsLeft(0)
        BY <1>1, <2>1, <2>2
    <2> QED
        BY <1>1, <2>3
<1>9. \A k \in 1 .. L : k - 1 \in S => f[k - 1].expr # {}
    <2> TAKE k \in 1 .. L
    <2> HAVE k - 1 \in S
    <2>1. Cardinality(f[k - 1].expr) = L - (k - 1) /\ L - (k - 1) # 0
        BY <1>1
    <2> QED
        BY <2>1, FS_EmptySet
<1>10. ASSUME NEW k \in 1 .. L, k - 1 \in S PROVE k \in S
    <2> DEFINE was == f[k - 1]
               next == NextFilter(e, was.expr)
    <2>1. was \in V /\ was.expr # {} /\ next \in was.expr /\ f[k] = Turn(k, was)
        BY <1>3, <1>7, <1>9, <1>10
    <2>2. was.expr \subseteq 1 .. L /\ InLoop(was.loop)
        BY <2>1 DEF V
    <2>3. f[k].expr = was.expr \ {next} /\ f[k].loop = Passing(e[next], was.loop, not)
        BY <2>1 DEF Turn
    <2>4. IsFiniteSet(was.expr) /\ Cardinality(was.expr) = L - (k - 1)
        BY <1>10
    <2>5. Members(was.loop) =
             {x \in Members(loop) : \A j \in (1 .. L) \ was.expr : IsMet(e[j], Items[x]) <=> ~not}
        BY <1>10
    <2> HIDE DEF was, next
    <2>6. IsFiniteSet(f[k].expr) /\ Cardinality(f[k].expr) = (L - (k - 1)) - 1
        BY <2>1, <2>3, <2>4, FS_RemoveElement
    <2>7. e[next] \in Elementary /\ next \in 1 .. L
        BY <2>1, <2>2 DEF L
    <2>8. Members(f[k].loop) = {x \in Members(was.loop) : IsMet(e[next], Items[x]) <=> ~not}
        BY <2>2, <2>3, <2>7, PassingIs
    <2>9. \A j : j \in (1 .. L) \ f[k].expr <=> j \in (1 .. L) \ was.expr \/ j = next
        BY <2>2, <2>3, <2>7
    <2>10. Members(f[k].loop) =
             {x \in Members(loop) : \A j \in (1 .. L) \ f[k].expr : IsMet(e[j], Items[x]) <=> ~not}
        BY <2>5, <2>8, <2>9
    <2>11. (L - (k - 1)) - 1 = L - k /\ k \in 0 .. L
        BY <1>1
    <2> QED
        BY <2>6, <2>10, <2>11
<1>11. \A k \in 0 .. L : k \in S
    <2> HIDE DEF S
    <2> QED
        BY <1>1, <1>8, <1>10, GoesOn
<1> DEFINE Body(g) == [k \in 0 .. L |-> IF k = 0 THEN a ELSE Turn(k, g[k - 1])]
<1>12. f = Body(f)
    <2> HIDE DEF S
    <2>1. \A k \in 0 .. L : k = 0 \/ (k \in 1 .. L /\ k - 1 \in 0 .. L)
        BY <1>1
    <2>2. f = [k \in 0 .. L |-> f[k]]
        BY <1>6
    <2>3. \A k \in 0 .. L : f[k] = IF k = 0 THEN a ELSE Turn(k, f[k - 1])
        BY <1>6, <1>7, <1>9, <1>11, <2>1
    <2> QED
        BY <2>2, <2>3
<1> DEFINE g == CHOOSE g : g = Body(g)
<1>13. Filtered(e, loop, not) = g[L].loop
    BY DEF Filtered, Turn, a, L
<1>14. g = Body(g)
    <2> HIDE DEF Body
    <2> QED
        BY <1>12
<1>15. \A k \in 0 .. L : g[k] = f[k]
    <2> DEFINE R == {k \in 0 .. L : g[k] = f[k]}
    <2>1. \A k \in 0 .. L : g[k] = IF k = 0 THEN a ELSE Turn(k, g[k - 1])
        <3> HIDE DEF g
        <3> QED
            BY <1>14
    <2>2. \A k \in 0 .. L : f[k] = IF k = 0 THEN a ELSE Turn(k, f[k - 1])
        BY <1>12
    <2> HIDE DEF g, S
    <2>3. 0 \in R
        BY <1>1, <2>1, <2>2
    <2>4. ASSUME NEW k \in 1 .. L, k - 1 \in R PROVE k \in R
        BY <1>1, <2>1, <2>2, <2>4
    <2> HIDE DEF R
    <2>5. \A k \in 0 .. L : k \in R
        BY <1>1, <2>3, <2>4, GoesOn
    <2> QED
        BY <2>5 DEF R
<1>16. Filtered(e, loop, not) = f[L].loop /\ L \in 0 .. L
    <2> HIDE DEF g, S
    <2> QED
        BY <1>1, <1>13, <1>15
<1>17. f[L].expr = {} /\ f[L] \in V
    <2>1. IsFiniteSet(f[L].expr) /\ Cardinality(f[L].expr) = L - L
        BY <1>11, <1>16
    <2> HIDE DEF S
    <2> QED
        BY <1>1, <1>6, <1>16, <2>1, FS_EmptySet
<1>18. Members(f[L].loop) = {x \in Members(loop) : \A j \in (1 .. L) \ f[L].expr : IsMet(e[j], Items[x]) <=> ~not}
    BY <1>11, <1>16
<1>19. InLoop(f[L].loop)
    BY <1>17 DEF V
<1> HIDE DEF S
<1> QED
    BY <1>16, <1>17, <1>18, <1>19 DEF L

(* What one filter leaves of the loop.                                        *)
Remaining(f, among) ==
    {x \in among : IF f.type = "POS" THEN IsCounted(f, x, among) ELSE IsMet(f, Items[x])}

LEMMA FilterByIs ==
    ASSUME NEW loop, InLoop(loop), NEW f \in AllFilters, Understood(f)
    PROVE  /\ InLoop(FilterBy(f, loop))
           /\ Members(FilterBy(f, loop)) = Remaining(f, Members(loop))
<1>1. CASE f \in Elementary
    <2>1. f.type \notin {"POS", "PSEUDO"}
        BY <1>1, FilterKinds
    <2>2. FilterBy(f, loop) = Passing(f, loop, FALSE)
        BY <2>1 DEF FilterBy
    <2>3. /\ InLoop(Passing(f, loop, FALSE))
          /\ Members(Passing(f, loop, FALSE)) = {x \in Members(loop) : IsMet(f, Items[x]) <=> ~FALSE}
        BY <1>1, PassingIs
    <2> QED
        BY <2>1, <2>2, <2>3 DEF Remaining
<1>2. CASE f \in Positions
    <2> DEFINE n == Len(loop)
               among == Members(loop)
               K == {i \in 1 .. n : Found(f, loop, i) <=> ~FALSE}
    <2>1. f.type = "POS"
        BY <1>2, FilterKinds
    <2>2. FilterBy(f, loop) = Kept(loop, K)
        BY <2>1 DEF FilterBy, Passing
    <2>3. \A i \in 1 .. n : Found(f, loop, i) <=> AtPosition(f, i - 1, n)
        BY <2>1 DEF Found
    <2>4. \A i \in 1 .. n : IsCounted(f, loop[i], among) <=> AtPosition(f, i - 1, n)
        BY CountedIs DEF IsCounted
    <2>5. {loop[i] : i \in (1 .. n) \cap K} = {x \in among : IsCounted(f, x, among)}
        <3>1. \A i \in 1 .. n : Found(f, loop, i) <=> IsCounted(f, loop[i], among)
            BY <2>3, <2>4
        <3> QED
            BY <3>1 DEF Members
    <2> HIDE DEF K, n, among
    <2> QED
        BY <2>1, <2>2, <2>5, KeptInLoop DEF Remaining, n, among
<1>3. CASE f \in Negations
    <2> DEFINE e == f.not
               L == Len(e)
    <2>1. f.type = "PSEUDO"
        BY <1>3, FilterKinds
    <2>2. e \in Seq(Elementary \cup Positions) /\ e # <<>>
        BY <1>3 DEF Negations
    <2>3. L \in Nat /\ L # 0 /\ DOMAIN e = 1 .. L /\ \A j \in 1 .. L : e[j] \in Elementary \cup Positions
        BY <2>2
    <2>4. \A j \in 1 .. L : e[j] \in Elementary
        <3>1. \A j \in 1 .. L : e[j].type # "POS"
            BY <2>1, <2>3 DEF Understood
        <3> HIDE DEF e, L
        <3> QED
            BY <2>3, <3>1, FilterKinds
    <2>5. e \in Seq(AllFilters)
        BY <2>2 DEF AllFilters
    <2>6. \A x : IsMet(f, Items[x]) <=> ~\A j \in 1 .. L : Meets(e[j], Items[x])
        BY <2>1, <2>3 DEF IsMet
    <2>7. \A x : \A j \in 1 .. L : IsMet(e[j], Items[x]) <=> Meets(e[j], Items[x])
        <3>1. \A j \in 1 .. L : e[j].type # "PSEUDO"
            BY <2>4, FilterKinds
        <3> HIDE DEF e, L
        <3> QED
            BY <3>1 DEF IsMet
    <2>8. Remaining(f, Members(loop)) =
             {x \in Members(loop) : ~\A j \in 1 .. L : IsMet(e[j], Items[x])}
        <3>1. Remaining(f, Members(loop)) = {x \in Members(loop) : IsMet(f, Items[x])}
            BY <2>1 DEF Remaining
        <3> QED
            BY <2>6, <2>7, <3>1
    <2>9. CASE e[1].type = "TAG"
        <3> DEFINE searched == Filtered(e, loop, FALSE)
                   K == {i \in 1 .. Len(loop) : \A j \in 1 .. Len(searched) : searched[j] # loop[i]}
        <3>1. FilterBy(f, loop) = Kept(loop, K)
            BY <2>1, <2>9 DEF FilterBy
        <3>2. Members(searched) = {x \in Members(loop) : \A j \in 1 .. L : IsMet(e[j], Items[x]) <=> ~FALSE}
            <4> HIDE DEF e
            <4> QED
                BY <2>4, <2>5, FilteredIs
        <3> HIDE DEF searched
        <3>3. \A i \in 1 .. Len(loop) : i \in K <=> loop[i] \notin Members(searched)
            BY DEF Members
        <3>4. {loop[i] : i \in (1 .. Len(loop)) \cap K} = Members(loop) \ Members(searched)
            <4> HIDE DEF K
            <4> QED
                BY <3>3 DEF Members
        <3> HIDE DEF K, L, e
        <3>5. Members(loop) \ Members(searched) = {x \in Members(loop) : ~\A j \in 1 .. L : IsMet(e[j], Items[x])}
            BY <3>2
        <3> QED
            BY <2>8, <3>1, <3>4, <3>5, KeptInLoop
    <2>10. CASE e[1].type # "TAG"
        <3>1. FilterBy(f, loop) = Filtered(e, loop, TRUE)
            BY <2>1, <2>10 DEF FilterBy
        <3>2. L = 1
            <4>1. ~(L > 1)
                BY <2>1, <2>10 DEF Understood
            <4> HIDE DEF L
            <4> QED
                BY <2>3, <4>1
        <3> HIDE DEF e
        <3>3. /\ InLoop(Filtered(e, loop, TRUE))
              /\ Members(Filtered(e, loop, TRUE)) =
                    {x \in Members(loop) : \A j \in 1 .. L : IsMet(e[j], Items[x]) <=> ~TRUE}
            BY <2>4, <2>5, FilteredIs
        <3> HIDE DEF L
        <3>4. {x \in Members(loop) : \A j \in 1 .. L : IsMet(e[j], Items[x]) <=> ~TRUE}
                = {x \in Members(loop) : ~\A j \in 1 .. L : IsMet(e[j], Items[x])}
            BY <3>2
        <3> QED
            BY <2>8, <3>1, <3>3, <3>4
    <2> QED
        BY <2>9, <2>10
<1> QED
    BY <1>1, <1>2, <1>3 DEF AllFilters

(* What an expression means, filter by filter.                                 *)
ExprIs(e) == e \in Seq(AllFilters) /\ \A i \in 1 .. Len(e) : Understood(e[i])

MeaningBy(e, M) ==
    /\ M \in [0 .. Len(e) -> SUBSET (1 .. Len(Items))]
    /\ M[0] = {x \in 1 .. Len(Items) : MeetsAlone(e, x)}
    /\ \A i \in 1 .. Len(e) : M[i] = Leaves(e[i], M[i - 1])

LEMMA MeaningIs ==
    ASSUME NEW e, ExprIs(e)
    PROVE  \E M : MeaningBy(e, M) /\ Meaning(e) = M[Len(e)]
<1> DEFINE L == Len(e)
           V == SUBSET (1 .. Len(Items))
           a == {x \in DOMAIN Items : MeetsAlone(e, x)}
           F == [p \in (1 .. L) \X V |-> Leaves(e[p[1]], p[2])]
           f == Steps(L, V, a, F)
<1>1. L \in Nat /\ DOMAIN Items = 1 .. Len(Items)
    BY ElementsAre DEF ExprIs
<1>2. a \in V
    BY <1>1
<1>3. \A i \in 1 .. L : \A among \in V : Leaves(e[i], among) \in V
    BY DEF Leaves
<1> HIDE DEF L, V, a
<1>4. F \in [(1 .. L) \X V -> V]
    BY <1>3
<1>5. Stepwise(f, L, V, a, F)
    <2> HIDE DEF F
    <2> QED
        BY <1>1, <1>2, <1>4, StepsDefine
<1>6. f \in [0 .. L -> V] /\ f[0] = a /\ \A i \in 1 .. L : f[i] = F[<<i, f[i - 1]>>]
    <2> HIDE DEF f, F
    <2> QED
        BY <1>5 DEF Stepwise
<1> HIDE DEF f
<1>7. \A i \in 1 .. L : f[i] = Leaves(e[i], f[i - 1])
    <2>1. \A i \in 1 .. L : f[i - 1] \in V
        BY <1>1, <1>6
    <2> QED
        BY <1>6, <2>1
<1> DEFINE Body(g) == [i \in 0 .. L |-> IF i = 0 THEN a ELSE Leaves(e[i], g[i - 1])]
           g == CHOOSE g : g = Body(g)
<1>8. f = Body(f)
    <2>1. \A i \in 0 .. L : i = 0 \/ i \in 1 .. L
        BY <1>1
    <2>2. f = [i \in 0 .. L |-> f[i]]
        BY <1>6
    <2>3. \A i \in 0 .. L : f[i] = IF i = 0 THEN a ELSE Leaves(e[i], f[i - 1])
        BY <1>6, <1>7, <2>1
    <2> QED
        BY <2>2, <2>3
<1>9. Meaning(e) = g[L]
    BY DEF Meaning, a, L
<1>10. g = Body(g)
    <2> HIDE DEF Body
    <2> QED
        BY <1>8
<1> HIDE DEF g
<1>11. \A i \in 0 .. L : g[i] = IF i = 0 THEN a ELSE Leaves(e[i], g[i - 1])
    BY <1>10
<1>12. \A i \in 0 .. L : g[i] \in V
    <2> DEFINE S == {i \in 0 .. L : g[i] \in V}
    <2>1. 0 \in S
        BY <1>1, <1>2, <1>11
    <2>2. ASSUME NEW i \in 1 .. L, i - 1 \in S PROVE i \in S
        BY <1>1, <1>3, <1>11, <2>2
    <2> HIDE DEF S
    <2>3. \A i \in 0 .. L : i \in S
        BY <1>1, <2>1, <2>2, GoesOn
    <2> QED
        BY <2>3 DEF S
<1>13. g \in [0 .. L -> V]
    <2>1. g = [i \in 0 .. L |-> g[i]]
        BY <1>10
    <2> QED
        BY <1>12, <2>1
<1>14. g[0] = a /\ \A i \in 1 .. L : g[i] = Leaves(e[i], g[i - 1])
    BY <1>1, <1>11
<1>15. MeaningBy(e, g)
    BY <1>1, <1>13, <1>14 DEF MeaningBy, L, V, a
<1> QED
    BY <1>9, <1>15 DEF L

(* It narrows from left to right, stays where there is no :not and no position,  *)
(* and is what is met, up to the first position.                              *)
HasColon(i) == written[i].type \in {"PSEUDO", "POS"}

LEMMA MeaningNarrows ==
    ASSUME ExprIs(written), NEW M, MeaningBy(written, M), NEW q \in 0 .. Len(written)
    PROVE  \A i \in q .. Len(written) :
              /\ M[i] \subseteq M[q]
              /\ (\A j \in q + 1 .. i : ~HasColon(j)) => M[i] = M[q]
<1> DEFINE L == Len(written)
           Narrow(i) == /\ M[i] \subseteq M[q]
                        /\ (\A j \in q + 1 .. i : ~HasColon(j)) => M[i] = M[q]
           S == {k \in 0 .. L - q : Narrow(q + k)}
<1>1. L \in Nat /\ q \in Nat /\ L - q \in Nat
    BY DEF ExprIs
<1>2. 0 \in S
    BY <1>1
<1>3. ASSUME NEW k \in 1 .. L - q, k - 1 \in S PROVE k \in S
    <2> DEFINE i == q + k
    <2>1. i \in 1 .. L /\ i - 1 = q + (k - 1) /\ k \in 0 .. L - q
        BY <1>1
    <2>2. Narrow(i - 1)
        BY <1>3, <2>1
    <2>3. M[i] = Leaves(written[i], M[i - 1])
        BY <2>1 DEF MeaningBy
    <2>4. M[i] \subseteq M[i - 1] /\ (~HasColon(i) => M[i] = M[i - 1])
        BY <2>3 DEF Leaves, HasColon
    <2>5. i \in q + 1 .. i /\ \A j \in q + 1 .. i - 1 : j \in q + 1 .. i
        BY <1>1, <2>1
    <2> HIDE DEF i
    <2>6. Narrow(i)
        BY <2>2, <2>4, <2>5
    <2> HIDE DEF Narrow
    <2> QED
        BY <2>1, <2>6 DEF i
<1> HIDE DEF S
<1>4. \A k \in 0 .. L - q : k \in S
    BY <1>1, <1>2, <1>3, GoesOn
<1>5. ASSUME NEW i \in q .. L PROVE Narrow(i)
    <2>1. i - q \in 0 .. L - q /\ q + (i - q) = i
        BY <1>1
    <2> HIDE DEF Narrow
    <2>2. Narrow(q + (i - q))
        BY <1>4, <2>1 DEF S
    <2> QED
        BY <2>1, <2>2
<1> QED
    BY <1>5

MetUpTo(i) ==
    {x \in 1 .. Len(Items) :
        \A j \in 1 .. Len(written) :
            written[j].type \in Alone \/ (written[j].type = "PSEUDO" /\ j <= i)
                => IsMet(written[j], Items[x])}

LEMMA MeaningIsMet ==
    ASSUME ExprIs(written), NEW M, MeaningBy(written, M)
    PROVE  \A i \in 0 .. Len(written) :
              /\ M[i] \subseteq MetUpTo(i)
              /\ (\A j \in 1 .. i : written[j].type # "POS") => M[i] = MetUpTo(i)
<1> DEFINE L == Len(written)
           Met(i) == /\ M[i] \subseteq MetUpTo(i)
                     /\ (\A j \in 1 .. i : written[j].type # "POS") => M[i] = MetUpTo(i)
           S == {i \in 0 .. L : Met(i)}
<1>1. L \in Nat /\ DOMAIN written = 1 .. L
    BY DEF ExprIs
<1>2. \A j \in 1 .. L : written[j].type \in Alone \cup {"PSEUDO", "POS"}
    <2>1. \A j \in 1 .. L : written[j] \in AllFilters
        BY DEF ExprIs
    <2> QED
        BY <2>1, FilterKinds DEF AllFilters, Alone
<1>3. 0 \in S
    <2>1. \A j \in 1 .. L : ~(j <= 0)
        BY <1>1
    <2>2. M[0] = MetUpTo(0)
        BY <1>1, <2>1 DEF MeaningBy, MetUpTo, MeetsAlone, Alone
    <2> QED
        BY <1>1, <2>2
<1>4. ASSUME NEW i \in 1 .. L, i - 1 \in S PROVE i \in S
    <2>1. Met(i - 1) /\ M[i] = Leaves(written[i], M[i - 1])
        BY <1>4 DEF MeaningBy
    <2>2. \A j \in 1 .. L : j <= i <=> j <= i - 1 \/ j = i
        BY <1>1
    <2>3. MetUpTo(i) = {x \in MetUpTo(i - 1) : written[i].type = "PSEUDO" => IsMet(written[i], Items[x])}
        BY <1>1, <2>2 DEF MetUpTo
    <2>4. \A j \in 1 .. i - 1 : j \in 1 .. i
        BY <1>1
    <2>5. i \in 1 .. i /\ i \in 0 .. L
        BY <1>1
    <2>6. CASE written[i].type = "PSEUDO"
        <3>1. M[i] = {x \in M[i - 1] : IsMet(written[i], Items[x])}
            BY <2>1, <2>6 DEF Leaves
        <3> QED
            BY <2>1, <2>3, <2>4, <2>5, <2>6, <3>1
    <2>7. CASE written[i].type = "POS"
        <3>1. M[i] \subseteq M[i - 1]
            BY <2>1, <2>7 DEF Leaves
        <3> QED
            BY <2>1, <2>3, <2>5, <2>7, <3>1
    <2>8. CASE written[i].type \notin {"PSEUDO", "POS"}
        <3>1. M[i] = M[i - 1]
            BY <2>1, <2>8 DEF Leaves
        <3> QED
            BY <2>1, <2>3, <2>4, <2>5, <2>8, <3>1
    <2> QED
        BY <2>6, <2>7, <2>8
<1> HIDE DEF S
<1>5. \A i \in 0 .. L : i \in S
    BY <1>1, <1>3, <1>4, GoesOn
<1> QED
    BY <1>5 DEF S

(* While there is more than positions and :not left, no position was taken, and *)
(* the loop holds what meets the filters that were.  After that what is left is  *)
(* taken from left to right, and the loop holds what the expression means up to  *)
(* a place.                                                                   *)
Taken == (1 .. Len(written)) \ expr

MeaningFor(e) == CHOOSE M : MeaningBy(e, M) /\ Meaning(e) = M[Len(e)]

MeaningTo == MeaningFor(written)

MetByTaken ==
    /\ \A i \in Taken : written[i].type # "POS"
    /\ \A i \in Taken : written[i].type = "PSEUDO" => \A j \in expr : HasColon(j) => i < j
    /\ Members(curLoop) = {x \in 1 .. Len(Items) : \A i \in Taken : IsMet(written[i], Items[x])}

MeantUpTo(q) ==
    /\ expr = {i \in q + 1 .. Len(written) : HasColon(i)}
    /\ Members(curLoop) = MeaningTo[q]

(* An expression of which nothing is cut out.                                  *)
Whole == ExprIs(written) /\ SparesNth(written)

FiltersInv ==
    /\ written \in Exprs /\ expr \subseteq 1 .. Len(written)
    /\ Whole => /\ cut = {} /\ ~failed
                /\ InLoop(curLoop)
                /\ MetByTaken \/ \E q \in 0 .. Len(written) : MeantUpTo(q)

LEMMA ExprOf ==
    ASSUME written \in Exprs
    PROVE  /\ written \in Seq(AllFilters) /\ Len(written) \in Nat /\ DOMAIN written = 1 .. Len(written)
           /\ ExprIs(written) <=> \A i \in DOMAIN written : Understood(written[i])
<1>1. written \in Seq(AllFilters)
    BY FiltersAssumption DEF AllFilters
<1> QED
    BY <1>1 DEF ExprIs

LEMMA MeaningToIs ==
    ASSUME ExprIs(written)
    PROVE  MeaningBy(written, MeaningTo) /\ Meaning(written) = MeaningTo[Len(written)]
BY MeaningIs DEF MeaningTo, MeaningFor

LEMMA FiltersStart == FiltersInit => FiltersInv
<1> SUFFICES ASSUME FiltersInit PROVE FiltersInv
    OBVIOUS
<1> DEFINE n == Len(Items)
<1>1. written \in Exprs /\ expr = 1 .. Len(written)
    BY ExprOf DEF FiltersInit
<1>2. curLoop = [i \in 1 .. n |-> i] /\ n \in Nat
    BY ElementsAre DEF FiltersInit
<1> HIDE DEF n
<1>3. curLoop \in Seq(Nat) /\ Len(curLoop) = n /\ \A i \in 1 .. n : curLoop[i] = i
    BY <1>2
<1>4. Ascending(curLoop) /\ Members(curLoop) = 1 .. n
    BY <1>3 DEF Ascending, Members
<1>5. Taken = {}
    BY <1>1 DEF Taken
<1>6. MetByTaken
    BY <1>4, <1>5 DEF MetByTaken, n
<1> QED
    BY <1>1, <1>3, <1>4, <1>6 DEF FiltersInv, InLoop, n, FiltersInit

(* A :not of a whole expression keeps its names.                               *)
LEMMA NothingIsCut ==
    ASSUME written \in Exprs, expr \subseteq 1 .. Len(written), Whole
    PROVE  ~CutsNext(written, expr, cut)
<1> SUFFICES ASSUME CutsNext(written, expr, cut) PROVE FALSE
    OBVIOUS
<1> DEFINE colons == {i \in expr : written[i].type \in {"PSEUDO", "CHILD", "POS"}}
           holding == Holding(written, expr \ cut)
           p == First(colons)
<1>1. Len(written) \in Nat /\ DOMAIN written = 1 .. Len(written)
    BY ExprOf
<1>2. holding # {} /\ written[p].type = "POS"
    BY DEF CutsNext
<1>3. PICK j \in holding : TRUE
    BY <1>2
<1>4. j \in expr /\ HoldsNth(written[j]) /\ written[j].type = "PSEUDO"
    BY <1>3 DEF Holding, HoldsNth
<1>5. colons \subseteq Nat /\ j \in colons
    <2>1. colons \subseteq expr
        OBVIOUS
    <2>2. 1 .. Len(written) \subseteq Nat
        BY <1>1
    <2>3. j \in colons
        BY <1>4
    <2> QED
        BY <2>1, <2>2, <2>3
<1> HIDE DEF holding, colons
<1>6. p \in colons /\ p <= j
    BY <1>5, FirstIs
<1> HIDE DEF p
<1>7. p \in 1 .. Len(written) /\ j \in 1 .. Len(written) /\ p # j
    BY <1>2, <1>4, <1>6 DEF colons
<1>8. p < j
    BY <1>1, <1>6, <1>7
<1> QED
    BY <1>1, <1>2, <1>4, <1>7, <1>8 DEF Whole, SparesNth

(* The end of an expression that is refused, and the turn that cuts a name.    *)
LEMMA CutKeeps == ASSUME FiltersInv, CutChildren PROVE FiltersInv'
<1>1. written \in Exprs /\ expr \subseteq 1 .. Len(written) /\ ~Whole
    BY NothingIsCut DEF FiltersInv, CutChildren
<1>2. written' = written /\ expr' = expr
    BY DEF CutChildren
<1>3. Whole' <=> Whole
    BY <1>2 DEF Whole
<1> QED
    BY <1>1, <1>2, <1>3 DEF FiltersInv

LEMMA ThrowKeeps == ASSUME FiltersInv, FilterThrows PROVE FiltersInv'
<1>1. cut # {}
    BY DEF FilterThrows
<1>2. written \in Exprs /\ ~Whole
    BY <1>1 DEF FiltersInv
<1>3. written' = written /\ expr' = {}
    BY DEF FilterThrows
<1>4. Whole' <=> Whole
    BY <1>3 DEF Whole
<1> QED
    BY <1>2, <1>3, <1>4 DEF FiltersInv

LEMMA FilterStepKeeps == ASSUME FiltersInv, FilterStep PROVE FiltersInv'
<1> DEFINE L == Len(written)
           next == NextFilter(written, expr)
           f == written[next]
           M == MeaningTo
<1>1. /\ written \in Exprs /\ expr \subseteq 1 .. L /\ expr # {} /\ written' = written
      /\ curLoop' = FilterBy(ReadAt(next), curLoop)
      /\ expr' = IF curLoop' = <<>> THEN {} ELSE expr \ {next}
      /\ cut' = cut /\ failed' = failed
    BY DEF FiltersInv, FilterStep
<1>2. written \in Seq(AllFilters) /\ L \in Nat
    BY <1>1, ExprOf
<1>3. /\ next \in expr
      /\ f.type = "PSEUDO" => \A j \in expr : HasColon(j) => next <= j
      /\ f.type = "POS" => \A j \in expr : written[j].type \notin Alone /\ next <= j
    <2> HIDE DEF L
    <2> QED
        BY <1>1, <1>2, NextIs DEF HasColon, L
<1> HIDE DEF next
<1>4. next \in 1 .. L /\ f \in AllFilters /\ f.type \in Alone \cup {"PSEUDO", "POS"}
    BY <1>1, <1>2, <1>3, FilterKinds DEF AllFilters, Alone
<1>5. \A j \in 1 .. L : written[j].type \in Alone \/ HasColon(j)
    <2>1. \A j \in 1 .. L : written[j] \in AllFilters
        BY <1>2
    <2> QED
        BY <2>1, FilterKinds DEF AllFilters, Alone, HasColon
<1>6. expr' \subseteq 1 .. L /\ L' = L
    BY <1>1
<1>7. ASSUME Whole
      PROVE  InLoop(curLoop') /\ (MetByTaken' \/ \E q \in 0 .. L : MeantUpTo(q)')
    <2>1. InLoop(curLoop) /\ (MetByTaken \/ \E q \in 0 .. L : MeantUpTo(q))
        BY <1>7 DEF FiltersInv
    <2>2. Understood(f)
        BY <1>4, <1>7 DEF ExprIs, Whole
    <2>3. InLoop(curLoop') /\ Members(curLoop') = Remaining(f, Members(curLoop))
        <3>1. cut = {}
            BY <1>7 DEF FiltersInv
        <3>2. curLoop' = FilterBy(f, curLoop)
            BY <1>1, <3>1 DEF ReadAt
        <3> QED
            BY <1>4, <2>1, <2>2, <3>2, FilterByIs
    <2>4. MeaningBy(written, M) /\ M' = M
        BY <1>1, <1>7, MeaningToIs DEF MeaningTo, Whole
    <2> HIDE DEF f, M, L
    <2>5. /\ curLoop' = <<>> <=> Members(curLoop') = {}
          /\ curLoop' # <<>> => expr' = expr \ {next}
          /\ curLoop' = <<>> => expr' = {}
        <3> DEFINE x == curLoop'
        <3>1. x \in Seq(Nat) /\ Members(x) = {x[i] : i \in 1 .. Len(x)}
            BY <2>3 DEF InLoop, Members
        <3> HIDE DEF x
        <3>2. Len(x) = 0 => Members(x) = {}
            BY <3>1
        <3>3. Len(x) # 0 => x[1] \in Members(x)
            BY <3>1
        <3>4. x = <<>> <=> Members(x) = {}
            BY <3>1, <3>2, <3>3
        <3> QED
            BY <1>1, <3>4 DEF x
    (* Where nothing is left, the expression means nothing.                     *)
    <2>6. ASSUME Members(curLoop') = {}, M[L] = {} PROVE \E q \in 0 .. L : MeantUpTo(q)'
        <3>1. PICK q \in 0 .. L : q = L
            BY <1>2 DEF L
        <3>2. {i \in q + 1 .. L : HasColon(i)} = {}
            BY <1>2, <3>1 DEF L
        <3>3. MeantUpTo(q)'
            BY <1>1, <1>6, <2>4, <2>5, <2>6, <3>1, <3>2 DEF MeantUpTo, HasColon, L, M
        <3> QED
            BY <3>3
    (* The filter at p is taken when what is left are the colons from p on.     *)
    <2>7. ASSUME NEW p \in 1 .. L, p = next, expr = {i \in p .. L : HasColon(i)},
                 Members(curLoop) = M[p - 1]
          PROVE  \E q \in 0 .. L : MeantUpTo(q)'
        <3>1. HasColon(p)
            BY <1>3, <2>7
        <3>2. M[p] = Leaves(f, M[p - 1])
            BY <2>4, <2>7 DEF MeaningBy, f, L
        <3>3. Members(curLoop') = M[p]
            BY <2>3, <2>7, <3>1, <3>2 DEF Remaining, Leaves, HasColon, f
        <3>4. p \in 0 .. L /\ L \in 0 .. L /\ L \in p .. L
            BY <1>2, <2>7 DEF L
        <3>5. CASE Members(curLoop') = {}
            <4>1. M[L] \subseteq M[p]
                BY <1>7, <2>4, <3>4, MeaningNarrows DEF L, Whole
            <4> QED
                BY <2>6, <3>3, <3>5, <4>1
        <3>6. CASE Members(curLoop') # {}
            <4>1. expr' = expr \ {p}
                BY <2>5, <2>7, <3>6
            <4>2. \A i : i \in p + 1 .. L <=> i \in p .. L /\ i # p
                BY <1>2, <2>7 DEF L
            <4>3. expr' = {i \in p + 1 .. L : HasColon(i)}
                BY <2>7, <4>1, <4>2
            <4>4. MeantUpTo(p)'
                BY <1>1, <1>6, <2>4, <3>3, <4>3 DEF MeantUpTo, HasColon, L, M
            <4> QED
                BY <3>4, <4>4
        <3> QED
            BY <3>5, <3>6
    <2>8. CASE \E q \in 0 .. L : MeantUpTo(q)
        <3>1. PICK q \in 0 .. L : MeantUpTo(q)
            BY <2>8
        <3>2. expr = {i \in q + 1 .. L : HasColon(i)} /\ Members(curLoop) = M[q]
            BY <3>1 DEF MeantUpTo, L, M
        <3>3. HasColon(next) /\ next \in q + 1 .. L /\ \A j \in expr : next <= j
            <4>1. HasColon(next) /\ next \in q + 1 .. L
                BY <1>3, <3>2
            <4>2. f.type \in {"PSEUDO", "POS"}
                BY <4>1 DEF HasColon, f
            <4> QED
                BY <1>3, <3>2, <4>1, <4>2
        <3>4. q \in Nat /\ next \in 1 .. L /\ next - 1 \in q .. L /\ next \in Int
            BY <1>2, <3>3 DEF L
        <3>5. \A j \in q + 1 .. next - 1 : ~HasColon(j)
            <4> SUFFICES ASSUME NEW j \in q + 1 .. next - 1, HasColon(j) PROVE FALSE
                OBVIOUS
            <4>1. j \in Int /\ q + 1 <= j /\ j <= next - 1
                BY <3>4
            <4>2. L \in Nat /\ next <= L
                BY <1>2, <3>4 DEF L
            <4>3. j \in q + 1 .. L /\ ~(next <= j)
                BY <3>4, <4>1, <4>2
            <4>4. next <= j
                BY <3>2, <3>3, <4>3
            <4> QED
                BY <4>3, <4>4
        <3>6. M[next - 1] = M[q]
            BY <1>7, <2>4, <3>1, <3>4, <3>5, MeaningNarrows DEF L, Whole
        <3>7. expr = {i \in next .. L : HasColon(i)}
            <4>1. \A i \in expr : i \in next .. L /\ HasColon(i)
                BY <1>2, <3>2, <3>3, <3>4 DEF L
            <4>2. \A i \in next .. L : i \in q + 1 .. L
                BY <1>2, <3>3, <3>4 DEF L
            <4> QED
                BY <3>2, <4>1, <4>2
        <3>8. Members(curLoop) = M[next - 1] /\ next \in 1 .. L
            BY <3>2, <3>4, <3>6
        <3> QED
            BY <2>3, <2>7, <3>7, <3>8
    <2>9. CASE MetByTaken
        <3>1. /\ \A i \in Taken : written[i].type # "POS"
              /\ \A i \in Taken : written[i].type = "PSEUDO" => \A j \in expr : HasColon(j) => i < j
              /\ Members(curLoop) = {x \in 1 .. Len(Items) : \A i \in Taken : IsMet(written[i], Items[x])}
            BY <2>9 DEF MetByTaken
        <3>2. Taken = (1 .. L) \ expr
            BY DEF Taken, L
        <3>3. CASE f.type = "POS"
            <4>1. \A j \in expr : HasColon(j) /\ next <= j
                BY <1>1, <1>3, <1>5, <3>3 DEF L, f
            <4>2. \A j \in Taken : j < next \/ ~HasColon(j)
                BY <1>3, <3>1, <3>3 DEF HasColon, f
            <4>3. expr = {i \in next .. L : HasColon(i)}
                <5>1. \A i \in expr : i \in next .. L
                    BY <1>1, <1>2, <1>4, <4>1 DEF L
                <5>2. ASSUME NEW i \in next .. L, HasColon(i) PROVE i \in expr
                    <6>1. i \in 1 .. L /\ ~(i < next)
                        BY <1>2, <1>4 DEF L
                    <6> QED
                        BY <3>2, <4>2, <5>2, <6>1
                <5> QED
                    BY <4>1, <5>1, <5>2
            <4>4. next - 1 \in 0 .. L /\ \A j \in 1 .. L : j <= next - 1 <=> j < next
                BY <1>2, <1>4 DEF L
            <4>5. \A j \in 1 .. L : j \in Taken <=> written[j].type \in Alone \/ (HasColon(j) /\ j <= next - 1)
                <5> TAKE j \in 1 .. L
                <5>1. CASE HasColon(j)
                    <6>1. written[j].type \notin Alone
                        BY <5>1 DEF HasColon, Alone
                    <6>2. j \in expr <=> next <= j
                        BY <4>1, <4>3, <5>1, <1>2, <1>4 DEF L
                    <6>3. next <= j <=> ~(j <= next - 1)
                        BY <1>2, <1>4 DEF L
                    <6> QED
                        BY <3>2, <5>1, <6>1, <6>2, <6>3
                <5>2. CASE ~HasColon(j)
                    BY <1>5, <3>2, <4>1, <5>2 DEF L
                <5> QED
                    BY <5>1, <5>2
            <4>6. \A j \in 1 .. L : HasColon(j) /\ j <= next - 1 => written[j].type = "PSEUDO"
                BY <3>1, <4>5 DEF HasColon
            <4>7. \A j \in 1 .. L : j \in Taken <=> written[j].type \in Alone
                                                    \/ (written[j].type = "PSEUDO" /\ j <= next - 1)
                BY <4>5, <4>6 DEF HasColon
            <4>8. MetUpTo(next - 1) = {x \in 1 .. Len(Items) : \A i \in Taken : IsMet(written[i], Items[x])}
                BY <3>2, <4>7 DEF MetUpTo, L
            <4>9. \A j \in 1 .. next - 1 : written[j].type # "POS"
                <5> TAKE j \in 1 .. next - 1
                <5>1. next \in 1 .. L /\ L \in Nat
                    BY <1>2, <1>4 DEF L
                <5>2. j \in 1 .. L /\ j <= next - 1
                    BY <5>1
                <5> QED
                    BY <4>6, <5>2 DEF HasColon
            <4>10. M[next - 1] = MetUpTo(next - 1)
                BY <1>7, <2>4, <4>4, <4>9, MeaningIsMet DEF L, Whole
            <4> QED
                BY <1>4, <2>3, <2>7, <3>1, <4>3, <4>8, <4>10
        <3>4. CASE f.type # "POS"
            <4> DEFINE Met == {x \in 1 .. Len(Items) :
                                  \A i \in Taken \cup {next} : IsMet(written[i], Items[x])}
            <4>1. Members(curLoop') = {x \in Members(curLoop) : IsMet(f, Items[x])}
                BY <2>3, <3>4 DEF Remaining
            <4>2. Members(curLoop') = Met
                BY <3>1, <4>1 DEF f
            <4>3. CASE Members(curLoop') = {}
                <5>1. M[L] \subseteq MetUpTo(L)
                    <6>1. L \in 0 .. L
                        BY <1>2 DEF L
                    <6> QED
                        BY <1>7, <2>4, <6>1, MeaningIsMet DEF L, Whole
                <5>2. \A i \in Taken \cup {next} : i \in 1 .. L /\ i <= L /\ written[i].type # "POS"
                    BY <1>2, <1>4, <3>1, <3>2, <3>4 DEF L, f
                <5>3. MetUpTo(L) \subseteq Met
                    <6>1. \A i \in Taken \cup {next} :
                             written[i].type \in Alone \/ (written[i].type = "PSEUDO" /\ i <= L)
                        BY <1>5, <5>2 DEF HasColon
                    <6> QED
                        BY <5>2, <6>1 DEF MetUpTo, L
                <5> QED
                    BY <2>3, <2>6, <4>2, <4>3, <5>1, <5>3
            <4>4. CASE Members(curLoop') # {}
                <5>1. expr' = expr \ {next}
                    BY <2>5, <4>4
                <5>2. Taken' = Taken \cup {next}
                    BY <1>1, <1>4, <3>2, <5>1, <1>6 DEF Taken, L
                <5>3. \A i \in Taken' : written'[i].type # "POS"
                    BY <1>1, <3>1, <3>4, <5>2 DEF f
                <5>4. ASSUME NEW i \in Taken', written'[i].type = "PSEUDO", NEW j \in expr', HasColon(j)'
                      PROVE  i < j
                    <6>1. HasColon(j) /\ j \in expr /\ j # next
                        BY <1>1, <5>1, <5>4 DEF HasColon
                    <6>2. CASE i \in Taken
                        BY <1>1, <3>1, <5>4, <6>1, <6>2
                    <6>3. CASE i = next
                        <7>1. next <= j
                            BY <1>1, <1>3, <5>4, <6>1, <6>3 DEF f
                        <7>2. next \in Int /\ j \in Int
                            BY <1>1, <1>4, <6>1
                        <7> QED
                            BY <6>1, <6>3, <7>1, <7>2
                    <6> QED
                        BY <5>2, <6>2, <6>3
                <5>5. Members(curLoop)' = {x \in 1 .. Len(Items) : \A i \in Taken' : IsMet(written'[i], Items[x])}
                    BY <1>1, <4>2, <5>2 DEF Members
                <5>6. MetByTaken'
                    BY <5>3, <5>4, <5>5 DEF MetByTaken
                <5> QED
                    BY <2>3, <5>6
            <4> QED
                BY <4>3, <4>4
        <3> QED
            BY <3>3, <3>4
    <2> QED
        BY <2>1, <2>3, <2>8, <2>9
<1> QED
    BY <1>1, <1>6, <1>7 DEF FiltersInv, Whole, ExprIs, InLoop, Members, Ascending

LEMMA FiltersStep == FiltersInv /\ [FiltersNext]_filterVars => FiltersInv'
<1> SUFFICES ASSUME FiltersInv, [FiltersNext]_filterVars PROVE FiltersInv'
    OBVIOUS
<1>1. CASE FilterStep
    BY <1>1, FilterStepKeeps
<1>2. CASE UNCHANGED filterVars
    <2>1. /\ written' = written /\ expr' = expr /\ curLoop' = curLoop
          /\ cut' = cut /\ failed' = failed
        BY <1>2 DEF filterVars
    <2>2. Whole' <=> Whole
        BY <2>1 DEF Whole
    <2>3. InLoop(curLoop)' <=> InLoop(curLoop)
        BY <2>1
    <2>4. Taken' = Taken /\ MeaningTo' = MeaningTo /\ Len(written)' = Len(written)
        BY <2>1 DEF Taken, MeaningTo
    <2>5. MetByTaken => MetByTaken'
        BY <2>1, <2>4 DEF MetByTaken, HasColon
    <2>6. \A q \in 0 .. Len(written) : MeantUpTo(q) => MeantUpTo(q)'
        BY <2>1, <2>4 DEF MeantUpTo, HasColon
    <2>7. (\E q \in 0 .. Len(written) : MeantUpTo(q)) => (\E q \in 0 .. Len(written) : MeantUpTo(q))'
        BY <2>4, <2>6
    <2> QED
        BY <2>1, <2>2, <2>3, <2>5, <2>7 DEF FiltersInv
<1> QED
    BY <1>1, <1>2, CutKeeps, ThrowKeeps DEF FiltersNext

(* The filters of a selector keep the elements that the expression means, in    *)
(* their order: those that meet all that is said of an element alone, and, from  *)
(* left to right, what the positions and the :not leave of them; whatever the    *)
(* elements, the expression and the order in which filter takes its parts, if  *)
(* no position of it stands before a :not with an nth child.                   *)
THEOREM FiltersKeepMeant == FiltersSpec => []KeepsWhatIsMeant
<1>1. FiltersInv => KeepsWhatIsMeant
    <2> SUFFICES ASSUME FiltersInv, expr = {}, SparesNth(written),
                        \A i \in DOMAIN written : Understood(written[i])
                 PROVE  /\ ~failed
                        /\ {curLoop[i] : i \in DOMAIN curLoop} = Meaning(written)
                        /\ \A i, j \in DOMAIN curLoop : i < j => curLoop[i] < curLoop[j]
        BY DEF KeepsWhatIsMeant
    <2> DEFINE L == Len(written)
               M == MeaningTo
    <2>1. written \in Exprs /\ ExprIs(written) /\ Whole /\ L \in Nat
        BY ExprOf DEF FiltersInv, Whole
    <2>2. ~failed /\ InLoop(curLoop) /\ (MetByTaken \/ \E q \in 0 .. L : MeantUpTo(q))
        BY <2>1 DEF FiltersInv
    <2>3. MeaningBy(written, M) /\ Meaning(written) = M[L]
        BY <2>1, MeaningToIs
    <2>4. /\ {curLoop[i] : i \in DOMAIN curLoop} = Members(curLoop)
          /\ \A i, j \in DOMAIN curLoop : i < j => curLoop[i] < curLoop[j]
        <3>1. curLoop \in Seq(Nat) /\ Ascending(curLoop)
            BY <2>2 DEF InLoop
        <3>2. DOMAIN curLoop = 1 .. Len(curLoop)
            BY <3>1
        <3> QED
            BY <3>1, <3>2 DEF Ascending, Members
    <2> HIDE DEF L, M
    <2>5. CASE MetByTaken
        <3>1. Taken = 1 .. L
            BY DEF Taken, L
        <3>2. \A j \in 1 .. L : written[j].type # "POS"
            BY <2>5, <3>1 DEF MetByTaken
        <3>3. L \in 0 .. L /\ \A j \in 1 .. L : j <= L
            BY <2>1
        <3>4. M[L] = MetUpTo(L)
            BY <2>1, <2>3, <3>2, <3>3, MeaningIsMet DEF L, Whole
        <3>5. \A j \in 1 .. L : written[j].type \in Alone \/ written[j].type = "PSEUDO"
            <4>1. \A j \in 1 .. L : written[j] \in AllFilters
                BY <2>1 DEF ExprIs, L
            <4> QED
                BY <3>2, <4>1, FilterKinds DEF AllFilters, Alone
        <3>6. MetUpTo(L) = {x \in 1 .. Len(Items) : \A i \in 1 .. L : IsMet(written[i], Items[x])}
            BY <3>3, <3>5 DEF MetUpTo, L
        <3>7. Members(curLoop) = Meaning(written)
            BY <2>3, <2>5, <3>1, <3>4, <3>6 DEF MetByTaken
        <3> QED
            BY <2>2, <2>4, <3>7
    <2>6. CASE \E q \in 0 .. L : MeantUpTo(q)
        <3>1. PICK q \in 0 .. L : MeantUpTo(q)
            BY <2>6
        <3>2. {i \in q + 1 .. L : HasColon(i)} = {} /\ Members(curLoop) = M[q]
            BY <3>1 DEF MeantUpTo, L, M
        <3>3. L \in q .. L
            BY <2>1
        <3>4. \A j \in q + 1 .. L : ~HasColon(j)
            BY <3>2
        <3>5. M[L] = M[q]
            BY <2>1, <2>3, <3>1, <3>3, <3>4, MeaningNarrows DEF L, Whole
        <3>6. Members(curLoop) = Meaning(written)
            BY <2>3, <3>2, <3>5
        <3> QED
            BY <2>2, <2>4, <3>6
    <2> QED
        BY <2>2, <2>5, <2>6
<1> QED
    BY <1>1, FiltersStart, FiltersStep, PTL DEF FiltersSpec
=============================================================================
