------------------------------- MODULE Calendar -------------------------------
(* The calendar of one date field: the text of the field, the date that its  *)
(* instance holds as the value of the field (current), the day that the keys *)
(* move (selected), and the days that are marked in the month that is drawn. *)
(* The popup is shown and hidden at once: its animations are in Popup.       *)
(*                                                                           *)
(* Months are numbered without end, so that one number stands for a year and *)
(* a month; no limits are set on the dates, and the pages never do.          *)
EXTENDS Naturals, Integers, FiniteSetsExt

CONSTANTS DaysIn,   \* the days of each month, from 1 on
          Week,     \* the days of a week
          Today,    \* the default date
          NoText,   \* the empty field
          Bad,      \* a text that is not a date
          NoDay     \* no date, or no day that is marked

Months == DOMAIN DaysIn

Day(m, d) == [month |-> m, day |-> d]

Dates == UNION {{Day(m, d) : d \in 1..DaysIn[m]} : m \in Months}

ASSUME CalendarAssumption ==
    /\ Week \in Nat \ {0}
    /\ \A m \in Months : m \in Nat /\ DaysIn[m] \in Nat /\ DaysIn[m] >= Week
    /\ Today \in Dates /\ NoText # Bad /\ {NoText, Bad, NoDay} \cap Dates = {}

VARIABLES inputText, \* what the field shows
          lastVal,   \* the text that was read last
          selected,  \* selectedDay, selectedMonth and the month that is drawn
          current,   \* currentDay and currentMonth, or NoDay
          keyEvent,  \* whether a key was pressed since the last drawing
          dayOver,   \* the day marked as selected, or NoDay
          active,    \* the day marked as current, or NoDay
          calendarShown, \* whether the popup is shown
          unheard    \* history: the field was changed and no key released since

calendarVars == <<inputText, lastVal, selected, current, keyEvent, dayOver, active,
                  calendarShown, unheard>>

-----------------------------------------------------------------------------
(* Dates.                                                                  *)

GetDaysInMonth(m) == DaysIn[m]

(* new Date: a day outside of its month is one of a month beside it.       *)
NewDate(m, d) ==
    IF d < 1 THEN Day(m - 1, DaysIn[m - 1] + d)
    ELSE IF d > DaysIn[m] THEN Day(m + 1, d - DaysIn[m])
    ELSE Day(m, d)

(* _adjustInstDate: by "months" or by "days".  The day is first one that the *)
(* new month has.                                                           *)
AdjustInstDate(s, months, days) ==
    NewDate(s.month + months, Min({s.day, GetDaysInMonth(s.month + months)}) + days)

(* The dates the model knows of.                                           *)
CanAdjust(months, days) ==
    /\ selected.month + months \in Months
    /\ \/ selected.day + days \in 1..DaysIn[selected.month]
       \/ /\ months = 0
          /\ selected.month + (IF days < 0 THEN -1 ELSE 1) \in Months

-----------------------------------------------------------------------------
(* The instance, read from its field and drawn.                            *)

(* _setDateFromField, with the default date for a text that is not a date.  *)
SetDateFromField ==
    LET date == IF inputText \in Dates THEN inputText ELSE Today IN
    /\ lastVal' = inputText
    /\ selected' = AdjustInstDate(date, 0, 0)
    /\ current' = IF inputText = NoText THEN NoDay ELSE date

(* _generateHTML, after the step: the selected day is marked when a key was  *)
(* pressed or it is the default date, the current day when it is in the     *)
(* month.                                                                   *)
Draw(pressed) ==
    /\ dayOver' = IF pressed \/ selected' = Today THEN selected' ELSE NoDay
    /\ active' = IF current' # NoDay /\ current'.month = selected'.month THEN current' ELSE NoDay
    /\ keyEvent' = FALSE

HideCalendar == calendarShown' = FALSE

-----------------------------------------------------------------------------
(* The field.                                                              *)

CalendarInit ==
    /\ inputText \in Dates \cup {NoText, Bad}
    /\ lastVal = NoText
    /\ selected = Today
    /\ current = NoDay
    /\ keyEvent = FALSE /\ calendarShown = FALSE /\ unheard = FALSE
    /\ dayOver = NoDay /\ active = NoDay

(* _showDatepicker: by the focus or the image, or by a key.                *)
ShowCalendar(pressed) ==
    /\ ~calendarShown
    /\ SetDateFromField
    /\ Draw(pressed)
    /\ calendarShown' = TRUE
    /\ unheard' = FALSE
    /\ UNCHANGED inputText

Close ==
    /\ calendarShown
    /\ HideCalendar
    /\ UNCHANGED <<inputText, lastVal, selected, current, keyEvent, dayOver, active, unheard>>

(* A key changes the text; its release comes later.                        *)
EditText(t) ==
    /\ t # inputText
    /\ inputText' = t
    /\ keyEvent' = TRUE
    /\ unheard' = TRUE
    /\ UNCHANGED <<lastVal, selected, current, dayOver, active, calendarShown>>

(* Mutant of FieldKeyUp: the text is taken as seen but not read. *)
FieldKeyUpReadsOnly ==
    /\ unheard' = FALSE
    /\ lastVal' = inputText
    /\ UNCHANGED <<selected, current, keyEvent, dayOver, active>>
    /\ UNCHANGED <<inputText, calendarShown>>

(* _doKeyUp: a text that changed and is a date now.                        *)
FieldKeyUp ==
    /\ unheard' = FALSE
    /\ IF inputText # lastVal /\ inputText \in Dates
       THEN SetDateFromField /\ Draw(keyEvent)
       ELSE UNCHANGED <<lastVal, selected, current, keyEvent, dayOver, active>>
    /\ UNCHANGED <<inputText, calendarShown>>

-----------------------------------------------------------------------------
(* The keys and the links of the calendar.                                 *)

(* _adjustDate, by a key or by a link of the calendar.                     *)
AdjustDate(months, days, pressed) ==
    /\ calendarShown
    /\ CanAdjust(months, days)
    /\ selected' = AdjustInstDate(selected, months, days)
    /\ UNCHANGED current
    /\ Draw(pressed \/ keyEvent)
    /\ UNCHANGED <<inputText, lastVal, calendarShown, unheard>>

Page == \E months \in {-1, 1}, pressed \in BOOLEAN : AdjustDate(months, 0, pressed)

WalkDays == \E days \in {-1, 1, -Week, Week} : AdjustDate(0, days, TRUE)

(* Control and Home.                                                       *)
GotoToday ==
    /\ calendarShown
    /\ selected' = Today
    /\ UNCHANGED current
    /\ Draw(TRUE)
    /\ UNCHANGED <<inputText, lastVal, calendarShown, unheard>>

(* _selectDay: the date becomes the value of the field.                    *)
ClickDay(d, pressed) ==
    /\ selected' = d /\ current' = d
    /\ inputText' = d
    /\ unheard' = FALSE
    /\ keyEvent' = (pressed \/ keyEvent)
    /\ HideCalendar
    /\ UNCHANGED <<lastVal, dayOver, active>>

Click == \E d \in 1..DaysIn[selected.month] : calendarShown /\ ClickDay(Day(selected.month, d), FALSE)

(* Control and End: the field is emptied, the instance is not.             *)
ClearDate ==
    /\ calendarShown
    /\ inputText' = NoText
    /\ keyEvent' = TRUE
    /\ unheard' = FALSE
    /\ HideCalendar
    /\ UNCHANGED <<lastVal, selected, current, dayOver, active>>

(* Enter: the day marked as selected, or the current one: add() keeps the    *)
(* order in which the two were found.                                       *)
Picked == IF dayOver # NoDay THEN dayOver ELSE active

EnterKey ==
    /\ calendarShown
    /\ IF Picked # NoDay THEN ClickDay(Picked, TRUE)
       ELSE /\ keyEvent' = TRUE
            /\ HideCalendar
            /\ UNCHANGED <<inputText, lastVal, selected, current, dayOver, active, unheard>>

CalendarNext ==
    \/ \E pressed \in BOOLEAN : ShowCalendar(pressed)
    \/ Close
    \/ \E t \in Dates \cup {NoText, Bad} : EditText(t)
    \/ FieldKeyUp
    \/ Page
    \/ WalkDays
    \/ GotoToday
    \/ Click
    \/ ClearDate
    \/ EnterKey

CalendarSpec == CalendarInit /\ [][CalendarNext]_calendarVars

-----------------------------------------------------------------------------
(* Properties.                                                             *)

(* While the calendar is shown, a date in the field is the current date of   *)
(* the instance, whatever was selected, typed, typed wrong or emptied before, *)
(* and the mark of it is where it is: _doKeyUp compares with lastVal, which  *)
(* selecting and clearing do not set.                                       *)
FieldIsCurrent ==
    calendarShown /\ ~unheard /\ inputText \in Dates =>
        current = inputText /\ (active # NoDay <=> inputText.month = selected.month)

=============================================================================
