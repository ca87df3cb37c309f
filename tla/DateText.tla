------------------------------- MODULE DateText -------------------------------
(* A date field between its two ends: the converter writes the date with a   *)
(* Java format, the calendar of the browser reads it and writes the day that *)
(* is picked with the format translated for it, and the converter reads the  *)
(* text that is sent.  Formats are made of d, M, y and other characters; the *)
(* names of months and days and quoted text are left out.                    *)
EXTENDS Integers, Sequences, SequencesExt

CONSTANTS Formats,    \* Java formats: sequences of characters
          DateCases,  \* the dates that occur: records of year, month and day
          ThisYear,   \* the year of both clocks
          NoDate

VARIABLES format,     \* the format of the converter
          fieldText,  \* the text of the field
          stored,     \* the date in the database
          shown,      \* the date that the calendar has shown, or NoDate
          meant       \* history: the date that was stored or picked last

dateVars == <<format, fieldText, stored, shown, meant>>

-----------------------------------------------------------------------------
(* Numbers as texts.                                                       *)

Digits == <<"0", "1", "2", "3", "4", "5", "6", "7", "8", "9">>

DigitOf(c) == (CHOOSE i \in 1..10 : Digits[i] = c) - 1

Numeral(n) ==
    LET value(k) == (n \div 10 ^ k) % 10
        size == CHOOSE s \in 1..4 : n < 10 ^ s /\ (s = 1 \/ n >= 10 ^ (s - 1))
    IN  [i \in 1..size |-> Digits[value(size - i) + 1]]

Padded(n, len) ==
    LET t == Numeral(n) IN [i \in 1..len - Len(t) |-> "0"] \o t

Value(t) == FoldLeft(LAMBDA n, c : 10 * n + DigitOf(c), 0, t)

(* The longest run of digits at a place, up to a size.                     *)
NumberAt(t, i, size) ==
    LET digit(k) == k <= Len(t) /\ t[k] \in ToSet(Digits)
        n == CHOOSE s \in 0..size :
               /\ \A k \in i..i + s - 1 : digit(k)
               /\ s = size \/ ~digit(i + s)
    IN  SubSeq(t, i, i + n - 1)

-----------------------------------------------------------------------------
(* Formats, taken apart into letters with how often they stand in a row.   *)

Letters == {"d", "m", "M", "y"}

Tokens(f, most) ==
    LET From[i \in 1..Len(f) + 1] ==
            IF i > Len(f) THEN <<>>
            ELSE LET n == CHOOSE k \in 1..most :
                        /\ i + k - 1 <= Len(f)
                        /\ \A j \in i..i + k - 1 : f[j] = f[i]
                        /\ k = 1 \/ f[i] \in Letters
                        /\ \/ k = most \/ f[i] \notin Letters
                           \/ i + k > Len(f) \/ f[i + k] # f[i]
                 IN  <<[char |-> f[i], count |-> n]>> \o From[i + n]
    IN  From[1]

(* Mutant of JavaToJavascript: the years keep their letters. *)
MonthsOnly(f) == [i \in 1..Len(f) |-> IF f[i] = "M" THEN "m" ELSE f[i]]

(* javaToJavascriptDateFormat: each pair of y becomes one, M becomes m.     *)
JavaToJavascript(f) ==
    LET From[i \in 1..Len(f) + 1] ==
            IF i > Len(f) THEN <<>>
            ELSE IF f[i] = "y" /\ i < Len(f) /\ f[i + 1] = "y" THEN <<"y">> \o From[i + 2]
            ELSE <<IF f[i] = "M" THEN "m" ELSE f[i]>> \o From[i + 1]
    IN  From[1]

(* The two readers, "browser" and "server", differ in the digits they take    *)
(* for a letter and in the year they make of them.                          *)

(* parseDate reads up to four digits of a year, and places a short one by    *)
(* shortYearCutoff, ten years ahead.                                        *)
JsYear(k, n) ==
    LET y == Value(n) IN
    IF y >= 100 THEN y
    ELSE y + ThisYear - (ThisYear % 100) + IF y <= (ThisYear % 100) + 10 THEN 0 ELSE -100

(* In Java two digits for a short year are in the eighty years behind and the *)
(* twenty ahead.                                                            *)
JavaYear(k, n) ==
    LET y == Value(n)
        century == ThisYear - (ThisYear % 100)
    IN  IF k.count > 2 \/ Len(n) # 2 THEN y
        ELSE CHOOSE z \in {century + c + y : c \in {-100, 0, 100}} :
                z > ThisYear - 80 /\ z <= ThisYear + 20

DigitsFor(reader, c) ==
    IF reader = "server" THEN 9 ELSE IF c = "y" THEN 4 ELSE 2

YearFor(reader, k, n) == IF reader = "server" THEN JavaYear(k, n) ELSE JsYear(k, n)

(* A date read from a text by the tokens of a format.                      *)
Read(reader, tokens, t) ==
    LET step(s, k) ==
            IF k.char \notin Letters
            THEN IF s.at <= Len(t) /\ t[s.at] = k.char THEN [s EXCEPT !.at = @ + 1]
                 ELSE [s EXCEPT !.fails = TRUE]
            ELSE LET n == NumberAt(t, s.at, DigitsFor(reader, k.char))
                     moved == [s EXCEPT !.at = @ + Len(n)]
                 IN  CASE n = <<>> -> [s EXCEPT !.fails = TRUE]
                       [] k.char = "y" -> [moved EXCEPT !.date.year = YearFor(reader, k, n)]
                       [] k.char = "d" -> [moved EXCEPT !.date.day = Value(n)]
                       [] OTHER -> [moved EXCEPT !.date.month = Value(n)]
        start == [at |-> 1, fails |-> FALSE,
                  date |-> [year |-> ThisYear, month |-> 0, day |-> 0]]
        end == FoldLeft(step, start, tokens)
    IN  IF end.fails THEN NoDate ELSE end.date

-----------------------------------------------------------------------------
(* The calendar of the browser.                                            *)

ParseDate(f, t) == Read("browser", Tokens(f, 2), t)

FormatDate(f, d) ==
    LET piece(k) ==
            CASE k.char = "d" -> IF k.count = 2 THEN Padded(d.day, 2) ELSE Numeral(d.day)
              [] k.char = "m" -> IF k.count = 2 THEN Padded(d.month, 2) ELSE Numeral(d.month)
              [] k.char = "y" -> IF k.count = 2 THEN Numeral(d.year) ELSE Padded(d.year % 100, 2)
              [] OTHER -> <<k.char>>
        tokens == Tokens(f, 2)
    IN  FlattenSeq([i \in 1..Len(tokens) |-> piece(tokens[i])])

-----------------------------------------------------------------------------
(* java.text.SimpleDateFormat, in its default mode.                         *)

JavaParse(f, t) == Read("server", Tokens(f, 9), t)

JavaFormat(f, d) ==
    LET piece(k) ==
            CASE k.char = "d" -> Padded(d.day, k.count)
              [] k.char = "M" -> Padded(d.month, k.count)
              [] k.char = "y" -> IF k.count = 2 THEN Padded(d.year % 100, 2)
                                 ELSE Padded(d.year, k.count)
              [] OTHER -> <<k.char>>
        tokens == Tokens(f, 9)
    IN  FlattenSeq([i \in 1..Len(tokens) |-> piece(tokens[i])])

-----------------------------------------------------------------------------
(* The field of a page.                                                    *)

DateInit ==
    /\ format \in Formats
    /\ stored \in DateCases
    /\ fieldText = JavaFormat(format, stored)
    /\ shown = NoDate
    /\ meant = stored

(* _setDateFromField, when the calendar is opened.                         *)
OpenCalendar ==
    /\ shown' = ParseDate(JavaToJavascript(format), fieldText)
    /\ UNCHANGED <<format, fieldText, stored, meant>>

(* _selectDate.                                                            *)
PickDate(d) ==
    /\ shown # NoDate
    /\ fieldText' = FormatDate(JavaToJavascript(format), d)
    /\ shown' = d
    /\ meant' = d
    /\ UNCHANGED <<format, stored>>

(* The form is sent and stored by build; the next page shows it by visualize. *)
SubmitDate ==
    /\ stored' = JavaParse(format, fieldText)
    /\ fieldText' = IF stored' = NoDate THEN <<>> ELSE JavaFormat(format, stored')
    /\ shown' = NoDate
    /\ UNCHANGED <<format, meant>>

DateNext ==
    \/ OpenCalendar
    \/ \E d \in DateCases : PickDate(d)
    \/ SubmitDate

DateSpec == DateInit /\ [][DateNext]_dateVars

-----------------------------------------------------------------------------
(* Properties.                                                             *)

(* The calendar opens at the date that is stored, and the date that is picked *)
(* is the one that is stored: the two ends read the text of the field alike, *)
(* each with its own format language and its own window for short years.    *)
EndsAgree ==
    /\ ParseDate(JavaToJavascript(format), fieldText) = meant
    /\ JavaParse(format, fieldText) = meant
    /\ shown \in {NoDate, meant}
=============================================================================
