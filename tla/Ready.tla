---------------------------------- MODULE Ready ----------------------------------
(* jQuery(document).ready: functions wait in a list until the document is     *)
(* there, and run at once from then on.  The list is run by the first of two   *)
(* events of the browser, to which the first call of ready listens.          *)
EXTENDS Naturals, Sequences, FiniteSets

CONSTANTS ReadyFns,  \* the functions given to ready
          Nests,     \* the pairs <<f, g>> where f gives g to ready when it runs
          Throwing   \* the functions that throw, after that

ASSUME ReadyAssumption ==
    /\ Nests \subseteq (ReadyFns \X ReadyFns) /\ Throwing \subseteq ReadyFns
    /\ \A p \in Nests : \A q \in Nests : p[2] # q[1]   \* nested once
    /\ \A p \in Nests : \A q \in Nests : p[2] = q[2] => p = q
    /\ \A p \in Nests : p[2] \notin Throwing

VARIABLES loaded,      \* what the browser has reported, of "content" and "window"
          readyBound,  \* the events listened to
          isReady,     \* jQuery.isReady
          readyList,   \* jQuery.readyList
          given,       \* the functions given to ready
          ran          \* how often each function was called

readyVars == <<loaded, readyBound, isReady, readyList, given, ran>>

-----------------------------------------------------------------------------

ReadyInit ==
    /\ loaded = {} /\ readyBound = {} /\ isReady = FALSE
    /\ readyList = <<>> /\ given = {} /\ ran = [f \in ReadyFns |-> 0]

Inner(f) == {p[2] : p \in {q \in Nests : q[1] = f}}

(* How many functions of a list are called: none after the first that throws. *)
Throws(list, i) == list[i] \in Throwing

Threw(list) == \E i \in 1..Len(list) : Throws(list, i)

CallsOf(list) ==
    CHOOSE n \in 0..Len(list) :
        /\ \A i \in 1..n : Throws(list, i) => i = n
        /\ n < Len(list) => n > 0 /\ Throws(list, n)

(* The calls of f while the first n functions of a list are called, with those *)
(* that they make when functions given to ready run at once.                 *)
CallsTo(f, list, n, ready) ==
    Cardinality({i \in 1..n : list[i] = f \/ (ready /\ f \in Inner(list[i]))})

(* The functions are called, each of which may give others to ready.         *)
CallList(list, ready) ==
    /\ ran' = [f \in ReadyFns |-> ran[f] + CallsTo(f, list, CallsOf(list), ready)]
    /\ given' = given \cup UNION {{list[i]} \cup Inner(list[i]) : i \in 1..CallsOf(list)}

(* Mutant of RunAll: isReady is set after the functions have run, and what they *)
(* gave to ready meanwhile goes with the list.                              *)
RunAllLate ==
    /\ CallList(readyList, FALSE)
    /\ readyList' = IF Threw(readyList) THEN readyList ELSE <<>>

(* jQuery.ready: isReady is set before the functions run, each of which is    *)
(* called as long as none throws.                                          *)
RunAll ==
    /\ CallList(readyList, TRUE)
    /\ readyList' = IF Threw(readyList) THEN readyList ELSE <<>>

(* The event comes: "content" before "window".                             *)
Report(e) ==
    /\ e \notin loaded /\ (e = "window" => "content" \in loaded)
    /\ loaded' = loaded \cup {e}
    /\ IF e \in readyBound /\ ~isReady
       THEN isReady' = TRUE /\ RunAll
       ELSE UNCHANGED <<isReady, readyList, given, ran>>
    /\ UNCHANGED readyBound

(* A script of the page gives a function to ready.                         *)
Give(f) ==
    /\ f \notin given
    /\ readyBound' = {"content", "window"}
    /\ IF isReady
       THEN CallList(<<f>>, TRUE) /\ UNCHANGED readyList
       ELSE /\ readyList' = Append(readyList, f) /\ given' = given \cup {f}
            /\ UNCHANGED ran
    /\ UNCHANGED <<loaded, isReady>>

(* Functions that others give to ready are not given by scripts as well.     *)
Outer == {f \in ReadyFns : \A p \in Nests : p[2] # f}

ReadyNext ==
    \/ \E e \in {"content", "window"} : Report(e)
    \/ \E f \in Outer : Give(f)

ReadySpec == ReadyInit /\ [][ReadyNext]_readyVars

-----------------------------------------------------------------------------
(* Properties.                                                             *)

(* No function runs twice, and when the document is ready all have run, those  *)
(* given by others while the list ran included, unless one threw.  Before that *)
(* none has run, and a function that was not given never does.               *)
EachRunsOnce ==
    /\ \A f \in ReadyFns : ran[f] <= (IF isReady /\ f \in given THEN 1 ELSE 0)
    /\ (isReady /\ \A f \in Throwing : ran[f] = 0) => \A f \in given : ran[f] = 1
=============================================================================
