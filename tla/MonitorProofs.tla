--------------------------- MODULE MonitorProofs ---------------------------
(***************************************************************************)
(* Theorems about Monitor, for any observers and any bounds: the type       *)
(* invariant, that no wakeup is lost, and that no line is shown twice or    *)
(* out of order, or skipped; and about its web client, that the pages are   *)
(* such observers, whose timers leave none behind.                         *)
(***************************************************************************)
EXTENDS MonitorWatch, TLAPS, SequenceTheorems

(* A function on 1..n is a sequence, the empty one for n below 1.           *)
LEMMA SeqOfInterval ==
  ASSUME NEW n \in Int, NEW S, NEW f \in [1..n -> S]
  PROVE  f \in Seq(S) /\ Len(f) = (IF n > 0 THEN n ELSE 0)
<1>1. CASE n > 0
  BY <1>1
<1>2. CASE ~(n > 0)
  <2>1. 1..n = 1..0
    BY <1>2
  <2>2. f \in [1..0 -> S]
    BY <2>1
  <2> QED
    BY <2>2, <1>2
<1> QED
  BY <1>1, <1>2

(* FileMonitorSource returns line numbers of the file.                      *)
LEMMA SourceTypes ==
  ASSUME file \in 0..MaxLines, NEW from \in LineNumbers
  PROVE  /\ LastLine \in LineNumbers
         /\ LinesFrom(from) \in Seq(LineNumbers)
<1> USE MonitorAssumption DEF LineNumbers, Null
<1>1. LastLine \in LineNumbers
  BY DEF LastLine
<1>2. StartLine(from) \in Nat
  BY DEF StartLine
<1>3. LinesFrom(from) \in [1..(file - 1 - StartLine(from)) -> LineNumbers]
  BY <1>2 DEF LinesFrom
<1>4. LinesFrom(from) \in Seq(LineNumbers)
  BY <1>2, <1>3, SeqOfInterval
<1> QED
  BY <1>1, <1>4

(* Empty rows are rows.                                                    *)
LEMMA NullsType ==
  ASSUME NEW n \in Nat
  PROVE  /\ Nulls(n) \in Seq(LineNumbers) /\ Len(Nulls(n)) = n
         /\ \A i \in 1..n : Nulls(n)[i] = Null
<1>1. Nulls(n) \in [1..n -> LineNumbers]
  BY MonitorAssumption DEF Nulls, LineNumbers, Null
<1> QED
  BY <1>1, SeqOfInterval DEF Nulls

(* Each row of s is empty, or that of t.                                    *)
Within(s, t) == \A i \in DOMAIN s : s[i] = Null \/ (i \in DOMAIN t /\ s[i] = t[i])

(* A list torn between addAll and clear has old rows and new ones in their  *)
(* places, and empty ones.                                                 *)
LEMMA Torn ==
  ASSUME NEW old \in Seq(LineNumbers), NEW new \in Seq(LineNumbers),
         NEW torn \in TornLists(old, new)
  PROVE  torn \in Seq(LineNumbers) /\ Within(torn, old \o new)
<1> USE MonitorAssumption
<1>1. Len(new) \in Nat /\ Len(old) \in Nat
  OBVIOUS
<1>2. ASSUME NEW K \in SUBSET (1..Len(old))
      PROVE  LET whole == Left(old, K) \o new
             IN  /\ whole \in Seq(LineNumbers) /\ Len(whole) = Len(old) + Len(new)
                 /\ \A i \in 1..Len(whole) : whole[i] \in {Null, (old \o new)[i]}
  <2> DEFINE rows == Left(old, K)
  <2>1. rows \in [1..Len(old) -> LineNumbers]
    <3>1. Null \in LineNumbers /\ \A i \in 1..Len(old) : old[i] \in LineNumbers
      BY ElementOfSeq DEF LineNumbers, Null
    <3> QED
      BY <3>1 DEF Left
  <2>2. rows \in Seq(LineNumbers) /\ Len(rows) = Len(old)
    BY <1>1, <2>1, SeqOfInterval
  <2>3. \A i \in 1..Len(old) : rows[i] \in {Null, old[i]}
    BY DEF Left
  <2> HIDE DEF rows
  <2>4. /\ rows \o new \in Seq(LineNumbers) /\ Len(rows \o new) = Len(old) + Len(new)
        /\ \A i \in 1..(Len(old) + Len(new)) :
             (rows \o new)[i] = IF i <= Len(old) THEN rows[i] ELSE new[i - Len(old)]
    <3>1. /\ Len(rows \o new) = Len(rows) + Len(new) /\ rows \o new \in Seq(LineNumbers)
          /\ \A i \in 1..(Len(rows) + Len(new)) :
               (rows \o new)[i] = IF i <= Len(rows) THEN rows[i] ELSE new[i - Len(rows)]
      BY <2>2, ConcatProperties
    <3> QED
      BY <2>2, <3>1
  <2>5. \A i \in 1..(Len(old) + Len(new)) :
          (old \o new)[i] = IF i <= Len(old) THEN old[i] ELSE new[i - Len(old)]
    BY ConcatProperties
  <2>6. \A i \in 1..(Len(old) + Len(new)) : (rows \o new)[i] \in {Null, (old \o new)[i]}
    BY <1>1, <2>3, <2>4, <2>5
  <2> QED
    BY <2>4, <2>6 DEF rows
<1>3. DOMAIN (old \o new) = 1..(Len(old) + Len(new))
  BY ConcatProperties, LenProperties
<1>4. PICK K \in SUBSET (1..Len(old)) :
        torn = Left(old, K) \o new \/ torn = SubSeq(Left(old, K) \o new, 1, Len(new))
  BY DEF TornLists
<1> DEFINE whole == Left(old, K) \o new
<1>5. /\ whole \in Seq(LineNumbers) /\ Len(whole) = Len(old) + Len(new)
      /\ \A i \in 1..Len(whole) : whole[i] \in {Null, (old \o new)[i]}
  BY <1>2
<1>6. torn = whole \/ torn = SubSeq(whole, 1, Len(new))
  BY <1>4
<1> HIDE DEF whole
<1>7. torn \in Seq(LineNumbers) /\ Len(torn) <= Len(whole)
      /\ \A i \in 1..Len(torn) : torn[i] = whole[i]
  <2>1. CASE torn = whole
    BY <1>5, <2>1
  <2>2. CASE torn = SubSeq(whole, 1, Len(new))
    <3>1. \A i \in 1..Len(new) : whole[i] \in LineNumbers
      BY <1>1, <1>5, ElementOfSeq
    <3> QED
      BY <1>1, <1>5, <2>2, <3>1, SubSeqProperties
  <2> QED
    BY <1>6, <2>1, <2>2
<1>8. \A i \in 1..Len(torn) : i \in 1..Len(whole) /\ torn[i] = whole[i]
  BY <1>1, <1>5, <1>7, LenProperties
<1>9. DOMAIN torn = 1..Len(torn) /\ 1..Len(whole) = DOMAIN (old \o new)
  BY <1>3, <1>5, <1>7, LenProperties
<1>10. ASSUME NEW i \in DOMAIN torn
       PROVE  torn[i] = Null \/ (i \in DOMAIN (old \o new) /\ torn[i] = (old \o new)[i])
  BY <1>5, <1>8, <1>9, <1>10
<1> QED
  BY <1>7, <1>10 DEF Within

(* Every step keeps the types.                                             *)
LEMMA TypeStep == TypeOK /\ [Next]_monitorVars => TypeOK'
<1> SUFFICES ASSUME TypeOK, [Next]_monitorVars PROVE TypeOK'
  OBVIOUS
<1> USE MonitorAssumption DEF TypeOK, Labels, Stages, Goto
<1>1. CASE Append1
  BY <1>1 DEF Append1, threadVars, observerVars
<1>2. CASE Rotate
  BY <1>2 DEF Rotate, threadVars, observerVars
<1>3. CASE Top
  BY <1>3 DEF Top, sourceVars, observerVars
<1>4. CASE Woken
  BY <1>4 DEF Woken, sourceVars, observerVars
<1>5. CASE StartWatching
  <2>1. Null \in LineNumbers
    BY DEF Null, LineNumbers
  <2>2. LastLine \in LineNumbers
    BY <2>1, SourceTypes
  <2>3. <<LastLine>> \in Seq(LineNumbers)
    BY <2>2
  <2> QED
    BY <1>5, <2>2, <2>3 DEF StartWatching, sourceVars, observerVars
<1>6. CASE Greet
  BY <1>6 DEF Greet, NotifyObservers, sourceVars, observerVars
<1>7. CASE Loop
  BY <1>7 DEF Loop, sourceVars, observerVars
<1>8. CASE GetNewLines
  <2> DEFINE from == IF All THEN Null ELSE actual
  <2>1. from \in LineNumbers
    BY DEF Null, LineNumbers
  <2>2. LinesFrom(from) \in Seq(LineNumbers)
    BY <2>1, SourceTypes
  <2>3. LinesFrom(from) # <<>> => LinesFrom(from)[Len(LinesFrom(from))] \in LineNumbers
    BY <2>2
  <2> HIDE DEF from
  <2>4. \/ actual' = actual /\ batch' = batch /\ changed' = changed /\ pc' = "nap"
        \/ /\ batch' \in Seq(LineNumbers) /\ actual' \in LineNumbers
           /\ changed' = TRUE /\ pc' = "notify"
    BY <1>8, <2>2, <2>3 DEF GetNewLines, Publish, from
  <2> QED
    BY <1>8, <2>4 DEF GetNewLines, sourceVars, observerVars
<1>9. CASE NotifyLines
  BY <1>9 DEF NotifyLines, NotifyObservers, sourceVars, observerVars
<1>10. CASE Delivered
  BY <1>10 DEF Delivered, sourceVars, observerVars
<1>11. CASE Nap
  BY <1>11 DEF Nap, sourceVars, observerVars
<1>12. ASSUME NEW o \in Observers, Deliver(o) PROVE TypeOK'
  <2>1. lines[o] \o batch \in Seq(LineNumbers) /\ got[o] \o batch \in Seq(LineNumbers)
    OBVIOUS
  <2> QED
    BY <1>12, <2>1 DEF Deliver, Tell, sourceVars
<1>13. ASSUME NEW o \in Observers, DeliverTorn(o) PROVE TypeOK'
  <2>1. /\ got[o] \o batch \in Seq(LineNumbers)
        /\ shown[o] \o res[o] \in Seq(LineNumbers)
    OBVIOUS
  <2>2. PICK torn \in TornLists(lines[o], batch) :
          /\ lines' = [lines EXCEPT ![o] = torn]
          /\ stale' = [stale EXCEPT ![o] = @ \cup (Range(torn) \cap Range(res[o]))]
    BY <1>13 DEF DeliverTorn
  <2>3. torn \in Seq(LineNumbers)
    BY Torn
  <2>4. Range(torn) \subseteq LineNumbers
    BY <2>3, ElementOfSeq, LenProperties DEF Range
  <2>5. lines' \in [Observers -> Seq(LineNumbers)]
    BY <2>2, <2>3
  <2>6. stale' \in [Observers -> SUBSET LineNumbers]
    BY <2>2, <2>4
  <2> QED
    BY <1>13, <2>1, <2>5, <2>6 DEF DeliverTorn, Tell, sourceVars
<1>14. ASSUME NEW o \in Observers, DeliverFails(o) PROVE TypeOK'
  <2>1. {batch[i] : i \in DOMAIN batch} \subseteq LineNumbers
    BY ElementOfSeq
  <2> QED
    BY <1>14, <2>1 DEF DeliverFails, sourceVars, observerVars
<1>15. ASSUME NEW o \in Observers, AddObserver(o) PROVE TypeOK'
  BY <1>15 DEF AddObserver, sourceVars, threadVars
<1>16. ASSUME NEW o \in Observers, SetLines(o) PROVE TypeOK'
  BY <1>16 DEF SetLines, sourceVars, threadVars
<1>17. ASSUME NEW o \in Observers, CopyLines(o) PROVE TypeOK'
  BY <1>17 DEF CopyLines, sourceVars, threadVars
<1>18. ASSUME NEW o \in Observers, ClearLines(o) PROVE TypeOK'
  <2>1. shown[o] \o res[o] \in Seq(LineNumbers)
    OBVIOUS
  <2> QED
    BY <1>18, <2>1 DEF ClearLines, sourceVars, threadVars
<1>19. ASSUME NEW o \in Observers, DeleteObserver(o) PROVE TypeOK'
  BY <1>19 DEF DeleteObserver, sourceVars, threadVars, observerVars
<1>20. ASSUME NEW o \in Observers, CopyTorn(o) PROVE TypeOK'
  <2>1. /\ lines[o] \o batch \in Seq(LineNumbers) /\ got[o] \o batch \in Seq(LineNumbers)
        /\ lines[o] \o Nulls(Len(batch)) \in Seq(LineNumbers)
    BY NullsType
  <2> QED
    BY <1>20, <2>1 DEF CopyTorn, Tell, sourceVars
<1>21. CASE UNCHANGED monitorVars
  BY <1>21 DEF monitorVars, sourceVars, threadVars, observerVars
<1> QED
  BY <1>1, <1>2, <1>3, <1>4, <1>5, <1>6, <1>7, <1>8, <1>9, <1>10, <1>11,
     <1>12, <1>13, <1>14, <1>15, <1>16, <1>17, <1>18, <1>19, <1>20, <1>21
  DEF Next, ThreadStep

(* Every variable keeps its type, whatever the observers and the file do.   *)
THEOREM TypeCorrect == Spec => []TypeOK
<1>1. Init => TypeOK
  <2>1. <<>> \in Seq(LineNumbers) /\ Null \in LineNumbers
    BY MonitorAssumption DEF LineNumbers, Null
  <2>2. 0 \in 0..MaxRotations
    BY MonitorAssumption
  <2> QED
    BY <2>1, <2>2 DEF Init, TypeOK, Labels, Stages
<1> QED
  BY <1>1, TypeStep, PTL DEF Spec

(* The interrupt of the first observer is not lost: a monitor that sleeps   *)
(* for ever, or is about to, while somebody observes will be woken.        *)
THEOREM WakeupNeverLost == Spec => []NoLostWakeup
<1>1. Init => NoLostWakeup
  BY DEF Init, NoLostWakeup
<1>2. TypeOK /\ NoLostWakeup /\ [Next]_monitorVars => NoLostWakeup'
  <2> SUFFICES ASSUME TypeOK, NoLostWakeup, [Next]_monitorVars
               PROVE  NoLostWakeup'
    OBVIOUS
  <2> USE DEF NoLostWakeup, Goto
  <2>1. CASE Append1 \/ Rotate
    BY <2>1 DEF Append1, Rotate, threadVars
  <2>2. CASE ThreadStep
    BY <2>2 DEF ThreadStep, Top, Woken, StartWatching, Greet, Loop, GetNewLines,
       NotifyLines, NotifyObservers, Delivered, Nap, Deliver, DeliverTorn, Tell,
       DeliverFails
  <2>3. ASSUME NEW o \in Observers, AddObserver(o) PROVE NoLostWakeup'
    (* Asleep without observers: the new one is the first, and interrupts. *)
    <3>1. CASE observers = {}
      BY <2>3, <3>1 DEF AddObserver, threadVars
    <3>2. CASE observers # {}
      BY <2>3, <3>2 DEF AddObserver, threadVars
    <3> QED
      BY <3>1, <3>2
  <2>4. ASSUME NEW o \in Observers,
               SetLines(o) \/ CopyLines(o) \/ CopyTorn(o) \/ ClearLines(o)
        PROVE  NoLostWakeup'
    BY <2>4 DEF SetLines, CopyLines, CopyTorn, Tell, ClearLines, threadVars
  <2>5. ASSUME NEW o \in Observers, DeleteObserver(o) PROVE NoLostWakeup'
    BY <2>5 DEF DeleteObserver, threadVars
  <2>6. CASE UNCHANGED monitorVars
    BY <2>6 DEF monitorVars, threadVars
  <2> QED
    BY <2>1, <2>2, <2>3, <2>4, <2>5, <2>6 DEF Next
<1> QED
  BY <1>1, <1>2, TypeCorrect, PTL DEF Spec

----------------------------------------------------------------------------
(* No line is shown twice, out of order or missed.  The invariant follows   *)
(* the lines on their way: a batch is a run of numbers behind all that its  *)
(* receivers have, and it is told to nobody twice.                         *)

AtMost(s, n) == \A i \in DOMAIN s : s[i] = Null \/ s[i] <= n
Before(s, t, S) == \A i \in DOMAIN s, j \in DOMAIN t :
                     s[i] # Null /\ t[j] # Null => s[i] < t[j] \/ t[j] \in S

(* What a poll copied is the beginning of the list, with empty rows behind. *)
Copied(s, t) ==
  /\ Len(s) <= Len(t)
  /\ \A i \in 1..Len(s) : s[i] # Null => \A j \in 1..i : s[j] = t[j]

Silent(o)     == got[o] = <<>> /\ lines[o] = <<>> /\ shown[o] = <<>>
Listening     == observers \cup pending

(* Observers that the current batch is still to be told to.                *)
Waiting(o) == \/ pc = "notify" /\ o \in observers
              \/ pc = "deliver" /\ o \in pending
Upto(o)    == IF Waiting(o) THEN batch[1] - 1 ELSE actual

(* The flag and the copy of the observers are in use only while a batch is  *)
(* under way, and who observes before the watching starts heard nothing.    *)
ControlInv ==
  /\ changed <=> pc = "notify"
  /\ pc # "deliver" => pending = {}
  /\ pc \in {"top", "asleep", "start"} => \A o \in observers : Silent(o)
  /\ \A o \in Observers : stage[o] \in {"new", "registered"} => Silent(o)
  /\ \A o \in Observers : stage[o] = "polling" => Copied(res[o], lines[o])

BatchInv ==
  pc \in {"notify", "deliver"} =>
    /\ batch # <<>>
    /\ batch[1] >= 1
    /\ \A i \in DOMAIN batch : batch[i] = batch[1] + i - 1
    /\ actual = batch[Len(batch)]

(* The list is in order itself.  What follows the lines that were shown is  *)
(* behind them or stale.                                                   *)
Ordered(o) ==
  /\ Increasing(got[o], {}) /\ Increasing(lines[o], {})
  /\ Increasing(shown[o], stale[o]) /\ Before(shown[o], lines[o], stale[o])
Bounded(o) ==
  AtMost(got[o], Upto(o)) /\ AtMost(shown[o], Upto(o)) /\ AtMost(lines[o], Upto(o))
OrderInv ==
  /\ \A o \in Observers : Ordered(o)
  /\ \A o \in Listening : Bounded(o)

GapInv ==
  /\ \A o \in Observers : \A i \in 1..(Len(got[o]) - 1) :
       \A n \in (got[o][i] + 1)..(got[o][i + 1] - 1) : n \in spoilt
  /\ \A o \in Listening : got[o] # <<>> =>
       /\ got[o][Len(got[o])] \in 0..Upto(o)
       /\ \A n \in (got[o][Len(got[o])] + 1)..Upto(o) : n \in spoilt

(* What joining two sequences keeps.                                       *)
LEMMA Joined ==
  ASSUME NEW r \in Seq(LineNumbers), NEW s \in Seq(LineNumbers),
         NEW t \in Seq(LineNumbers), NEW S
  PROVE  /\ \A n \in Int : AtMost(s, n) /\ AtMost(t, n) => AtMost(s \o t, n)
         /\ Before(r, s, S) /\ Before(r, t, S) => Before(r, s \o t, S)
         /\ Before(r, t, S) /\ Before(s, t, S) => Before(r \o s, t, S)
         /\ Increasing(s, S) /\ Increasing(t, S) /\ Before(s, t, S) => Increasing(s \o t, S)
<1>1. /\ s \o t \in Seq(LineNumbers)
      /\ DOMAIN (s \o t) = 1..(Len(s) + Len(t))
      /\ \A i \in 1..(Len(s) + Len(t)) :
           (s \o t)[i] = IF i <= Len(s) THEN s[i] ELSE t[i - Len(s)]
  BY ConcatProperties, LenProperties
<1>2. /\ DOMAIN (r \o s) = 1..(Len(r) + Len(s))
      /\ \A i \in 1..(Len(r) + Len(s)) :
           (r \o s)[i] = IF i <= Len(r) THEN r[i] ELSE s[i - Len(r)]
  BY ConcatProperties, LenProperties
<1>3. /\ DOMAIN r = 1..Len(r) /\ Len(r) \in Nat
      /\ DOMAIN s = 1..Len(s) /\ Len(s) \in Nat
      /\ DOMAIN t = 1..Len(t) /\ Len(t) \in Nat
  BY LenProperties
<1>4. \A n \in Int : AtMost(s, n) /\ AtMost(t, n) => AtMost(s \o t, n)
  BY <1>1, <1>3 DEF AtMost
<1>5. Before(r, s, S) /\ Before(r, t, S) => Before(r, s \o t, S)
  BY <1>1, <1>3 DEF Before
<1>6. Before(r, t, S) /\ Before(s, t, S) => Before(r \o s, t, S)
  BY <1>2, <1>3 DEF Before
<1>7. ASSUME Increasing(s, S), Increasing(t, S), Before(s, t, S),
             NEW i \in 1..(Len(s) + Len(t)), NEW j \in 1..(Len(s) + Len(t)),
             i < j, (s \o t)[i] # Null, (s \o t)[j] # Null
      PROVE  (s \o t)[i] < (s \o t)[j] \/ (s \o t)[j] \in S
  <2>1. CASE j <= Len(s)
    BY <1>1, <1>3, <1>7, <2>1 DEF Increasing
  <2>2. CASE i > Len(s)
    <3>1. i - Len(s) \in DOMAIN t /\ j - Len(s) \in DOMAIN t /\ i - Len(s) < j - Len(s)
      BY <1>3, <1>7, <2>2
    <3>2. (s \o t)[i] = t[i - Len(s)] /\ (s \o t)[j] = t[j - Len(s)]
      BY <1>1, <1>3, <1>7, <2>2
    <3> QED
      BY <1>7, <3>1, <3>2 DEF Increasing
  <2>3. CASE i <= Len(s) /\ j > Len(s)
    <3>1. i \in DOMAIN s /\ j - Len(s) \in DOMAIN t
      BY <1>3, <1>7, <2>3
    <3> QED
      BY <1>1, <1>3, <1>7, <2>3, <3>1 DEF Before
  <2> QED
    BY <1>3, <2>1, <2>2, <2>3
<1> QED
  BY <1>1, <1>4, <1>5, <1>6, <1>7 DEF Increasing

(* Rows that are left out keep order and bounds.                            *)
LEMMA WithinKeeps ==
  ASSUME NEW r \in Seq(LineNumbers), NEW s \in Seq(LineNumbers),
         NEW t \in Seq(LineNumbers), NEW S, Within(s, t)
  PROVE  /\ \A n \in Int : AtMost(t, n) => AtMost(s, n)
         /\ Increasing(t, S) => Increasing(s, S)
         /\ Before(r, t, S) => Before(r, s, S)
<1>1. \A n \in Int : AtMost(t, n) => AtMost(s, n)
  BY DEF AtMost, Within
<1>2. Increasing(t, S) => Increasing(s, S)
  BY DEF Increasing, Within
<1>3. Before(r, t, S) => Before(r, s, S)
  BY DEF Before, Within
<1> QED
  BY <1>1, <1>2, <1>3

(* A copy of a list is within it, and stays one while the list grows.       *)
LEMMA CopyOf ==
  ASSUME NEW r \in Seq(LineNumbers), NEW s \in Seq(LineNumbers),
         NEW t \in Seq(LineNumbers), Copied(s, t)
  PROVE  Within(s, t) /\ Copied(s, t \o r)
<1>1. /\ DOMAIN s = 1..Len(s) /\ Len(s) \in Nat
      /\ DOMAIN t = 1..Len(t) /\ Len(t) \in Nat
      /\ Len(r) \in Nat
  BY LenProperties
<1>2. Len(t \o r) = Len(t) + Len(r)
      /\ \A i \in 1..Len(t) : (t \o r)[i] = t[i]
  BY <1>1, ConcatProperties
<1>3. Within(s, t)
  <2>1. \A i \in 1..Len(s) : i \in 1..Len(t) /\ i \in 1..i
    BY <1>1 DEF Copied
  <2> QED
    <3>1. \A i \in 1..Len(s) : s[i] # Null => s[i] = t[i]
      BY <2>1 DEF Copied
    <3> QED
      BY <1>1, <2>1, <3>1 DEF Within
<1>4. \A i \in 1..Len(s) : \A j \in 1..i : j \in 1..Len(t)
  BY <1>1 DEF Copied
<1>5. Copied(s, t \o r)
  BY <1>1, <1>2, <1>4 DEF Copied
<1> QED
  BY <1>3, <1>5

(* A torn list is in order behind what was shown before, and behind the     *)
(* copy but for the rows of the copy that it still has.                     *)
LEMMA TornKeeps ==
  ASSUME NEW old \in Seq(LineNumbers), NEW new \in Seq(LineNumbers),
         NEW torn \in TornLists(old, new), NEW copy \in Seq(LineNumbers),
         Copied(copy, old), Increasing(old \o new, {})
  PROVE  Before(copy, torn, Range(torn) \cap Range(copy))
<1> SUFFICES ASSUME NEW i \in DOMAIN copy, NEW j \in DOMAIN torn,
                    copy[i] # Null, torn[j] # Null, ~(copy[i] < torn[j])
             PROVE  torn[j] \in Range(copy)
  BY DEF Before, Range
<1>1. /\ torn \in Seq(LineNumbers) /\ j \in DOMAIN (old \o new) /\ torn[j] = (old \o new)[j]
  BY Torn DEF Within
<1>2. /\ DOMAIN copy = 1..Len(copy) /\ Len(copy) \in Nat /\ Len(old) \in Nat
      /\ DOMAIN torn = 1..Len(torn) /\ DOMAIN (old \o new) = 1..(Len(old) + Len(new))
      /\ Len(new) \in Nat /\ i \in Nat /\ j \in Nat
  <2>1. DOMAIN copy = 1..Len(copy) /\ Len(copy) \in Nat /\ Len(old) \in Nat /\ Len(new) \in Nat
    BY LenProperties
  <2>2. DOMAIN torn = 1..Len(torn) /\ Len(torn) \in Nat
    BY <1>1, LenProperties
  <2>3. DOMAIN (old \o new) = 1..(Len(old) + Len(new))
    BY ConcatProperties, LenProperties
  <2> QED
    BY <2>1, <2>2, <2>3
<1>3. /\ \A k \in 1..i : copy[k] = old[k]
      /\ \A k \in 1..Len(old) : (old \o new)[k] = old[k]
      /\ i <= Len(old)
  <2>1. \A k \in 1..Len(old) : (old \o new)[k] = old[k]
    BY <1>2, ConcatProperties
  <2> QED
    BY <1>2, <2>1 DEF Copied
<1>4. (old \o new)[i] = copy[i] /\ i \in DOMAIN (old \o new)
  BY <1>2, <1>3
<1>5. ~(i < j)
  BY <1>1, <1>4 DEF Increasing
<1>6. j \in 1..i /\ j \in DOMAIN copy /\ j \in 1..Len(old)
  BY <1>2, <1>3, <1>5
<1>7. copy[j] = torn[j]
  BY <1>1, <1>3, <1>6
<1> QED
  BY <1>6, <1>7 DEF Range

(* What GetNewLines publishes: the run of numbers behind StartLine.         *)
LEMMA NewLines ==
  ASSUME TypeOK, NEW from \in LineNumbers, LinesFrom(from) # <<>>
  PROVE  /\ LinesFrom(from) \in Seq(LineNumbers)
         /\ Len(LinesFrom(from)) = file - 1 - StartLine(from)
         /\ Len(LinesFrom(from)) >= 1
         /\ \A i \in DOMAIN LinesFrom(from) : LinesFrom(from)[i] = StartLine(from) + i
         /\ StartLine(from) >= 0 /\ StartLine(from) >= from
<1> DEFINE len == file - 1 - StartLine(from)
<1>1. StartLine(from) \in Nat /\ StartLine(from) >= from /\ len \in Int
  BY MonitorAssumption DEF TypeOK, StartLine, LineNumbers, Null
<1>2. LinesFrom(from) \in Seq(LineNumbers)
  BY SourceTypes DEF TypeOK
<1>3. LinesFrom(from) \in [1..len -> LineNumbers]
  <2>1. \A i \in 1..len : StartLine(from) + i \in LineNumbers
    BY <1>1, MonitorAssumption DEF TypeOK, LineNumbers, Null
  <2> QED
    BY <2>1 DEF LinesFrom
<1>4. Len(LinesFrom(from)) = IF len > 0 THEN len ELSE 0
  BY <1>1, <1>3, SeqOfInterval
<1>5. Len(LinesFrom(from)) # 0
  BY <1>2, EmptySeq
<1>6. \A i \in DOMAIN LinesFrom(from) : LinesFrom(from)[i] = StartLine(from) + i
  BY DEF LinesFrom
<1> QED
  BY <1>1, <1>2, <1>4, <1>5, <1>6

(* Every step keeps ControlInv.                                           *)
LEMMA ControlStep ==
  ASSUME TypeOK, ControlInv, [Next]_monitorVars PROVE ControlInv'
<1> USE DEF ControlInv, TypeOK, Goto, Silent
<1>1. CASE Append1
  BY <1>1 DEF Append1, threadVars, observerVars
<1>2. CASE Rotate
  BY <1>2 DEF Rotate, threadVars, observerVars
<1>3. CASE Top
  BY <1>3 DEF Top, sourceVars, observerVars
<1>4. CASE Woken
  BY <1>4 DEF Woken, sourceVars, observerVars
<1>5. CASE StartWatching
  BY <1>5 DEF StartWatching, sourceVars, observerVars
<1>6. CASE Greet
  BY <1>6 DEF Greet, NotifyObservers, sourceVars, observerVars
<1>7. CASE Loop
  BY <1>7 DEF Loop, sourceVars, observerVars
<1>8. CASE GetNewLines
  BY <1>8 DEF GetNewLines, Publish, sourceVars, observerVars
<1>9. CASE NotifyLines
  BY <1>9 DEF NotifyLines, NotifyObservers, sourceVars, observerVars
<1>10. CASE Delivered
  BY <1>10 DEF Delivered, sourceVars, observerVars
<1>11. CASE Nap
  BY <1>11 DEF Nap, sourceVars, observerVars
<1>12. ASSUME NEW o \in Observers, Deliver(o) PROVE ControlInv'
  <2>1. \A q \in Observers : stage[q] = "polling" => Copied(res[q], lines'[q])
    <3>1. stage[o] = "polling" => Copied(res[o], lines[o] \o batch)
      BY CopyOf, MonitorAssumption
    <3> QED
      BY <1>12, <3>1 DEF Deliver
  <2> QED
    BY <1>12, <2>1 DEF Deliver, Tell, sourceVars
<1>13. ASSUME NEW o \in Observers, DeliverTorn(o) PROVE ControlInv'
  BY <1>13 DEF DeliverTorn, Tell, sourceVars
<1>14. ASSUME NEW o \in Observers, DeliverFails(o) PROVE ControlInv'
  BY <1>14 DEF DeliverFails, sourceVars, observerVars
<1>15. ASSUME NEW o \in Observers, AddObserver(o) PROVE ControlInv'
  BY <1>15 DEF AddObserver, sourceVars, threadVars
<1>16. ASSUME NEW o \in Observers, SetLines(o) PROVE ControlInv'
  BY <1>16 DEF SetLines, sourceVars, threadVars
<1>17. ASSUME NEW o \in Observers, CopyLines(o) PROVE ControlInv'
  <2>1. Copied(lines[o], lines[o])
    BY LenProperties DEF Copied
  <2> QED
    BY <1>17, <2>1 DEF CopyLines, sourceVars, threadVars
<1>18. ASSUME NEW o \in Observers, ClearLines(o) PROVE ControlInv'
  <2>1. Silent(o) => res[o] = <<>>
    <3>1. Silent(o) => Len(res[o]) <= 0
      BY <1>18 DEF ClearLines, Copied
    <3> QED
      BY <3>1, LenProperties, EmptySeq
  <2>2. Silent(o) => shown[o] \o res[o] = <<>>
    BY <2>1
  <2> QED
    BY <1>18, <2>2 DEF ClearLines, sourceVars, threadVars
<1>19. ASSUME NEW o \in Observers, DeleteObserver(o) PROVE ControlInv'
  BY <1>19 DEF DeleteObserver, sourceVars, threadVars, observerVars
<1>20. ASSUME NEW o \in Observers, CopyTorn(o) PROVE ControlInv'
  <2> DEFINE nulls == Nulls(Len(batch))
  <2>1. /\ lines[o] \in Seq(LineNumbers) /\ batch \in Seq(LineNumbers)
        /\ nulls \in Seq(LineNumbers) /\ Len(nulls) = Len(batch)
        /\ \A i \in 1..Len(batch) : nulls[i] = Null
    <3>1. batch \in Seq(LineNumbers) /\ Len(batch) \in Nat
      BY LenProperties
    <3> QED
      BY <3>1, NullsType
  <2> HIDE DEF nulls
  <2>2. Copied(lines[o] \o nulls, lines[o] \o batch)
    <3> DEFINE old == lines[o]
    <3>1. /\ Len(old) \in Nat /\ Len(batch) \in Nat
          /\ Len(old \o nulls) = Len(old) + Len(batch)
          /\ Len(old \o batch) = Len(old) + Len(batch)
          /\ \A i \in 1..(Len(old) + Len(batch)) :
               (old \o nulls)[i] = IF i <= Len(old) THEN old[i] ELSE nulls[i - Len(old)]
          /\ \A i \in 1..Len(old) : (old \o batch)[i] = old[i]
      <4>0. old \in Seq(LineNumbers) /\ nulls \in Seq(LineNumbers) /\ batch \in Seq(LineNumbers)
        BY <2>1
      <4> HIDE DEF old
      <4>1. Len(old) \in Nat /\ Len(batch) \in Nat
        BY <4>0, LenProperties
      <4>2. /\ Len(old \o nulls) = Len(old) + Len(nulls)
            /\ \A i \in 1..(Len(old) + Len(nulls)) :
                 (old \o nulls)[i] = IF i <= Len(old) THEN old[i] ELSE nulls[i - Len(old)]
        BY <4>0, ConcatProperties
      <4>3. /\ Len(old \o batch) = Len(old) + Len(batch)
            /\ \A i \in 1..(Len(old) + Len(batch)) :
                 (old \o batch)[i] = IF i <= Len(old) THEN old[i] ELSE batch[i - Len(old)]
        BY <4>0, ConcatProperties
      <4>4. \A i \in 1..Len(old) : (old \o batch)[i] = old[i]
        BY <4>1, <4>3
      <4> QED
        BY <2>1, <4>1, <4>2, <4>3, <4>4
    <3> HIDE DEF old
    <3>2. ASSUME NEW i \in 1..(Len(old) + Len(batch)), (old \o nulls)[i] # Null,
                 NEW j \in 1..i
          PROVE  (old \o nulls)[j] = (old \o batch)[j]
      <4>1. i <= Len(old)
        <5>1. CASE i > Len(old)
          <6>1. i - Len(old) \in 1..Len(batch)
            BY <3>1, <5>1
          <6> QED
            BY <2>1, <3>1, <3>2, <5>1, <6>1
        <5> QED
          BY <3>1, <5>1
      <4> QED
        BY <3>1, <4>1
    <3> QED
      BY <3>1, <3>2 DEF Copied, old
  <2>3. \A q \in Observers : stage'[q] = "polling" => Copied(res'[q], lines'[q])
    BY <1>20, <2>2 DEF CopyTorn, nulls
  <2>4. \A q \in Observers : stage'[q] \in {"new", "registered"} => Silent(q)'
    BY <1>20 DEF CopyTorn, Tell
  <2> QED
    BY <1>20, <2>3, <2>4 DEF CopyTorn, Tell, sourceVars
<1>21. CASE UNCHANGED monitorVars
  BY <1>21 DEF monitorVars, sourceVars, threadVars, observerVars
<1> QED
  BY <1>1, <1>2, <1>3, <1>4, <1>5, <1>6, <1>7, <1>8, <1>9, <1>10, <1>11,
     <1>12, <1>13, <1>14, <1>15, <1>16, <1>17, <1>18, <1>19, <1>20, <1>21
  DEF Next, ThreadStep

(* Every step keeps BatchInv: only getNewLines makes a batch.              *)
LEMMA BatchStep ==
  ASSUME TypeOK, ControlInv, BatchInv, [Next]_monitorVars PROVE BatchInv'
<1> USE DEF BatchInv, TypeOK, Goto
<1>1. CASE Append1 \/ Rotate
  BY <1>1 DEF Append1, Rotate, threadVars
<1>2. CASE Top \/ Woken \/ StartWatching \/ Loop \/ Delivered \/ Nap
  BY <1>2 DEF Top, Woken, StartWatching, Loop, Delivered, Nap
<1>3. CASE Greet
  BY <1>3 DEF Greet, NotifyObservers, ControlInv
<1>4. CASE GetNewLines
  <2> DEFINE from == IF All THEN Null ELSE actual
  <2>1. from \in LineNumbers
    BY MonitorAssumption DEF Null, LineNumbers
  <2> HIDE DEF from
  <2>2. CASE LinesFrom(from) = <<>> \/ TooSmall(from)
    BY <1>4, <2>2 DEF GetNewLines, from
  <2>3. CASE LinesFrom(from) # <<>> /\ ~TooSmall(from)
    <3>1. batch' = LinesFrom(from) /\ actual' = LinesFrom(from)[Len(LinesFrom(from))]
      BY <1>4, <2>3 DEF GetNewLines, Publish, from
    <3>2. /\ 1 \in DOMAIN LinesFrom(from)
          /\ \A i \in DOMAIN LinesFrom(from) : i \in Int
      BY <2>1, <2>3, NewLines, LenProperties
    <3>3. /\ batch' # <<>>
          /\ \A i \in DOMAIN batch' : batch'[i] = StartLine(from) + i
          /\ 1 \in DOMAIN batch' /\ StartLine(from) \in Nat
          /\ actual' = batch'[Len(batch')]
      BY <2>1, <2>3, <3>1, <3>2, NewLines, MonitorAssumption
      DEF StartLine, LineNumbers, Null
    <3> HIDE DEF TypeOK
    <3>4. \A i \in DOMAIN batch' : batch'[i] = batch'[1] + i - 1
      BY <3>1, <3>2, <3>3
    <3> QED
      BY <3>2, <3>3, <3>4
  <2> QED
    BY <2>2, <2>3
<1>5. CASE NotifyLines
  BY <1>5 DEF NotifyLines, NotifyObservers
<1>6. ASSUME NEW o \in Observers,
             Deliver(o) \/ DeliverTorn(o) \/ DeliverFails(o) \/ CopyTorn(o)
      PROVE  BatchInv'
  BY <1>6 DEF Deliver, DeliverTorn, DeliverFails, CopyTorn, Tell
<1>7. ASSUME NEW o \in Observers,
             AddObserver(o) \/ SetLines(o) \/ CopyLines(o) \/ ClearLines(o)
             \/ DeleteObserver(o)
      PROVE  BatchInv'
  BY <1>7 DEF AddObserver, SetLines, CopyLines, ClearLines, DeleteObserver, threadVars
<1>8. CASE UNCHANGED monitorVars
  BY <1>8 DEF monitorVars, threadVars
<1> QED
  BY <1>1, <1>2, <1>3, <1>4, <1>5, <1>6, <1>7, <1>8 DEF Next, ThreadStep

(* The batch under way starts behind the bound of those it waits for.       *)
LEMMA BatchFacts ==
  ASSUME TypeOK, BatchInv, pc \in {"notify", "deliver"}, NEW S
  PROVE  /\ Increasing(batch, S) /\ AtMost(batch, actual)
         /\ batch[1] - 1 \in Int /\ batch[1] - 1 < actual
         /\ \A s \in Seq(LineNumbers) :
              AtMost(s, batch[1] - 1) => Before(s, batch, S)
<1>1. /\ batch \in Seq(LineNumbers) /\ batch # <<>> /\ actual = batch[Len(batch)]
      /\ batch[1] >= 1 /\ \A i \in DOMAIN batch : batch[i] = batch[1] + i - 1
  BY DEF TypeOK, BatchInv
<1>2. DOMAIN batch = 1..Len(batch) /\ Len(batch) \in Nat /\ Len(batch) >= 1
  BY <1>1, LenProperties, EmptySeq
<1>3. batch[1] \in Int /\ actual \in Int
  BY <1>1, <1>2, MonitorAssumption DEF LineNumbers, Null
<1>4. actual = batch[1] + Len(batch) - 1
  BY <1>1, <1>2
<1>5. Increasing(batch, S) /\ AtMost(batch, actual) /\ batch[1] - 1 < actual
  BY <1>1, <1>2, <1>3, <1>4 DEF Increasing, AtMost
<1>6. ASSUME NEW s \in Seq(LineNumbers), AtMost(s, batch[1] - 1),
             NEW i \in DOMAIN s, NEW j \in DOMAIN batch, s[i] # Null
      PROVE  s[i] < batch[j]
  <2>1. s[i] \in Int
    BY <1>6, LenProperties, ElementOfSeq, MonitorAssumption DEF LineNumbers, Null
  <2>2. s[i] <= batch[1] - 1 /\ batch[j] >= batch[1] /\ batch[j] \in Int
    BY <1>1, <1>2, <1>3, <1>6 DEF AtMost
  <2> QED
    BY <1>3, <2>1, <2>2
<1> QED
  BY <1>3, <1>5, <1>6 DEF Before

(* A bound that grows is kept.                                             *)
LEMMA AtMostGrows ==
  ASSUME NEW s \in Seq(LineNumbers), NEW n \in Int, NEW k \in Int, n <= k,
         AtMost(s, n)
  PROVE  AtMost(s, k)
<1>1. \A i \in DOMAIN s : s[i] \in Int
  BY LenProperties, ElementOfSeq, MonitorAssumption DEF LineNumbers, Null
<1> QED
  BY <1>1 DEF AtMost

(* The bound of an observer is a number, and at most actual.               *)
UptoTypeOK == \A o \in Observers : Upto(o) \in Int /\ Upto(o) <= actual
LEMMA UptoType == TypeOK /\ BatchInv => UptoTypeOK
<1> SUFFICES ASSUME TypeOK, BatchInv, NEW o \in Observers
             PROVE  Upto(o) \in Int /\ Upto(o) <= actual
  BY DEF UptoTypeOK
<1>1. actual \in Int
  BY MonitorAssumption DEF TypeOK, LineNumbers, Null
<1>2. Waiting(o) => batch[1] - 1 \in Int /\ batch[1] - 1 < actual
  BY BatchFacts DEF Waiting
<1> QED
  BY <1>1, <1>2 DEF Upto

Grows(m, n) == m = n \/ m <= n
heardVars == <<got, lines, shown, stale>>

(* Steps that move no line: bounds grow, and newcomers heard nothing.       *)
LEMMA OrderStays ==
  ASSUME TypeOK, TypeOK', BatchInv, BatchInv', OrderInv, UNCHANGED heardVars,
         \A o \in Listening' :
           Silent(o) \/ (o \in Listening /\ Grows(Upto(o), (Upto(o))'))
  PROVE  OrderInv'
<1>1. \A o \in Observers : Ordered(o)'
  BY DEF OrderInv, Ordered, heardVars
<1>2. ASSUME NEW o \in Listening' PROVE Bounded(o)'
  <2>0. o \in Observers
    BY <1>2 DEF Listening, TypeOK
  <2>1. CASE Silent(o)
    BY <2>1 DEF Silent, Bounded, AtMost, heardVars
  <2>2. CASE o \in Listening /\ Grows(Upto(o), (Upto(o))')
    <3>1. AtMost(got[o], Upto(o)) /\ AtMost(shown[o], Upto(o)) /\ AtMost(lines[o], Upto(o))
      BY <2>2 DEF OrderInv, Bounded
    <3>2. Upto(o) \in Int /\ (Upto(o))' \in Int
      <4>1. TypeOK' /\ BatchInv' => UptoTypeOK'
        BY UptoType, PTL
      <4> QED
        BY <2>0, <4>1, UptoType DEF UptoTypeOK
    <3>3. got[o] \in Seq(LineNumbers) /\ shown[o] \in Seq(LineNumbers)
          /\ lines[o] \in Seq(LineNumbers)
      BY <2>0 DEF TypeOK
    <3> QED
      BY <2>2, <3>1, <3>2, <3>3, AtMostGrows DEF Bounded, Grows, heardVars
  <2> QED
    BY <1>2, <2>1, <2>2
<1> QED
  BY <1>1, <1>2 DEF OrderInv

(* The others keep their order and their bound.                             *)
LEMMA OrderOfOne ==
  ASSUME TypeOK, OrderInv, NEW o \in Observers, Ordered(o)',
         \A q \in Observers \ {o} :
           /\ got'[q] = got[q] /\ lines'[q] = lines[q]
           /\ shown'[q] = shown[q] /\ stale'[q] = stale[q],
         \A q \in Listening' \ {o} : q \in Listening /\ (Upto(q))' = Upto(q),
         o \in Listening' => Bounded(o)'
  PROVE  OrderInv'
<1>1. ASSUME NEW q \in Observers PROVE Ordered(q)'
  BY <1>1 DEF OrderInv, Ordered
<1>2. ASSUME NEW q \in Listening' PROVE Bounded(q)'
  <2>1. CASE q # o
    <3>1. q \in Observers /\ q \in Listening /\ (Upto(q))' = Upto(q)
      BY <1>2, <2>1 DEF TypeOK, Listening
    <3> QED
      BY <2>1, <3>1 DEF OrderInv, Bounded
  <2> QED
    BY <1>2, <2>1
<1> QED
  BY <1>1, <1>2 DEF OrderInv

(* Telling an observer a batch, which begins behind all that it has.        *)
LEMMA OrderTold ==
  ASSUME TypeOK, BatchInv, OrderInv, NEW o \in Observers, Tell(o),
         lines' = [lines EXCEPT ![o] = lines[o] \o batch], UNCHANGED <<shown, stale>>
  PROVE  OrderInv'
<1>1. /\ UNCHANGED <<actual, batch, pc, observers>> /\ pc = "deliver"
      /\ o \in pending /\ pending' = pending \ {o}
      /\ got' = [got EXCEPT ![o] = got[o] \o batch]
  BY DEF Tell
<1>2. /\ lines \in [Observers -> Seq(LineNumbers)] /\ got \in [Observers -> Seq(LineNumbers)]
      /\ shown[o] \in Seq(LineNumbers) /\ lines[o] \in Seq(LineNumbers)
      /\ got[o] \in Seq(LineNumbers) /\ batch \in Seq(LineNumbers) /\ actual \in Int
  <2>1. actual \in Int
    BY MonitorAssumption DEF TypeOK, LineNumbers, Null
  <2> QED
    BY <2>1 DEF TypeOK
<1>3. Ordered(o)
  BY DEF OrderInv
<1>4. /\ AtMost(got[o], batch[1] - 1) /\ AtMost(shown[o], batch[1] - 1)
      /\ AtMost(lines[o], batch[1] - 1)
  BY <1>1 DEF OrderInv, Bounded, Listening, Upto, Waiting
<1>5. /\ Increasing(batch, {}) /\ AtMost(batch, actual)
      /\ batch[1] - 1 \in Int /\ batch[1] - 1 < actual
      /\ Before(got[o], batch, {}) /\ Before(lines[o], batch, {})
      /\ Before(shown[o], batch, stale[o])
  BY <1>1, <1>2, <1>4, BatchFacts
<1>6. /\ Increasing(lines[o] \o batch, {}) /\ Increasing(got[o] \o batch, {})
      /\ Before(shown[o], lines[o] \o batch, stale[o])
  BY <1>2, <1>3, <1>5, Joined DEF Ordered
<1>7. /\ AtMost(lines[o] \o batch, actual) /\ AtMost(got[o] \o batch, actual)
      /\ AtMost(shown[o], actual)
  <2>1. AtMost(lines[o], actual) /\ AtMost(got[o], actual) /\ AtMost(shown[o], actual)
    BY <1>2, <1>4, <1>5, AtMostGrows
  <2> QED
    BY <1>2, <1>5, <2>1, Joined
<1>8. /\ got'[o] = got[o] \o batch /\ lines'[o] = lines[o] \o batch
      /\ shown'[o] = shown[o] /\ stale'[o] = stale[o]
      /\ \A q \in Observers \ {o} : got'[q] = got[q] /\ lines'[q] = lines[q]
  BY <1>1, <1>2
<1>9. Ordered(o)'
  BY <1>3, <1>6, <1>8 DEF Ordered
<1>10. \A q \in Listening' \ {o} : q \in Listening /\ (Upto(q))' = Upto(q)
  BY <1>1 DEF Listening, Upto, Waiting
<1>11. Bounded(o)'
  <2>1. (Upto(o))' = actual
    BY <1>1 DEF Upto, Waiting
  <2> QED
    BY <1>7, <1>8, <2>1 DEF Bounded
<1> QED
  BY <1>8, <1>9, <1>10, <1>11, OrderOfOne

(* Every step keeps OrderInv, in a monitor without the all flag.           *)
LEMMA OrderStep ==
  ASSUME ~All, TypeOK, TypeOK', ControlInv, BatchInv, BatchInv', OrderInv,
         [Next]_monitorVars
  PROVE  OrderInv'
<1> DEFINE Quiet == \A o \in Listening' :
                      Silent(o) \/ (o \in Listening /\ Grows(Upto(o), (Upto(o))'))
<1>0. /\ \A o \in Listening : o \in Observers
      /\ pc # "deliver" => pending = {}
      /\ \A o \in Listening : Upto(o) <= actual
  <2>1. \A o \in Listening : o \in Observers
    BY DEF Listening, TypeOK
  <2> QED
    BY <2>1, UptoType DEF ControlInv, UptoTypeOK
<1> USE DEF Goto, heardVars
<1>1. CASE Append1 \/ Rotate
  <2>1. Quiet /\ UNCHANGED heardVars
    BY <1>1 DEF Append1, Rotate, threadVars, observerVars, Listening, Upto, Waiting, Grows
  <2> QED
    BY <2>1, OrderStays
<1>2. CASE Top \/ Woken \/ Greet \/ Loop \/ Delivered \/ Nap
  <2>1. UNCHANGED heardVars /\ actual' = actual
        /\ pc \notin {"notify"} /\ pending = {} /\ pending' = {} /\ observers' = observers
        /\ pc' \notin {"notify", "deliver"}
    BY <1>0, <1>2 DEF Top, Woken, Greet, Loop, Delivered, Nap, NotifyObservers,
       sourceVars, observerVars, ControlInv
  <2>2. Quiet
    BY <2>1 DEF Listening, Upto, Waiting, Grows
  <2> QED
    BY <2>1, <2>2, OrderStays
<1>3. CASE StartWatching
  <2>1. Quiet /\ UNCHANGED heardVars
    BY <1>0, <1>3 DEF StartWatching, sourceVars, observerVars, Listening, ControlInv
  <2> QED
    BY <2>1, OrderStays
<1>4. CASE GetNewLines
  <2>1. UNCHANGED heardVars /\ pc = "read"
        /\ pending = {} /\ pending' = {} /\ observers' = observers
    BY <1>0, <1>4 DEF GetNewLines, sourceVars, observerVars
  <2>2. CASE pc' = "nap" /\ actual' = actual
    <3>1. Quiet
      BY <2>1, <2>2 DEF Listening, Upto, Waiting, Grows
    <3> QED
      BY <2>1, <3>1, OrderStays
  <2>3. CASE pc' = "notify" /\ LinesFrom(actual) # <<>> /\ batch' = LinesFrom(actual)
    <3>1. actual \in LineNumbers
      BY DEF TypeOK
    <3>2. /\ 1 \in DOMAIN LinesFrom(actual)
          /\ LinesFrom(actual)[1] = StartLine(actual) + 1
          /\ StartLine(actual) >= actual /\ StartLine(actual) \in Int /\ actual \in Int
      BY <2>3, <3>1, NewLines, LenProperties, MonitorAssumption
      DEF StartLine, LineNumbers, Null
    <3>3. batch'[1] - 1 >= actual
      BY <2>3, <3>2
    <3>4. Quiet
      BY <2>1, <2>3, <3>3 DEF Listening, Upto, Waiting, Grows
    <3> QED
      BY <2>1, <3>4, OrderStays
  <2> QED
    BY <1>4, <2>2, <2>3 DEF GetNewLines, Publish
<1>5. CASE NotifyLines
  <2>1. pc = "notify" /\ pending = {} /\ pc' = "deliver" /\ pending' = observers
        /\ UNCHANGED <<heardVars, actual, batch, observers>>
    BY <1>0, <1>5 DEF NotifyLines, NotifyObservers, sourceVars, observerVars, ControlInv
  <2>2. Quiet
    BY <2>1 DEF Listening, Upto, Waiting, Grows
  <2> QED
    BY <2>1, <2>2, OrderStays
<1>6. ASSUME NEW o \in Observers, DeliverFails(o) PROVE OrderInv'
  <2>1. pc' = "nap" /\ pending' = {}
        /\ UNCHANGED <<heardVars, actual, batch, observers>>
    BY <1>6 DEF DeliverFails, sourceVars, observerVars
  <2>2. Quiet
    BY <1>0, <2>1 DEF Listening, Upto, Waiting, Grows
  <2> QED
    BY <2>1, <2>2, OrderStays
<1>7. ASSUME NEW o \in Observers, AddObserver(o) PROVE OrderInv'
  <2>1. observers' = observers \cup {o} /\ stage[o] = "new"
        /\ UNCHANGED <<heardVars, actual, batch, pending, pc>>
    BY <1>7 DEF AddObserver, sourceVars, threadVars
  <2>2. Silent(o)
    BY <2>1 DEF ControlInv
  <2>3. Quiet
    BY <2>1, <2>2 DEF Listening, Upto, Waiting, Grows
  <2> QED
    BY <2>1, <2>3, OrderStays
<1>8. ASSUME NEW o \in Observers, SetLines(o) PROVE OrderInv'
  <2>1. lines[o] = <<>>
    BY <1>8 DEF SetLines, ControlInv, Silent
  <2>2. lines' = lines
    BY <1>8, <2>1 DEF SetLines, TypeOK
  <2>3. Quiet /\ UNCHANGED <<got, shown, stale>>
    BY <1>8 DEF SetLines, threadVars, Listening, Upto, Waiting, Grows
  <2> QED
    BY <2>2, <2>3, OrderStays
<1>9. ASSUME NEW o \in Observers, CopyLines(o) PROVE OrderInv'
  <2>1. Quiet /\ UNCHANGED heardVars
    BY <1>9 DEF CopyLines, threadVars, Listening, Upto, Waiting, Grows
  <2> QED
    BY <2>1, OrderStays
<1>10. ASSUME NEW o \in Observers, DeleteObserver(o) PROVE OrderInv'
  <2>1. observers' = observers \ {o} /\ UNCHANGED <<heardVars, actual, batch, pending, pc>>
    BY <1>10 DEF DeleteObserver, threadVars, observerVars
  <2>2. Quiet
    BY <1>0, <2>1 DEF Listening, Upto, Waiting, Grows
  <2> QED
    BY <2>1, <2>2, OrderStays
<1>11. CASE UNCHANGED monitorVars
  <2>1. Quiet /\ UNCHANGED heardVars
    BY <1>11 DEF monitorVars, threadVars, observerVars, Listening, Upto, Waiting, Grows
  <2> QED
    BY <2>1, OrderStays
<1>12. ASSUME NEW o \in Observers, ClearLines(o) PROVE OrderInv'
  <2>1. /\ shown' = [shown EXCEPT ![o] = shown[o] \o res[o]]
        /\ lines' = [lines EXCEPT ![o] = <<>>]
        /\ UNCHANGED <<got, stale, actual, batch, pending, pc, observers>>
        /\ Copied(res[o], lines[o])
    BY <1>12 DEF ClearLines, sourceVars, threadVars, ControlInv
  <2>2. shown \in [Observers -> Seq(LineNumbers)] /\ lines \in [Observers -> Seq(LineNumbers)]
        /\ res[o] \in Seq(LineNumbers) /\ shown[o] \in Seq(LineNumbers)
        /\ lines[o] \in Seq(LineNumbers)
    BY DEF TypeOK
  <2>3. Ordered(o)
    BY DEF OrderInv
  <2>4. Within(res[o], lines[o])
    BY <2>1, <2>2, CopyOf
  <2>5. Increasing(shown[o] \o res[o], stale[o])
    <3>1. Increasing(lines[o], stale[o])
      BY <2>3 DEF Ordered, Increasing
    <3>2. Increasing(res[o], stale[o]) /\ Before(shown[o], res[o], stale[o])
      <4>1. Before(shown[o], lines[o], stale[o])
        BY <2>3 DEF Ordered
      <4> QED
        BY <2>2, <2>4, <3>1, <4>1, WithinKeeps
    <3> QED
      BY <2>2, <2>3, <3>2, Joined DEF Ordered
  <2>6. /\ shown'[o] = shown[o] \o res[o] /\ lines'[o] = <<>>
        /\ \A q \in Observers \ {o} : shown'[q] = shown[q] /\ lines'[q] = lines[q]
    BY <2>1, <2>2
  <2>7. Ordered(o)'
    <3>1. Increasing(<<>>, {}) /\ Before(shown[o] \o res[o], <<>>, stale[o])
      BY DEF Increasing, Before
    <3> QED
      BY <2>1, <2>3, <2>5, <2>6, <3>1 DEF Ordered
  <2>8. \A q \in Listening' : q \in Listening /\ (Upto(q))' = Upto(q)
    BY <2>1 DEF Listening, Upto, Waiting
  <2>9. ASSUME o \in Listening' PROVE Bounded(o)'
    <3>1. Bounded(o) /\ Upto(o) \in Int /\ (Upto(o))' = Upto(o)
      BY <2>8, <2>9, UptoType DEF OrderInv, UptoTypeOK
    <3>2. AtMost(shown[o] \o res[o], Upto(o))
      BY <2>2, <2>4, <3>1, WithinKeeps, Joined DEF Bounded
    <3>3. AtMost(<<>>, Upto(o))
      BY DEF AtMost
    <3> QED
      BY <2>1, <2>6, <3>1, <3>2, <3>3 DEF Bounded
  <2> QED
    BY <2>1, <2>6, <2>7, <2>8, <2>9, OrderOfOne
<1>13. ASSUME NEW o \in Observers, Deliver(o) \/ CopyTorn(o) PROVE OrderInv'
  BY <1>13, OrderTold DEF Deliver, CopyTorn
<1>14. ASSUME NEW o \in Observers, DeliverTorn(o) PROVE OrderInv'
  <2>0. PICK torn \in TornLists(lines[o], batch) :
          /\ lines' = [lines EXCEPT ![o] = torn]
          /\ stale' = [stale EXCEPT ![o] = @ \cup (Range(torn) \cap Range(res[o]))]
    BY <1>14 DEF DeliverTorn
  <2> DEFINE back == Range(torn) \cap Range(res[o])
  <2>1. /\ shown' = [shown EXCEPT ![o] = shown[o] \o res[o]]
        /\ got' = [got EXCEPT ![o] = got[o] \o batch]
        /\ UNCHANGED <<actual, batch, pc, observers>>
        /\ pc = "deliver" /\ o \in pending /\ pending' = pending \ {o}
        /\ Copied(res[o], lines[o])
    BY <1>14 DEF DeliverTorn, Tell, ControlInv
  <2>2. /\ lines \in [Observers -> Seq(LineNumbers)] /\ shown \in [Observers -> Seq(LineNumbers)]
        /\ got \in [Observers -> Seq(LineNumbers)] /\ stale \in [Observers -> SUBSET LineNumbers]
        /\ shown[o] \in Seq(LineNumbers) /\ res[o] \in Seq(LineNumbers)
        /\ got[o] \in Seq(LineNumbers) /\ lines[o] \in Seq(LineNumbers)
        /\ batch \in Seq(LineNumbers) /\ actual \in Int
        /\ lines[o] \o batch \in Seq(LineNumbers)
    <3>1. actual \in Int
      BY MonitorAssumption DEF TypeOK, LineNumbers, Null
    <3> QED
      BY <3>1 DEF TypeOK
  <2>3. Ordered(o) /\ Within(res[o], lines[o])
    BY <2>1, <2>2, CopyOf DEF OrderInv
  <2>4. /\ AtMost(got[o], batch[1] - 1) /\ AtMost(shown[o], batch[1] - 1)
        /\ AtMost(lines[o], batch[1] - 1)
    BY <2>1 DEF OrderInv, Bounded, Listening, Upto, Waiting
  <2>5. /\ AtMost(batch, actual) /\ batch[1] - 1 \in Int /\ batch[1] - 1 < actual
        /\ \A S : /\ Increasing(batch, S)
                  /\ \A r \in Seq(LineNumbers) : AtMost(r, batch[1] - 1) => Before(r, batch, S)
    BY <2>1, BatchFacts
  <2>6. /\ Increasing(lines[o] \o batch, {}) /\ Increasing(got[o] \o batch, {})
        /\ Before(shown[o], lines[o] \o batch, stale[o])
        /\ AtMost(lines[o] \o batch, actual) /\ AtMost(got[o] \o batch, actual)
        /\ AtMost(shown[o], actual) /\ AtMost(lines[o], actual)
    <3>1. /\ Before(lines[o], batch, {}) /\ Before(got[o], batch, {})
          /\ Before(shown[o], batch, stale[o]) /\ Increasing(batch, {})
      BY <2>2, <2>4, <2>5
    <3>2. AtMost(lines[o], actual) /\ AtMost(shown[o], actual) /\ AtMost(got[o], actual)
      BY <2>2, <2>4, <2>5, AtMostGrows
    <3>3. Increasing(lines[o] \o batch, {}) /\ Increasing(got[o] \o batch, {})
      BY <2>2, <2>3, <3>1, Joined DEF Ordered
    <3>4. Before(shown[o], lines[o] \o batch, stale[o])
      BY <2>2, <2>3, <3>1, Joined DEF Ordered
    <3>5. AtMost(lines[o] \o batch, actual) /\ AtMost(got[o] \o batch, actual)
      BY <2>2, <2>5, <3>2, Joined
    <3> QED
      BY <3>2, <3>3, <3>4, <3>5
  <2>7. /\ torn \in Seq(LineNumbers) /\ Within(torn, lines[o] \o batch)
    BY <2>2, Torn
  <2>8. /\ Increasing(torn, {}) /\ AtMost(torn, actual) /\ Before(shown[o], torn, stale[o])
    BY <2>2, <2>6, <2>7, WithinKeeps
  <2>9. Before(res[o], torn, back)
    BY <2>1, <2>2, <2>6, TornKeeps
  <2>10. Increasing(res[o], stale[o]) /\ Before(shown[o], res[o], stale[o]) /\ AtMost(res[o], actual)
    <3>1. Increasing(lines[o], stale[o])
      BY <2>3 DEF Ordered, Increasing
    <3> QED
      BY <2>2, <2>3, <2>6, <3>1, WithinKeeps DEF Ordered
  <2> DEFINE seen == shown[o] \o res[o]
             later == stale[o] \cup back
  <2>11. Increasing(seen, later)
    <3>1. Increasing(seen, stale[o])
      BY <2>2, <2>3, <2>10, Joined DEF Ordered
    <3> QED
      BY <3>1 DEF Increasing
  <2>12. Before(seen, torn, later)
    <3>1. Before(shown[o], torn, later) /\ Before(res[o], torn, later)
      BY <2>8, <2>9 DEF Before
    <3> HIDE DEF later
    <3> QED
      BY <2>2, <2>7, <3>1, Joined
  <2>13. AtMost(seen, actual)
    BY <2>2, <2>6, <2>10, Joined
  <2>14. /\ got'[o] = got[o] \o batch /\ lines'[o] = torn
         /\ shown'[o] = seen /\ stale'[o] = later
         /\ \A q \in Observers \ {o} : /\ got'[q] = got[q] /\ lines'[q] = lines[q]
                                       /\ shown'[q] = shown[q] /\ stale'[q] = stale[q]
    BY <2>0, <2>1, <2>2
  <2> HIDE DEF seen, later
  <2>15. Ordered(o)'
    BY <2>6, <2>8, <2>11, <2>12, <2>14 DEF Ordered
  <2>16. \A q \in Listening' \ {o} : q \in Listening /\ (Upto(q))' = Upto(q)
    BY <2>1 DEF Listening, Upto, Waiting
  <2>17. Bounded(o)'
    <3>1. (Upto(o))' = actual
      BY <2>1 DEF Upto, Waiting
    <3> QED
      BY <2>6, <2>8, <2>13, <2>14, <3>1 DEF Bounded
  <2> QED
    BY <2>14, <2>15, <2>16, <2>17, OrderOfOne
<1> QED
  BY <1>1, <1>2, <1>3, <1>4, <1>5, <1>6, <1>7, <1>8, <1>9, <1>10, <1>11,
     <1>12, <1>13, <1>14 DEF Next, ThreadStep

(* Steps that tell nobody a line: what a bound passes over was spoilt.      *)
Stretches(o) == /\ Upto(o) <= (Upto(o))'
                /\ \A n \in (Upto(o) + 1)..(Upto(o))' : n \in spoilt'

LEMMA GapStays ==
  ASSUME TypeOK, TypeOK', BatchInv, BatchInv', GapInv,
         got' = got, spoilt \subseteq spoilt',
         \A o \in Listening' :
           got[o] = <<>> \/ (o \in Listening /\ (Stretches(o) \/ (Upto(o))' = Upto(o)))
  PROVE  GapInv'
<1>1. ASSUME NEW o \in Observers, NEW i \in 1..(Len(got[o]) - 1),
             NEW n \in (got[o][i] + 1)..(got[o][i + 1] - 1)
      PROVE  n \in spoilt'
  BY <1>1 DEF GapInv
<1>2. ASSUME NEW o \in Listening', got[o] # <<>>
      PROVE  /\ got[o][Len(got[o])] \in 0..(Upto(o))'
             /\ \A n \in (got[o][Len(got[o])] + 1)..(Upto(o))' : n \in spoilt'
  <2> DEFINE last == got[o][Len(got[o])]
  <2>1. o \in Observers /\ o \in Listening
    BY <1>2 DEF Listening, TypeOK
  <2>2. Upto(o) \in Int /\ (Upto(o))' \in Int
    <3>1. TypeOK' /\ BatchInv' => UptoTypeOK'
      BY UptoType, PTL
    <3> QED
      BY <2>1, <3>1, UptoType DEF UptoTypeOK
  <2>3. last \in 0..Upto(o) /\ \A n \in (last + 1)..Upto(o) : n \in spoilt
    BY <1>2, <2>1 DEF GapInv
  <2>4. Upto(o) <= (Upto(o))' /\ \A n \in (Upto(o) + 1)..(Upto(o))' : n \in spoilt'
    BY <1>2, <2>2 DEF Stretches
  <2> HIDE DEF last
  <2>5. last \in 0..(Upto(o))' /\ \A n \in (last + 1)..(Upto(o))' : n \in spoilt'
    BY <2>2, <2>3, <2>4
  <2> QED
    BY <2>5 DEF last
<1> QED
  BY <1>1, <1>2 DEF GapInv

(* Telling an observer a batch that begins behind its bound.                *)
LEMMA GapTold ==
  ASSUME TypeOK, TypeOK', BatchInv, BatchInv', GapInv, pc = "deliver",
         NEW o \in pending, pending' = pending \ {o}, observers' = observers,
         UNCHANGED <<pc, actual, batch, spoilt>>,
         got' = [got EXCEPT ![o] = got[o] \o batch]
  PROVE  GapInv'
<1> DEFINE old == got[o]
           new == got[o] \o batch
<1>1. /\ old \in Seq(LineNumbers) /\ batch \in Seq(LineNumbers) /\ actual \in Int
      /\ o \in Observers /\ got \in [Observers -> Seq(LineNumbers)]
  <2>1. actual \in Int
    BY MonitorAssumption DEF TypeOK, LineNumbers, Null
  <2> QED
    BY <2>1 DEF TypeOK
<1>2. /\ batch # <<>> /\ batch[1] >= 1 /\ actual = batch[Len(batch)]
      /\ \A i \in 1..Len(batch) : batch[i] = batch[1] + i - 1
  BY LenProperties, <1>1 DEF BatchInv
<1>3. Len(batch) \in Nat /\ Len(batch) >= 1 /\ Len(old) \in Nat
  BY <1>1, <1>2, LenProperties, EmptySeq
<1>4. batch[1] \in Int /\ \A i \in 1..Len(old) : old[i] \in Int
  <2>1. batch[1] \in LineNumbers /\ \A i \in 1..Len(old) : old[i] \in LineNumbers
    BY <1>1, <1>3, ElementOfSeq
  <2> QED
    BY <2>1, MonitorAssumption DEF LineNumbers, Null
<1>5. /\ new \in Seq(LineNumbers) /\ Len(new) = Len(old) + Len(batch)
      /\ \A i \in 1..(Len(old) + Len(batch)) :
           new[i] = IF i <= Len(old) THEN old[i] ELSE batch[i - Len(old)]
  <2> HIDE DEF old
  <2> SUFFICES /\ old \o batch \in Seq(LineNumbers)
               /\ Len(old \o batch) = Len(old) + Len(batch)
               /\ \A i \in 1..(Len(old) + Len(batch)) :
                    (old \o batch)[i] = IF i <= Len(old) THEN old[i] ELSE batch[i - Len(old)]
    BY DEF old
  <2> QED
    BY <1>1, ConcatProperties
<1>6. Upto(o) = batch[1] - 1
  BY DEF Upto, Waiting
<1>7. /\ \A i \in 1..(Len(old) - 1) : \A n \in (old[i] + 1)..(old[i + 1] - 1) : n \in spoilt
      /\ old # <<>> => \A n \in (old[Len(old)] + 1)..(batch[1] - 1) : n \in spoilt
  BY <1>1, <1>6 DEF GapInv, Listening
<1>8. got'[o] = new /\ \A q \in Observers \ {o} : got'[q] = got[q]
  BY <1>1
<1> HIDE DEF old, new
<1>9. ASSUME NEW i \in 1..(Len(new) - 1), NEW n \in (new[i] + 1)..(new[i + 1] - 1)
      PROVE  n \in spoilt
  <2>1. CASE i < Len(old)
    <3>1. new[i] = old[i] /\ new[i + 1] = old[i + 1] /\ i \in 1..(Len(old) - 1)
      BY <1>3, <1>5, <2>1
    <3> QED
      BY <1>7, <1>9, <3>1
  <2>2. CASE i = Len(old)
    <3>1. old # <<>>
      BY <1>1, <2>2, LenProperties, EmptySeq
    <3>2. new[i] = old[Len(old)] /\ new[i + 1] = batch[1]
      <4>1. i + 1 - Len(old) = 1 /\ i + 1 \in 1..(Len(old) + Len(batch)) /\ ~(i + 1 <= Len(old))
        BY <1>3, <2>2
      <4>2. new[i + 1] = batch[i + 1 - Len(old)]
        BY <1>5, <4>1
      <4>3. i \in 1..(Len(old) + Len(batch)) /\ i <= Len(old)
        BY <1>3, <1>5, <2>2
      <4>4. new[i] = old[i]
        BY <1>5, <4>3
      <4> QED
        BY <2>2, <4>1, <4>2, <4>4
    <3> QED
      BY <1>7, <1>9, <3>1, <3>2
  <2>3. CASE i > Len(old)
    <3>1. i - Len(old) \in 1..Len(batch) /\ i + 1 - Len(old) \in 1..Len(batch)
      BY <1>3, <1>5, <2>3
    <3>2. new[i] = batch[i - Len(old)] /\ new[i + 1] = batch[i + 1 - Len(old)]
      <4>1. /\ i + 1 \in 1..(Len(old) + Len(batch)) /\ ~(i + 1 <= Len(old))
            /\ i \in 1..(Len(old) + Len(batch)) /\ ~(i <= Len(old))
        BY <1>3, <1>5, <2>3
      <4> QED
        BY <1>5, <4>1
    <3>3. new[i + 1] = new[i] + 1 /\ new[i] \in Int
      <4>1. /\ batch[i - Len(old)] = batch[1] + (i - Len(old)) - 1
            /\ batch[i + 1 - Len(old)] = batch[1] + (i + 1 - Len(old)) - 1
        BY <1>2, <3>1
      <4> QED
        BY <1>3, <1>4, <3>2, <4>1, SMTT(30)
    <3> QED
      BY <1>9, <3>3
  <2> QED
    BY <1>3, <1>5, <2>1, <2>2, <2>3
<1>10. new[Len(new)] = actual /\ actual >= 0
  <2>1. new[Len(new)] = batch[Len(batch)]
    <3>1. /\ Len(new) \in 1..(Len(old) + Len(batch)) /\ ~(Len(new) <= Len(old))
          /\ Len(new) - Len(old) = Len(batch)
      BY <1>3, <1>5
    <3>2. new[Len(new)] = batch[Len(new) - Len(old)]
      BY <1>5, <3>1
    <3> QED
      BY <3>1, <3>2
  <2>2. batch[Len(batch)] = batch[1] + Len(batch) - 1
    BY <1>2, <1>3
  <2> QED
    BY <1>2, <1>3, <1>4, <2>1, <2>2
<1>11. ASSUME NEW q \in Observers, NEW i \in 1..(Len(got'[q]) - 1),
              NEW n \in (got'[q][i] + 1)..(got'[q][i + 1] - 1)
       PROVE  n \in spoilt
  <2>1. CASE q = o
    BY <1>8, <1>9, <1>11, <2>1
  <2>2. CASE q # o
    BY <1>8, <1>11, <2>2 DEF GapInv
  <2> QED
    BY <2>1, <2>2
<1>12. ASSUME NEW q \in Listening', got'[q] # <<>>
       PROVE  /\ got'[q][Len(got'[q])] \in 0..(Upto(q))'
              /\ \A n \in (got'[q][Len(got'[q])] + 1)..(Upto(q))' : n \in spoilt
  <2>1. CASE q = o
    <3>1. (Upto(q))' = actual
      BY <2>1 DEF Upto, Waiting
    <3>2. got'[q] = new
      BY <1>8, <2>1
    <3>3. new[Len(new)] \in 0..actual /\ \A n \in (new[Len(new)] + 1)..actual : FALSE
      BY <1>1, <1>10
    <3> QED
      BY <3>1, <3>2, <3>3
  <2>2. CASE q # o
    <3>1. (Upto(q))' = Upto(q)
      BY <2>2 DEF Upto, Waiting
    <3>2. q \in Listening /\ q \in Observers
      BY <1>12 DEF Listening, TypeOK
    <3> QED
      BY <1>8, <1>12, <2>2, <3>1, <3>2 DEF GapInv
  <2> QED
    BY <2>1, <2>2
<1> QED
  BY <1>11, <1>12 DEF GapInv

(* A batch under way begins with a number.                                 *)
LEMMA BatchHead ==
  ASSUME TypeOK, BatchInv, pc \in {"notify", "deliver"} PROVE batch[1] \in Int
<1>1. batch \in Seq(LineNumbers) /\ batch # <<>>
  BY DEF TypeOK, BatchInv
<1>2. 1 \in 1..Len(batch)
  BY <1>1, LenProperties, EmptySeq
<1> QED
  BY <1>1, <1>2, ElementOfSeq, MonitorAssumption DEF LineNumbers, Null

(* Every step keeps GapInv, in a monitor without the all flag.             *)
LEMMA GapStep ==
  ASSUME ~All, TypeOK, TypeOK', ControlInv, BatchInv, BatchInv', GapInv,
         [Next]_monitorVars
  PROVE  GapInv'
<1> DEFINE Quiet ==
      /\ got' = got /\ spoilt \subseteq spoilt'
      /\ \A o \in Listening' :
           got[o] = <<>> \/ (o \in Listening /\ (Stretches(o) \/ (Upto(o))' = Upto(o)))
<1>0. /\ \A o \in Listening : o \in Observers
      /\ pc # "deliver" => pending = {}
      /\ actual \in Int
      /\ \A o \in Observers : Upto(o) \in Int
  <2>1. \A o \in Listening : o \in Observers
    BY DEF Listening, TypeOK
  <2>2. actual \in Int
    BY MonitorAssumption DEF TypeOK, LineNumbers, Null
  <2> QED
    BY <2>1, <2>2, UptoType DEF ControlInv, UptoTypeOK
<1>Q. ASSUME Quiet PROVE GapInv'
  BY <1>Q, GapStays
<1> USE DEF Goto
<1> HIDE DEF Quiet
<1>1. CASE Append1 \/ Rotate
  BY <1>1, <1>Q DEF Append1, Rotate, threadVars, observerVars, Listening, Upto, Waiting,
     Quiet
<1>2. CASE Top \/ Woken \/ Greet \/ Loop \/ Delivered \/ Nap
  <2>1. /\ got' = got /\ spoilt' = spoilt /\ actual' = actual
        /\ pc # "notify" /\ pending = {} /\ pending' = {} /\ observers' = observers
        /\ pc' \notin {"notify", "deliver"}
    BY <1>0, <1>2 DEF Top, Woken, Greet, Loop, Delivered, Nap, NotifyObservers,
       sourceVars, observerVars, ControlInv
  <2> QED
    BY <1>Q, <2>1 DEF Listening, Upto, Waiting, Quiet
<1>3. CASE StartWatching
  BY <1>0, <1>3, <1>Q DEF StartWatching, sourceVars, observerVars, Listening,
     ControlInv, Silent, Quiet
<1>4. CASE GetNewLines
  <2>1. /\ got' = got /\ spoilt' = spoilt /\ pc = "read"
        /\ pending = {} /\ pending' = {} /\ observers' = observers
    BY <1>0, <1>4 DEF GetNewLines, sourceVars, observerVars
  <2>2. CASE pc' = "nap" /\ actual' = actual
    BY <1>Q, <2>1, <2>2 DEF Listening, Upto, Waiting, Quiet
  <2>3. CASE pc' = "notify" /\ LinesFrom(actual) # <<>> /\ batch' = LinesFrom(actual)
    <3>1. actual \in LineNumbers
      BY DEF TypeOK
    <3>2. 1 \in DOMAIN LinesFrom(actual) /\ LinesFrom(actual)[1] = StartLine(actual) + 1
      BY <2>3, <3>1, NewLines, LenProperties
    <3>3. \A o \in observers : got[o] # <<>> => actual >= 0
      <4> SUFFICES ASSUME NEW o \in observers, got[o] # <<>> PROVE actual >= 0
        OBVIOUS
      <4>1. got[o][Len(got[o])] \in 0..Upto(o) /\ Upto(o) = actual
        BY <2>1 DEF GapInv, Listening, Upto, Waiting
      <4> QED
        BY <1>0, <4>1
    <3>4. actual >= 0 => batch'[1] - 1 = actual
      BY <1>0, <2>3, <3>2 DEF StartLine, Null
    <3> QED
      BY <1>Q, <2>1, <2>3, <3>3, <3>4 DEF Listening, Upto, Waiting, Quiet
  <2> QED
    BY <1>4, <2>2, <2>3 DEF GetNewLines, Publish
<1>5. CASE NotifyLines
  <2>1. /\ pc = "notify" /\ pending = {} /\ pc' = "deliver" /\ pending' = observers
        /\ UNCHANGED <<got, actual, batch, observers, spoilt>>
    BY <1>0, <1>5 DEF NotifyLines, NotifyObservers, sourceVars, observerVars, ControlInv
  <2> QED
    BY <1>Q, <2>1 DEF Listening, Upto, Waiting, Quiet
<1>6. ASSUME NEW o \in Observers, DeliverFails(o) PROVE GapInv'
  (* The lines between the bound of those still waiting and actual are the  *)
  (* batch, which is spoilt now.                                            *)
  <2>1. /\ pc = "deliver" /\ pc' = "nap" /\ pending' = {}
        /\ spoilt' = spoilt \cup {batch[i] : i \in DOMAIN batch}
        /\ UNCHANGED <<got, actual, batch, observers>>
    BY <1>6 DEF DeliverFails, sourceVars, observerVars
  <2>2. batch[1] - 1 \in Int /\ batch[1] - 1 < actual
    BY <2>1, BatchFacts
  <2>3. \A n \in batch[1]..actual : n \in spoilt'
    <3>1. /\ \A i \in DOMAIN batch : batch[i] = batch[1] + i - 1
          /\ actual = batch[Len(batch)] /\ batch # <<>> /\ batch \in Seq(LineNumbers)
      BY <2>1 DEF BatchInv, TypeOK
    <3>2. DOMAIN batch = 1..Len(batch) /\ Len(batch) \in Nat /\ Len(batch) >= 1
      BY <3>1, LenProperties, EmptySeq
    <3>3. batch[1] \in Int
      BY <2>1, BatchHead
    <3>4. actual = batch[1] + Len(batch) - 1
      BY <3>1, <3>2
    <3>5. ASSUME NEW n \in batch[1]..actual PROVE n \in spoilt'
      <4> DEFINE k == n - batch[1] + 1
      <4>1. k \in DOMAIN batch /\ batch[1] + k - 1 = n
        BY <3>2, <3>3, <3>4
      <4> HIDE DEF k
      <4>2. batch[k] = n
        BY <3>1, <4>1
      <4> QED
        BY <2>1, <4>1, <4>2
    <3> QED
      BY <3>5
  <2>4. ASSUME NEW q \in Listening'
        PROVE  q \in Listening /\ (Stretches(q) \/ (Upto(q))' = Upto(q))
    <3>1. q \in Listening /\ (Upto(q))' = actual
      BY <2>1 DEF Listening, Upto, Waiting
    <3>2. CASE Waiting(q)
      <4>1. Upto(q) = batch[1] - 1
        BY <3>2 DEF Upto
      <4>2. Upto(q) \in Int /\ Upto(q) + 1 = batch[1] /\ Upto(q) < actual
        <5>1. batch[1] \in Int
          BY <2>1, BatchHead
        <5> QED
          BY <2>2, <4>1, <5>1
      <4>3. Upto(q) <= (Upto(q))'
        BY <1>0, <3>1, <4>2
      <4>4. \A n \in (Upto(q) + 1)..(Upto(q))' : n \in spoilt'
        BY <2>3, <3>1, <4>2
      <4> QED
        BY <3>1, <4>3, <4>4 DEF Stretches
    <3>3. CASE ~Waiting(q)
      <4>1. Upto(q) = actual
        BY <3>3 DEF Upto
      <4> QED
        BY <3>1, <4>1
    <3> QED
      BY <3>1, <3>2, <3>3
  <2> QED
    BY <1>Q, <2>1, <2>4 DEF Quiet
<1>7. ASSUME NEW o \in Observers, AddObserver(o) PROVE GapInv'
  <2>1. /\ observers' = observers \cup {o} /\ stage[o] = "new"
        /\ UNCHANGED <<got, actual, batch, pending, pc, spoilt>>
    BY <1>7 DEF AddObserver, sourceVars, threadVars
  <2>2. got[o] = <<>>
    BY <2>1 DEF ControlInv, Silent
  <2> QED
    BY <1>Q, <2>1, <2>2 DEF Listening, Upto, Waiting, Quiet
<1>8. ASSUME NEW o \in Observers, SetLines(o) \/ CopyLines(o) \/ ClearLines(o)
      PROVE  GapInv'
  BY <1>8, <1>Q DEF SetLines, CopyLines, ClearLines, threadVars, Listening, Upto,
     Waiting, Quiet
<1>9. ASSUME NEW o \in Observers, DeleteObserver(o) PROVE GapInv'
  <2>1. /\ observers' = observers \ {o}
        /\ UNCHANGED <<got, actual, batch, pending, pc, spoilt>>
    BY <1>9 DEF DeleteObserver, threadVars, observerVars
  <2>2. \A q \in Listening' : q \in Listening /\ (Upto(q))' = Upto(q)
    BY <1>0, <2>1 DEF Listening, Upto, Waiting
  <2> QED
    BY <1>Q, <2>1, <2>2 DEF Quiet
<1>10. CASE UNCHANGED monitorVars
  BY <1>10, <1>Q DEF monitorVars, threadVars, observerVars, Listening, Upto, Waiting, Quiet
<1>11. ASSUME NEW o \in Observers, Deliver(o) \/ DeliverTorn(o) \/ CopyTorn(o)
       PROVE  GapInv'
  BY <1>11, GapTold DEF Deliver, DeliverTorn, CopyTorn, Tell
<1> QED
  BY <1>1, <1>2, <1>3, <1>4, <1>5, <1>6, <1>7, <1>8, <1>9, <1>10, <1>11
  DEF Next, ThreadStep

(* Everything that goes on about the lines, as an inductive invariant.      *)
SafeInv == /\ TypeOK /\ ControlInv /\ BatchInv
           /\ ~All => OrderInv
           /\ ~All => GapInv

(* SafeInv holds at first and every step keeps it.                        *)
LEMMA SafeAlways == Spec => []SafeInv
<1>1. Init => SafeInv
  <2> SUFFICES ASSUME Init PROVE SafeInv
    OBVIOUS
  <2>1. TypeOK
    <3>1. <<>> \in Seq(LineNumbers) /\ Null \in LineNumbers /\ 0 \in 0..MaxRotations
      BY MonitorAssumption DEF LineNumbers, Null
    <3> QED
      BY <3>1 DEF Init, TypeOK, Labels, Stages
  <2>2. ControlInv /\ BatchInv
    BY DEF Init, ControlInv, BatchInv, Silent
  <2>3. OrderInv
    BY DEF Init, OrderInv, Ordered, Increasing, Before, Listening
  <2>4. GapInv
    BY DEF Init, GapInv, Listening
  <2> QED
    BY <2>1, <2>2, <2>3, <2>4 DEF SafeInv
<1>2. SafeInv /\ [Next]_monitorVars => SafeInv'
  <2> SUFFICES ASSUME SafeInv, [Next]_monitorVars PROVE SafeInv'
    OBVIOUS
  <2>1. TypeOK' /\ ControlInv' /\ BatchInv'
    BY TypeStep, ControlStep, BatchStep DEF SafeInv
  <2>2. ~All => OrderInv' /\ GapInv'
    BY <2>1, OrderStep, GapStep DEF SafeInv
  <2> QED
    BY <2>1, <2>2 DEF SafeInv
<1> QED
  BY <1>1, <1>2, PTL DEF Spec

(* An observer is told no line twice or after a later one, and over all its  *)
(* polls it is shown none so, but for those that a torn list has returned    *)
(* and kept: the watching may restart, other observers may come, go and fail. *)
THEOREM LinesInOrder == Spec => []InOrder
<1>1. SafeInv => InOrder
  BY DEF SafeInv, OrderInv, Ordered, InOrder
<1> QED
  BY <1>1, SafeAlways, PTL

(* An observer is told every line between two it was told of, those of a    *)
(* notification that ended by an exception apart.                          *)
THEOREM NoLineSkipped == Spec => []Gapless
<1>1. SafeInv => Gapless
  BY DEF SafeInv, GapInv, Gapless
<1> QED
  BY <1>1, SafeAlways, PTL

-----------------------------------------------------------------------------
(* The monitor under its web client.                                       *)

(* The types of the variables of the web side, and what a request works on. *)
ClientInv ==
  /\ watcher \in [Sessions -> Observers \cup {NoObserver}]
  /\ serving \in [Sessions -> Observers \cup {NoObserver}]
  /\ at \in [Sessions -> Places]
  /\ armed \in [Observers -> BOOLEAN]
  /\ left \in [Observers -> 0..Expiry]
  /\ firing \in [Observers -> BOOLEAN]
  /\ idle \in [Observers -> 0..Expiry]
  /\ \A s \in Sessions : at[s] # "out" => serving[s] \in Observers

(* What every step of the web side does to the monitor.                    *)
LEMMA ClientStep ==
  ASSUME ClientInv, [WatchNext]_allVars
  PROVE  ClientInv' /\ [Next]_monitorVars
<1> USE WatchAssumption DEF ClientInv, Places, Step
<1>0. Expiry \in Nat
  BY DEF Expiry
<1>1. CASE (Append1 \/ Rotate \/ ThreadStep) /\ UNCHANGED watchVars
  BY <1>1 DEF watchVars, Next
<1>2. ASSUME NEW s \in Sessions, NEW o \in Observers, Watch(s, o)
      PROVE  ClientInv' /\ [Next]_monitorVars
  BY <1>2 DEF Watch, Next
<1>3. ASSUME NEW s \in Sessions, Poll(s) PROVE ClientInv' /\ [Next]_monitorVars
  BY <1>0, <1>3 DEF Poll, Arm
<1>4. ASSUME NEW s \in Sessions, BuildList(s) PROVE ClientInv' /\ [Next]_monitorVars
  BY <1>4 DEF BuildList, Next
<1>5. ASSUME NEW s \in Sessions, Schedule(s) PROVE ClientInv' /\ [Next]_monitorVars
  BY <1>0, <1>5 DEF Schedule, Arm
<1>6. ASSUME NEW s \in Sessions, Copy(s) PROVE ClientInv' /\ [Next]_monitorVars
  BY <1>6 DEF Copy, Next
<1>7. ASSUME NEW s \in Sessions, Clear(s) PROVE ClientInv' /\ [Next]_monitorVars
  BY <1>7 DEF Clear, watchVars, Next
<1>8. ASSUME NEW s \in Sessions, Return(s) PROVE ClientInv' /\ [Next]_monitorVars
  BY <1>8 DEF Return
<1>9. CASE Tick
  BY <1>0, <1>9 DEF Tick
<1>10. ASSUME NEW o \in Observers, TimerFires(o) PROVE ClientInv' /\ [Next]_monitorVars
  BY <1>10 DEF TimerFires
<1>11. ASSUME NEW o \in Observers, TaskRuns(o) PROVE ClientInv' /\ [Next]_monitorVars
  BY <1>11 DEF TaskRuns, Next
<1>12. CASE UNCHANGED allVars
  BY <1>12 DEF allVars, watchVars
<1> QED
  BY <1>1, <1>2, <1>3, <1>4, <1>5, <1>6, <1>7, <1>8, <1>9, <1>10, <1>11, <1>12
  DEF WatchNext, RequestStep

(* ClientInv holds at first and every step keeps it.                        *)
LEMMA ClientAlways == WatchSpec => []ClientInv
<1>1. WatchInit => ClientInv
  BY WatchAssumption DEF WatchInit, ClientInv, Places, Expiry
<1>2. ClientInv /\ [WatchNext]_allVars => ClientInv'
  BY ClientStep
<1> QED
  BY <1>1, <1>2, PTL DEF WatchSpec

(* The pages do nothing to the monitor that Monitor does not allow.         *)
LEMMA PagesAreObservers == WatchSpec => Spec
<1>1. WatchInit => Init
  BY DEF WatchInit
<1>2. ClientInv /\ [WatchNext]_allVars => [Next]_monitorVars
  BY ClientStep
<1> QED
  BY <1>1, <1>2, ClientAlways, PTL DEF WatchSpec, Spec

(* Every variable keeps its type.                                          *)
THEOREM WatchTypeCorrect == WatchSpec => []WatchTypeOK
<1>1. TypeOK /\ ClientInv => WatchTypeOK
  BY DEF WatchTypeOK, ClientInv
<1> QED
  BY <1>1, TypeCorrect, PagesAreObservers, ClientAlways, PTL

(* What is proved of a monitor holds of one that pages watch: no poll of a  *)
(* page returns a line twice or after a later one, but for those of a torn   *)
(* list.                                                                   *)
THEOREM PagesShowLinesInOrder == WatchSpec => []InOrder
BY LinesInOrder, PagesAreObservers, PTL

(* An observer that is registered is being built, or its timer is going to  *)
(* delete it: none stays for ever when its page is closed.                 *)
THEOREM NothingLeaks == WatchSpec => []NoLeak
<1>1. WatchInit => NoLeak
  BY DEF WatchInit, Init, NoLeak
<1>2. TypeOK /\ ClientInv /\ NoLeak /\ [WatchNext]_allVars => NoLeak'
  <2> SUFFICES ASSUME TypeOK, ClientInv, NoLeak, [WatchNext]_allVars,
                      NEW q \in observers'
               PROVE  armed'[q] \/ firing'[q] \/ UnderConstruction(q)'
    BY DEF NoLeak
  <2> DEFINE Kept == armed'[q] \/ firing'[q] \/ UnderConstruction(q)'
  <2>0. q \in observers => q \in Observers /\ (armed[q] \/ firing[q] \/ UnderConstruction(q))
    BY DEF NoLeak, TypeOK
  <2> USE DEF ClientInv, UnderConstruction, Step
  <2>1. CASE (Append1 \/ Rotate \/ ThreadStep) /\ UNCHANGED watchVars
    <3>1. observers' = observers
      BY <2>1 DEF Append1, Rotate, ThreadStep, Top, Woken, StartWatching, Greet, Loop,
         GetNewLines, NotifyLines, Delivered, Nap, Deliver, DeliverTorn, Tell, DeliverFails
    <3> QED
      BY <2>0, <2>1, <3>1 DEF watchVars
  <2>2. ASSUME NEW s \in Sessions, NEW o \in Observers, Watch(s, o) PROVE Kept
    <3>1. q = o \/ q \in observers
      BY <2>2 DEF Watch, AddObserver
    <3>2. CASE q = o
      BY <2>2, <3>2 DEF Watch
    <3>3. CASE q \in observers
      BY <2>0, <2>2, <3>3 DEF Watch
    <3> QED
      BY <3>1, <3>2, <3>3
  <2>3. ASSUME NEW s \in Sessions, Poll(s) PROVE Kept
    BY <2>0, <2>3 DEF Poll, Arm, monitorVars
  <2>4. ASSUME NEW s \in Sessions, BuildList(s) \/ Copy(s) PROVE Kept
    BY <2>0, <2>4 DEF BuildList, SetLines, Copy, CopyLines, CopyTorn, Tell
  <2>5. ASSUME NEW s \in Sessions, Schedule(s) PROVE Kept
    BY <2>0, <2>5 DEF Schedule, Arm, monitorVars
  <2>6. ASSUME NEW s \in Sessions, Clear(s) PROVE Kept
    BY <2>0, <2>6 DEF Clear, ClearLines, watchVars
  <2>7. ASSUME NEW s \in Sessions, Return(s) PROVE Kept
    BY <2>0, <2>7 DEF Return, monitorVars
  <2>8. CASE Tick
    BY <2>0, <2>8 DEF Tick, monitorVars
  <2>9. ASSUME NEW o \in Observers, TimerFires(o) PROVE Kept
    BY <2>0, <2>9 DEF TimerFires, monitorVars
  <2>10. ASSUME NEW o \in Observers, TaskRuns(o) PROVE Kept
    BY <2>0, <2>10 DEF TaskRuns, DeleteObserver
  <2>11. CASE UNCHANGED allVars
    BY <2>0, <2>11 DEF allVars, watchVars, monitorVars
  <2> QED
    BY <2>1, <2>2, <2>3, <2>4, <2>5, <2>6, <2>7, <2>8, <2>9, <2>10, <2>11
    DEF WatchNext, RequestStep
<1> QED
  BY <1>1, <1>2, TypeCorrect, PagesAreObservers, ClientAlways, PTL
  DEF WatchSpec
=============================================================================
