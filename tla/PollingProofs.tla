--------------------------- MODULE PollingProofs ---------------------------
(***************************************************************************)
(* Theorems about Polling, for any number of requests, lines and rounds:   *)
(* the type invariant, that the open requests are counted right, and that  *)
(* every line is in one place.                                             *)
(***************************************************************************)
EXTENDS Polling, TLAPS, FiniteSetTheorems, SequenceTheorems

Phases == {"free", "sent", "collected", "served", "arrived", "failed", "aborted"}

(* Every variable keeps its type; that a request has lines only between the *)
(* server and the page is part of it.                                      *)
TypeOK ==
  /\ started \in BOOLEAN /\ busy \in BOOLEAN /\ overlapped \in BOOLEAN
  /\ rounds \in Nat /\ stuck \in Nat /\ orphans \in Nat /\ produced \in Nat
  /\ active \in Int
  /\ request \in [Ids -> [phase : Phases, lines : Seq(Nat)]]
  /\ \A r \in Ids : request[r].phase \notin {"served", "arrived"} => request[r].lines = <<>>
  /\ waiting \in Seq(Nat) /\ attribute \in Seq(Nat) /\ shown \in Seq(Nat)
  /\ lost \in SUBSET Nat /\ crossed \in SUBSET Nat

LEMMA ElementsType == ASSUME NEW s \in Seq(Nat) PROVE Elements(s) \subseteq Nat
BY ElementOfSeq DEF Elements

LEMMA LinesType ==
  ASSUME TypeOK, NEW r \in Ids PROVE Elements(request[r].lines) \subseteq Nat
<1>1. request[r].lines \in Seq(Nat)
  BY DEF TypeOK
<1> QED
  BY <1>1, ElementsType

LEMMA BringsType ==
  ASSUME TypeOK, NEW r \in Ids PROVE Brings(r) \subseteq Nat
<1>1. attribute \in Seq(Nat)
  BY DEF TypeOK
<1> QED
  BY <1>1, LinesType, ElementsType DEF Brings

LEMMA TakeTypes ==
  ASSUME TypeOK, Take
  PROVE  waiting' \in Seq(Nat) /\ attribute' \in Seq(Nat) /\ crossed' \in SUBSET Nat
<1>1. waiting \in Seq(Nat) /\ attribute \in Seq(Nat) /\ crossed \in SUBSET Nat
  BY DEF TypeOK
<1>2. <<>> \in Seq(Nat) /\ Elements(waiting) \subseteq Nat /\ Elements(attribute) \subseteq Nat
  BY <1>1, ElementsType
<1> QED
  BY <1>1, <1>2 DEF Take

LEMMA GiveUpTypes ==
  ASSUME TypeOK, NEW r \in Ids, GiveUp(r)
  PROVE  lost' \in SUBSET Nat /\ orphans' \in Nat
<1>1. lost' \in SUBSET Nat
  BY BringsType DEF TypeOK, GiveUp
<1>2. CASE request[r].phase = "sent"
  BY <1>1, <1>2 DEF TypeOK, GiveUp
<1>3. CASE request[r].phase # "sent"
  BY <1>1, <1>3 DEF TypeOK, GiveUp
<1> QED
  BY <1>2, <1>3

(* What a step makes of the requests and the count of them.                 *)
LEMMA LaunchTypes ==
  ASSUME TypeOK, NEW left \in Nat, Launch(left)
  PROVE  /\ rounds' \in Nat /\ stuck' \in Nat /\ active' \in Int
         /\ busy' \in BOOLEAN /\ overlapped' \in BOOLEAN
         /\ request' \in [Ids -> [phase : Phases, lines : Seq(Nat)]]
         /\ \A r \in Ids : request'[r].phase \notin {"served", "arrived"}
                              => request'[r].lines = <<>>
<1> USE DEF TypeOK, Phases
<1>1. CASE SendThrows
  BY <1>1 DEF Launch, SendThrows, Begin
<1>2. ASSUME NEW r \in Ids, Send(r)
      PROVE  /\ request' \in [Ids -> [phase : Phases, lines : Seq(Nat)]]
             /\ \A q \in Ids : request'[q].phase \notin {"served", "arrived"}
                                  => request'[q].lines = <<>>
             /\ stuck' \in Nat /\ active' \in Int
             /\ busy' \in BOOLEAN /\ overlapped' \in BOOLEAN
  <2>1. request' = [request EXCEPT ![r].phase = "sent"] /\ request[r].phase = "free"
    BY <1>2 DEF Send, IsOpen
  <2>2. request' \in [Ids -> [phase : Phases, lines : Seq(Nat)]]
    BY <2>1
  <2>3. \A q \in Ids : request'[q].phase \notin {"served", "arrived"}
                          => request'[q].lines = <<>>
    BY <2>1
  <2>4. stuck' \in Nat /\ active' \in Int /\ busy' \in BOOLEAN
    BY <1>2 DEF Send, Begin
  <2>5. overlapped' \in BOOLEAN
    <3>1. overlapped' = (overlapped \/ Opened # {})
      BY <1>2 DEF Send
    <3> QED
      BY <3>1, Zenon
  <2> QED
    BY <2>2, <2>3, <2>4, <2>5
<1> QED
  BY <1>1, <1>2 DEF Launch

LEMMA TypeStep == TypeOK /\ [Next]_vars => TypeOK'
<1> SUFFICES ASSUME TypeOK, [Next]_vars PROVE TypeOK'
  OBVIOUS
<1> USE DEF TypeOK, page, lines
<1>1. CASE Start
  BY <1>1, LaunchTypes DEF Start
<1>2. CASE Stop
  BY <1>2 DEF Stop
<1>3. CASE Round
  <2>1. CASE started
    BY <1>3, <2>1, LaunchTypes DEF Round
  <2>2. CASE ~started
    BY <1>3, <2>2 DEF Round
  <2> QED
    BY <2>1, <2>2
<1>4. CASE Produce
  BY <1>4 DEF Produce
<1>5. CASE ServeNobody
  <2>0. Elements(waiting) \subseteq Nat
    BY ElementsType
  <2>1. lost' \in SUBSET Nat
    BY <1>5, <2>0 DEF ServeNobody
  <2>2. waiting' \in Seq(Nat) /\ attribute' \in Seq(Nat) /\ crossed' \in SUBSET Nat
    BY <1>5, TakeTypes DEF ServeNobody
  <2> QED
    BY <1>5, <2>1, <2>2 DEF ServeNobody
<1>6. ASSUME NEW r \in Ids, Collect(r) PROVE TypeOK'
  <2>1. waiting' \in Seq(Nat) /\ attribute' \in Seq(Nat) /\ crossed' \in SUBSET Nat
    BY <1>6, TakeTypes DEF Collect
  <2> QED
    BY <1>6, <2>1 DEF Collect, Phases
<1>14. ASSUME NEW r \in Ids, Render(r) PROVE TypeOK'
  BY <1>14 DEF Render, Phases
<1>15. CASE StuckEnds
  BY <1>15 DEF StuckEnds, Complete
<1>7. ASSUME NEW r \in Ids, Arrive(r) PROVE TypeOK'
  BY <1>7 DEF Arrive, Phases
<1>8. ASSUME NEW r \in Ids, Break(r) PROVE TypeOK'
  <2>1. lost' \in SUBSET Nat
    BY <1>8, BringsType DEF Break
  <2> QED
    BY <1>8, <2>1 DEF Break, Phases
<1>9. ASSUME NEW r \in Ids, Poll(r) PROVE TypeOK'
  BY <1>9 DEF Poll, Complete, NoRequest, Phases
<1>10. ASSUME NEW r \in Ids, PollAborted(r) PROVE TypeOK'
  BY <1>10 DEF PollAborted, Complete, NoRequest, Phases
<1>11. ASSUME NEW r \in Ids, Timeout(r) PROVE TypeOK'
  <2>1. lost' \in SUBSET Nat /\ orphans' \in Nat
    BY <1>11, GiveUpTypes DEF Timeout
  <2> QED
    BY <1>11, <2>1 DEF Timeout, Complete, NoRequest, Phases
<1>12. ASSUME NEW r \in Ids, Abort(r) PROVE TypeOK'
  <2>1. lost' \in SUBSET Nat /\ orphans' \in Nat
    BY <1>12, GiveUpTypes DEF Abort
  <2> QED
    BY <1>12, <2>1 DEF Abort, Phases
<1>13. CASE UNCHANGED vars
  BY <1>13 DEF vars
<1> QED
  BY <1>1, <1>2, <1>3, <1>4, <1>5, <1>6, <1>7, <1>8, <1>9, <1>10, <1>11, <1>12, <1>13,
     <1>14, <1>15
  DEF Next, Answer

LEMMA TypeInit == Init => TypeOK
<1> SUFFICES ASSUME Init PROVE TypeOK
  OBVIOUS
<1>1. <<>> \in Seq(Nat)
  OBVIOUS
<1>2. NoRequest \in [phase : Phases, lines : Seq(Nat)]
  BY <1>1 DEF NoRequest, Phases
<1>3. \A r \in Ids : request[r] = NoRequest
  BY DEF Init
<1>4. request \in [Ids -> [phase : Phases, lines : Seq(Nat)]]
  BY <1>2 DEF Init
<1>5. \A r \in Ids : request[r].lines = <<>>
  BY <1>3 DEF NoRequest
<1>6. started \in BOOLEAN /\ busy \in BOOLEAN /\ overlapped \in BOOLEAN
  BY DEF Init
<1>7. /\ rounds \in Nat /\ stuck \in Nat /\ orphans \in Nat /\ produced \in Nat
      /\ active \in Int /\ lost \in SUBSET Nat /\ crossed \in SUBSET Nat
  BY DEF Init
<1>8. waiting \in Seq(Nat) /\ attribute \in Seq(Nat) /\ shown \in Seq(Nat)
  BY <1>1 DEF Init
<1> QED
  BY <1>4, <1>5, <1>6, <1>7, <1>8 DEF TypeOK

(* Every variable of the monitor page keeps its type.                      *)
THEOREM TypeCorrect == Spec => []TypeOK
BY TypeInit, TypeStep, PTL DEF Spec

-----------------------------------------------------------------------------
(* The count of open requests.                                              *)

LEMMA OpenedIsFinite == IsFiniteSet(Opened)
BY ConstantsAssumption, FS_Subset DEF Opened

(* A request that is sent is one more that is open, one that ends is one     *)
(* less.                                                                    *)
LEMMA OneMore ==
  ASSUME NEW r \in Ids, ~IsOpen(r), Opened' = Opened \cup {r}
  PROVE  Cardinality(Opened') = Cardinality(Opened) + 1
BY OpenedIsFinite, FS_AddElement DEF Opened

LEMMA OneLess ==
  ASSUME NEW r \in Ids, IsOpen(r), Opened' = Opened \ {r}
  PROVE  /\ Cardinality(Opened') = Cardinality(Opened) - 1
         /\ Cardinality(Opened) \in Nat /\ Cardinality(Opened) # 0
BY OpenedIsFinite, FS_RemoveElement, FS_CardinalityType, FS_EmptySet DEF Opened

LEMMA OneMoreBusy ==
  ASSUME TypeOK, ActiveCounts, Begin, Cardinality(Opened) \in Nat, stuck' \in Nat,
         Cardinality(Opened') + stuck' = Cardinality(Opened) + stuck + 1,
         Cardinality(Opened') \in Nat
  PROVE  ActiveCounts'
<1>1. active' = Cardinality(Opened') + stuck'
  BY DEF TypeOK, ActiveCounts, Begin
<1>2. active' # 0
  BY DEF TypeOK, ActiveCounts, Begin
<1>3. busy' = (active' # 0)
  BY <1>2, Zenon DEF Begin
<1> QED
  BY <1>1, <1>3 DEF ActiveCounts

LEMMA LaunchCounts ==
  ASSUME TypeOK, ActiveCounts, NEW left, Launch(left)
  PROVE  ActiveCounts'
<1>0. Cardinality(Opened) \in Nat
  BY OpenedIsFinite, FS_CardinalityType
<1>1. CASE SendThrows
  <2>1. Opened' = Opened
    BY <1>1 DEF SendThrows, Opened, IsOpen
  <2> QED
    <3>1. Begin /\ stuck' \in Nat
      BY <1>1 DEF TypeOK, SendThrows
    <3>2. Cardinality(Opened') + stuck' = Cardinality(Opened) + stuck + 1
      BY <1>0, <1>1, <2>1 DEF TypeOK, SendThrows
    <3> QED
      BY <1>0, <2>1, <3>1, <3>2, OneMoreBusy
<1>2. ASSUME NEW r \in Ids, Send(r) PROVE ActiveCounts'
  <2>1. Opened' = Opened \cup {r}
    BY <1>2 DEF TypeOK, Send, Opened, IsOpen
  <2>2. ~IsOpen(r)
    BY <1>2 DEF Send
  <2>3. Cardinality(Opened') = Cardinality(Opened) + 1
    BY <2>1, <2>2, OneMore
  <2> QED
    <3>1. Begin /\ stuck' = stuck /\ stuck \in Nat
      BY <1>2 DEF TypeOK, Send
    <3>2. Cardinality(Opened') + stuck' = Cardinality(Opened) + stuck + 1
      BY <1>0, <2>3, <3>1
    <3>3. Cardinality(Opened') \in Nat
      BY <1>0, <2>3
    <3> QED
      BY <1>0, <3>1, <3>2, <3>3, OneMoreBusy
<1> QED
  BY <1>1, <1>2 DEF Launch

(* An open request that ends, in any way, is counted out.                   *)
LEMMA EndCounts ==
  ASSUME TypeOK, ActiveCounts, NEW r \in Ids, IsOpen(r), Complete, UNCHANGED stuck,
         request' = [request EXCEPT ![r] = NoRequest]
  PROVE  ActiveCounts'
<1>1. Opened' = Opened \ {r}
  BY DEF TypeOK, Opened, IsOpen, NoRequest
<1>2. /\ Cardinality(Opened') = Cardinality(Opened) - 1
      /\ Cardinality(Opened) \in Nat /\ Cardinality(Opened) # 0
  BY <1>1, OneLess
<1> QED
  BY <1>2 DEF TypeOK, ActiveCounts, Complete

LEMMA CountStep == TypeOK /\ ActiveCounts /\ [Next]_vars => ActiveCounts'
<1> SUFFICES ASSUME TypeOK, ActiveCounts, [Next]_vars PROVE ActiveCounts'
  OBVIOUS
<1>0. ASSUME Opened' = Opened, UNCHANGED <<active, busy, stuck>> PROVE ActiveCounts'
  BY <1>0 DEF ActiveCounts
<1>1. CASE Start
  BY <1>1, LaunchCounts DEF Start
<1>2. CASE Stop
  BY <1>2, <1>0 DEF Stop, Opened, IsOpen
<1>3. CASE Round
  <2>1. CASE started
    BY <1>3, <2>1, LaunchCounts DEF Round
  <2>2. CASE ~started
    BY <1>3, <2>2, <1>0 DEF Round, Opened, IsOpen
  <2> QED
    BY <2>1, <2>2 DEF TypeOK
<1>4. CASE Produce \/ ServeNobody
  BY <1>4, <1>0 DEF Produce, ServeNobody, Opened, IsOpen
<1>5. ASSUME NEW r \in Ids, Collect(r) \/ Render(r) \/ Arrive(r) \/ Break(r) \/ Abort(r)
      PROVE  ActiveCounts'
  <2>1. IsOpen(r) /\ \A q \in Ids : IsOpen(q)' <=> IsOpen(q)
    <3>1. CASE Collect(r)
      BY <3>1 DEF TypeOK, Collect, IsOpen
    <3>5. CASE Render(r)
      BY <3>5 DEF TypeOK, Render, IsOpen
    <3>2. CASE Arrive(r)
      BY <3>2 DEF TypeOK, Arrive, IsOpen
    <3>3. CASE Break(r)
      BY <3>3 DEF TypeOK, Break, IsOpen
    <3>4. CASE Abort(r)
      BY <3>4 DEF TypeOK, Abort, IsOpen
    <3> QED
      BY <1>5, <3>1, <3>2, <3>3, <3>4, <3>5
  <2>2. Opened' = Opened
    BY <2>1 DEF Opened
  <2> QED
    BY <1>5, <2>2, <1>0 DEF Collect, Render, Arrive, Break, Abort
<1>6. ASSUME NEW r \in Ids, Answer(r) \/ Timeout(r) PROVE ActiveCounts'
  <2>1. /\ IsOpen(r) /\ Complete /\ UNCHANGED stuck
        /\ request' = [request EXCEPT ![r] = NoRequest]
    BY <1>6 DEF Answer, Poll, PollAborted, Timeout, IsOpen
  <2> QED
    BY <2>1, EndCounts
<1>7. CASE UNCHANGED vars
  BY <1>7, <1>0 DEF vars, Opened, IsOpen
<1>8. CASE StuckEnds
  <2>1. Opened' = Opened /\ Cardinality(Opened) \in Nat
    BY <1>8, OpenedIsFinite, FS_CardinalityType DEF StuckEnds, Opened, IsOpen
  <2>2. active' = Cardinality(Opened') + stuck'
    BY <1>8, <2>1 DEF StuckEnds, Complete, ActiveCounts, TypeOK
  <2>3. busy' = (active # 1) /\ active' = active - 1 /\ active \in Int
    BY <1>8 DEF StuckEnds, Complete, TypeOK
  <2>4. (active # 1) <=> (active' # 0)
    BY <2>3
  <2>5. busy' = (active' # 0)
    BY <2>3, <2>4, Zenon
  <2> QED
    BY <2>2, <2>5 DEF ActiveCounts
<1> QED
  BY <1>1, <1>2, <1>3, <1>4, <1>5, <1>6, <1>7, <1>8 DEF Next

(* jQuery.active is the number of the open requests and of those that were   *)
(* never sent, and the page is told that it is busy exactly when it is not 0. *)
THEOREM RequestsAreCounted == Spec => []ActiveCounts
<1>1. Init => ActiveCounts
  <2> SUFFICES ASSUME Init PROVE ActiveCounts
    OBVIOUS
  <2>1. Opened = {}
    BY DEF Init, Opened, IsOpen, NoRequest
  <2> QED
    <3>1. Cardinality(Opened) = 0
      BY <2>1, FS_EmptySet
    <3>2. active = 0 /\ stuck = 0 /\ busy = FALSE
      BY DEF Init
    <3>3. busy = (active # 0)
      BY <3>2, Zenon
    <3> QED
      BY <3>1, <3>2, <3>3 DEF ActiveCounts
<1> QED
  BY <1>1, CountStep, TypeCorrect, PTL DEF Spec

-----------------------------------------------------------------------------
(* Where the lines are.  Places counts every line that never crossed once,   *)
(* Crossing says when the lines of the session are of two requests, and Order *)
(* is what keeps the lines on the page in their order.                      *)

Written == IF Collected = {} THEN {} ELSE Elements(attribute)
Carried(r) == Elements(request[r].lines)
Below(S, T) == \A x \in S, y \in T : x < y
Ascending(s) == \A i, j \in 1..Len(s) : i < j => s[i] < s[j]
Repeats(s, S) == \A i, j \in 1..Len(s) : i # j /\ s[i] = s[j] => s[i] \in S

(* The places where a line can be, and the lines in each.                   *)
Spots == {<<0, i>> : i \in 1..4} \cup {<<1, r>> : r \in Ids}
Has(spot) == IF spot[1] = 1 THEN Carried(spot[2])
             ELSE IF spot[2] = 1 THEN Elements(waiting)
             ELSE IF spot[2] = 2 THEN Written
             ELSE IF spot[2] = 3 THEN Elements(shown)
             ELSE lost

Places ==
  /\ \A n \in Nat : n \in 1..produced <=> n \in crossed \/ \E x \in Spots : n \in Has(x)
  /\ \A n \in Nat : n \notin crossed =>
        \A x, y \in Spots : n \in Has(x) /\ n \in Has(y) => x = y

Crossing ==
  /\ Elements(attribute) \subseteq 1..produced
  /\ \A r, q \in Collected : r # q => Elements(attribute) \subseteq crossed

(* A line with the server is newer than those that it gave away.  While no   *)
(* round came before an answer, one request at most is open, and it carries  *)
(* lines that are newer than those on the page.                             *)
Order ==
  /\ Ascending(waiting) /\ Ascending(attribute)
  /\ \A r \in Ids : Ascending(request[r].lines)
  /\ Repeats(shown, crossed)
  /\ Below(Elements(shown), Elements(waiting))
  /\ Below(Elements(attribute), Elements(waiting))
  /\ \A r \in Ids : Below(Carried(r), Elements(waiting))
  /\ ~overlapped => /\ \A r, q \in Ids : IsOpen(r) /\ IsOpen(q) => r = q
                    /\ Ascending(shown)
                    /\ \A r \in Ids : Below(Elements(shown), Carried(r))
                    /\ Below(Elements(shown), Written)

LEMMA ElementsEmpty == Elements(<<>>) = {}
BY DEF Elements

LEMMA ElementsAppend ==
  ASSUME NEW s \in Seq(Nat), NEW x \in Nat
  PROVE  /\ Elements(Append(s, x)) = Elements(s) \cup {x}
         /\ Ascending(s) /\ Below(Elements(s), {x}) => Ascending(Append(s, x))
<1>0. Len(s) \in Nat /\ Len(Append(s, x)) = Len(s) + 1
  OBVIOUS
<1>1. /\ \A i \in 1..Len(s) : Append(s, x)[i] = s[i]
      /\ Append(s, x)[Len(s) + 1] = x
  OBVIOUS
<1>2. Elements(Append(s, x)) = Elements(s) \cup {x}
  BY <1>0, <1>1 DEF Elements
<1>3. ASSUME Ascending(s), Below(Elements(s), {x}) PROVE Ascending(Append(s, x))
  <2> SUFFICES ASSUME NEW i \in 1..(Len(s) + 1), NEW j \in 1..(Len(s) + 1), i < j
               PROVE  Append(s, x)[i] < Append(s, x)[j]
    BY <1>0 DEF Ascending
  <2>1. i \in 1..Len(s) /\ s[i] \in Elements(s)
    BY <1>0 DEF Elements
  <2>2. CASE j = Len(s) + 1
    BY <1>1, <1>3, <2>1, <2>2 DEF Below
  <2>3. CASE j # Len(s) + 1
    BY <1>0, <1>1, <1>3, <2>1, <2>3 DEF Ascending
  <2> QED
    BY <2>2, <2>3
<1> QED
  BY <1>2, <1>3

LEMMA ElementsConcat ==
  ASSUME NEW s \in Seq(Nat), NEW t \in Seq(Nat)
  PROVE  /\ Elements(s \o t) = Elements(s) \cup Elements(t)
         /\ Ascending(s) /\ Ascending(t) /\ Below(Elements(s), Elements(t)) => Ascending(s \o t)
         /\ \A S : Repeats(s, S) /\ Ascending(t) /\ Elements(t) \cap Elements(s) \subseteq S
                   => Repeats(s \o t, S)
<1> DEFINE n == Len(s)  m == Len(t)
<1>0. /\ n \in Nat /\ m \in Nat /\ Len(s \o t) = n + m
      /\ \A i \in 1..n : s[i] \in Nat /\ s[i] \in Elements(s)
      /\ \A i \in 1..m : t[i] \in Nat /\ t[i] \in Elements(t)
  BY DEF Elements
<1>1. /\ \A i \in 1..n : (s \o t)[i] = s[i]
      /\ \A i \in 1..(n + m) : i > n => (s \o t)[i] = t[i - n]
      /\ \A i \in 1..m : (s \o t)[n + i] = t[i]
  OBVIOUS
<1> HIDE DEF n, m
<1>2. Elements(s \o t) = Elements(s) \cup Elements(t)
  <2>1. ASSUME NEW x \in Elements(s \o t) PROVE x \in Elements(s) \cup Elements(t)
    <3>1. PICK i \in 1..(n + m) : x = (s \o t)[i]
      BY <1>0, <2>1 DEF Elements
    <3>2. CASE i <= n
      BY <1>0, <1>1, <3>1, <3>2
    <3>3. CASE i > n
      <4>1. i - n \in 1..m /\ x = t[i - n]
        BY <1>0, <1>1, <3>1, <3>3
      <4> QED
        BY <1>0, <4>1
    <3> QED
      BY <1>0, <3>2, <3>3
  <2>2. ASSUME NEW x \in Elements(s) PROVE x \in Elements(s \o t)
    <3>1. PICK i \in 1..n : x = s[i]
      BY <2>2 DEF Elements, n
    <3>2. i \in 1..(n + m) /\ x = (s \o t)[i]
      BY <1>0, <1>1, <3>1
    <3> QED
      BY <1>0, <3>2 DEF Elements
  <2>3. ASSUME NEW x \in Elements(t) PROVE x \in Elements(s \o t)
    <3>1. PICK i \in 1..m : x = t[i]
      BY <2>3 DEF Elements, m
    <3>2. n + i \in 1..(n + m) /\ x = (s \o t)[n + i]
      BY <1>0, <1>1, <3>1
    <3> QED
      BY <1>0, <3>2 DEF Elements
  <2> QED
    BY <2>1, <2>2, <2>3
<1>3. ASSUME Ascending(s), Ascending(t), Below(Elements(s), Elements(t))
      PROVE  Ascending(s \o t)
  <2> SUFFICES ASSUME NEW i \in 1..(n + m), NEW j \in 1..(n + m), i < j
               PROVE  (s \o t)[i] < (s \o t)[j]
    BY <1>0 DEF Ascending
  <2>1. CASE j <= n
    BY <1>0, <1>1, <1>3, <2>1 DEF Ascending, n
  <2>2. CASE i <= n /\ j > n
    <3>1. i \in 1..n /\ j - n \in 1..m
      BY <1>0, <2>2
    <3>2. s[i] < t[j - n]
      BY <1>0, <1>3, <3>1 DEF Below
    <3> QED
      BY <1>1, <2>2, <3>1, <3>2
  <2>3. CASE i > n
    <3>1. i - n \in 1..m /\ j - n \in 1..m /\ i - n < j - n /\ j > n
      BY <1>0, <2>3
    <3>2. t[i - n] < t[j - n]
      BY <1>3, <3>1 DEF Ascending, m
    <3> QED
      BY <1>1, <2>3, <3>1, <3>2
  <2> QED
    BY <1>0, <2>1, <2>2, <2>3, SMTT(30)
<1>4. ASSUME NEW S, Repeats(s, S), Ascending(t), Elements(t) \cap Elements(s) \subseteq S
      PROVE  Repeats(s \o t, S)
  <2>1. ASSUME NEW i \in 1..(n + m), NEW j \in 1..(n + m), i < j, (s \o t)[i] = (s \o t)[j]
        PROVE  (s \o t)[i] \in S
    <3>1. CASE j <= n
      <4>1. i \in 1..n /\ j \in 1..n /\ i # j
        BY <1>0, <2>1, <3>1
      <4> QED
        BY <1>1, <1>4, <2>1, <4>1 DEF Repeats, n
    <3>2. CASE i <= n /\ j > n
      <4>1. i \in 1..n /\ j - n \in 1..m
        BY <1>0, <3>2
      <4>2. (s \o t)[i] = s[i] /\ (s \o t)[j] = t[j - n]
        BY <1>1, <3>2, <4>1
      <4> QED
        BY <1>0, <1>4, <2>1, <4>1, <4>2
    <3>3. CASE i > n
      <4>1. i - n \in 1..m /\ j - n \in 1..m /\ i - n < j - n /\ j > n
        BY <1>0, <2>1, <3>3
      <4>2. t[i - n] < t[j - n]
        BY <1>4, <4>1 DEF Ascending, m
      <4>3. t[i - n] # t[j - n]
        BY <1>0, <4>1, <4>2
      <4>4. (s \o t)[i] = t[i - n] /\ (s \o t)[j] = t[j - n]
        BY <1>1, <3>3, <4>1
      <4> QED
        BY <2>1, <4>3, <4>4
    <3> QED
      BY <1>0, <2>1, <3>1, <3>2, <3>3
  <2> SUFFICES ASSUME NEW i \in 1..(n + m), NEW j \in 1..(n + m), i # j,
                      (s \o t)[i] = (s \o t)[j]
               PROVE  (s \o t)[i] \in S
    BY <1>0 DEF Repeats
  <2>2. i < j \/ j < i
    BY <1>0
  <2> QED
    BY <2>1, <2>2
<1> QED
  BY <1>2, <1>3, <1>4

LEMMA CarriedType ==
  ASSUME TypeOK, NEW r \in Ids
  PROVE  /\ request[r].lines \in Seq(Nat) /\ Carried(r) \subseteq Nat
         /\ request[r].phase \notin {"served", "arrived"} => Carried(r) = {}
<1>1. request[r].lines \in Seq(Nat)
  BY DEF TypeOK
<1>2. request[r].phase \notin {"served", "arrived"} => request[r].lines = <<>>
  BY DEF TypeOK
<1> QED
  BY <1>1, <1>2, ElementsType, ElementsEmpty DEF Carried

-----------------------------------------------------------------------------
(* The ways a line moves.                                                   *)

LEMMA SpotsAre ==
  /\ <<0, 1>> \in Spots /\ <<0, 2>> \in Spots /\ <<0, 3>> \in Spots /\ <<0, 4>> \in Spots
  /\ \A r \in Ids : <<1, r>> \in Spots
  /\ \A i, j \in 1..4 : i # j => <<0, i>> # <<0, j>>
  /\ \A r \in Ids : \A i \in 1..4 : <<1, r>> # <<0, i>>
  /\ \A r, q \in Ids : r # q => <<1, r>> # <<1, q>>
  /\ \A x \in Spots : x \in {<<0, 1>>, <<0, 2>>, <<0, 3>>, <<0, 4>>} \/ \E r \in Ids : x = <<1, r>>
<1>1. \A i \in 1..4 : <<0, i>> \in Spots
  BY DEF Spots
<1>2. \A r \in Ids : <<1, r>> \in Spots
  BY DEF Spots
<1>3. ASSUME NEW x \in Spots
      PROVE  x \in {<<0, 1>>, <<0, 2>>, <<0, 3>>, <<0, 4>>} \/ \E r \in Ids : x = <<1, r>>
  BY DEF Spots
<1>4. /\ \A i, j \in 1..4 : i # j => <<0, i>> # <<0, j>>
      /\ \A r \in Ids : \A i \in 1..4 : <<1, r>> # <<0, i>>
      /\ \A r, q \in Ids : r # q => <<1, r>> # <<1, q>>
  OBVIOUS
<1> QED
  BY <1>1, <1>2, <1>3, <1>4

LEMMA SpotsHave ==
  /\ Has(<<0, 1>>) = Elements(waiting) /\ Has(<<0, 2>>) = Written
  /\ Has(<<0, 3>>) = Elements(shown) /\ Has(<<0, 4>>) = lost
  /\ \A r : Has(<<1, r>>) = Carried(r)
BY DEF Has

LEMMA SpotsHaveNext ==
  /\ Has(<<0, 1>>)' = Elements(waiting') /\ Has(<<0, 2>>)' = Written'
  /\ Has(<<0, 3>>)' = Elements(shown') /\ Has(<<0, 4>>)' = lost'
  /\ \A r : Has(<<1, r>>)' = Carried(r)'
BY DEF Has, Elements

(* None does, of those that never cross.                                    *)
LEMMA NoneMoves ==
  ASSUME Places, produced' = produced, crossed \subseteq crossed', crossed' \subseteq 1..produced,
         \A n \in Nat : n \notin crossed' =>
            \A x \in Spots : n \in Has(x)' <=> n \in Has(x),
         \A n \in Nat : n \in crossed' => \A x \in Spots : n \in Has(x)' => n \in 1..produced
  PROVE  Places'
<1>1. Spots' = Spots
  BY DEF Spots
<1>2. ASSUME NEW n \in Nat
      PROVE  n \in 1..produced' <=> n \in crossed' \/ \E x \in Spots' : n \in Has(x)'
  BY <1>1 DEF Places
<1>3. ASSUME NEW n \in Nat, n \notin crossed', NEW x \in Spots', NEW y \in Spots',
             n \in Has(x)', n \in Has(y)'
      PROVE  x = y
  BY <1>1, <1>3 DEF Places
<1> QED
  BY <1>2, <1>3 DEF Places

(* All the lines of one place come to another.                              *)
LEMMA AllMove ==
  ASSUME Places, UNCHANGED <<produced, crossed>>, NEW a \in Spots, NEW b \in Spots, a # b,
         Has(a)' = {}, Has(b)' = Has(a) \cup Has(b),
         \A x \in Spots : x # a /\ x # b => Has(x)' = Has(x)
  PROVE  Places'
<1>1. Spots' = Spots
  BY DEF Spots
<1>2. ASSUME NEW n \in Nat
      PROVE  n \in 1..produced' <=> n \in crossed' \/ \E x \in Spots' : n \in Has(x)'
  <2>1. (\E x \in Spots : n \in Has(x)') => \E x \in Spots : n \in Has(x)
    OBVIOUS
  <2>2. (\E x \in Spots : n \in Has(x)) => \E x \in Spots : n \in Has(x)'
    OBVIOUS
  <2> QED
    BY <1>1, <2>1, <2>2 DEF Places
<1>3. ASSUME NEW n \in Nat, n \notin crossed', NEW x \in Spots', NEW y \in Spots',
             n \in Has(x)', n \in Has(y)'
      PROVE  x = y
  <2>1. x \in Spots /\ y \in Spots /\ n \notin crossed /\ x # a /\ y # a
    BY <1>1, <1>3
  <2>2. /\ n \in Has(x) \/ (x = b /\ n \in Has(a))
        /\ n \in Has(y) \/ (y = b /\ n \in Has(a))
    BY <1>3, <2>1
  <2>3. \A v, w \in Spots : n \in Has(v) /\ n \in Has(w) => v = w
    BY <2>1 DEF Places
  <2> QED
    BY <2>1, <2>2, <2>3
<1> QED
  BY <1>2, <1>3 DEF Places

(* A new line is with the server.                                           *)
LEMMA ServerGains ==
  ASSUME TypeOK, Places, UNCHANGED <<crossed>>, produced' = produced + 1,
         Has(<<0, 1>>)' = Has(<<0, 1>>) \cup {produced + 1},
         \A x \in Spots : x # <<0, 1>> => Has(x)' = Has(x)
  PROVE  Places'
<1>1. Spots' = Spots
  BY DEF Spots
<1>2. produced \in Nat /\ <<0, 1>> \in Spots
  BY SpotsAre DEF TypeOK
<1>3. /\ \A n \in Nat : n \in 1..produced' <=> n \in 1..produced \/ n = produced + 1
      /\ produced + 1 \in Nat /\ produced + 1 \notin 1..produced
  BY <1>2
<1>4. produced + 1 \notin crossed /\ \A x \in Spots : produced + 1 \notin Has(x)
  BY <1>3 DEF Places
<1>5. ASSUME NEW n \in Nat
      PROVE  n \in 1..produced' <=> n \in crossed' \/ \E x \in Spots' : n \in Has(x)'
  <2>1. CASE n = produced + 1
    BY <1>1, <1>2, <1>3, <2>1
  <2>2. CASE n # produced + 1
    <3>1. \A x \in Spots : n \in Has(x)' <=> n \in Has(x)
      BY <2>2
    <3> QED
      BY <1>1, <1>3, <2>2, <3>1 DEF Places
  <2> QED
    BY <2>1, <2>2
<1>6. ASSUME NEW n \in Nat, n \notin crossed', NEW x \in Spots', NEW y \in Spots',
             n \in Has(x)', n \in Has(y)'
      PROVE  x = y
  <2>1. CASE n = produced + 1
    <3>1. \A v \in Spots : n \in Has(v)' => v = <<0, 1>>
      BY <1>4, <2>1
    <3> QED
      BY <1>1, <1>6, <3>1
  <2>2. CASE n # produced + 1
    <3>1. \A v \in Spots : n \in Has(v)' <=> n \in Has(v)
      BY <2>2
    <3> QED
      BY <1>1, <1>6, <3>1 DEF Places
  <2> QED
    BY <2>1, <2>2
<1> QED
  BY <1>5, <1>6 DEF Places

(* Nothing goes to the page, and no request but a collected one gets lines.  *)
LEMMA StaysInOrder ==
  ASSUME Order, UNCHANGED shown, crossed \subseteq crossed',
         \/ UNCHANGED <<waiting, attribute>>
         \/ waiting' = <<>> /\ attribute' = waiting,
         \A q \in Ids : \/ request'[q].lines \in {request[q].lines, <<>>}
                        \/ request'[q].lines = attribute /\ q \in Collected,
         Collected' # {} => Collected # {} \/ attribute' = waiting,
         ~overlapped' => /\ ~overlapped
                         /\ \A p, q \in Ids : IsOpen(p)' /\ IsOpen(q)' => p = q
  PROVE  Order'
<1>1. Ascending(<<>>)
  BY DEF Ascending
<1>2. /\ Elements(waiting') \subseteq Elements(waiting) /\ Ascending(waiting')
      /\ Ascending(attribute')
  BY <1>1, ElementsEmpty DEF Order
<1>3. \A q \in Ids : /\ \/ Carried(q)' \subseteq Carried(q)
                        \/ Carried(q)' = Elements(attribute) /\ Collected # {}
                     /\ Ascending(request'[q].lines)
  BY <1>1, ElementsEmpty DEF Order, Carried
<1>4. /\ Elements(shown)' = Elements(shown) /\ Elements(waiting)' = Elements(waiting')
      /\ Elements(attribute)' = Elements(attribute')
      /\ Repeats(shown, crossed)' /\ Ascending(shown)' = Ascending(shown)
      /\ Ascending(waiting)' /\ Ascending(attribute)'
      /\ \A q \in Ids : Ascending(request[q].lines)'
  BY <1>2, <1>3 DEF Order, Elements, Ascending, Repeats
<1>5. \/ Elements(attribute)' = Elements(attribute)
      \/ Elements(attribute)' = Elements(waiting) /\ Elements(waiting)' = {}
  BY <1>4, ElementsEmpty
<1>6. /\ Below(Elements(shown), Elements(waiting))'
      /\ Below(Elements(attribute), Elements(waiting))'
      /\ \A q \in Ids : Below(Carried(q), Elements(waiting))'
  BY <1>2, <1>3, <1>4, <1>5 DEF Order, Below
<1>7. ASSUME ~overlapped'
      PROVE  /\ Ascending(shown)' /\ \A q \in Ids : Below(Elements(shown), Carried(q))'
             /\ Below(Elements(shown), Written)'
  <2>1. /\ Ascending(shown) /\ \A q \in Ids : Below(Elements(shown), Carried(q))
        /\ Below(Elements(shown), Written)
    BY <1>7 DEF Order
  <2>2. \A q \in Ids : Below(Elements(shown), Carried(q))'
    BY <1>3, <1>4, <2>1 DEF Below, Written
  <2>3. Below(Elements(shown), Written)'
    <3>1. Written' = {} \/ Written' = Written \/ Written' = Elements(waiting)
      BY <1>4 DEF Written
    <3> QED
      BY <1>4, <2>1, <3>1 DEF Below, Order
  <2> QED
    BY <1>4, <2>1, <2>2, <2>3
<1> QED
  BY <1>4, <1>6, <1>7 DEF Order

-----------------------------------------------------------------------------
(* The steps.                                                               *)

LinesInv == TypeOK /\ Places /\ Crossing /\ Order

Kept == Places' /\ Crossing' /\ Order'

(* No place has a line that is not there.                                   *)
LEMMA AllProduced ==
  ASSUME LinesInv
  PROVE  /\ \A x \in Spots : Has(x) \subseteq 1..produced
         /\ crossed \subseteq 1..produced /\ Elements(attribute) \subseteq 1..produced
         /\ Elements(waiting) \subseteq 1..produced /\ Elements(shown) \subseteq 1..produced
<1>1. /\ Elements(waiting) \subseteq Nat /\ Elements(shown) \subseteq Nat
      /\ Elements(attribute) \subseteq Nat /\ lost \subseteq Nat /\ crossed \subseteq Nat
      /\ \A r \in Ids : Carried(r) \subseteq Nat
  BY CarriedType, ElementsType DEF LinesInv, TypeOK
<1>2. \A x \in Spots : Has(x) \subseteq Nat
  <2>1. Written \subseteq Nat
    BY <1>1 DEF Written
  <2>2. /\ Has(<<0, 1>>) \subseteq Nat /\ Has(<<0, 2>>) \subseteq Nat
        /\ Has(<<0, 3>>) \subseteq Nat /\ Has(<<0, 4>>) \subseteq Nat
    BY <1>1, <2>1, SpotsHave
  <2>3. \A r \in Ids : Has(<<1, r>>) \subseteq Nat
    BY <1>1, SpotsHave
  <2> QED
    BY <2>2, <2>3, SpotsAre
<1>3. \A x \in Spots : Has(x) \subseteq 1..produced
  BY <1>2 DEF LinesInv, Places
<1> QED
  BY <1>1, <1>3, SpotsAre, SpotsHave DEF LinesInv, Places, Crossing

LEMMA CollectedNext ==
  ASSUME \A q \in Ids : (request'[q].phase = "collected") <=> (request[q].phase = "collected")
  PROVE  Collected' = Collected
BY DEF Collected

(* Nothing happens to the lines.                                            *)
LEMMA NothingKeeps ==
  ASSUME LinesInv, UNCHANGED lines, Collected' = Collected,
         \A q \in Ids : request'[q].lines = request[q].lines,
         ~overlapped' => /\ ~overlapped
                         /\ \A p, q \in Ids : IsOpen(p)' /\ IsOpen(q)' => p = q
  PROVE  Kept
<1>1. /\ produced' = produced /\ waiting' = waiting /\ attribute' = attribute
      /\ shown' = shown /\ lost' = lost /\ crossed' = crossed
  BY DEF lines
<1>2. \A q \in Ids : Carried(q)' = Carried(q)
  BY DEF Carried, Elements
<1>3. Written' = Written
  BY <1>1 DEF Written, Elements
<1>4. \A x \in Spots : Has(x)' = Has(x)
  BY <1>1, <1>2, <1>3, SpotsAre, SpotsHave, SpotsHaveNext
<1>5. Places'
  BY <1>1, <1>4, AllProduced, NoneMoves DEF LinesInv
<1>6. Crossing'
  <2>1. Elements(attribute)' = Elements(attribute)
    BY <1>1 DEF Elements
  <2> QED
    BY <1>1, <2>1 DEF LinesInv, Crossing
<1>7. Order'
  BY <1>1, StaysInOrder DEF LinesInv
<1> QED
  BY <1>5, <1>6, <1>7 DEF Kept

(* A new request carries no lines, and while none overlaps it is the only one. *)
LEMMA LaunchLines ==
  ASSUME LinesInv, NEW left, Launch(left), UNCHANGED lines PROVE Kept
<1>1. CASE SendThrows
  <2>1. /\ request' = request /\ overlapped' = overlapped
        /\ \A q \in Ids : IsOpen(q)' = IsOpen(q)
    BY <1>1 DEF SendThrows, IsOpen
  <2> QED
    BY <2>1, NothingKeeps, CollectedNext DEF LinesInv, Order
<1>2. ASSUME NEW r \in Ids, Send(r) PROVE Kept
  <2>1. /\ \A q \in Ids : request'[q].lines = request[q].lines
        /\ \A q \in Ids : q # r => IsOpen(q)' = IsOpen(q)
        /\ Collected' = Collected
    BY <1>2, CollectedNext DEF Send, LinesInv, TypeOK, IsOpen
  <2>2. ASSUME ~overlapped'
        PROVE  ~overlapped /\ \A p, q \in Ids : IsOpen(p)' /\ IsOpen(q)' => p = q
    <3>1. ~overlapped /\ Opened = {}
      BY <1>2, <2>2 DEF Send
    <3>2. \A q \in Ids : ~IsOpen(q)
      BY <3>1 DEF Opened
    <3> QED
      BY <2>1, <3>1, <3>2
  <2> QED
    BY <2>1, <2>2, NothingKeeps
<1> QED
  BY <1>1, <1>2 DEF Launch

(* What the session has is replaced while the page of another request is to  *)
(* be written.                                                              *)
LEMMA TakeCrosses ==
  ASSUME LinesInv, Take, Collected # {}, Collected \subseteq Collected',
         UNCHANGED <<produced, shown, lost>>,
         \A q \in Ids : request'[q].lines = request[q].lines
  PROVE  Places' /\ Crossing'
<1>1. /\ attribute' = waiting /\ waiting' = <<>>
      /\ crossed' = crossed \cup Elements(attribute) \cup Elements(waiting)
  BY DEF Take
<1>2. /\ Elements(waiting') = {} /\ Elements(shown') = Elements(shown)
      /\ Elements(attribute') = Elements(waiting) /\ Elements(attribute)' = Elements(waiting)
      /\ \A q \in Ids : Carried(q)' = Carried(q)
  BY <1>1, ElementsEmpty DEF Elements, Carried
<1>3. Written = Elements(attribute) /\ Written' = Elements(waiting)
  BY <1>2 DEF Written
<1>4. \A n \in Nat : n \notin crossed' => \A x \in Spots : n \in Has(x)' <=> n \in Has(x)
  <2> SUFFICES ASSUME NEW n \in Nat, n \notin crossed', NEW x \in Spots
               PROVE  n \in Has(x)' <=> n \in Has(x)
    OBVIOUS
  <2>1. n \notin Elements(waiting) /\ n \notin Elements(attribute)
    BY <1>1
  <2> QED
    BY <1>2, <1>3, <2>1, SpotsAre, SpotsHave, SpotsHaveNext
<1>5. \A x \in Spots : Has(x)' \subseteq 1..produced
  BY <1>2, <1>3, AllProduced, SpotsAre, SpotsHave, SpotsHaveNext
<1>6. crossed' \subseteq 1..produced /\ crossed \subseteq crossed'
  BY <1>1, AllProduced
<1>7. Places'
  BY <1>4, <1>5, <1>6, NoneMoves DEF LinesInv
<1>8. Crossing'
  BY <1>1, <1>2, AllProduced DEF Crossing
<1> QED
  BY <1>7, <1>8

LEMMA CollectLines == ASSUME LinesInv, NEW r \in Ids, Collect(r) PROVE Kept
<1>1. \A q \in Ids : /\ request'[q].lines = request[q].lines
                     /\ IsOpen(q)' = IsOpen(q)
                     /\ request'[q].phase = IF q = r THEN "collected" ELSE request[q].phase
  BY DEF Collect, LinesInv, TypeOK, IsOpen
<1>2. Collected' = Collected \cup {r}
  BY <1>1 DEF Collected
<1>3. /\ attribute' = waiting /\ waiting' = <<>> /\ crossed \subseteq crossed'
      /\ UNCHANGED <<produced, shown, lost, overlapped>> /\ Take
  BY DEF Collect, Take
<1>4. Order'
  BY <1>1, <1>3, StaysInOrder DEF LinesInv, Order
<1>5. CASE Collected # {}
  BY <1>1, <1>2, <1>3, <1>4, <1>5, TakeCrosses DEF Kept
<1>6. CASE Collected = {}
  <2>1. /\ Elements(waiting') = {} /\ Elements(shown') = Elements(shown)
        /\ Elements(attribute)' = Elements(waiting) /\ crossed' = crossed
        /\ \A q \in Ids : Carried(q)' = Carried(q)
    BY <1>1, <1>3, <1>6, ElementsEmpty DEF Elements, Carried, Take
  <2>2. Written = {} /\ Written' = Elements(waiting)
    BY <1>2, <1>6, <2>1 DEF Written
  <2>3. /\ Has(<<0, 1>>)' = {} /\ Has(<<0, 2>>)' = Has(<<0, 1>>) \cup Has(<<0, 2>>)
        /\ \A x \in Spots : x # <<0, 1>> /\ x # <<0, 2>> => Has(x)' = Has(x)
    BY <1>3, <2>1, <2>2, SpotsAre, SpotsHave, SpotsHaveNext
  <2>4. Places'
    BY <1>3, <2>1, <2>3, SpotsAre, AllMove DEF LinesInv
  <2>5. Crossing'
    BY <1>2, <1>3, <1>6, <2>1, AllProduced DEF Crossing
  <2> QED
    BY <1>4, <2>4, <2>5 DEF Kept
<1> QED
  BY <1>5, <1>6

(* Where the page of a request is written, its lines are those of the session. *)
LEMMA RenderLines == ASSUME LinesInv, NEW r \in Ids, Render(r) PROVE Kept
<1>1. \A q \in Ids : request'[q] = IF q = r THEN [phase |-> "served", lines |-> attribute]
                                           ELSE request[q]
  BY DEF Render, LinesInv, TypeOK
<1>2. r \in Collected /\ Collected' = Collected \ {r}
  BY <1>1 DEF Render, Collected
<1>3. /\ Carried(r) = {} /\ Carried(r)' = Elements(attribute)
      /\ \A q \in Ids : q # r => Carried(q)' = Carried(q)
  <2>1. request'[r].lines = attribute /\ \A q \in Ids : q # r => request'[q] = request[q]
    BY <1>1
  <2>2. Carried(r) = {}
    BY CarriedType DEF Render, LinesInv
  <2> QED
    BY <2>1, <2>2 DEF Carried, Elements
<1>4. /\ produced' = produced /\ waiting' = waiting /\ attribute' = attribute
      /\ shown' = shown /\ lost' = lost /\ crossed' = crossed /\ overlapped' = overlapped
      /\ \A q \in Ids : IsOpen(q)' = IsOpen(q)
  BY <1>1 DEF Render, lines, IsOpen
<1>5. /\ Elements(waiting') = Elements(waiting) /\ Elements(shown') = Elements(shown)
      /\ Elements(attribute)' = Elements(attribute)
  BY <1>4 DEF Elements
<1>6. Order'
  BY <1>1, <1>2, <1>4, StaysInOrder DEF LinesInv, Order
<1>7. Crossing'
  BY <1>2, <1>4, <1>5 DEF LinesInv, Crossing
<1>8. CASE Collected = {r}
  <2>1. Written = Elements(attribute) /\ Written' = {}
    BY <1>2, <1>8 DEF Written
  <2>2. /\ Has(<<0, 2>>)' = {} /\ Has(<<1, r>>)' = Has(<<0, 2>>) \cup Has(<<1, r>>)
        /\ \A x \in Spots : x # <<0, 2>> /\ x # <<1, r>> => Has(x)' = Has(x)
    BY <1>3, <1>4, <1>5, <2>1, SpotsAre, SpotsHave, SpotsHaveNext
  <2>3. Places'
    BY <1>4, <2>2, SpotsAre, AllMove DEF LinesInv
  <2> QED
    BY <1>6, <1>7, <2>3 DEF Kept
<1>9. CASE Collected # {r}
  <2>1. PICK q \in Collected : q # r
    BY <1>2, <1>9
  <2>2. /\ Written = Elements(attribute) /\ Written' = Elements(attribute)
        /\ Elements(attribute) \subseteq crossed
    BY <1>2, <1>5, <2>1 DEF Written, LinesInv, Crossing
  <2>3. \A n \in Nat : n \notin crossed' => \A x \in Spots : n \in Has(x)' <=> n \in Has(x)
    BY <1>3, <1>4, <1>5, <2>2, SpotsAre, SpotsHave, SpotsHaveNext
  <2>4. \A x \in Spots : Has(x)' \subseteq 1..produced
    BY <1>3, <1>4, <1>5, <2>2, AllProduced, SpotsAre, SpotsHave, SpotsHaveNext
  <2>5. Places'
    BY <1>4, <2>3, <2>4, AllProduced, NoneMoves DEF LinesInv
  <2> QED
    BY <1>6, <1>7, <2>5 DEF Kept
<1> QED
  BY <1>8, <1>9

(* A request that ends without an answer loses what it was to bring.         *)
LEMMA LoseLines ==
  ASSUME LinesInv, NEW r \in Ids, IsOpen(r),
         NEW to, to.lines = <<>>, to.phase # "collected", request' = [request EXCEPT ![r] = to],
         UNCHANGED <<produced, waiting, attribute, shown, crossed, overlapped>>,
         lost' = lost \cup Brings(r)
  PROVE  Kept
<1>1. \A q \in Ids : request'[q] = IF q = r THEN to ELSE request[q]
  BY DEF LinesInv, TypeOK
<1>2. Carried(r)' = {} /\ \A q \in Ids : q # r => Carried(q)' = Carried(q)
  BY <1>1, ElementsEmpty DEF Carried
<1>3. (\A q \in Ids : IsOpen(q)' => IsOpen(q)) /\ Collected' = Collected \ {r}
  BY <1>1 DEF IsOpen, Collected
<1>4. /\ Elements(waiting') = Elements(waiting) /\ Elements(shown') = Elements(shown)
      /\ Elements(attribute)' = Elements(attribute)
  BY DEF Elements
<1>5. Order'
  BY <1>1, <1>3, StaysInOrder DEF LinesInv, Order
<1>6. Crossing'
  BY <1>3, <1>4 DEF LinesInv, Crossing
<1>7. CASE r \notin Collected
  <2>1. Brings(r) = Carried(r) /\ Written' = Written
    BY <1>3, <1>4, <1>7 DEF Brings, Carried, Written
  <2>2. /\ Has(<<1, r>>)' = {} /\ Has(<<0, 4>>)' = Has(<<1, r>>) \cup Has(<<0, 4>>)
        /\ \A x \in Spots : x # <<1, r>> /\ x # <<0, 4>> => Has(x)' = Has(x)
    BY <1>2, <1>4, <2>1, SpotsAre, SpotsHave, SpotsHaveNext
  <2>3. Places'
    BY <2>2, SpotsAre, AllMove DEF LinesInv
  <2> QED
    BY <1>5, <1>6, <2>3 DEF Kept
<1>8. CASE r \in Collected
  <2>1. Brings(r) = Elements(attribute) /\ Written = Elements(attribute) /\ Carried(r) = {}
    BY <1>8, CarriedType DEF Brings, Written, Collected, LinesInv
  <2>2. CASE Collected = {r}
    <3>1. Written' = {}
      BY <1>3, <2>2 DEF Written
    <3>4. /\ lost' = Written \cup lost /\ \A q \in Ids : Carried(q)' = Carried(q)
      BY <1>2, <2>1
    <3>2. /\ Has(<<0, 2>>)' = {} /\ Has(<<0, 4>>)' = Has(<<0, 2>>) \cup Has(<<0, 4>>)
          /\ \A x \in Spots : x # <<0, 2>> /\ x # <<0, 4>> => Has(x)' = Has(x)
      BY <1>4, <3>1, <3>4, SpotsAre, SpotsHave, SpotsHaveNext
    <3>3. Places'
      BY <3>2, SpotsAre, AllMove DEF LinesInv
    <3> QED
      BY <1>5, <1>6, <3>3 DEF Kept
  <2>3. CASE Collected # {r}
    <3>1. PICK q \in Collected : q # r
      BY <1>8, <2>3
    <3>2. Written' = Elements(attribute) /\ Elements(attribute) \subseteq crossed
      BY <1>3, <1>4, <1>8, <3>1 DEF Written, LinesInv, Crossing
    <3>3. \A n \in Nat : n \notin crossed' => \A x \in Spots : n \in Has(x)' <=> n \in Has(x)
      BY <1>2, <1>4, <2>1, <3>2, SpotsAre, SpotsHave, SpotsHaveNext
    <3>4. \A x \in Spots : Has(x)' \subseteq 1..produced
      BY <1>2, <1>4, <2>1, <3>2, AllProduced, SpotsAre, SpotsHave, SpotsHaveNext
    <3>5. Places'
      BY <3>3, <3>4, AllProduced, NoneMoves DEF LinesInv
    <3> QED
      BY <1>5, <1>6, <3>5 DEF Kept
  <2> QED
    BY <2>2, <2>3
<1> QED
  BY <1>7, <1>8

LEMMA ProduceLines == ASSUME LinesInv, Produce PROVE Kept
<1>1. produced \in Nat /\ waiting \in Seq(Nat)
  BY DEF LinesInv, TypeOK
<1>2. produced' = produced + 1 /\ waiting' = Append(waiting, produced + 1)
  BY DEF Produce
<1>3. /\ \A x \in Elements(waiting) : x < produced + 1
      /\ \A x \in Elements(shown) : x < produced + 1
      /\ \A x \in Elements(attribute) : x < produced + 1
      /\ \A q \in Ids : \A x \in Carried(q) : x < produced + 1
  <2>1. \A n \in 1..produced : n < produced + 1
    BY <1>1
  <2>2. \A q \in Ids : Carried(q) \subseteq 1..produced
    BY AllProduced, SpotsAre, SpotsHave
  <2> QED
    BY <2>1, <2>2, AllProduced
<1>4. /\ Elements(waiting') = Elements(waiting) \cup {produced + 1}
      /\ Ascending(waiting')
  BY <1>1, <1>2, <1>3, ElementsAppend DEF LinesInv, Order, Below
<1>5. /\ UNCHANGED <<request, attribute, shown, lost, crossed, overlapped>>
      /\ \A q \in Ids : Carried(q)' = Carried(q) /\ IsOpen(q)' = IsOpen(q)
      /\ Elements(shown)' = Elements(shown) /\ Elements(waiting)' = Elements(waiting')
      /\ Elements(shown') = Elements(shown) /\ Elements(attribute)' = Elements(attribute)
      /\ Repeats(shown, crossed)' = Repeats(shown, crossed)
      /\ Ascending(shown)' = Ascending(shown) /\ Ascending(attribute)' = Ascending(attribute)
      /\ Ascending(waiting)' = Ascending(waiting')
      /\ \A q \in Ids : Ascending(request[q].lines)' = Ascending(request[q].lines)
      /\ Collected' = Collected
  BY DEF Produce, Carried, IsOpen, Elements, Repeats, Ascending, Collected
<1>6. Written' = Written
  BY <1>5 DEF Written
<1>7. Places'
  <2>1. /\ Has(<<0, 1>>)' = Has(<<0, 1>>) \cup {produced + 1}
        /\ \A x \in Spots : x # <<0, 1>> => Has(x)' = Has(x)
    BY <1>4, <1>5, <1>6, SpotsAre, SpotsHave, SpotsHaveNext
  <2> QED
    BY <1>2, <1>5, <2>1, ServerGains DEF LinesInv
<1>8. Crossing'
  <2>1. 1..produced \subseteq 1..produced'
    BY <1>1, <1>2
  <2> QED
    BY <1>5, <2>1 DEF LinesInv, Crossing
<1>9. /\ Below(Elements(shown), Elements(waiting))'
      /\ Below(Elements(attribute), Elements(waiting))'
      /\ \A q \in Ids : Below(Carried(q), Elements(waiting))'
  BY <1>3, <1>4, <1>5 DEF LinesInv, Order, Below
<1>10. ASSUME ~overlapped'
       PROVE  /\ \A q \in Ids : Below(Elements(shown), Carried(q))'
              /\ Below(Elements(shown), Written)'
  BY <1>5, <1>6, <1>10 DEF LinesInv, Order, Below
<1>11. Order'
  BY <1>4, <1>5, <1>9, <1>10 DEF LinesInv, Order
<1> QED
  BY <1>7, <1>8, <1>11 DEF Kept

(* The lines that come to the page are newer than those on it, if the        *)
(* request was the only one; they are others in any case, or they crossed.   *)
LEMMA PollLines == ASSUME LinesInv, NEW r \in Ids, Poll(r) PROVE Kept
<1>0. /\ shown \in Seq(Nat) /\ request[r].lines \in Seq(Nat)
      /\ Elements(request[r].lines) = Carried(r)
  BY CarriedType DEF LinesInv, TypeOK, Carried
<1>1. \A q \in Ids : request'[q] = IF q = r THEN NoRequest ELSE request[q]
  BY DEF Poll, LinesInv, TypeOK
<1>2. Carried(r)' = {} /\ \A q \in Ids : q # r => Carried(q)' = Carried(q)
  BY <1>1, ElementsEmpty DEF Carried, NoRequest
<1>3. /\ IsOpen(r) /\ ~IsOpen(r)' /\ \A q \in Ids : q # r => IsOpen(q)' = IsOpen(q)
      /\ Collected' = Collected
  BY <1>1 DEF Poll, IsOpen, NoRequest, Collected
<1>4. /\ shown' = shown \o request[r].lines
      /\ UNCHANGED <<produced, waiting, attribute, lost, crossed, overlapped>>
  BY DEF Poll
<1>5. Carried(r) \cap Elements(shown) \subseteq crossed
  <2>1. /\ <<1, r>> \in Spots /\ <<0, 3>> \in Spots /\ <<1, r>> # <<0, 3>>
        /\ Has(<<1, r>>) = Carried(r) /\ Has(<<0, 3>>) = Elements(shown)
    BY SpotsAre, SpotsHave
  <2>2. Carried(r) \subseteq Nat
    BY CarriedType DEF LinesInv
  <2> QED
    BY <2>1, <2>2 DEF LinesInv, Places
<1>6. /\ Elements(shown') = Elements(shown) \cup Carried(r)
      /\ Repeats(shown', crossed)
      /\ Ascending(shown) /\ Below(Elements(shown), Carried(r)) => Ascending(shown')
  BY <1>0, <1>4, <1>5, ElementsConcat DEF LinesInv, Order
<1>7. /\ Elements(waiting') = Elements(waiting) /\ Elements(waiting)' = Elements(waiting)
      /\ Elements(attribute)' = Elements(attribute) /\ Elements(shown)' = Elements(shown')
      /\ Written' = Written
  BY <1>3, <1>4 DEF Elements, Written
<1>8. Places'
  <2>1. /\ Has(<<1, r>>)' = {} /\ Has(<<0, 3>>)' = Has(<<1, r>>) \cup Has(<<0, 3>>)
        /\ \A x \in Spots : x # <<1, r>> /\ x # <<0, 3>> => Has(x)' = Has(x)
    <3>1. lost' = lost /\ Elements(shown') = Carried(r) \cup Elements(shown)
      BY <1>4, <1>6
    <3> QED
      BY <1>2, <1>7, <3>1, SpotsAre, SpotsHave, SpotsHaveNext
  <2>2. <<1, r>> \in Spots /\ <<0, 3>> \in Spots /\ <<1, r>> # <<0, 3>>
    BY SpotsAre
  <2> QED
    BY <1>4, <2>1, <2>2, AllMove DEF LinesInv
<1>9. Crossing'
  BY <1>3, <1>4, <1>7 DEF LinesInv, Crossing
<1>10. \A q \in Ids : Ascending(request'[q].lines)
  <2>1. Ascending(NoRequest.lines)
    BY DEF Ascending, NoRequest
  <2> QED
    BY <1>1, <2>1 DEF LinesInv, Order
<1>11. /\ Repeats(shown, crossed)' /\ Ascending(shown)' = Ascending(shown')
       /\ Ascending(waiting)' = Ascending(waiting)
       /\ Ascending(attribute)' = Ascending(attribute)
       /\ \A q \in Ids : Ascending(request[q].lines)'
  BY <1>4, <1>6, <1>10 DEF Repeats, Ascending
<1>12. /\ Below(Elements(shown), Elements(waiting))'
       /\ Below(Elements(attribute), Elements(waiting))'
       /\ \A q \in Ids : Below(Carried(q), Elements(waiting))'
  BY <1>2, <1>6, <1>7 DEF LinesInv, Order, Below
<1>13. ASSUME ~overlapped'
       PROVE  /\ Ascending(shown)'
              /\ \A q \in Ids : Below(Elements(shown), Carried(q))'
              /\ Below(Elements(shown), Written)'
              /\ \A p, q \in Ids : IsOpen(p)' /\ IsOpen(q)' => p = q
  <2>1. ~overlapped /\ \A q \in Ids : q # r => ~IsOpen(q)
    BY <1>3, <1>4, <1>13 DEF LinesInv, Order
  <2>2. \A q \in Ids : Carried(q)' = {}
    BY <1>2, <2>1, CarriedType DEF LinesInv, IsOpen
  <2>3. Ascending(shown)'
    BY <1>6, <1>11, <2>1 DEF LinesInv, Order
  <2>4. Written' = {}
    <3>1. Collected' = {}
      BY <1>1, <2>1 DEF Collected, IsOpen, NoRequest
    <3> QED
      BY <3>1 DEF Written
  <2> QED
    BY <1>3, <2>1, <2>2, <2>3, <2>4 DEF Below
<1>14. Order'
  BY <1>11, <1>12, <1>13 DEF LinesInv, Order
<1> QED
  BY <1>8, <1>9, <1>14 DEF Kept

LEMMA NobodyLines == ASSUME LinesInv, ServeNobody PROVE Kept
<1>1. UNCHANGED <<produced, shown, request, overlapped>>
  BY DEF ServeNobody
<1>2. /\ \A q \in Ids : request'[q].lines = request[q].lines /\ IsOpen(q)' = IsOpen(q)
      /\ Collected' = Collected /\ \A q \in Ids : Carried(q)' = Carried(q)
  BY <1>1 DEF IsOpen, Collected, Carried, Elements
<1>3. CASE UNCHANGED <<waiting, attribute, lost, crossed>>
  BY <1>1, <1>2, <1>3, NothingKeeps DEF LinesInv, Order, lines
<1>4. CASE Take /\ lost' = IF Collected = {} THEN lost \cup Elements(waiting) ELSE lost
  <2>1. attribute' = waiting /\ waiting' = <<>> /\ crossed \subseteq crossed'
    BY <1>4 DEF Take
  <2>2. Order'
    BY <1>1, <1>2, <2>1, StaysInOrder DEF LinesInv, Order
  <2>3. CASE Collected # {}
    BY <1>1, <1>2, <1>4, <2>2, <2>3, TakeCrosses DEF Kept
  <2>4. CASE Collected = {}
    <3>1. /\ Elements(waiting') = {} /\ Elements(shown') = Elements(shown)
          /\ Elements(attribute)' = Elements(waiting) /\ crossed' = crossed
      BY <1>1, <1>4, <2>1, <2>4, ElementsEmpty DEF Elements, Take
    <3>2. Written = {} /\ Written' = {}
      BY <1>2, <2>4 DEF Written
    <3>3. /\ Has(<<0, 1>>)' = {} /\ Has(<<0, 4>>)' = Has(<<0, 1>>) \cup Has(<<0, 4>>)
          /\ \A x \in Spots : x # <<0, 1>> /\ x # <<0, 4>> => Has(x)' = Has(x)
      <4>1. lost' = Elements(waiting) \cup lost
        BY <1>4, <2>4
      <4> QED
        BY <1>2, <3>1, <3>2, <4>1, SpotsAre, SpotsHave, SpotsHaveNext
    <3>4. Places'
      BY <1>1, <3>1, <3>3, SpotsAre, AllMove DEF LinesInv
    <3>5. Crossing'
      BY <1>1, <1>2, <2>4, <3>1, AllProduced DEF Crossing
    <3> QED
      BY <2>2, <3>4, <3>5 DEF Kept
  <2> QED
    BY <2>3, <2>4
<1> QED
  BY <1>3, <1>4 DEF ServeNobody

LEMMA LinesStep == LinesInv /\ [Next]_vars => Kept
<1> SUFFICES ASSUME LinesInv, [Next]_vars PROVE Kept
  OBVIOUS
<1>0. ASSUME UNCHANGED <<lines, request, overlapped>> PROVE Kept
  <2>1. Collected' = Collected /\ \A q \in Ids : IsOpen(q)' = IsOpen(q)
    BY <1>0 DEF Collected, IsOpen
  <2> QED
    BY <1>0, <2>1, NothingKeeps DEF LinesInv, Order
<1>1. CASE Start
  BY <1>1, LaunchLines DEF Start
<1>2. CASE Stop \/ StuckEnds \/ UNCHANGED vars
  BY <1>0, <1>2 DEF Stop, StuckEnds, vars
<1>3. CASE Round
  <2>1. CASE started
    BY <1>3, <2>1, LaunchLines DEF Round
  <2>2. CASE ~started
    BY <1>0, <1>3, <2>2 DEF Round
  <2> QED
    BY <2>1, <2>2
<1>4. CASE Produce
  BY <1>4, ProduceLines
<1>5. CASE ServeNobody
  BY <1>5, NobodyLines
<1>6. ASSUME NEW r \in Ids, Collect(r) \/ Render(r) PROVE Kept
  BY <1>6, CollectLines, RenderLines
<1>7. ASSUME NEW r \in Ids, Arrive(r) PROVE Kept
  <2>1. /\ UNCHANGED <<lines, overlapped>>
        /\ \A q \in Ids : request'[q].lines = request[q].lines /\ IsOpen(q)' = IsOpen(q)
        /\ Collected' = Collected
    BY <1>7, CollectedNext DEF Arrive, LinesInv, TypeOK, IsOpen
  <2> QED
    BY <2>1, NothingKeeps DEF LinesInv, Order
<1>8. ASSUME NEW r \in Ids, Break(r) \/ Timeout(r) \/ Abort(r) \/ PollAborted(r)
      PROVE  Kept
  <2>1. /\ IsOpen(r) /\ UNCHANGED <<produced, waiting, attribute, shown, crossed, overlapped>>
        /\ \E to \in {NoRequest, [phase |-> "failed", lines |-> <<>>],
                      [phase |-> "aborted", lines |-> <<>>]} :
              request' = [request EXCEPT ![r] = to]
    BY <1>8 DEF Break, Timeout, Abort, PollAborted, IsOpen, lines
  <2>2. lost' = lost \cup Brings(r)
    <3>1. CASE Break(r) \/ Timeout(r) \/ Abort(r)
      BY <3>1 DEF Break, Timeout, Abort, GiveUp
    <3>2. CASE PollAborted(r)
      <4>1. Brings(r) = {} /\ lost' = lost
        BY <3>2, CarriedType DEF PollAborted, lines, LinesInv, Brings, Collected, Carried
      <4> QED
        BY <4>1
    <3> QED
      BY <1>8, <3>1, <3>2
  <2>3. PICK to \in {NoRequest, [phase |-> "failed", lines |-> <<>>],
                     [phase |-> "aborted", lines |-> <<>>]} :
              request' = [request EXCEPT ![r] = to]
    BY <2>1
  <2>4. to.lines = <<>> /\ to.phase # "collected"
    BY <2>3 DEF NoRequest
  <2> QED
    BY <2>1, <2>2, <2>3, <2>4, LoseLines
<1>9. ASSUME NEW r \in Ids, Poll(r) PROVE Kept
  BY <1>9, PollLines
<1> QED
  BY <1>1, <1>2, <1>3, <1>4, <1>5, <1>6, <1>7, <1>8, <1>9 DEF Next, Answer

LEMMA LinesInit == Init => Places /\ Crossing /\ Order
<1> SUFFICES ASSUME Init PROVE Places /\ Crossing /\ Order
  OBVIOUS
<1>1. \A r \in Ids : request[r] = NoRequest
  BY DEF Init
<1>2. /\ Elements(waiting) = {} /\ Elements(attribute) = {} /\ Elements(shown) = {}
      /\ lost = {} /\ crossed = {} /\ produced = 0 /\ Collected = {}
      /\ \A r \in Ids : Carried(r) = {}
  BY <1>1, ElementsEmpty DEF Init, Carried, Collected, NoRequest
<1>3. /\ Ascending(waiting) /\ Ascending(attribute) /\ Ascending(shown)
      /\ Repeats(shown, crossed)
      /\ \A r \in Ids : Ascending(request[r].lines) /\ ~IsOpen(r)
  BY <1>1 DEF Init, Ascending, Repeats, NoRequest, IsOpen
<1>4. Written = {}
  BY <1>2 DEF Written
<1>5. \A x \in Spots : Has(x) = {}
  BY <1>2, <1>4, SpotsAre, SpotsHave
<1>6. Places /\ Crossing
  BY <1>2, <1>5 DEF Places, Crossing
<1> QED
  BY <1>2, <1>3, <1>4, <1>6 DEF Order, Below

LEMMA LinesImply == LinesInv => EachLineOnce
<1> SUFFICES ASSUME LinesInv PROVE EachLineOnce
  OBVIOUS
<1> DEFINE places == <<Elements(waiting), Written, Elements(shown), lost>>
<1>1. /\ \A i \in 1..4 : <<0, i>> \in Spots /\ Has(<<0, i>>) = places[i]
      /\ \A r \in Ids : <<1, r>> \in Spots /\ Has(<<1, r>>) = Elements(request[r].lines)
  BY SpotsAre, SpotsHave DEF Carried
<1>2. \A x \in Spots : Has(x) \subseteq Nat
  <2>1. 1..produced \subseteq Nat
    BY DEF LinesInv, TypeOK
  <2> QED
    BY <2>1, AllProduced
<1>3. \A x, y \in Spots : x # y => Has(x) \cap Has(y) \subseteq crossed
  BY <1>2 DEF LinesInv, Places
<1> HIDE DEF places
<1>4. 1..produced = places[1] \cup places[2] \cup places[3] \cup places[4]
                      \cup (UNION {Elements(request[r].lines) : r \in Ids}) \cup crossed
  <2> DEFINE kept == places[1] \cup places[2] \cup places[3] \cup places[4]
             sent == UNION {Elements(request[r].lines) : r \in Ids}
  <2>1. \A n : n \in sent <=> \E r \in Ids : n \in Has(<<1, r>>)
    BY <1>1
  <2>2. \A n : n \in kept <=> \E i \in 1..4 : n \in Has(<<0, i>>)
    BY <1>1
  <2>3. \A n : (\E x \in Spots : n \in Has(x)) <=> n \in kept \cup sent
    <3>1. ASSUME NEW n, NEW x \in Spots, n \in Has(x) PROVE n \in kept \cup sent
      <4>1. CASE \E r \in Ids : x = <<1, r>>
        BY <2>1, <3>1, <4>1
      <4>2. CASE x \in {<<0, 1>>, <<0, 2>>, <<0, 3>>, <<0, 4>>}
        <5>1. \E i \in 1..4 : n \in Has(<<0, i>>)
          BY <3>1, <4>2
        <5> QED
          BY <2>2, <5>1
      <4> QED
        BY <4>1, <4>2, SpotsAre
    <3>2. ASSUME NEW n, n \in kept \cup sent PROVE \E x \in Spots : n \in Has(x)
      <4>1. (\E r \in Ids : n \in Has(<<1, r>>)) \/ \E i \in 1..4 : n \in Has(<<0, i>>)
        BY <2>1, <2>2, <3>2
      <4> QED
        BY <1>1, <4>1
    <3> QED
      BY <3>1, <3>2
  <2> HIDE DEF kept, sent
  <2>4. 1..produced \subseteq Nat /\ crossed \subseteq Nat /\ kept \cup sent \subseteq Nat
    BY <1>2, <2>3 DEF LinesInv, TypeOK
  <2>5. \A n \in Nat : n \in 1..produced <=> n \in kept \cup sent \cup crossed
    BY <2>3 DEF LinesInv, Places
  <2>6. 1..produced = kept \cup sent \cup crossed
    BY <2>4, <2>5, Zenon
  <2> QED
    BY <2>6 DEF kept, sent
<1>5. \A i, j \in 1..4 : i # j => places[i] \cap places[j] \subseteq crossed
  BY <1>1, <1>3
<1>6. \A r \in Ids : \A i \in 1..4 : Elements(request[r].lines) \cap places[i] \subseteq crossed
  <2> SUFFICES ASSUME NEW r \in Ids, NEW i \in 1..4
               PROVE  Has(<<1, r>>) \cap Has(<<0, i>>) \subseteq crossed
    BY <1>1
  <2>1. <<1, r>> \in Spots /\ <<0, i>> \in Spots /\ <<1, r>> # <<0, i>>
    BY <1>1, SpotsAre
  <2> QED
    BY <1>3, <2>1
<1>7. \A r, q \in Ids : r # q =>
         Elements(request[r].lines) \cap Elements(request[q].lines) \subseteq crossed
  BY <1>1, <1>3
<1>8. \A i, j \in 1..Len(shown) : i < j =>
         /\ shown[i] = shown[j] => shown[i] \in crossed
         /\ ~overlapped => shown[i] < shown[j]
  BY DEF LinesInv, Order, Ascending, Repeats, TypeOK
<1>9. places = <<Elements(waiting), IF Collected = {} THEN {} ELSE Elements(attribute),
                 Elements(shown), lost>>
  BY DEF places, Written
<1> QED
  BY <1>4, <1>5, <1>6, <1>7, <1>8, <1>9 DEF EachLineOnce

(* Every line is with the server, in one request, on the page once, or lost   *)
(* with a request that failed, unless the server ran two requests at once,   *)
(* between the lock of one and the page of the other; and the page shows the  *)
(* lines in their order as long as no round of the loop came before the       *)
(* answer of the last.                                                      *)
THEOREM LinesAreShownOnce == Spec => []EachLineOnce
<1>1. Init => LinesInv
  BY LinesInit, TypeInit DEF LinesInv
<1>2. LinesInv /\ [Next]_vars => LinesInv'
  BY LinesStep, TypeStep DEF LinesInv, Kept
<1> QED
  BY <1>1, <1>2, LinesImply, PTL DEF Spec
=============================================================================
