----------------------------- MODULE EffectsProofs -----------------------------
(* Proofs about the animations of a page, for every menu of two levels, any   *)
(* number of windows and queues of any length.                               *)
EXTENDS Effects, TLAPS, SequenceTheorems, WellFoundedInduction

Properties == {"height", "margin", "scrollTop"}
Kinds == {"show", "hide", "scroll"}
EffectSet == [kind : Kinds, to : Nat, orig : {"own", "moved"}, moved : SUBSET Properties]
TimerSet == [elem : EffectElements, prop : Properties, left : Nat]

(* The properties that a list of timers moves of an element, and whether it    *)
(* has one timer for each of them.                                            *)
TimersOf(tms, e) == {tms[i].prop : i \in {j \in 1..Len(tms) : tms[j].elem = e}}
Distinct(tms) ==
    \A i, j \in 1..Len(tms) : tms[i].elem = tms[j].elem /\ tms[i].prop = tms[j].prop => i = j

-----------------------------------------------------------------------------
(* Lists.                                                                    *)

LEMMA PropSetIs ==
    /\ PropSet("scroll") = {"scrollTop"}
    /\ PropSet("show") = {"height", "margin"} /\ PropSet("hide") = {"height", "margin"}
    /\ \A kind \in Kinds : PropSet(kind) \subseteq Properties /\ PropSet(kind) # {}
<1>1. Len(<<"scrollTop">>) = 1 /\ <<"scrollTop">>[1] = "scrollTop"
    OBVIOUS
<1>2. /\ Len(<<"height", "margin">>) = 2 /\ <<"height", "margin">>[1] = "height"
      /\ <<"height", "margin">>[2] = "margin"
    OBVIOUS
<1>3. 1..1 = {1} /\ 1..2 = {1, 2}
    OBVIOUS
<1>4. PropSet("scroll") = {"scrollTop"}
    BY <1>1, <1>3 DEF PropSet, PropsOf
<1>5. ASSUME NEW kind \in {"show", "hide"} PROVE PropSet(kind) = {"height", "margin"}
    <2>1. PropsOf(kind) = <<"height", "margin">>
        BY <1>5 DEF PropsOf
    <2> QED
        BY <1>2, <1>3, <2>1 DEF PropSet
<1> QED
    BY <1>4, <1>5 DEF Kinds, Properties

(* A list without one of its elements.                                        *)
LEMMA WithoutIs ==
    ASSUME NEW T, NEW s \in Seq(T), NEW i \in 1..Len(s)
    PROVE  /\ Without(s, i) \in Seq(T) /\ Len(Without(s, i)) = Len(s) - 1
           /\ \A j \in 1..Len(s) - 1 : Without(s, i)[j] = s[IF j < i THEN j ELSE j + 1]
<1> DEFINE front == SubSeq(s, 1, i - 1)
           back == SubSeq(s, i + 1, Len(s))
<1>1. Len(s) \in Nat /\ i \in Nat /\ i >= 1 /\ i <= Len(s) /\ \A j \in 1..Len(s) : s[j] \in T
    OBVIOUS
<1>2. /\ front \in Seq(T) /\ Len(front) = i - 1
      /\ \A j \in 1..i - 1 : front[j] = s[j]
    <2>1. \A j \in 1..i - 1 : s[j] \in T
        BY <1>1
    <2>2. /\ front \in Seq(T) /\ Len(front) = IF 1 <= i - 1 THEN i - 1 - 1 + 1 ELSE 0
          /\ \A j \in 1..i - 1 - 1 + 1 : front[j] = s[1 + j - 1]
        BY <1>1, <2>1, SubSeqProperties
    <2> HIDE DEF front
    <2> QED
        BY <1>1, <2>2
<1>3. /\ back \in Seq(T) /\ Len(back) = Len(s) - i
      /\ \A j \in 1..Len(s) - i : back[j] = s[i + j]
    <2>1. \A j \in i + 1..Len(s) : s[j] \in T
        BY <1>1
    <2>2. /\ back \in Seq(T)
          /\ Len(back) = IF i + 1 <= Len(s) THEN Len(s) - (i + 1) + 1 ELSE 0
          /\ \A j \in 1..Len(s) - (i + 1) + 1 : back[j] = s[i + 1 + j - 1]
        BY <1>1, <2>1, SubSeqProperties
    <2> HIDE DEF back
    <2> QED
        BY <1>1, <2>2
<1> HIDE DEF front, back
<1>4. Without(s, i) = front \o back
    BY DEF Without, front, back
<1>5. /\ front \o back \in Seq(T) /\ Len(front \o back) = Len(front) + Len(back)
      /\ \A j \in 1..Len(front) + Len(back) :
            (front \o back)[j] = IF j <= Len(front) THEN front[j] ELSE back[j - Len(front)]
    BY <1>2, <1>3, ConcatProperties
<1>6. ASSUME NEW j \in 1..Len(s) - 1
      PROVE  (front \o back)[j] = s[IF j < i THEN j ELSE j + 1]
    <2>1. j \in 1..Len(front) + Len(back)
        BY <1>1, <1>2, <1>3
    <2>2. CASE j < i
        <3>1. j \in 1..i - 1 /\ j <= Len(front)
            BY <1>1, <1>2, <2>2
        <3> QED
            BY <1>2, <1>5, <2>1, <2>2, <3>1
    <2>3. CASE ~(j < i)
        <3>1. j - (i - 1) \in 1..Len(s) - i /\ ~(j <= i - 1) /\ i + (j - (i - 1)) = j + 1
            BY <1>1, <2>3
        <3>2. (front \o back)[j] = back[j - (i - 1)]
            BY <1>2, <1>5, <2>1, <3>1
        <3> QED
            BY <1>3, <2>3, <3>1, <3>2
    <2> QED
        BY <2>2, <2>3
<1> QED
    BY <1>1, <1>2, <1>3, <1>4, <1>5, <1>6

(* The timers of a list are still one for each property when one of them is   *)
(* taken out, and those of the other elements stay.                           *)
LEMMA AfterRemoval ==
    ASSUME NEW tms \in Seq(TimerSet), Distinct(tms), NEW i \in 1..Len(tms)
    PROVE  /\ Without(tms, i) \in Seq(TimerSet)
           /\ Distinct(Without(tms, i))
           /\ TimersOf(Without(tms, i), tms[i].elem) = TimersOf(tms, tms[i].elem) \ {tms[i].prop}
           /\ \A e : e # tms[i].elem => TimersOf(Without(tms, i), e) = TimersOf(tms, e)
<1> DEFINE r == Without(tms, i)
           place(j) == IF j < i THEN j ELSE j + 1
<1>1. /\ r \in Seq(TimerSet) /\ Len(r) = Len(tms) - 1
      /\ \A j \in 1..Len(tms) - 1 : r[j] = tms[place(j)]
    BY WithoutIs
<1>2. Len(tms) \in Nat /\ i \in Nat /\ 1 <= i /\ i <= Len(tms)
    OBVIOUS
<1> HIDE DEF r
<1>3. \A j \in 1..Len(r) : place(j) \in 1..Len(tms) /\ place(j) # i /\ r[j] = tms[place(j)]
    BY <1>1, <1>2
<1>4. ASSUME NEW k \in 1..Len(tms), k # i
      PROVE  \E j \in 1..Len(r) : place(j) = k
    <2>1. CASE k < i
        BY <1>1, <1>2, <1>4, <2>1
    <2>2. CASE k > i
        <3>1. k - 1 \in 1..Len(r) /\ place(k - 1) = k
            BY <1>1, <1>2, <1>4, <2>2
        <3> QED
            BY <3>1
    <2> QED
        BY <1>2, <1>4, <2>1, <2>2
<1>5. \A j, k \in 1..Len(r) : place(j) = place(k) => j = k
    BY <1>1, <1>2
<1> HIDE DEF place
<1>6. Distinct(r)
    BY <1>3, <1>5 DEF Distinct
<1>7. \A j \in 1..Len(tms) :
          tms[j].elem = tms[i].elem /\ tms[j].prop = tms[i].prop => j = i
    BY DEF Distinct
<1>8. ASSUME NEW p PROVE p \in TimersOf(r, tms[i].elem)
                            <=> p \in TimersOf(tms, tms[i].elem) /\ p # tms[i].prop
    <2>1. p \in TimersOf(r, tms[i].elem)
             <=> \E j \in 1..Len(r) : r[j].elem = tms[i].elem /\ r[j].prop = p
        BY Zenon DEF TimersOf
    <2>2. p \in TimersOf(tms, tms[i].elem)
             <=> \E k \in 1..Len(tms) : tms[k].elem = tms[i].elem /\ tms[k].prop = p
        BY Zenon DEF TimersOf
    <2> QED
        <3>1. ASSUME NEW j \in 1..Len(r), r[j].elem = tms[i].elem, r[j].prop = p
              PROVE  p \in TimersOf(tms, tms[i].elem) /\ p # tms[i].prop
            <4>1. place(j) \in 1..Len(tms) /\ place(j) # i /\ r[j] = tms[place(j)]
                BY <1>3, <3>1
            <4> QED
                BY <1>7, <2>2, <3>1, <4>1
        <3>2. ASSUME NEW k \in 1..Len(tms), tms[k].elem = tms[i].elem, tms[k].prop = p,
                     p # tms[i].prop
              PROVE  p \in TimersOf(r, tms[i].elem)
            <4>1. PICK j \in 1..Len(r) : place(j) = k
                BY <1>4, <3>2
            <4>2. r[j] = tms[k]
                BY <1>3, <4>1
            <4> QED
                BY <2>1, <3>2, <4>2
        <3> QED
            BY <2>1, <2>2, <3>1, <3>2
<1>9. ASSUME NEW e, e # tms[i].elem, NEW p
      PROVE  p \in TimersOf(r, e) <=> p \in TimersOf(tms, e)
    <2>1. p \in TimersOf(r, e) <=> \E j \in 1..Len(r) : r[j].elem = e /\ r[j].prop = p
        BY Zenon DEF TimersOf
    <2>2. p \in TimersOf(tms, e) <=> \E k \in 1..Len(tms) : tms[k].elem = e /\ tms[k].prop = p
        BY Zenon DEF TimersOf
    <2> QED
        <3>1. ASSUME NEW j \in 1..Len(r), r[j].elem = e, r[j].prop = p
              PROVE  p \in TimersOf(tms, e)
            <4>1. place(j) \in 1..Len(tms) /\ r[j] = tms[place(j)]
                BY <1>3, <3>1
            <4> QED
                BY <2>2, <3>1, <4>1
        <3>2. ASSUME NEW k \in 1..Len(tms), tms[k].elem = e, tms[k].prop = p
              PROVE  p \in TimersOf(r, e)
            <4>1. PICK j \in 1..Len(r) : place(j) = k
                BY <1>4, <1>9, <3>2
            <4>2. r[j] = tms[k]
                BY <1>3, <4>1
            <4> QED
                BY <2>1, <3>2, <4>2
        <3> QED
            BY <2>1, <2>2, <3>1, <3>2
<1>10. TimersOf(r, tms[i].elem) = TimersOf(tms, tms[i].elem) \ {tms[i].prop}
    BY <1>8
<1>11. ASSUME NEW e, e # tms[i].elem PROVE TimersOf(r, e) = TimersOf(tms, e)
    <2>1. \A p : p \in TimersOf(r, e) <=> p \in TimersOf(tms, e)
        BY <1>9, <1>11
    <2> QED
        BY <2>1, Zenon
<1> QED
    BY <1>1, <1>6, <1>10, <1>11 DEF r

(* The timers of an effect are one for each of its properties.                *)
LEMMA TimersForIs ==
    ASSUME NEW e \in EffectElements, NEW kind \in Kinds
    PROVE  /\ TimersFor(e, kind) \in Seq(TimerSet)
           /\ Len(TimersFor(e, kind)) > 0
           /\ Distinct(TimersFor(e, kind))
           /\ \A j \in 1..Len(TimersFor(e, kind)) : TimersFor(e, kind)[j].elem = e
           /\ TimersOf(TimersFor(e, kind), e) = PropSet(kind)
<1> DEFINE ps == PropsOf(kind)
           ts == TimersFor(e, kind)
<1>1. /\ Len(ps) \in {1, 2} /\ \A j \in 1..Len(ps) : ps[j] \in Properties
      /\ \A j, k \in 1..Len(ps) : ps[j] = ps[k] => j = k
    <2>1. CASE kind = "scroll"
        <3>1. ps = <<"scrollTop">>
            BY <2>1 DEF PropsOf
        <3> QED
            BY <3>1 DEF Properties
    <2>2. CASE kind # "scroll"
        <3>1. ps = <<"height", "margin">>
            BY <2>2 DEF PropsOf
        <3>2. Len(ps) = 2 /\ ps[1] = "height" /\ ps[2] = "margin"
            BY <3>1
        <3> QED
            BY <3>2 DEF Properties
    <2> QED
        BY <2>1, <2>2
<1>2. PropSet(kind) = {ps[j] : j \in 1..Len(ps)}
    BY DEF PropSet
<1>3. ts = [j \in 1..Len(ps) |-> [elem |-> e, prop |-> ps[j], left |-> Ticks]]
    BY DEF TimersFor, Timer
<1> HIDE DEF ps, ts
<1>4. Len(ps) \in Nat /\ Len(ps) > 0
    BY <1>1
<1>5. ts \in Seq(TimerSet)
    <2>1. \A j \in 1..Len(ps) : [elem |-> e, prop |-> ps[j], left |-> Ticks] \in TimerSet
        BY <1>1, EffectsAssumption DEF TimerSet
    <2> QED
        BY <1>3, <1>4, <2>1
<1>6. Len(ts) = Len(ps)
    BY <1>3, <1>4
<1>7. \A j \in 1..Len(ts) : ts[j].elem = e /\ ts[j].prop = ps[j]
    BY <1>3, <1>6
<1>8. Distinct(ts)
    BY <1>1, <1>6, <1>7 DEF Distinct
<1>9. TimersOf(ts, e) = PropSet(kind)
    BY <1>2, <1>6, <1>7 DEF TimersOf
<1> QED
    BY <1>4, <1>5, <1>6, <1>7, <1>8, <1>9 DEF ts

(* The timers of an effect may follow those of others.                        *)
LEMMA AfterAdding ==
    ASSUME NEW tms \in Seq(TimerSet), Distinct(tms), NEW e \in EffectElements, NEW kind \in Kinds,
           TimersOf(tms, e) = {}
    PROVE  /\ tms \o TimersFor(e, kind) \in Seq(TimerSet)
           /\ Distinct(tms \o TimersFor(e, kind))
           /\ TimersOf(tms \o TimersFor(e, kind), e) = PropSet(kind)
           /\ \A d : d # e => TimersOf(tms \o TimersFor(e, kind), d) = TimersOf(tms, d)
<1> DEFINE ts == TimersFor(e, kind)
           r == tms \o ts
<1>1. /\ ts \in Seq(TimerSet) /\ Len(ts) > 0 /\ Distinct(ts)
      /\ \A j \in 1..Len(ts) : ts[j].elem = e
      /\ TimersOf(ts, e) = PropSet(kind)
    BY TimersForIs
<1> HIDE DEF ts
<1>2. /\ r \in Seq(TimerSet) /\ Len(r) = Len(tms) + Len(ts)
      /\ \A j \in 1..Len(tms) + Len(ts) :
            r[j] = IF j <= Len(tms) THEN tms[j] ELSE ts[j - Len(tms)]
    BY <1>1, ConcatProperties
<1>3. Len(tms) \in Nat /\ Len(ts) \in Nat
    BY <1>1
<1> HIDE DEF r
<1>4. \A j \in 1..Len(tms) : tms[j].elem # e
    BY Zenon DEF TimersOf
<1>5. \A j \in 1..Len(tms) : j \in 1..Len(r) /\ r[j] = tms[j]
    BY <1>2, <1>3
<1>6. \A k \in 1..Len(ts) : Len(tms) + k \in 1..Len(r) /\ r[Len(tms) + k] = ts[k]
    <2> TAKE k \in 1..Len(ts)
    <2>1. Len(tms) + k \in 1..Len(tms) + Len(ts) /\ ~(Len(tms) + k <= Len(tms))
          /\ (Len(tms) + k) - Len(tms) = k
        BY <1>3
    <2> QED
        BY <1>2, <2>1
<1>7. ASSUME NEW j \in 1..Len(r)
      PROVE  \/ j \in 1..Len(tms) /\ r[j] = tms[j]
             \/ \E k \in 1..Len(ts) : j = Len(tms) + k /\ r[j] = ts[k]
    <2>1. CASE j <= Len(tms)
        BY <1>2, <1>3, <2>1
    <2>2. CASE j > Len(tms)
        <3>1. j - Len(tms) \in 1..Len(ts) /\ j = Len(tms) + (j - Len(tms))
            BY <1>2, <1>3, <2>2
        <3> QED
            BY <1>6, <3>1
    <2> QED
        BY <1>2, <1>3, <2>1, <2>2
<1>8. Distinct(r)
    <2>1. ASSUME NEW j \in 1..Len(r), NEW k \in 1..Len(r),
                 r[j].elem = r[k].elem, r[j].prop = r[k].prop
          PROVE  j = k
        <3>1. CASE \E a \in 1..Len(ts) : j = Len(tms) + a /\ r[j] = ts[a]
            <4>1. PICK a \in 1..Len(ts) : j = Len(tms) + a /\ r[j] = ts[a]
                BY <3>1
            <4>2. r[k].elem = e
                BY <1>1, <2>1, <4>1
            <4>3. PICK b \in 1..Len(ts) : k = Len(tms) + b /\ r[k] = ts[b]
                BY <1>4, <1>7, <4>2
            <4>4. a = b
                BY <1>1, <2>1, <4>1, <4>3 DEF Distinct
            <4> QED
                BY <4>1, <4>3, <4>4
        <3>2. CASE j \in 1..Len(tms) /\ r[j] = tms[j]
            <4>1. r[k].elem # e
                BY <1>4, <2>1, <3>2
            <4>2. k \in 1..Len(tms) /\ r[k] = tms[k]
                BY <1>1, <1>7, <4>1
            <4> QED
                BY <2>1, <3>2, <4>2 DEF Distinct
        <3> QED
            BY <1>7, <3>1, <3>2
    <2> QED
        BY <2>1 DEF Distinct
<1>9. ASSUME NEW p PROVE p \in TimersOf(r, e) <=> p \in TimersOf(ts, e)
    <2>1. p \in TimersOf(r, e) <=> \E j \in 1..Len(r) : r[j].elem = e /\ r[j].prop = p
        BY Zenon DEF TimersOf
    <2>2. p \in TimersOf(ts, e) <=> \E k \in 1..Len(ts) : ts[k].elem = e /\ ts[k].prop = p
        BY Zenon DEF TimersOf
    <2> QED
        BY <1>1, <1>4, <1>6, <1>7, <2>1, <2>2, ZenonT(60)
<1>10. ASSUME NEW d, d # e, NEW p PROVE p \in TimersOf(r, d) <=> p \in TimersOf(tms, d)
    <2>1. p \in TimersOf(r, d) <=> \E j \in 1..Len(r) : r[j].elem = d /\ r[j].prop = p
        BY Zenon DEF TimersOf
    <2>2. p \in TimersOf(tms, d) <=> \E k \in 1..Len(tms) : tms[k].elem = d /\ tms[k].prop = p
        BY Zenon DEF TimersOf
    <2> QED
        <3>1. ASSUME NEW j \in 1..Len(r), r[j].elem = d, r[j].prop = p
              PROVE  p \in TimersOf(tms, d)
            <4>1. j \in 1..Len(tms) /\ r[j] = tms[j]
                BY <1>1, <1>7, <1>10, <3>1
            <4> QED
                BY <2>2, <3>1, <4>1
        <3>2. ASSUME NEW j \in 1..Len(tms), tms[j].elem = d, tms[j].prop = p
              PROVE  p \in TimersOf(r, d)
            <4>1. j \in 1..Len(r) /\ r[j] = tms[j]
                BY <1>5
            <4> QED
                BY <2>1, <3>2, <4>1
        <3> QED
            BY <2>1, <2>2, <3>1, <3>2
<1>11. TimersOf(r, e) = PropSet(kind)
    BY <1>1, <1>9
<1>12. ASSUME NEW d, d # e PROVE TimersOf(r, d) = TimersOf(tms, d)
    <2>1. \A p : p \in TimersOf(r, d) <=> p \in TimersOf(tms, d)
        BY <1>10, <1>12
    <2> QED
        BY <2>1, Zenon
<1> QED
    BY <1>2, <1>8, <1>11, <1>12 DEF r, ts

(* A set of places of a list has a first one.                                 *)
LEMMA FirstExists ==
    ASSUME NEW S, S \subseteq Nat, S # {}
    PROVE  \E x \in S : \A y \in S : x <= y
<1>1. PICK x \in S : \A y \in S : <<y, x>> \notin OpToRel(<, Nat)
    BY NatLessThanWellFounded, WFMin, Zenon
<1>2. \A y \in S : ~(y < x)
    BY <1>1 DEF OpToRel
<1> QED
    BY <1>2

-----------------------------------------------------------------------------
(* The inductive invariant.                                                  *)

(* The effects that wait for an element: a window only scrolls and a list     *)
(* never does, each effect found the element with its own style, and none but *)
(* the first has moved anything.                                             *)
Waiting(e, q) ==
    /\ q \in Seq(EffectSet)
    /\ \A i \in 1..Len(q) :
          /\ q[i].orig = "own"
          /\ q[i].kind = "scroll" <=> e \in Panes
          /\ i > 1 => q[i].moved = {}

(* What the first effect of a queue has still to move: something.             *)
Rest(q) == PropSet(q[1].kind) \ q[1].moved

Left(q) == IF q = <<>> THEN {} ELSE Rest(q)

Unfinished(q) == q # <<>> => q[1].moved \subseteq PropSet(q[1].kind) /\ Rest(q) # {}

(* How a queue q will end, or has ended: a list of the top level that the     *)
(* pointer is not over is hidden, a window is scrolled to its last line.      *)
Closes(e, q, shown, pointed) ==
    e \in Menus /\ ParentOf[e] = NoMenu /\ e \notin pointed =>
        IF q = <<>> THEN e \notin shown ELSE q[Len(q)].kind = "hide"

ScrollsTo(e, q, h, s) == e \in Panes => IF q = <<>> THEN s[e] = h[e] ELSE q[Len(q)].to = h[e]

EffectsTyped ==
    /\ queue = [e \in EffectElements |-> queue[e]]
    /\ timers \in Seq(TimerSet)
    /\ visit \in Nat
    /\ display \subseteq Menus /\ over \subseteq Menus
    /\ style \in [EffectElements -> {"own", "moved"}]
    /\ height \in [Panes -> Nat] /\ scroll \in [Panes -> Nat]

ElementInv(e) ==
    /\ Waiting(e, queue[e])
    /\ Unfinished(queue[e])
    /\ TimersOf(timers, e) = Left(queue[e])
    /\ queue[e] = <<>> => style[e] = "own"
    /\ Closes(e, queue[e], display, over)
    /\ ScrollsTo(e, queue[e], height, scroll)

TimersInv == Distinct(timers) /\ (timers # <<>> => ticking)

EffInv == EffectsTyped /\ TimersInv /\ \A e \in EffectElements : ElementInv(e)

-----------------------------------------------------------------------------
(* What a step does to one element.                                          *)

Fresh(q) == \A i \in 1..Len(q) : q[i].moved = {}

(* A step of the queue of e: it leaves the other elements alone and e with     *)
(* the timers of its first effect.                                           *)
OwnStep(e) ==
    /\ queue' = [d \in EffectElements |-> queue'[d]]
    /\ timers' \in Seq(TimerSet) /\ Distinct(timers') /\ (timers' # <<>> => ticking')
    /\ display' \subseteq Menus /\ style' \in [EffectElements -> {"own", "moved"}]
    /\ \A d \in EffectElements : d # e =>
          /\ queue'[d] = queue[d] /\ TimersOf(timers', d) = TimersOf(timers, d)
          /\ (d \in display' <=> d \in display) /\ style'[d] = style[d]
    /\ Waiting(e, queue'[e]) /\ Unfinished(queue'[e])
    /\ TimersOf(timers', e) = Left(queue'[e])
    /\ (queue'[e] = <<>> => style'[e] = "own")

(* What is left to play is the end of the queue, from an effect that is not    *)
(* complete at once.                                                         *)
LEMMA PlayableIs ==
    ASSUME NEW e \in EffectElements, NEW q, Waiting(e, q), Fresh(q), NEW hidden
    PROVE  /\ Waiting(e, Playable(q, hidden)) /\ Fresh(Playable(q, hidden))
           /\ Playable(q, hidden) = <<>> => \A i \in 1..Len(q) : Skipped(q[i], hidden)
           /\ Playable(q, hidden) # <<>> =>
                 /\ q # <<>>
                 /\ Playable(q, hidden)[Len(Playable(q, hidden))] = q[Len(q)]
<1> DEFINE played == {i \in 1..Len(q) : ~Skipped(q[i], hidden)}
           k == CHOOSE i \in played : \A j \in played : i <= j
           r == Playable(q, hidden)
<1>1. /\ q \in Seq(EffectSet)
      /\ \A i \in 1..Len(q) : q[i].orig = "own" /\ (q[i].kind = "scroll" <=> e \in Panes)
      /\ \A i \in 1..Len(q) : q[i].moved = {}
    BY DEF Waiting, Fresh
<1>2. Len(q) \in Nat /\ \A i \in 1..Len(q) : q[i] \in EffectSet
    BY <1>1
<1>3. CASE played = {}
    <2>1. r = <<>>
        BY <1>3 DEF Playable
    <2>2. \A i \in 1..Len(q) : Skipped(q[i], hidden)
        BY <1>3
    <2>3. Waiting(e, <<>>) /\ Fresh(<<>>)
        BY DEF Waiting, Fresh
    <2> HIDE DEF r, played
    <2> QED
        BY <2>1, <2>2, <2>3 DEF r
<1>4. CASE played # {}
    <2>1. r = SubSeq(q, k, Len(q))
        BY <1>4 DEF Playable
    <2>2. k \in played
        <3>1. \E i \in played : \A j \in played : i <= j
            <4>1. played \subseteq Nat
                BY <1>2
            <4> HIDE DEF played
            <4> QED
                BY <1>4, <4>1, FirstExists
        <3> HIDE DEF played
        <3> QED
            BY <3>1
    <2>3. k \in 1..Len(q)
        BY <2>2
    <2> HIDE DEF played, k
    <2>4. \A i \in k..Len(q) : q[i] \in EffectSet
        BY <1>2, <2>3
    <2>5. /\ r \in Seq(EffectSet)
          /\ Len(r) = IF k <= Len(q) THEN Len(q) - k + 1 ELSE 0
          /\ \A i \in 1..Len(q) - k + 1 : r[i] = q[k + i - 1]
        BY <1>1, <1>2, <2>1, <2>3, <2>4, SubSeqProperties
    <2> HIDE DEF r
    <2>6. Len(r) = Len(q) - k + 1 /\ Len(r) >= 1 /\ Len(q) >= 1
        BY <1>2, <2>3, <2>5
    <2>7. \A i \in 1..Len(r) : k + i - 1 \in 1..Len(q) /\ r[i] = q[k + i - 1]
        BY <1>2, <2>3, <2>5, <2>6
    <2>8. r[Len(r)] = q[Len(q)]
        <3>1. Len(r) \in 1..Len(r) /\ k + Len(r) - 1 = Len(q)
            BY <1>2, <2>3, <2>6
        <3> QED
            BY <2>7, <3>1
    <2>9. Waiting(e, r) /\ Fresh(r)
        <3>1. \A i \in 1..Len(r) : r[i].orig = "own" /\ (r[i].kind = "scroll" <=> e \in Panes)
                                   /\ r[i].moved = {}
            BY <1>1, <2>7
        <3> QED
            BY <2>5, <3>1 DEF Waiting, Fresh
    <2>10. r # <<>> /\ q # <<>>
        BY <2>6
    <2> QED
        BY <2>8, <2>9, <2>10 DEF r
<1> QED
    BY <1>3, <1>4

(* The first effect of what is left is put back as it was: its element has     *)
(* its own style.                                                            *)
LEMMA HeadIsKept ==
    ASSUME NEW e, NEW r, Waiting(e, r), r # <<>>
    PROVE  <<[Head(r) EXCEPT !.orig = "own"]>> \o Tail(r) = r
<1>1. r \in Seq(EffectSet) /\ Len(r) > 0 /\ r[1] \in EffectSet /\ r[1].orig = "own"
    BY DEF Waiting
<1>2. Head(r) = r[1]
    BY <1>1
<1>3. [r[1] EXCEPT !.orig = "own"] = r[1]
    BY <1>1 DEF EffectSet
<1>4. <<r[1]>> \o Tail(r) = r
    BY <1>1, <1>2
<1> QED
    BY <1>2, <1>3, <1>4

(* The first effect of what is left starts, with timers of its own.           *)
LEMMA PlayCases ==
    ASSUME NEW e \in EffectElements, NEW q, Waiting(e, q), Fresh(q), NEW tms, NEW shown,
           NEW styles, styles[e] = "own", Play(e, q, tms, shown, styles)
    PROVE  LET r == Playable(q, Hidden(e, shown))
           IN  /\ queue' = [queue EXCEPT ![e] = r]
               /\ r = <<>> =>
                     /\ timers' = tms /\ display' = shown /\ style' = styles
                     /\ UNCHANGED ticking
               /\ r # <<>> =>
                     /\ timers' = tms \o TimersFor(e, r[1].kind)
                     /\ display' = IF r[1].kind = "show" THEN shown \cup {e} ELSE shown
                     /\ style' = [styles EXCEPT ![e] = IF r[1].kind = "scroll" THEN @ ELSE "moved"]
                     /\ ticking' = TRUE
<1> DEFINE r == Playable(q, Hidden(e, shown))
<1>1. Waiting(e, r)
    BY PlayableIs
<1>2. r # <<>> => Head(r) = r[1]
    BY <1>1 DEF Waiting
<1>3. r # <<>> => <<[Head(r) EXCEPT !.orig = styles[e]]>> \o Tail(r) = r
    BY <1>1, HeadIsKept
<1> HIDE DEF r
<1>4. IF r = <<>>
      THEN /\ queue' = [queue EXCEPT ![e] = <<>>]
           /\ timers' = tms /\ display' = shown /\ style' = styles
           /\ UNCHANGED ticking
      ELSE /\ queue' = [queue EXCEPT ![e] = <<[Head(r) EXCEPT !.orig = styles[e]]>> \o Tail(r)]
           /\ timers' = tms \o TimersFor(e, Head(r).kind)
           /\ display' = IF Head(r).kind = "show" THEN shown \cup {e} ELSE shown
           /\ style' = [styles EXCEPT ![e] = IF Head(r).kind = "scroll" THEN @ ELSE "moved"]
           /\ ticking' = TRUE
    BY Zenon DEF Play, r
<1>5. CASE r = <<>>
    BY <1>4, <1>5, Zenon DEF r
<1>6. CASE r # <<>>
    BY <1>2, <1>3, <1>4, <1>6, Zenon DEF r
<1> QED
    BY <1>5, <1>6

LEMMA PlayStep ==
    ASSUME queue = [d \in EffectElements |-> queue[d]],
           NEW e \in EffectElements, NEW q, Waiting(e, q), Fresh(q),
           NEW tms \in Seq(TimerSet), Distinct(tms), TimersOf(tms, e) = {}, tms # <<>> => ticking,
           NEW shown, shown \subseteq Menus,
           NEW styles \in [EffectElements -> {"own", "moved"}], styles[e] = "own",
           \A d \in EffectElements : d # e =>
               /\ TimersOf(tms, d) = TimersOf(timers, d)
               /\ (d \in shown <=> d \in display) /\ styles[d] = style[d],
           Play(e, q, tms, shown, styles)
    PROVE  /\ OwnStep(e)
           /\ \A p : Closes(e, q, shown, p) => Closes(e, queue'[e], display', p)
           /\ \A h, s : ScrollsTo(e, q, h, s) => ScrollsTo(e, queue'[e], h, s)
<1> DEFINE r == Playable(q, Hidden(e, shown))
<1>1. /\ Waiting(e, r) /\ Fresh(r)
      /\ r = <<>> => \A i \in 1..Len(q) : Skipped(q[i], Hidden(e, shown))
      /\ r # <<>> => q # <<>> /\ r[Len(r)] = q[Len(q)]
    BY PlayableIs
<1>2. /\ queue' = [queue EXCEPT ![e] = r]
      /\ r = <<>> =>
            /\ timers' = tms /\ display' = shown /\ style' = styles
            /\ UNCHANGED ticking
      /\ r # <<>> =>
            /\ timers' = tms \o TimersFor(e, r[1].kind)
            /\ display' = IF r[1].kind = "show" THEN shown \cup {e} ELSE shown
            /\ style' = [styles EXCEPT ![e] = IF r[1].kind = "scroll" THEN @ ELSE "moved"]
            /\ ticking' = TRUE
    BY PlayCases
<1> HIDE DEF r
<1>3. /\ queue' = [d \in EffectElements |-> queue'[d]] /\ queue'[e] = r
      /\ \A d \in EffectElements : d # e => queue'[d] = queue[d]
    <2>1. queue' = [queue EXCEPT ![e] = r]
        BY <1>2
    <2> QED
        BY <2>1
<1>4. Len(q) \in Nat /\ (q # <<>> => Len(q) \in 1..Len(q)) /\ q \in Seq(EffectSet)
    BY DEF Waiting
<1>5. ASSUME r # <<>>
      PROVE  /\ r \in Seq(EffectSet) /\ r[1].kind \in Kinds /\ r[1].moved = {}
             /\ Len(r) \in 1..Len(r) /\ (r[1].kind = "scroll" <=> e \in Panes)
    <2>1. r \in Seq(EffectSet) /\ Len(r) \in Nat /\ Len(r) > 0
        BY <1>1, <1>5 DEF Waiting
    <2>2. 1 \in 1..Len(r) /\ r[1] \in EffectSet
        BY <2>1
    <2>3. r[1].kind = "scroll" <=> e \in Panes
        BY <1>1, <2>2 DEF Waiting
    <2> QED
        BY <1>1, <2>1, <2>2, <2>3 DEF Fresh, EffectSet
<1>6. /\ timers' \in Seq(TimerSet) /\ Distinct(timers') /\ (timers' # <<>> => ticking')
      /\ TimersOf(timers', e) = Left(r)
      /\ \A d \in EffectElements : d # e => TimersOf(timers', d) = TimersOf(timers, d)
    <2>1. CASE r = <<>>
        <3>1. timers' = tms /\ ticking' = ticking /\ Left(r) = {}
            BY <1>2, <2>1 DEF Left
        <3> QED
            BY <3>1
    <2>2. CASE r # <<>>
        <3>1. timers' = tms \o TimersFor(e, r[1].kind) /\ ticking'
            BY <1>2, <2>2
        <3>2. Left(r) = PropSet(r[1].kind)
            BY <1>5, <2>2 DEF Left, Rest
        <3>3. r[1].kind \in Kinds
            BY <1>5, <2>2
        <3> QED
            BY <3>1, <3>2, <3>3, AfterAdding
    <2> QED
        BY <2>1, <2>2
<1>7. Unfinished(r)
    <2>1. ASSUME r # <<>> PROVE r[1].moved \subseteq PropSet(r[1].kind) /\ Rest(r) # {}
        BY <1>5, <2>1, PropSetIs DEF Rest
    <2> QED
        BY <2>1 DEF Unfinished
<1>8. /\ display' \subseteq Menus /\ style' \in [EffectElements -> {"own", "moved"}]
      /\ \A d \in EffectElements : d # e => (d \in display' <=> d \in display) /\ style'[d] = style[d]
      /\ r = <<>> => style'[e] = "own"
    <2>1. CASE r = <<>>
        <3>1. display' = shown /\ style' = styles
            BY <1>2, <2>1
        <3> QED
            BY <3>1
    <2>2. CASE r # <<>>
        <3>1. display' = IF r[1].kind = "show" THEN shown \cup {e} ELSE shown
            BY <1>2, <2>2
        <3>2. style' = [styles EXCEPT ![e] = IF r[1].kind = "scroll" THEN styles[e] ELSE "moved"]
            BY <1>2, <2>2
        <3>3. r[1].kind = "show" => e \in Menus
            BY <1>5, <2>2 DEF EffectElements
        <3>4. /\ display' \subseteq Menus
              /\ \A d \in EffectElements : d # e => (d \in display' <=> d \in display)
            BY <3>1, <3>3
        <3>5. /\ style' \in [EffectElements -> {"own", "moved"}]
              /\ \A d \in EffectElements : d # e => style'[d] = style[d]
            BY <3>2
        <3> QED
            BY <2>2, <3>4, <3>5
    <2> QED
        BY <2>1, <2>2
<1>9. OwnStep(e)
    BY <1>1, <1>3, <1>6, <1>7, <1>8 DEF OwnStep
<1>10. ASSUME NEW p, Closes(e, q, shown, p) PROVE Closes(e, r, display', p)
    <2> SUFFICES ASSUME e \in Menus, ParentOf[e] = NoMenu, e \notin p
                 PROVE  IF r = <<>> THEN e \notin display' ELSE r[Len(r)].kind = "hide"
        BY DEF Closes
    <2>1. IF q = <<>> THEN e \notin shown ELSE q[Len(q)].kind = "hide"
        BY <1>10 DEF Closes
    <2>2. CASE r = <<>>
        <3>1. display' = shown
            BY <1>2, <2>2
        <3>2. CASE q # <<>>
            <4>1. Skipped(q[Len(q)], Hidden(e, shown)) /\ q[Len(q)].kind = "hide"
                BY <1>1, <1>4, <2>1, <2>2, <3>2
            <4>2. Hidden(e, shown)
                BY <4>1 DEF Skipped
            <4> QED
                BY <2>2, <3>1, <4>2 DEF Hidden
        <3> QED
            BY <2>1, <2>2, <3>1, <3>2
    <2>3. CASE r # <<>>
        BY <1>1, <2>1, <2>3
    <2> QED
        BY <2>2, <2>3
<1>11. ASSUME NEW h, NEW s, ScrollsTo(e, q, h, s) PROVE ScrollsTo(e, r, h, s)
    <2> SUFFICES ASSUME e \in Panes
                 PROVE  IF r = <<>> THEN s[e] = h[e] ELSE r[Len(r)].to = h[e]
        BY DEF ScrollsTo
    <2>1. IF q = <<>> THEN s[e] = h[e] ELSE q[Len(q)].to = h[e]
        BY <1>11 DEF ScrollsTo
    <2>2. CASE r = <<>> /\ q # <<>>
        <3>1. Skipped(q[Len(q)], Hidden(e, shown)) /\ q[Len(q)].kind = "scroll"
            BY <1>1, <1>4, <2>2 DEF Waiting
        <3> QED
            BY <3>1 DEF Skipped
    <2> QED
        BY <1>1, <2>1, <2>2
<1> QED
    BY <1>3, <1>9, <1>10, <1>11

(* An effect waits behind the others, or is played.                           *)
LEMMA AnimateStep ==
    ASSUME EffInv, NEW e \in EffectElements, NEW a \in EffectSet, a.orig = "own", a.moved = {},
           a.kind = "scroll" <=> e \in Panes, Animate(e, a)
    PROVE  /\ OwnStep(e)
           /\ \A p : a.kind = "hide" => Closes(e, queue'[e], display', p)
           /\ \A h, s : a.to = h[e] => ScrollsTo(e, queue'[e], h, s)
<1>1. /\ queue = [d \in EffectElements |-> queue[d]] /\ timers \in Seq(TimerSet)
      /\ display \subseteq Menus /\ style \in [EffectElements -> {"own", "moved"}]
      /\ Distinct(timers) /\ (timers # <<>> => ticking)
    BY DEF EffInv, EffectsTyped, TimersInv
<1>2. /\ Waiting(e, queue[e]) /\ Unfinished(queue[e])
      /\ TimersOf(timers, e) = Left(queue[e])
      /\ queue[e] = <<>> => style[e] = "own"
    BY DEF EffInv, ElementInv
<1>3. CASE queue[e] = <<>>
    <2>1. Play(e, <<a>>, timers, display, style)
        BY <1>3 DEF Animate
    <2>2. Len(<<a>>) = 1 /\ <<a>>[1] = a /\ <<a>> \in Seq(EffectSet) /\ <<a>> # <<>>
        OBVIOUS
    <2>3. Waiting(e, <<a>>) /\ Fresh(<<a>>)
        BY <2>2 DEF Waiting, Fresh
    <2>4. TimersOf(timers, e) = {}
        BY <1>2, <1>3 DEF Left
    <2>5. \A p : a.kind = "hide" => Closes(e, <<a>>, display, p)
        BY <2>2 DEF Closes
    <2>6. \A h, s : a.to = h[e] => ScrollsTo(e, <<a>>, h, s)
        BY <2>2 DEF ScrollsTo
    <2>7. style[e] = "own"
        BY <1>2, <1>3
    <2> QED
        BY <1>1, <2>1, <2>3, <2>4, <2>5, <2>6, <2>7, PlayStep
<1>4. CASE queue[e] # <<>>
    <2> DEFINE q == Append(queue[e], a)
    <2>1. /\ queue' = [queue EXCEPT ![e] = q]
          /\ UNCHANGED <<timers, ticking, display, style>>
        BY <1>4 DEF Animate
    <2>2. /\ queue[e] \in Seq(EffectSet) /\ Len(queue[e]) \in Nat /\ Len(queue[e]) > 0
          /\ \A i \in 1..Len(queue[e]) :
                /\ queue[e][i].orig = "own"
                /\ queue[e][i].kind = "scroll" <=> e \in Panes
                /\ i > 1 => queue[e][i].moved = {}
        BY <1>2, <1>4 DEF Waiting
    <2>3. /\ q \in Seq(EffectSet) /\ Len(q) = Len(queue[e]) + 1
          /\ \A i \in 1..Len(queue[e]) : q[i] = queue[e][i]
          /\ q[Len(queue[e]) + 1] = a
        BY <2>2, AppendProperties
    <2> HIDE DEF q
    <2>4. queue' = [d \in EffectElements |-> queue'[d]] /\ queue'[e] = q
          /\ \A d \in EffectElements : d # e => queue'[d] = queue[d]
        BY <1>1, <2>1
    <2>5. q # <<>> /\ q[1] = queue[e][1] /\ q[Len(q)] = a
        BY <2>2, <2>3
    <2>6. Waiting(e, q)
        <3>1. ASSUME NEW i \in 1..Len(q)
              PROVE  q[i].orig = "own" /\ (q[i].kind = "scroll" <=> e \in Panes)
                     /\ (i > 1 => q[i].moved = {})
            <4>1. i \in 1..Len(queue[e]) \/ i = Len(queue[e]) + 1
                BY <2>2, <2>3
            <4> QED
                BY <2>2, <2>3, <4>1
        <3> QED
            BY <2>3, <3>1 DEF Waiting
    <2>7. Unfinished(q) /\ Left(q) = Left(queue[e])
        BY <1>2, <1>4, <2>5 DEF Unfinished, Left, Rest
    <2>8. \A p : a.kind = "hide" => Closes(e, q, display', p)
        BY <2>5 DEF Closes
    <2>9. \A h, s : a.to = h[e] => ScrollsTo(e, q, h, s)
        BY <2>5 DEF ScrollsTo
    <2>10. OwnStep(e)
        <3>1. /\ timers' = timers /\ ticking' = ticking /\ display' = display /\ style' = style
            BY <2>1
        <3> QED
            BY <1>1, <1>2, <2>4, <2>5, <2>6, <2>7, <3>1 DEF OwnStep
    <2> QED
        BY <2>4, <2>8, <2>9, <2>10
<1> QED
    BY <1>3, <1>4

(* A step of one element keeps the invariant if its queue still ends well.    *)
LEMMA StepKeeps ==
    ASSUME EffInv, NEW e \in EffectElements, OwnStep(e),
           Closes(e, queue'[e], display', over'), ScrollsTo(e, queue'[e], height', scroll'),
           visit' \in Nat, over' \subseteq Menus,
           height' \in [Panes -> Nat], scroll' \in [Panes -> Nat],
           \A d \in EffectElements : d # e =>
               /\ d \in over' <=> d \in over
               /\ d \in Panes => height'[d] = height[d] /\ scroll'[d] = scroll[d]
    PROVE  EffInv'
<1>1. EffectsTyped'
    BY DEF EffectsTyped, OwnStep
<1>2. TimersInv'
    BY DEF TimersInv, OwnStep
<1>3. ElementInv(e)'
    BY DEF ElementInv, OwnStep
<1>4. ASSUME NEW d \in EffectElements, d # e PROVE ElementInv(d)'
    <2>1. ElementInv(d)
        BY DEF EffInv
    <2>2. /\ queue'[d] = queue[d] /\ TimersOf(timers', d) = TimersOf(timers, d)
          /\ (d \in display' <=> d \in display) /\ style'[d] = style[d]
        BY <1>4 DEF OwnStep
    <2>3. Closes(d, queue[d], display, over) => Closes(d, queue[d], display', over')
        BY <1>4, <2>2 DEF Closes
    <2>4. ScrollsTo(d, queue[d], height, scroll) => ScrollsTo(d, queue[d], height', scroll')
        BY <1>4 DEF ScrollsTo
    <2> QED
        BY <2>1, <2>2, <2>3, <2>4 DEF ElementInv
<1> QED
    BY <1>1, <1>2, <1>3, <1>4 DEF EffInv

-----------------------------------------------------------------------------
(* The actions.                                                              *)

LEMMA EffInit == EffectsInit => EffInv
<1> SUFFICES ASSUME EffectsInit PROVE EffInv
    OBVIOUS
<1>1. EffectsTyped
    BY DEF EffectsInit, EffectsTyped
<1>2. TimersInv
    BY DEF EffectsInit, TimersInv, Distinct
<1>3. ASSUME NEW e \in EffectElements PROVE ElementInv(e)
    <2>1. queue[e] = <<>> /\ timers = <<>> /\ style[e] = "own" /\ display = {}
          /\ (e \in Panes => scroll[e] = height[e])
        BY DEF EffectsInit
    <2>2. Waiting(e, <<>>)
        BY DEF Waiting
    <2>3. TimersOf(<<>>, e) = {}
        BY DEF TimersOf
    <2> QED
        BY <2>1, <2>2, <2>3 DEF ElementInv, Unfinished, Left, Closes, ScrollsTo
<1> QED
    BY <1>1, <1>2, <1>3 DEF EffInv

LEMMA EffectIs ==
    ASSUME NEW kind \in Kinds, NEW to \in Nat
    PROVE  /\ Effect(kind, to) \in EffectSet
           /\ Effect(kind, to).kind = kind /\ Effect(kind, to).to = to
           /\ Effect(kind, to).orig = "own" /\ Effect(kind, to).moved = {}
BY DEF Effect, EffectSet

LEMMA EnterKeeps ==
    ASSUME EffInv, NEW m \in Menus, Enter(m)
    PROVE  EffInv'
<1>1. /\ visit' = visit /\ height' = height /\ scroll' = scroll /\ over' = over \cup {m}
    BY DEF Enter
<1>2. m \in EffectElements /\ m \notin Panes /\ "show" \in Kinds
    BY EffectsAssumption DEF EffectElements, Kinds
<1>3. OwnStep(m)
    <2>1. CASE Len(queue[m]) <= 1
        <3>1. Animate(m, Effect("show", 0))
            BY <2>1 DEF Enter
        <3> QED
            BY <1>2, <3>1, EffectIs, AnimateStep
    <2>2. CASE ~(Len(queue[m]) <= 1)
        <3>1. UNCHANGED <<queue, timers, ticking, display, style>>
            BY <2>2 DEF Enter
        <3> QED
            BY <1>2, <3>1 DEF OwnStep, EffInv, EffectsTyped, TimersInv, ElementInv
    <2> QED
        BY <2>1, <2>2
<1>4. Closes(m, queue'[m], display', over') /\ ScrollsTo(m, queue'[m], height', scroll')
    BY <1>1, <1>2 DEF Closes, ScrollsTo
<1> QED
    BY <1>1, <1>2, <1>3, <1>4, StepKeeps DEF EffInv, EffectsTyped

LEMMA LeaveKeeps ==
    ASSUME EffInv, NEW m \in Menus, Leave(m)
    PROVE  EffInv'
<1>1. /\ visit' = visit /\ height' = height /\ scroll' = scroll /\ over' = over \ {m}
      /\ Animate(m, Effect("hide", 0))
    BY DEF Leave
<1>2. m \in EffectElements /\ m \notin Panes /\ "hide" \in Kinds
    BY EffectsAssumption DEF EffectElements, Kinds
<1>3. OwnStep(m) /\ Closes(m, queue'[m], display', over')
    BY <1>1, <1>2, EffectIs, AnimateStep
<1>4. ScrollsTo(m, queue'[m], height', scroll')
    BY <1>2 DEF ScrollsTo
<1> QED
    BY <1>1, <1>2, <1>3, <1>4, StepKeeps DEF EffInv, EffectsTyped

LEMMA UpdateKeeps ==
    ASSUME EffInv, NEW w \in Panes, NEW h \in 1..MaxHeight, Update(w, h)
    PROVE  EffInv'
<1>1. /\ visit' = visit /\ over' = over
      /\ height' = [height EXCEPT ![w] = h]
      /\ scroll' = [scroll EXCEPT ![w] = IF scroll[w] < h THEN scroll[w] ELSE h]
      /\ Animate(w, Effect("scroll", h))
    BY DEF Update
<1>2. w \in EffectElements /\ w \notin Menus /\ "scroll" \in Kinds /\ h \in Nat
    BY EffectsAssumption DEF EffectElements, Kinds
<1>3. height \in [Panes -> Nat] /\ scroll \in [Panes -> Nat]
    BY DEF EffInv, EffectsTyped
<1>4. /\ height' \in [Panes -> Nat] /\ scroll' \in [Panes -> Nat] /\ height'[w] = h
      /\ \A d \in Panes : d # w => height'[d] = height[d] /\ scroll'[d] = scroll[d]
    <2> DEFINE s == IF scroll[w] < h THEN scroll[w] ELSE h
    <2>1. s \in Nat
        BY <1>2, <1>3
    <2>2. scroll' = [scroll EXCEPT ![w] = s]
        BY <1>1
    <2> HIDE DEF s
    <2>3. scroll' \in [Panes -> Nat] /\ \A d \in Panes : d # w => scroll'[d] = scroll[d]
        BY <1>3, <2>1, <2>2
    <2>4. height' \in [Panes -> Nat] /\ height'[w] = h
          /\ \A d \in Panes : d # w => height'[d] = height[d]
        BY <1>1, <1>2, <1>3
    <2> QED
        BY <2>3, <2>4
<1>5. OwnStep(w) /\ ScrollsTo(w, queue'[w], height', scroll')
    <2> DEFINE a == Effect("scroll", h)
    <2>1. /\ a \in EffectSet /\ a.kind = "scroll" /\ a.to = h
          /\ a.orig = "own" /\ a.moved = {}
        BY <1>2, EffectIs
    <2>2. Animate(w, a)
        BY <1>1
    <2> HIDE DEF a
    <2>3. OwnStep(w) /\ \A g, s : a.to = g[w] => ScrollsTo(w, queue'[w], g, s)
        BY <1>2, <2>1, <2>2, AnimateStep
    <2> QED
        BY <1>4, <2>1, <2>3
<1>6. Closes(w, queue'[w], display', over')
    BY <1>2 DEF Closes
<1> QED
    BY <1>1, <1>2, <1>4, <1>5, <1>6, StepKeeps DEF EffInv, EffectsTyped

LEMMA TickKeeps ==
    ASSUME EffInv, Tick \/ Pause
    PROVE  EffInv'
<1>1. /\ queue' = queue /\ timers' = timers /\ display' = display /\ style' = style
      /\ over' = over /\ height' = height /\ scroll' = scroll
      /\ visit' \in Nat /\ (timers # <<>> => ticking')
    <2>1. CASE Tick
        BY <2>1 DEF Tick
    <2>2. CASE Pause
        <3>1. ticking' = (timers # <<>>) /\ visit' = 0
            BY <2>2 DEF Pause
        <3>2. timers # <<>> => ticking'
            BY <3>1, Zenon
        <3> QED
            BY <2>2, <3>1, <3>2 DEF Pause
    <2> QED
        BY <2>1, <2>2
<1>2. EffectsTyped' /\ TimersInv'
    BY <1>1 DEF EffInv, EffectsTyped, TimersInv
<1>3. ASSUME NEW e \in EffectElements PROVE ElementInv(e)'
    BY <1>1 DEF EffInv, ElementInv
<1> QED
    BY <1>2, <1>3 DEF EffInv

(* A visit that leaves a timer in its place moves nothing else.               *)
LEMMA MoveKeeps ==
    ASSUME EffInv, Move
    PROVE  EffInv'
<1>1. /\ queue' = queue /\ ticking' = ticking /\ display' = display /\ style' = style
      /\ over' = over /\ height' = height /\ scroll' = scroll /\ visit' = visit + 1
      /\ visit \in 1..Len(timers) /\ timers[visit].left > 0
      /\ timers' = [timers EXCEPT ![visit] = [timers[visit] EXCEPT !.left = timers[visit].left - 1]]
    BY DEF Move
<1>2. timers \in Seq(TimerSet) /\ visit \in Nat /\ Distinct(timers) /\ (timers # <<>> => ticking)
    BY DEF EffInv, EffectsTyped, TimersInv
<1>3. timers[visit] \in TimerSet
    BY <1>1, <1>2
<1> DEFINE t == [timers[visit] EXCEPT !.left = timers[visit].left - 1]
<1>4. t \in TimerSet /\ t.elem = timers[visit].elem /\ t.prop = timers[visit].prop
    BY <1>1, <1>3 DEF TimerSet
<1>5. timers' = [timers EXCEPT ![visit] = t]
    BY <1>1
<1> HIDE DEF t
<1>6. /\ timers' \in Seq(TimerSet) /\ Len(timers') = Len(timers)
      /\ \A i \in 1..Len(timers) :
            timers'[i].elem = timers[i].elem /\ timers'[i].prop = timers[i].prop
    BY <1>1, <1>2, <1>4, <1>5
<1>7. Distinct(timers')
    BY <1>2, <1>6 DEF Distinct
<1>8. ASSUME NEW e PROVE TimersOf(timers', e) = TimersOf(timers, e)
    BY <1>6 DEF TimersOf
<1>9. EffectsTyped' /\ TimersInv'
    BY <1>1, <1>2, <1>6, <1>7 DEF EffInv, EffectsTyped, TimersInv
<1>10. ASSUME NEW e \in EffectElements PROVE ElementInv(e)'
    BY <1>1, <1>8 DEF EffInv, ElementInv
<1> QED
    BY <1>9, <1>10 DEF EffInv

(* The first effect of a queue with one more property it is done with.        *)
Marked(q, p) == [q EXCEPT ![1] = [q[1] EXCEPT !.moved = q[1].moved \cup {p}]]

LEMMA MarkedIs ==
    ASSUME NEW q \in Seq(EffectSet), q # <<>>, NEW p \in Properties
    PROVE  /\ Marked(q, p) \in Seq(EffectSet) /\ Len(Marked(q, p)) = Len(q)
           /\ Marked(q, p)[1].kind = q[1].kind /\ Marked(q, p)[1].orig = q[1].orig
           /\ Marked(q, p)[1].to = q[1].to
           /\ Marked(q, p)[1].moved = q[1].moved \cup {p}
           /\ \A i \in 2..Len(q) : Marked(q, p)[i] = q[i]
<1> DEFINE a == [q[1] EXCEPT !.moved = q[1].moved \cup {p}]
<1>1. q[1] \in EffectSet /\ Len(q) \in Nat /\ Len(q) > 0
    OBVIOUS
<1>2. /\ a \in EffectSet /\ a.kind = q[1].kind /\ a.orig = q[1].orig /\ a.to = q[1].to
      /\ a.moved = q[1].moved \cup {p}
    BY <1>1 DEF EffectSet
<1>3. Marked(q, p) = [q EXCEPT ![1] = a]
    BY DEF Marked
<1> HIDE DEF a
<1> QED
    BY <1>1, <1>2, <1>3

(* A property is done: the next one waits for its timer, or the effect is      *)
(* done with it and the queue goes on.                                        *)
LEMMA FinishKeeps ==
    ASSUME EffInv, Finish
    PROVE  EffInv'
<1> DEFINE t == timers[visit]
           e == t.elem
           q == queue[e]
           a == Head(q)
           rest == Without(timers, visit)
           at == IF a.to < height[e] THEN a.to ELSE height[e]
<1>1. /\ visit \in 1..Len(timers) /\ visit' = visit /\ over' = over /\ height' = height
      /\ scroll' = IF a.kind = "scroll" THEN [scroll EXCEPT ![e] = at] ELSE scroll
      /\ IF a.moved \cup {t.prop} = PropSet(a.kind)
         THEN Play(e, Tail(q), rest, IF a.kind = "hide" THEN display \ {e} ELSE display,
                   [style EXCEPT ![e] = a.orig])
         ELSE /\ queue' = [queue EXCEPT ![e][1].moved = queue[e][1].moved \cup {t.prop}]
              /\ timers' = rest
              /\ UNCHANGED <<ticking, display, style>>
    BY DEF Finish
<1>2. /\ queue = [d \in EffectElements |-> queue[d]] /\ timers \in Seq(TimerSet) /\ visit \in Nat
      /\ display \subseteq Menus /\ over \subseteq Menus
      /\ style \in [EffectElements -> {"own", "moved"}]
      /\ height \in [Panes -> Nat] /\ scroll \in [Panes -> Nat]
      /\ Distinct(timers) /\ (timers # <<>> => ticking)
    BY DEF EffInv, EffectsTyped, TimersInv
<1>3. e \in EffectElements /\ t.prop \in Properties /\ t.prop \in TimersOf(timers, e)
    <2>1. t \in TimerSet
        <3>1. visit \in 1..Len(timers) /\ timers \in Seq(TimerSet)
            BY <1>1, <1>2, Zenon
        <3> QED
            BY <3>1, ElementOfSeq
    <2>2. t.prop \in TimersOf(timers, e)
        BY <1>1 DEF TimersOf
    <2> QED
        BY <2>1, <2>2 DEF TimerSet
<1>4. ElementInv(e)
    BY <1>3 DEF EffInv
<1>5. /\ Waiting(e, q) /\ q \in Seq(EffectSet) /\ q # <<>> /\ Len(q) \in Nat /\ Len(q) > 0
      /\ q[1] \in EffectSet /\ a = q[1] /\ a.orig = "own" /\ a.kind \in Kinds
      /\ (a.kind = "scroll" <=> e \in Panes)
      /\ t.prop \in PropSet(a.kind) \ a.moved /\ a.moved \subseteq PropSet(a.kind)
      /\ TimersOf(timers, e) = PropSet(a.kind) \ a.moved
    <2>1. Waiting(e, q) /\ Unfinished(q) /\ TimersOf(timers, e) = Left(q)
        BY <1>4 DEF ElementInv
    <2>2. q # <<>>
        BY <1>3, <2>1 DEF Left
    <2>3. q \in Seq(EffectSet) /\ Len(q) \in Nat /\ Len(q) > 0 /\ 1 \in 1..Len(q)
        BY <2>1, <2>2 DEF Waiting
    <2>4. a = q[1] /\ q[1] \in EffectSet /\ q[1].orig = "own" /\ (q[1].kind = "scroll" <=> e \in Panes)
        BY <2>1, <2>3 DEF Waiting
    <2>5. q[1].moved \subseteq PropSet(q[1].kind) /\ TimersOf(timers, e) = PropSet(q[1].kind) \ q[1].moved
        BY <2>1, <2>2 DEF Unfinished, Left, Rest
    <2> HIDE DEF q, a, e, t
    <2>6. q[1].kind \in Kinds
        BY <2>4 DEF EffectSet
    <2>7. t.prop \in PropSet(q[1].kind) \ q[1].moved
        BY <1>3, <2>5
    <2> QED
        BY <2>1, <2>2, <2>3, <2>4, <2>5, <2>6, <2>7
<1>6. /\ rest \in Seq(TimerSet) /\ Distinct(rest)
      /\ TimersOf(rest, e) = TimersOf(timers, e) \ {t.prop}
      /\ \A d : d # e => TimersOf(rest, d) = TimersOf(timers, d)
    BY <1>1, <1>2, AfterRemoval
<1>7. ticking
    <2>1. visit \in 1..Len(timers) /\ (timers # <<>> => ticking)
        BY <1>1, <1>2, Zenon
    <2>2. timers # <<>>
        BY <2>1
    <2> QED
        BY <2>1, <2>2
<1>8. Closes(e, q, display, over) /\ ScrollsTo(e, q, height, scroll)
    BY <1>4 DEF ElementInv
<1> HIDE DEF t, e, q, a, rest
<1>9. /\ scroll' \in [Panes -> Nat]
      /\ \A d \in Panes : d # e => scroll'[d] = scroll[d]
      /\ e \in Panes => scroll'[e] = at
    <2>1. a.to \in Nat
        BY <1>5 DEF EffectSet
    <2>2. e \in Panes => at \in Nat
        BY <1>2, <2>1
    <2> HIDE DEF at
    <2>3. CASE e \in Panes
        <3>1. scroll' = [scroll EXCEPT ![e] = at]
            BY <1>1, <1>5, <2>3
        <3> QED
            BY <1>2, <2>2, <2>3, <3>1
    <2>4. CASE e \notin Panes
        <3>1. scroll' = scroll
            BY <1>1, <1>5, <2>4
        <3> QED
            BY <1>2, <2>4, <3>1
    <2> QED
        BY <2>3, <2>4
<1>10. OwnStep(e) /\ Closes(e, queue'[e], display', over') /\ ScrollsTo(e, queue'[e], height', scroll')
    <2>1. CASE a.moved \cup {t.prop} = PropSet(a.kind)
        <3> DEFINE shown == IF a.kind = "hide" THEN display \ {e} ELSE display
                   styles == [style EXCEPT ![e] = a.orig]
        <3>1. Play(e, Tail(q), rest, shown, styles)
            BY <1>1, <2>1
        <3>2. /\ Tail(q) \in Seq(EffectSet) /\ Len(Tail(q)) = Len(q) - 1
              /\ \A i \in 1..Len(q) - 1 : Tail(q)[i] = q[i + 1]
            BY <1>5
        <3>3. \A i \in 1..Len(q) - 1 : i + 1 \in 1..Len(q) /\ i + 1 > 1
            BY <1>5
        <3>4. Waiting(e, Tail(q)) /\ Fresh(Tail(q))
            BY <1>5, <3>2, <3>3 DEF Waiting, Fresh
        <3>5. TimersOf(rest, e) = {}
            BY <1>5, <1>6, <2>1
        <3>6. shown \subseteq Menus /\ \A d \in EffectElements : d # e => (d \in shown <=> d \in display)
            BY <1>2
        <3>7. /\ styles \in [EffectElements -> {"own", "moved"}] /\ styles[e] = "own"
              /\ \A d \in EffectElements : d # e => styles[d] = style[d]
            BY <1>2, <1>3, <1>5
        <3> HIDE DEF shown, styles
        <3>8. \A d \in EffectElements : d # e =>
                  /\ TimersOf(rest, d) = TimersOf(timers, d)
                  /\ (d \in shown <=> d \in display) /\ styles[d] = style[d]
            BY <1>6, <3>6, <3>7
        <3>9. /\ OwnStep(e)
              /\ \A p : Closes(e, Tail(q), shown, p) => Closes(e, queue'[e], display', p)
              /\ \A h, s : ScrollsTo(e, Tail(q), h, s) => ScrollsTo(e, queue'[e], h, s)
            <4>1. rest # <<>> => ticking
                BY <1>7
            <4>2. queue = [d \in EffectElements |-> queue[d]]
                BY <1>2
            <4>3. rest \in Seq(TimerSet) /\ Distinct(rest) /\ shown \subseteq Menus
                  /\ styles \in [EffectElements -> {"own", "moved"}] /\ styles[e] = "own"
                BY <1>6, <3>6, <3>7
            <4> QED
                BY <1>3, <3>1, <3>4, <3>5, <3>8, <4>1, <4>2, <4>3, PlayStep
        <3>10. (Tail(q) = <<>> => q[Len(q)] = a)
              /\ (Tail(q) # <<>> => Tail(q)[Len(Tail(q))] = q[Len(q)])
            <4>1. q \in Seq(EffectSet) /\ Len(q) \in Nat /\ Len(q) > 0 /\ a = q[1]
                BY <1>5
            <4>2. ASSUME Tail(q) = <<>> PROVE q[Len(q)] = a
                <5>1. Len(<<>>) = Len(q) - 1
                    BY <3>2, <4>2, Zenon
                <5>2. Len(<<>>) = 0
                    OBVIOUS
                <5>3. \A n \in Nat : 0 = n - 1 => n = 1
                    OBVIOUS
                <5>4. Len(q) = 1
                    BY <4>1, <5>1, <5>2, <5>3, Zenon
                <5> QED
                    BY <4>1, <5>4
            <4>3. ASSUME Tail(q) # <<>> PROVE Tail(q)[Len(Tail(q))] = q[Len(q)]
                <5>1. Len(q) - 1 \in 1..Len(q) - 1 /\ (Len(q) - 1) + 1 = Len(q)
                    BY <3>2, <4>1, <4>3
                <5> QED
                    BY <3>2, <5>1
            <4> QED
                BY <4>2, <4>3
        <3>11. Closes(e, Tail(q), shown, over')
            BY <1>1, <1>5, <1>8, <3>10 DEF Closes, shown
        <3>12. ScrollsTo(e, Tail(q), height', scroll')
            <4> SUFFICES ASSUME e \in Panes
                         PROVE  IF Tail(q) = <<>> THEN scroll'[e] = height'[e]
                                ELSE Tail(q)[Len(Tail(q))].to = height'[e]
                BY DEF ScrollsTo
            <4>1. q[Len(q)].to = height[e] /\ height'[e] = height[e]
                BY <1>1, <1>5, <1>8 DEF ScrollsTo
            <4>2. Tail(q) = <<>> => scroll'[e] = height[e]
                BY <1>9, <3>10, <4>1
            <4> QED
                BY <3>10, <4>1, <4>2
        <3> QED
            BY <3>9, <3>11, <3>12
    <2>2. CASE a.moved \cup {t.prop} # PropSet(a.kind)
        <3> DEFINE n == Marked(q, t.prop)
        <3>1. /\ queue' = [queue EXCEPT ![e][1].moved = queue[e][1].moved \cup {t.prop}]
              /\ timers' = rest /\ ticking' = ticking /\ display' = display /\ style' = style
            BY <1>1, <2>2
        <3>2. queue' = [queue EXCEPT ![e] = n]
            BY <3>1 DEF Marked, q
        <3>3. /\ n \in Seq(EffectSet) /\ Len(n) = Len(q)
              /\ n[1].kind = q[1].kind /\ n[1].orig = q[1].orig /\ n[1].to = q[1].to
              /\ n[1].moved = q[1].moved \cup {t.prop}
              /\ \A i \in 2..Len(q) : n[i] = q[i]
            BY <1>3, <1>5, MarkedIs
        <3> HIDE DEF n
        <3>4. /\ queue' = [d \in EffectElements |-> queue'[d]] /\ queue'[e] = n
              /\ \A d \in EffectElements : d # e => queue'[d] = queue[d]
            BY <1>2, <1>3, <3>2
        <3>5. Waiting(e, n)
            <4>1. ASSUME NEW i \in 1..Len(n)
                  PROVE  n[i].orig = "own" /\ (n[i].kind = "scroll" <=> e \in Panes)
                         /\ (i > 1 => n[i].moved = {})
                <5>1. CASE i = 1
                    BY <1>5, <3>3, <5>1
                <5>2. CASE i # 1
                    <6>1. i \in 2..Len(q) /\ i \in 1..Len(q)
                        BY <1>5, <3>3, <5>2
                    <6> QED
                        BY <1>5, <3>3, <6>1 DEF Waiting
                <5> QED
                    BY <5>1, <5>2
            <4> QED
                BY <3>3, <4>1 DEF Waiting
        <3>6. n # <<>>
            BY <1>5, <3>3
        <3>7. Rest(n) = PropSet(a.kind) \ (a.moved \cup {t.prop})
            BY <1>5, <3>3 DEF Rest
        <3>8. Unfinished(n)
            BY <1>5, <2>2, <3>3, <3>7 DEF Unfinished
        <3>9. TimersOf(timers', e) = Left(n)
            BY <1>5, <1>6, <3>1, <3>6, <3>7 DEF Left
        <3>10. OwnStep(e)
            BY <1>2, <1>3, <1>6, <1>7, <3>1, <3>4, <3>5, <3>6, <3>8, <3>9 DEF OwnStep
        <3>11. n[Len(n)].kind = q[Len(q)].kind /\ n[Len(n)].to = q[Len(q)].to
            <4>1. Len(q) = 1 \/ Len(q) \in 2..Len(q)
                <5>1. Len(q) \in Nat /\ Len(q) > 0
                    BY <1>5
                <5>2. \A k \in Nat : k > 0 => k = 1 \/ k \in 2..k
                    OBVIOUS
                <5> QED
                    BY <5>1, <5>2, Zenon
            <4> QED
                BY <3>3, <4>1
        <3>12. Closes(e, n, display', over')
            BY <1>1, <1>5, <1>8, <3>1, <3>6, <3>11 DEF Closes
        <3>13. ScrollsTo(e, n, height', scroll')
            BY <1>1, <1>5, <1>8, <3>6, <3>11 DEF ScrollsTo
        <3> QED
            BY <3>4, <3>10, <3>12, <3>13
    <2> QED
        BY <2>1, <2>2
<1>11. \A d \in EffectElements : d # e =>
           /\ d \in over' <=> d \in over
           /\ d \in Panes => height'[d] = height[d] /\ scroll'[d] = scroll[d]
    BY <1>1, <1>9
<1> QED
    BY <1>1, <1>2, <1>3, <1>9, <1>10, <1>11, StepKeeps

-----------------------------------------------------------------------------
(* The theorems.                                                             *)

LEMMA EffStep == EffInv /\ [EffectsNext]_effectVars => EffInv'
<1> SUFFICES ASSUME EffInv, [EffectsNext]_effectVars PROVE EffInv'
    OBVIOUS
<1>1. ASSUME NEW m \in Menus, Enter(m) PROVE EffInv'
    BY <1>1, EnterKeeps
<1>2. ASSUME NEW m \in Menus, Leave(m) PROVE EffInv'
    BY <1>2, LeaveKeeps
<1>3. ASSUME NEW w \in Panes, NEW h \in 1..MaxHeight, Update(w, h) PROVE EffInv'
    BY <1>3, UpdateKeeps
<1>4. CASE Tick \/ Pause
    BY <1>4, TickKeeps
<1>5. CASE Move
    BY <1>5, MoveKeeps
<1>6. CASE Finish
    BY <1>6, FinishKeeps
<1>7. CASE UNCHANGED effectVars
    <2>1. EffectsTyped' /\ TimersInv'
        BY <1>7 DEF effectVars, EffInv, EffectsTyped, TimersInv
    <2>2. ASSUME NEW e \in EffectElements PROVE ElementInv(e)'
        BY <1>7 DEF effectVars, EffInv, ElementInv
    <2> QED
        BY <2>1, <2>2 DEF EffInv
<1> QED
    BY <1>1, <1>2, <1>3, <1>4, <1>5, <1>6, <1>7 DEF EffectsNext, Interval

(* No animation is stuck and no timer runs wild, for any tree of lists, any   *)
(* windows and queues of any length: an element has one timer for each        *)
(* property that the first effect of its queue is not done with, and the      *)
(* interval runs as long as there is one, though the complete functions that  *)
(* its callback calls add timers to the array that it walks.                  *)
THEOREM NothingIsStuck == EffectsSpec => []NothingStuck
<1>1. EffInv => NothingStuck
    <2> SUFFICES ASSUME EffInv PROVE NothingStuck
        OBVIOUS
    <2>1. ASSUME NEW e \in EffectElements
          PROVE  /\ Moving(e) = IF queue[e] = <<>> THEN {}
                                ELSE PropSet(Head(queue[e]).kind) \ Head(queue[e]).moved
                 /\ queue[e] # <<>> => Moving(e) # {}
        <3>1. Moving(e) = TimersOf(timers, e)
            BY DEF Moving, TimersOf
        <3>2. Waiting(e, queue[e]) /\ Unfinished(queue[e]) /\ TimersOf(timers, e) = Left(queue[e])
            BY DEF EffInv, ElementInv
        <3>3. queue[e] # <<>> => Head(queue[e]) = queue[e][1]
            BY <3>2 DEF Waiting
        <3> QED
            BY <3>1, <3>2, <3>3 DEF Left, Rest, Unfinished
    <2> QED
        BY <2>1 DEF NothingStuck, EffInv, TimersInv, Distinct
<1> QED
    BY <1>1, EffInit, EffStep, PTL DEF EffectsSpec

(* Whatever the pointer and the answers of the server do, in any order and     *)
(* however many effects wait: what rests has its own style, a list of the top  *)
(* level that the pointer is not over is closed, a window shows its last line. *)
THEOREM RestIsAsMeant == EffectsSpec => []RestsAsMeant
<1>1. EffInv => RestsAsMeant
    <2> SUFFICES ASSUME EffInv, NEW e \in EffectElements, queue[e] = <<>>
                 PROVE  /\ style[e] = "own"
                        /\ e \in Menus /\ e \in display /\ ParentOf[e] = NoMenu => e \in over
                        /\ e \in Panes => scroll[e] = height[e]
        BY DEF RestsAsMeant
    <2> QED
        BY DEF EffInv, ElementInv, Closes, ScrollsTo
<1> QED
    BY <1>1, EffInit, EffStep, PTL DEF EffectsSpec
=============================================================================
