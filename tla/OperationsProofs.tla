-------------------------- MODULE OperationsProofs --------------------------
(***************************************************************************)
(* Theorems about Operations, for any requests, sessions, items and values: *)
(* the types, that no transaction is left open, that a request is a unit of *)
(* work, and that an undisturbed one writes what was shown.                 *)
(***************************************************************************)
EXTENDS Operations, TLAPS, SequenceTheorems

(* What a request is about to write is there: the target of an update or a  *)
(* delete and the instance it read have a row, and nobody has the new       *)
(* instance of a request that did not make it yet.                         *)
Fresh(r) == \/ phase[r] \in {"free", "sent", "refresh"}
            \/ phase[r] = "prepare" /\ par[r].op = "addForm"
Unused(o) == /\ \A s \in Sessions : selected[s] # o
             /\ \A r \in Requests : work[r].target # o
ObjectInv ==
  /\ \A r \in Requests :
       work[r].kind # "none" =>
         /\ work[r].target \in Objects
         /\ work[r].kind # "insert" => obj[work[r].target].item \in Items
  /\ \A r \in Requests :
       (Read(r) \in attached[r] \/ \E s \in Sessions : selected[s] = Read(r))
         => obj[Read(r)].item \in Items
  /\ \A r \in Requests : Fresh(r) => Unused(Made(r))

(* The instances of a request are objects, and different ones.             *)
LEMMA ObjectFacts ==
  ASSUME NEW r \in Requests, NEW q \in Requests
  PROVE  /\ Read(r) \in Objects /\ Made(r) \in Objects
         /\ Read(r) # Made(q)
         /\ (Read(r) = Read(q) \/ Made(r) = Made(q)) => r = q
         /\ \A o \in Requests \X (1..PageSize) : o \in Objects /\ o # Made(r) /\ o # Read(r)
BY OperationsAssumption DEF Read, Made, Objects

(* A listing fills a page with instances of the request.                    *)
LEMMA ListingType ==
  ASSUME NEW l \in Listings, NEW r \in Requests
  PROVE  /\ [i \in DOMAIN l |-> <<r, i>>] \in Seq(Requests \X (1..PageSize))
         /\ \A i \in DOMAIN l : l[i] \in Items
<1>1. PICK n \in 0..PageSize : l \in [1..n -> {i \in Items : store[i] # Absent}]
  BY DEF Listings
<1>2. n \in Nat /\ l \in [1..n -> Items] /\ 1..n \subseteq 1..PageSize
  BY <1>1, OperationsAssumption
<1>3. [i \in DOMAIN l |-> <<r, i>>] \in [1..n -> Requests \X (1..PageSize)]
  BY <1>2
<1> QED
  BY <1>2, <1>3

(* Sending a request, whatever it is sent from, keeps the types.            *)
LEMMA SendStep ==
  ASSUME TypeOK, NEW r \in Requests, SendPlain(r) \/ SendRow(r) \/ SendForm(r)
  PROVE  TypeOK'
<1>1. ASSUME NEW p \in Parameters, Send(r, p) PROVE TypeOK'
  BY <1>1 DEF Send, Go, TypeOK, Phases, containerVars, hibernateVars, historyVars
<1>2. CASE SendPlain(r)
  <2>1. PICK op \in {"list", "addForm"} : Send(r, [NoPar EXCEPT !.op = op])
    BY <1>2 DEF SendPlain
  <2>2. [NoPar EXCEPT !.op = op] \in Parameters
    BY DEF NoPar, Operators, Parameters
  <2> QED
    BY <1>1, <2>1, <2>2
<1>3. CASE SendRow(r)
  <2> DEFINE s == SessionOf[r]
  <2>1. PICK op \in RowOps, i \in DOMAIN page[s] :
               Send(r, [op |-> op, index |-> i, value |-> Absent,
                        item |-> obj[page[s][i]].item, basis |-> lister[s]])
    BY <1>3 DEF SendRow
  <2>2. /\ s \in Sessions /\ lister[s] \in Requests \cup {None}
        /\ page[s] \in Seq(Requests \X (1..PageSize))
    BY OperationsAssumption DEF TypeOK
  <2>3. i \in Nat /\ page[s][i] \in Requests \X (1..PageSize)
    BY <2>2, LenProperties, ElementOfSeq
  <2>4. page[s][i] \in Objects
    BY <2>3, ObjectFacts
  <2>5. obj[page[s][i]].item \in Items \cup {NoItem}
    BY <2>4 DEF TypeOK, Instance
  <2>6. [op |-> op, index |-> i, value |-> Absent,
         item |-> obj[page[s][i]].item, basis |-> lister[s]] \in Parameters
    BY <2>2, <2>3, <2>5 DEF Operators, Parameters
  <2> QED
    BY <1>1, <2>1, <2>6
<1>4. CASE SendForm(r)
  <2>1. PICK op \in RowOps \cup FormOps, v \in Values, b \in Peers(r) :
               Send(r, [op |-> op, index |-> 0,
                        value |-> IF op \in FormOps THEN v ELSE Absent,
                        item |-> rendered[b], basis |-> b])
    BY <1>4 DEF SendForm
  <2>2. b \in Requests /\ rendered[b] \in Items \cup {NoItem}
    BY DEF Peers, TypeOK
  <2> QED
    BY <1>1, <2>1, <2>2 DEF Operators, Parameters
<1> QED
  BY <1>2, <1>3, <1>4

(* A commit writes values to items.                                        *)
LEMMA FlushType ==
  ASSUME TypeOK, ObjectInv, NEW r \in Requests, NEW new \in Items
  PROVE  Flush(r, new) \subseteq Items \X (Values \cup {Absent})
<1>0. \A o \in Objects : obj[o].val \in Values \cup {Absent}
  BY DEF TypeOK, Instance
<1>1. Dirty(r) \subseteq Items \X (Values \cup {Absent})
  BY <1>0, ObjectFacts DEF Dirty, ObjectInv
<1>2. Updated(r) \subseteq Items \X (Values \cup {Absent})
  BY <1>0 DEF Updated, ObjectInv
<1>3. Inserted(r, new) \subseteq Items \X (Values \cup {Absent})
  BY <1>0 DEF Inserted, ObjectInv
<1> QED
  BY <1>1, <1>2, <1>3 DEF Flush

(* Every step of a request keeps the types.                                *)
LEMMA ServeStep ==
  ASSUME TypeOK, ObjectInv, NEW r \in Requests, Serve(r) PROVE TypeOK'
<1> DEFINE s == SessionOf[r]
<1>0. s \in Sessions
  BY OperationsAssumption
<1> USE OperationsAssumption
    DEF TypeOK, Phases, Go, Select, containerVars, hibernateVars, historyVars
<1>1. CASE ConfigureSelected(r)
  <2>1. ASSUME par[r].index \in DOMAIN page[s] PROVE RowAt(s, par[r].index) \in Objects
    <3>1. page[s] \in Seq(Requests \X (1..PageSize))
      BY <1>0
    <3>2. RowAt(s, par[r].index) \in Requests \X (1..PageSize)
      BY <2>1, <3>1, LenProperties, ElementOfSeq DEF RowAt
    <3> QED
      BY <3>2, ObjectFacts
  <2>3. disturbed' \in [Requests -> BOOLEAN]
    <3> HIDE DEF TypeOK
    <3> QED
      BY <1>1 DEF ConfigureSelected, Disturb
  <2>4. selected' \in [Sessions -> Objects \cup {None}] /\ selectedNew' \in [Sessions -> BOOLEAN]
    <3>1. \/ UNCHANGED <<selected, selectedNew>>
          \/ \E o \in Objects \cup {None} :
               /\ selected' = [selected EXCEPT ![s] = o]
               /\ selectedNew' = [selectedNew EXCEPT ![s] = FALSE]
      <4> HIDE DEF TypeOK
      <4> QED
        BY <1>1, <2>1 DEF ConfigureSelected
    <3>2. /\ selected \in [Sessions -> Objects \cup {None}]
          /\ selectedNew \in [Sessions -> BOOLEAN]
      OBVIOUS
    <3> HIDE DEF TypeOK, s
    <3>3. CASE UNCHANGED <<selected, selectedNew>>
      BY <3>2, <3>3
    <3>4. ASSUME NEW o \in Objects \cup {None},
                 selected' = [selected EXCEPT ![s] = o],
                 selectedNew' = [selectedNew EXCEPT ![s] = FALSE]
          PROVE  /\ selected' \in [Sessions -> Objects \cup {None}]
                 /\ selectedNew' \in [Sessions -> BOOLEAN]
      BY <1>0, <3>2, <3>4
    <3> QED
      BY <3>1, <3>3, <3>4
  <2>5. phase' \in [Requests -> Phases]
    <3>1. \/ phase' = [phase EXCEPT ![r] = "refresh"]
          \/ phase' = [phase EXCEPT ![r] = "failed"]
      <4> HIDE DEF TypeOK
      <4> QED
        BY <1>1 DEF ConfigureSelected
    <3> QED
      BY <3>1
  <2>6. latest' \in [Sessions -> Requests \cup {None}]
    BY <1>0, <1>1 DEF ConfigureSelected
  <2> QED
    BY <1>1, <2>3, <2>4, <2>5, <2>6 DEF ConfigureSelected
<1>2. CASE Refresh(r)
  <2>1. \A op, sel : AfterRefresh(op, sel) \in Phases
    BY DEF AfterRefresh
  <2> DEFINE o == selected[s]
  <2>2. o # None => obj[o].item \in Items \cup {NoItem}
    BY <1>0 DEF Instance
  <2>3. CASE /\ phase' = [phase EXCEPT ![r] = AfterRefresh(par[r].op, o)]
             /\ rendered' = [rendered EXCEPT ![r] = IF o = None THEN NoItem ELSE obj[o].item]
             /\ UNCHANGED <<selected, selectedNew, hibernateVars>>
    BY <1>2, <2>1, <2>2, <2>3 DEF Refresh
  <2>4. CASE /\ obj[o].item \in Items
             /\ obj' = [obj EXCEPT ![Read(r)] = [item |-> obj[o].item,
                                                 val |-> store[obj[o].item]]]
             /\ loaded' = [loaded EXCEPT ![r] = store[obj[o].item]]
             /\ attached' = [attached EXCEPT ![r] = {Read(r)}]
             /\ Select(s, Read(r), FALSE)
             /\ phase' = [phase EXCEPT ![r] = AfterRefresh(par[r].op, Read(r))]
             /\ rendered' = [rendered EXCEPT ![r] = obj[o].item]
    <3>1. [item |-> obj[o].item, val |-> store[obj[o].item]] \in Instance
      BY <2>4 DEF Instance
    <3>2. obj' \in [Objects -> Instance]
      BY <2>4, <3>1
    <3>3. Read(r) \in Objects
      BY ObjectFacts
    <3>4. /\ selected' \in [Sessions -> Objects \cup {None}]
          /\ selectedNew' \in [Sessions -> BOOLEAN]
      BY <1>0, <2>4, <3>3
    <3>5. phase' \in [Requests -> Phases]
      BY <2>1, <2>4
    <3>6. /\ rendered' \in [Requests -> Items \cup {NoItem}]
          /\ loaded' \in [Requests -> Values \cup {Absent}]
          /\ attached' \in [Requests -> SUBSET Objects]
      BY <2>4, <3>3
    <3>7. UNCHANGED <<store, page, par, tx, work, latest, lister, disturbed, effect>>
      BY <1>2 DEF Refresh
    <3> QED
      BY <3>2, <3>4, <3>5, <3>6, <3>7
  <2>5. CASE /\ phase' = [phase EXCEPT ![r] = "failed"]
             /\ UNCHANGED <<selected, selectedNew, hibernateVars, rendered>>
    BY <1>2, <2>5 DEF Refresh
  <2> QED
    BY <1>2, <2>3, <2>4, <2>5 DEF Refresh
<1>3. CASE NewInstance(r)
  <2>1. NoInstance \in Instance
    BY DEF NoInstance, Instance
  <2> QED
    BY <1>0, <1>3, <2>1, ObjectFacts DEF NewInstance
<1>4. CASE ProcessFields(r)
  <2> DEFINE o == selected[s]
  <2>1. ASSUME o # None PROVE [obj EXCEPT ![o].val = par[r].value] \in [Objects -> Instance]
    <3>1. o \in Objects /\ obj[o] \in Instance /\ par[r] \in Parameters
      BY <1>0, <2>1
    <3>2. [obj[o] EXCEPT !.val = par[r].value] \in Instance
      BY <3>1 DEF Instance, Parameters
    <3> QED
      BY <3>1, <3>2
  <2>2. obj' \in [Objects -> Instance]
    BY <1>4, <2>1 DEF ProcessFields
  <2> QED
    BY <1>4, <2>2 DEF ProcessFields
<1>5. CASE Begin(r)
  <2> HIDE DEF TypeOK
  <2>1. \/ phase' = [phase EXCEPT ![r] = "execute"]
        \/ phase' = [phase EXCEPT ![r] = "failed"]
    BY <1>5 DEF Begin
  <2>2. tx' = tx \/ tx' = [tx EXCEPT ![r] = Opens(par[r].op)]
    BY <1>5 DEF Begin
  <2>3. Opens(par[r].op) \in BOOLEAN
    BY DEF Opens
  <2>4. UNCHANGED <<store, containerVars, hibernateVars, par, work, historyVars>>
    BY <1>5 DEF Begin
  <2> QED
    BY <2>1, <2>2, <2>3, <2>4 DEF TypeOK
<1>6. CASE ExecuteList(r)
  <2>1. PICK l \in Listings :
           /\ page' = [page EXCEPT ![s] = [i \in DOMAIN l |-> <<r, i>>]]
           /\ obj' = [o \in Objects |->
                        IF o[1] = r /\ o[2] \in DOMAIN l
                          THEN [item |-> l[o[2]], val |-> store[l[o[2]]]] ELSE obj[o]]
    BY <1>6 DEF ExecuteList
  <2>2. page' \in [Sessions -> Seq(Requests \X (1..PageSize))]
    BY <1>0, <2>1, ListingType
  <2>3. obj' \in [Objects -> Instance]
    <3>1. \A i \in DOMAIN l : [item |-> l[i], val |-> store[l[i]]] \in Instance
      BY ListingType DEF Instance
    <3> QED
      BY <2>1, <3>1
  <2>4. UNCHANGED <<store, selected, selectedNew, loaded, attached, par, tx, work,
                    rendered, latest, disturbed, effect>>
        /\ phase' = [phase EXCEPT ![r] = "commit"]
        /\ lister' = [lister EXCEPT ![s] = r]
    BY <1>6 DEF ExecuteList
  <2> QED
    BY <1>0, <2>2, <2>3, <2>4
<1>7. CASE ExecuteShow(r) \/ ExecuteFails(r) \/ Finish(r) \/ CommitFails(r)
  BY <1>7 DEF ExecuteShow, ExecuteFails, Finish, CommitFails, Throw
<1>8. CASE ExecuteWrite(r)
  <2> DEFINE o == selected[s]
  <2>1. o \in Objects
    BY <1>0, <1>8 DEF ExecuteWrite
  <2>2. ASSUME NEW kind \in {"none", "insert", "update", "delete"}, Attach(r, kind, o)
        PROVE  work' \in [Requests -> Work] /\ attached' \in [Requests -> SUBSET Objects]
    BY <2>1, <2>2 DEF Attach, Work
  <2>3. \E kind \in {"none", "insert", "update", "delete"} : Attach(r, kind, o)
    BY <1>8 DEF ExecuteWrite
  <2> QED
    BY <1>0, <1>8, <2>2, <2>3 DEF ExecuteWrite
<1>9. CASE Commit(r)
  <2>1. PICK new \in Items :
          /\ store' = [i \in Items |->
                         IF \E w \in Flush(r, new) : w[1] = i
                           THEN (CHOOSE w \in Flush(r, new) : w[1] = i)[2]
                           ELSE store[i]]
          /\ effect' = [effect EXCEPT ![r] = Flush(r, new)]
          /\ obj' = IF work[r].kind = "insert"
                      THEN [obj EXCEPT ![work[r].target].item = new] ELSE obj
    BY <1>9 DEF Commit, WriteRows
  <2>2. Flush(r, new) \subseteq Items \X (Values \cup {Absent})
    BY FlushType
  <2>3. store' \in [Items -> Values \cup {Absent}]
    <3>1. ASSUME NEW i \in Items, \E w \in Flush(r, new) : w[1] = i
          PROVE  (CHOOSE w \in Flush(r, new) : w[1] = i)[2] \in Values \cup {Absent}
      BY <2>2, <3>1
    <3> QED
      BY <2>1, <3>1
  <2>4. effect' \in [Requests -> SUBSET (Items \X (Values \cup {Absent}))]
    BY <2>1, <2>2
  <2>5. obj' \in [Objects -> Instance]
    <3>1. CASE work[r].kind = "insert"
      <4>1. work[r].target \in Objects
        BY <3>1 DEF ObjectInv
      <4>2. [obj[work[r].target] EXCEPT !.item = new] \in Instance
        <5>1. obj[work[r].target] \in Instance
          BY <4>1
        <5> QED
          BY <5>1 DEF Instance
      <4> QED
        BY <2>1, <3>1, <4>1, <4>2
    <3> QED
      BY <2>1, <3>1
  <2>6. /\ UNCHANGED <<containerVars, loaded, attached, par, work,
                        rendered, latest, lister, disturbed>>
        /\ tx' = [tx EXCEPT ![r] = FALSE] /\ phase' = [phase EXCEPT ![r] = "ok"]
    BY <1>9 DEF Commit, WriteRows
  <2> QED
    BY <2>3, <2>4, <2>5, <2>6
<1>10. CASE Rollback(r)
  <2>1. NoWork \in Work
    BY DEF NoWork, Work
  <2> QED
    BY <1>10, <2>1 DEF Rollback
<1> QED
  BY <1>1, <1>2, <1>3, <1>4, <1>5, <1>6, <1>7, <1>8, <1>9, <1>10 DEF Serve

(* Every step keeps ObjectInv: an instance, once it has a row, keeps it.     *)
LEMMA ObjectStep ==
  ASSUME TypeOK, ObjectInv, NEW r \in Requests, Serve(r) PROVE ObjectInv'
<1> DEFINE s == SessionOf[r]
<1>0. s \in Sessions
  BY OperationsAssumption
<1>F. \A q \in Requests : Read(q) \in Objects /\ Made(q) \in Objects
  BY ObjectFacts
<1> USE OperationsAssumption
    DEF ObjectInv, Fresh, Unused, Go, Select, containerVars, hibernateVars, historyVars
<1>1. CASE ConfigureSelected(r)
  <2>1. /\ UNCHANGED <<obj, attached, work, par>>
        /\ \A q \in Requests \ {r} : phase'[q] = phase[q]
        /\ phase[r] = "sent"
    BY <1>1 DEF ConfigureSelected, TypeOK
  <2>2. \A q \in Requests, z \in Sessions :
          selected'[z] \in {Read(q), Made(q)} => selected'[z] = selected[z]
    <3>1. ASSUME par[r].index \in DOMAIN page[s]
          PROVE  RowAt(s, par[r].index) \in Requests \X (1..PageSize)
      <4>1. page[s] \in Seq(Requests \X (1..PageSize))
        BY <1>0 DEF TypeOK
      <4> QED
        BY <3>1, <4>1, LenProperties, ElementOfSeq DEF RowAt
    <3>2. \A q \in Requests : None \notin {Read(q), Made(q)}
      BY <1>F
    <3>3. \/ UNCHANGED selected
          \/ selected' = [selected EXCEPT ![s] = None]
          \/ /\ par[r].index \in DOMAIN page[s]
             /\ selected' = [selected EXCEPT ![s] = RowAt(s, par[r].index)]
      BY <1>1 DEF ConfigureSelected
    <3> QED
      BY <3>1, <3>2, <3>3, ObjectFacts DEF TypeOK
  <2> QED
    BY <2>1, <2>2
<1>2. CASE Refresh(r)
  <2>0. UNCHANGED <<work, par>> /\ \A q \in Requests \ {r} : phase'[q] = phase[q]
    BY <1>2 DEF Refresh, TypeOK
  <2>1. CASE UNCHANGED <<selected, selectedNew, hibernateVars>>
    BY <1>2, <2>0, <2>1, SMTT(30) DEF Refresh
  <2>2. CASE ~UNCHANGED <<selected, selectedNew, hibernateVars>>
    <3> DEFINE item == obj[selected[s]].item
    <3>1. /\ item \in Items
          /\ obj' = [obj EXCEPT ![Read(r)] = [item |-> item, val |-> store[item]]]
          /\ attached' = [attached EXCEPT ![r] = {Read(r)}]
          /\ selected' = [selected EXCEPT ![s] = Read(r)]
      BY <1>2, <2>2 DEF Refresh
    <3>2. /\ obj'[Read(r)].item \in Items
          /\ \A o \in Objects : obj[o].item \in Items => obj'[o].item \in Items
      BY <1>F, <3>1 DEF TypeOK
    <3>3. \A q \in Requests, z \in Sessions :
            selected'[z] \in {Read(q), Made(q)} =>
              selected'[z] = selected[z] \/ selected'[z] = Read(r)
      BY <3>1, ObjectFacts DEF TypeOK
    <3>4. \A q \in Requests : Read(q) \in attached'[q] => q = r \/ Read(q) \in attached[q]
      BY <3>1 DEF TypeOK
    <3>5. phase[r] = "refresh"
      BY <1>2 DEF Refresh
    <3>6. \A q \in Requests : Read(r) = Read(q) => q = r
      BY ObjectFacts
    <3> QED
      <4>1. \A q \in Requests : (Fresh(q))' => (Unused(Made(q)))'
        <5>1. \A q \in Requests : (Fresh(q))' => Fresh(q)
          BY <2>0, <3>5
        <5>2. \A q \in Requests : Made(q) # Read(r)
          BY ObjectFacts
        <5> HIDE DEF Fresh
        <5> QED
          BY <2>0, <3>3, <5>1, <5>2
      <4>2. \A q \in Requests :
              (Read(q) \in attached'[q] \/ \E z \in Sessions : selected'[z] = Read(q))
                => obj'[Read(q)].item \in Items
        BY <1>F, <3>2, <3>3, <3>4, <3>6
      <4>3. \A q \in Requests :
              work'[q].kind # "none" =>
                /\ work'[q].target \in Objects
                /\ work'[q].kind # "insert" => obj'[work'[q].target].item \in Items
        BY <2>0, <3>2
      <4> QED
        BY <4>1, <4>2, <4>3
  <2> QED
    BY <2>1, <2>2
<1>3. CASE NewInstance(r)
  <2>1. /\ obj' = [obj EXCEPT ![Made(r)] = NoInstance]
        /\ selected' = [selected EXCEPT ![s] = Made(r)]
        /\ phase' = [phase EXCEPT ![r] = "ok"]
        /\ UNCHANGED <<attached, par, work>> /\ Fresh(r)
    BY <1>3 DEF NewInstance
  <2>2. \A q \in Requests : work[q].target # Made(r)
    BY <2>1
  <2>3. \A o \in Objects : o # Made(r) => obj'[o] = obj[o]
    BY <2>1 DEF TypeOK
  <2>4. ~(Fresh(r))' /\ \A q \in Requests \ {r} : (Fresh(q))' = Fresh(q)
    BY <2>1 DEF TypeOK
  <2>5. \A q \in Requests, z \in Sessions :
          selected'[z] \in {Read(q), Made(q)} => selected'[z] = selected[z] \/ q = r
    BY <2>1, ObjectFacts DEF TypeOK
  <2> HIDE DEF Fresh
  <2> QED
    BY <1>F, <2>1, <2>2, <2>3, <2>4, <2>5, ObjectFacts
<1>4. CASE ProcessFields(r)
  <2>1. /\ UNCHANGED <<selected, attached, par, work>>
        /\ \A q \in Requests : (Fresh(q))' => Fresh(q)
    BY <1>4 DEF ProcessFields, TypeOK
  <2>2. \A o \in Objects : obj'[o].item = obj[o].item
    <3>1. CASE obj' = obj
      BY <3>1
    <3>2. CASE /\ selected[s] # None
               /\ obj' = [obj EXCEPT ![selected[s]].val = par[r].value]
      <4>1. selected[s] \in Objects
        BY <1>0, <3>2 DEF TypeOK
      <4>2. obj[selected[s]] \in Instance
        BY <4>1 DEF TypeOK
      <4>3. [obj[selected[s]] EXCEPT !.val = par[r].value].item = obj[selected[s]].item
        BY <4>2 DEF Instance
      <4> QED
        BY <3>2, <4>1, <4>3 DEF TypeOK
    <3> QED
      BY <1>4, <3>1, <3>2 DEF ProcessFields
  <2> HIDE DEF Fresh
  <2> QED
    BY <1>F, <2>1, <2>2
<1>5. CASE \/ Begin(r) \/ ExecuteShow(r) \/ ExecuteFails(r) \/ Finish(r) \/ CommitFails(r)
  <2>1. /\ UNCHANGED <<obj, selected, attached, par, work>>
        /\ \A q \in Requests : (Fresh(q))' => Fresh(q)
    BY <1>5 DEF Begin, ExecuteShow, ExecuteFails, Finish, CommitFails, Throw, TypeOK
  <2> HIDE DEF Fresh
  <2> QED
    BY <2>1
<1>6. CASE ExecuteList(r)
  <2>1. PICK l \in Listings :
           obj' = [o \in Objects |->
                     IF o[1] = r /\ o[2] \in DOMAIN l
                       THEN [item |-> l[o[2]], val |-> store[l[o[2]]]] ELSE obj[o]]
    BY <1>6 DEF ExecuteList
  <2>2. \A o \in Objects : obj[o].item \in Items => obj'[o].item \in Items
    BY <2>1, ListingType
  <2>3. /\ UNCHANGED <<selected, attached, par, work>>
        /\ \A q \in Requests : (Fresh(q))' => Fresh(q)
    BY <1>6 DEF ExecuteList, TypeOK
  <2> HIDE DEF Fresh
  <2> QED
    BY <1>F, <2>2, <2>3
<1>7. CASE ExecuteWrite(r)
  <2> DEFINE o == selected[s]
  <2>1. o \in Objects /\ UNCHANGED <<obj, par>>
    BY <1>0, <1>7 DEF ExecuteWrite, TypeOK
  <2>2. PICK kind \in {"none", "insert", "update", "delete"} :
           /\ Attach(r, kind, o)
           /\ kind \in {"update", "delete"} => obj[o].item # NoItem
    BY <1>7 DEF ExecuteWrite
  <2>3. kind \in {"update", "delete"} => obj[o].item \in Items
    BY <2>1, <2>2 DEF TypeOK, Instance
  <2>4. /\ work' = [work EXCEPT ![r] = [kind |-> kind, target |-> o]]
        /\ attached' = [attached EXCEPT ![r] = attached[r] \cup {o}]
    BY <2>2 DEF Attach
  <2>5. \A q \in Requests : (Fresh(q))' => Fresh(q)
    BY <1>7 DEF ExecuteWrite, TypeOK
  <2>6. \A z \in Sessions : selected'[z] \in {selected[z], None}
    BY <1>7 DEF ExecuteWrite, TypeOK
  <2>7. \A q \in Requests : None \notin {Read(q), Made(q)}
    BY <1>F
  <2>8. \A q \in Requests : Read(q) \in attached'[q] => Read(q) \in attached[q] \/ Read(q) = o
    BY <2>1, <2>4 DEF TypeOK
  <2>9. ~Fresh(r)
    BY <1>7 DEF ExecuteWrite
  <2>10. \A q \in Requests : Fresh(q) => o # Made(q)
    BY <1>0
  <2>11. \A q \in Requests :
           work'[q] = work[q] \/ (q = r /\ work'[q] = [kind |-> kind, target |-> o])
    BY <2>4 DEF TypeOK
  <2>12. \A q \in Requests :
           work'[q].kind # "none" =>
             /\ work'[q].target \in Objects
             /\ work'[q].kind # "insert" => obj'[work'[q].target].item \in Items
    BY <2>1, <2>3, <2>11
  <2>13. \A q \in Requests :
           (Read(q) \in attached'[q] \/ \E z \in Sessions : selected'[z] = Read(q))
             => obj'[Read(q)].item \in Items
    BY <1>0, <2>1, <2>6, <2>7, <2>8
  <2>14. \A q \in Requests : (Fresh(q))' => (Unused(Made(q)))'
    BY <2>5, <2>6, <2>7, <2>10, <2>11
  <2> QED
    BY <2>12, <2>13, <2>14
<1>8. CASE Commit(r)
  <2>1. PICK new \in Items :
          obj' = IF work[r].kind = "insert"
                   THEN [obj EXCEPT ![work[r].target].item = new] ELSE obj
    BY <1>8 DEF Commit, WriteRows
  <2>2. \A o \in Objects : obj[o].item \in Items => obj'[o].item \in Items
    <3>1. CASE work[r].kind = "insert"
      <4>1. work[r].target \in Objects /\ obj[work[r].target] \in Instance
        BY <3>1 DEF TypeOK
      <4>2. [obj[work[r].target] EXCEPT !.item = new].item = new
        BY <4>1 DEF Instance
      <4> QED
        BY <2>1, <3>1, <4>1, <4>2 DEF TypeOK
    <3> QED
      BY <2>1, <3>1
  <2>3. /\ UNCHANGED <<selected, attached, par, work>>
        /\ \A q \in Requests : (Fresh(q))' => Fresh(q)
    BY <1>8 DEF Commit, WriteRows, TypeOK
  <2> HIDE DEF Fresh
  <2> QED
    BY <1>F, <2>2, <2>3
<1>9. CASE Rollback(r)
  <2>1. /\ UNCHANGED <<obj, selected, par>>
        /\ work' = [work EXCEPT ![r] = NoWork] /\ attached' = [attached EXCEPT ![r] = {}]
        /\ \A q \in Requests : (Fresh(q))' => Fresh(q)
    BY <1>9 DEF Rollback, TypeOK
  <2>2. /\ NoWork.kind = "none" /\ \A q \in Requests : NoWork.target # Made(q)
    BY <1>F DEF NoWork
  <2> HIDE DEF Fresh
  <2> QED
    BY <2>1, <2>2 DEF TypeOK
<1> QED
  BY <1>1, <1>2, <1>3, <1>4, <1>5, <1>6, <1>7, <1>8, <1>9 DEF Serve

StoreInv == TypeOK /\ ObjectInv

(* The types and ObjectInv hold at first and every step keeps them.         *)
LEMMA StoreAlways == Spec => []StoreInv
<1>1. Init => StoreInv
  <2> SUFFICES ASSUME Init PROVE StoreInv
    OBVIOUS
  <2>1. NoInstance \in Instance /\ NoPar \in Parameters /\ NoWork \in Work
    BY DEF NoInstance, Instance, NoPar, Parameters, Operators, NoWork, Work
  <2>2. TypeOK
    BY <2>1 DEF Init, TypeOK, Phases
  <2>3. ObjectInv
    <3>1. \A q \in Requests : None \notin {Read(q), Made(q)}
      BY ObjectFacts, OperationsAssumption
    <3> QED
      BY <3>1 DEF Init, ObjectInv, Unused, NoWork
  <2> QED
    BY <2>2, <2>3 DEF StoreInv
<1>2. StoreInv /\ [Next]_vars => StoreInv'
  <2> SUFFICES ASSUME StoreInv, [Next]_vars PROVE StoreInv'
    OBVIOUS
  <2>1. TypeOK /\ ObjectInv
    BY DEF StoreInv
  <2>2. ASSUME NEW r \in Requests, SendPlain(r) \/ SendRow(r) \/ SendForm(r)
        PROVE  StoreInv'
    <3>1. \E p : Send(r, p)
      BY <2>2 DEF SendPlain, SendRow, SendForm
    <3>2. /\ phase[r] = "free" /\ UNCHANGED <<selected, obj, attached, work>>
          /\ \A q \in Requests \ {r} : phase'[q] = phase[q] /\ par'[q] = par[q]
      BY <2>1, <3>1 DEF Send, Go, TypeOK, containerVars, hibernateVars
    <3>3. \A q \in Requests : (Fresh(q))' => Fresh(q)
      BY <3>2 DEF Fresh
    <3>4. ObjectInv'
      BY <2>1, <3>2, <3>3 DEF ObjectInv, Unused
    <3> QED
      BY <2>1, <2>2, <3>4, SendStep DEF StoreInv
  <2>3. ASSUME NEW r \in Requests, Serve(r) PROVE StoreInv'
    BY <2>1, <2>3, ServeStep, ObjectStep DEF StoreInv
  <2>4. CASE UNCHANGED vars
    BY <2>1, <2>4 DEF StoreInv, TypeOK, ObjectInv, Unused, Fresh, vars,
       containerVars, hibernateVars, historyVars
  <2> QED
    BY <2>2, <2>3, <2>4 DEF Next
<1> QED
  BY <1>1, <1>2, PTL DEF Spec

(* Every variable keeps its type, whatever the requests do to each other.   *)
THEOREM TypeCorrect == Spec => []TypeOK
<1>1. StoreInv => TypeOK
  BY DEF StoreInv
<1> QED
  BY <1>1, StoreAlways, PTL

(* No path of a request leaves its transaction open behind it.             *)
THEOREM TransactionsEnd == Spec => []NoDanglingTransaction
<1>1. Init => NoDanglingTransaction
  BY DEF Init, NoDanglingTransaction
<1>2. StoreInv /\ NoDanglingTransaction /\ [Next]_vars => NoDanglingTransaction'
  <2> SUFFICES ASSUME StoreInv, NoDanglingTransaction, [Next]_vars,
                      NEW q \in Requests, tx'[q]
               PROVE  phase'[q] \in {"execute", "commit", "rollback"}
    BY DEF NoDanglingTransaction
  <2>1. /\ tx \in [Requests -> BOOLEAN] /\ phase \in [Requests -> Phases]
        /\ tx[q] => phase[q] \in {"execute", "commit", "rollback"}
    BY DEF StoreInv, TypeOK, NoDanglingTransaction
  <2> USE DEF Go
  <2>2. ASSUME NEW r \in Requests, SendPlain(r) \/ SendRow(r) \/ SendForm(r)
        PROVE  phase'[q] \in {"execute", "commit", "rollback"}
    <3>1. \E p : Send(r, p)
      BY <2>2 DEF SendPlain, SendRow, SendForm
    <3> QED
      BY <2>1, <3>1 DEF Send
  <2>3. ASSUME NEW r \in Requests,
               \/ ConfigureSelected(r) \/ Refresh(r) \/ NewInstance(r) \/ ProcessFields(r)
        PROVE  phase'[q] \in {"execute", "commit", "rollback"}
    BY <2>1, <2>3 DEF ConfigureSelected, Refresh, NewInstance, ProcessFields
  <2>4. ASSUME NEW r \in Requests,
               \/ Begin(r) \/ ExecuteList(r) \/ ExecuteShow(r) \/ ExecuteWrite(r)
               \/ ExecuteFails(r)
        PROVE  phase'[q] \in {"execute", "commit", "rollback"}
    BY <2>1, <2>4 DEF Begin, ExecuteList, ExecuteShow, ExecuteWrite, ExecuteFails, Throw
  <2>5. ASSUME NEW r \in Requests, Commit(r) \/ Finish(r) \/ CommitFails(r) \/ Rollback(r)
        PROVE  phase'[q] \in {"execute", "commit", "rollback"}
    BY <2>1, <2>5 DEF Commit, Finish, CommitFails, Rollback, Throw
  <2>6. CASE UNCHANGED vars
    BY <2>1, <2>6 DEF vars
  <2> QED
    BY <2>2, <2>3, <2>4, <2>5, <2>6 DEF Next, Serve
<1> QED
  BY <1>1, <1>2, StoreAlways, PTL DEF Spec

----------------------------------------------------------------------------
(* The refinement of UnitOfWork.                                           *)

Outcome == [r \in Requests |->
              IF phase[r] \in {"ok", "failed"} THEN phase[r] ELSE "open"]

(* A step moves one request on, and writes rows only when it ends well.     *)
LEMMA OneMoves ==
  ASSUME StoreInv, Next
  PROVE  \E r \in Requests : \E to \in Phases :
           /\ phase[r] \notin {"ok", "failed"}
           /\ phase' = [phase EXCEPT ![r] = to]
           /\ store' = store \/ to = "ok"
<1> USE DEF Go, Phases
<1>1. ASSUME NEW r \in Requests, SendPlain(r) \/ SendRow(r) \/ SendForm(r)
      PROVE  phase[r] = "free" /\ phase' = [phase EXCEPT ![r] = "sent"] /\ store' = store
  BY <1>1 DEF SendPlain, SendRow, SendForm, Send
<1>2. ASSUME NEW r \in Requests, ConfigureSelected(r) \/ ProcessFields(r) \/ Begin(r)
      PROVE  \E to \in Phases : /\ phase[r] \notin {"ok", "failed"} /\ store' = store
                               /\ phase' = [phase EXCEPT ![r] = to]
  BY <1>2 DEF ConfigureSelected, ProcessFields, Begin
<1>3. ASSUME NEW r \in Requests, Refresh(r)
      PROVE  \E to \in Phases : /\ phase[r] \notin {"ok", "failed"} /\ store' = store
                               /\ phase' = [phase EXCEPT ![r] = to]
  <2>1. \A op, sel : AfterRefresh(op, sel) \in Phases
    BY DEF AfterRefresh
  <2>2. "failed" \in Phases
    OBVIOUS
  <2> HIDE DEF Phases
  <2>3. phase[r] = "refresh" /\ store' = store
    BY <1>3 DEF Refresh
  <2>4. \/ phase' = [phase EXCEPT ![r] = "failed"]
        \/ \E op, sel : phase' = [phase EXCEPT ![r] = AfterRefresh(op, sel)]
    BY <1>3 DEF Refresh
  <2> QED
    BY <2>1, <2>2, <2>3, <2>4
<1>4. ASSUME NEW r \in Requests,
             \/ NewInstance(r) \/ ExecuteList(r) \/ ExecuteShow(r) \/ ExecuteWrite(r)
             \/ ExecuteFails(r) \/ Finish(r) \/ CommitFails(r) \/ Rollback(r)
      PROVE  \E to \in Phases : /\ phase[r] \notin {"ok", "failed"} /\ store' = store
                               /\ phase' = [phase EXCEPT ![r] = to]
  BY <1>4 DEF NewInstance, ExecuteList, ExecuteShow, ExecuteWrite, ExecuteFails,
     Finish, CommitFails, Rollback, Throw
<1>5. ASSUME NEW r \in Requests, Commit(r)
      PROVE  phase[r] = "commit" /\ phase' = [phase EXCEPT ![r] = "ok"]
  BY <1>5 DEF Commit
<1> QED
  BY <1>1, <1>2, <1>3, <1>4, <1>5 DEF Next, Serve

(* Whatever the other requests do, a request ends once, and one that fails  *)
(* has written nothing.                                                    *)
THEOREM RequestsAreUnits == Spec => UnitSpec
<1>1. Init => Unit!Init
  <2> SUFFICES ASSUME Init PROVE Unit!Init
    OBVIOUS
  <2>1. store \in Unit!Rows
    BY DEF Init, Unit!Rows
  <2>2. Outcome = [r \in Requests |-> "open"]
    BY DEF Init, Outcome
  <2> QED
    BY <2>1, <2>2 DEF Unit!Init, Outcome
<1>2. StoreInv /\ StoreInv' /\ [Next]_vars => [Unit!Next]_(Unit!vars)
  <2> SUFFICES ASSUME StoreInv, StoreInv', [Next]_vars
               PROVE  [Unit!Next]_(Unit!vars)
    OBVIOUS
  <2>1. phase \in [Requests -> Phases] /\ store' \in Unit!Rows
    BY DEF StoreInv, TypeOK, Unit!Rows
  <2>2. CASE UNCHANGED vars
    <3>1. phase' = phase /\ store' = store
      BY <2>2 DEF vars
    <3>2. Outcome' = Outcome
      BY <3>1 DEF Outcome
    <3> QED
      BY <3>1, <3>2 DEF Unit!vars, Outcome
  <2>3. CASE Next
    <3>1. PICK r \in Requests, to \in Phases :
            /\ phase[r] \notin {"ok", "failed"}
            /\ phase' = [phase EXCEPT ![r] = to]
            /\ store' = store \/ to = "ok"
      BY <2>3, OneMoves
    <3>2. CASE to \notin {"ok", "failed"}
      <4>1. Outcome' = Outcome
        BY <2>1, <3>1, <3>2 DEF Outcome
      <4> QED
        BY <3>1, <3>2, <4>1 DEF Unit!vars, Outcome
    <3>3. CASE to \in {"ok", "failed"}
      <4>1. Outcome' = [Outcome EXCEPT ![r] = to] /\ Outcome[r] = "open"
        BY <2>1, <3>1, <3>3 DEF Outcome
      <4>2. CASE to = "ok"
        <5>1. Unit!Succeed(r)
          BY <2>1, <4>1, <4>2 DEF Unit!Succeed, Outcome
        <5> QED
          BY <5>1 DEF Unit!Next
      <4>3. CASE to = "failed"
        <5>1. Unit!Fail(r)
          BY <3>1, <4>1, <4>3 DEF Unit!Fail, Outcome
        <5> QED
          BY <5>1 DEF Unit!Next
      <4> QED
        BY <3>3, <4>2, <4>3
    <3> QED
      BY <3>2, <3>3
  <2> QED
    BY <2>2, <2>3
<1> QED
  BY <1>1, <1>2, StoreAlways, PTL DEF Spec, UnitSpec, Unit!Spec

----------------------------------------------------------------------------
(* A request writes what was shown.  The state of a session is apart from   *)
(* that of the others; within it an undisturbed request runs alone, so that *)
(* what its page showed, what is selected when it starts, the instance it   *)
(* reads and the rows it writes can be followed from step to step.          *)

(* The requests of a session and their instances.                           *)
Of(s) == {r \in Requests : SessionOf[r] = s}
InstancesOf(s) == {o \in Objects : SessionOf[o[1]] = s}
(* A request that runs and has the session to itself; one past its work.     *)
Quiet(r) == Running(r) /\ ~disturbed[r]
Done(r) == phase[r] \in {"commit", "rollback", "ok", "failed"}

(* The container of a session has instances of its own requests only, and   *)
(* the rows of its page are those of the request that listed it.            *)
OwnInv(s) ==
  /\ selected[s] \in InstancesOf(s) \cup {None}
  /\ latest[s] \in Of(s) \cup {None}
  /\ lister[s] # None => lister[s] \in Of(s) /\ Done(lister[s])
  /\ \A i \in DOMAIN page[s] : lister[s] # None /\ page[s][i] = <<lister[s], i>>
  /\ \A r \in Of(s) : work[r].target \in InstancesOf(s) \cup {None}

(* What a request has done by each phase: the session is empty until the    *)
(* refresh, the work comes with the execution, in the transaction of the     *)
(* operations that open one, and its rows with its end.                     *)
StageInv(r) ==
  /\ phase[r] \in {"free", "sent", "refresh"} => attached[r] = {}
  /\ phase[r] \in {"free", "sent", "refresh", "prepare", "begin", "execute"} => work[r] = NoWork
  /\ phase[r] = "prepare" => par[r].op \in FormOps \cup {"addForm"}
  /\ phase[r] \in {"begin", "execute", "commit"} => par[r].op # "addForm"
  /\ phase[r] \in {"execute", "commit"} => (tx[r] <=> Opens(par[r].op))
  /\ tx[r] => Opens(par[r].op) /\ phase[r] # "free"
  /\ effect[r] # {} => phase[r] = "ok" /\ Opens(par[r].op)

(* Undisturbed means alone.                                                *)
AloneInv(r) == Quiet(r) => \A q \in Peers(r) : ~Running(q)

(* What the last page with a selection shows is still selected, as long as   *)
(* that page was built undisturbed: only lists have run since.              *)
LatestInv(s) ==
  LET b == latest[s]
      o == selected[s]
  IN
  b # None /\ phase[b] = "ok" /\ ~disturbed[b] =>
    /\ \A q \in Of(s) : Running(q) => par[q].op = "list"
    /\ par[b].op \in {"show", "editForm"} =>
         /\ o # None /\ o[2] = 0
         /\ ~selectedNew[s]
         /\ obj[o].item = rendered[b]
    /\ par[b].op = "addForm" => o = Made(b) /\ selectedNew[s]

(* A row of a page was saved as a new one.                                  *)
Saved(s, o) == \E q \in Of(s) : phase[q] = "ok" /\ work[q] = [kind |-> "insert", target |-> o]

(* What a request on its way knows stays true: the row its index shows, until *)
(* the page is replaced or that row is saved as another one, and the request *)
(* whose page it answers.                                                  *)
SentInv(r) ==
  LET s == SessionOf[r]
      i == par[r].index
      b == par[r].basis
  IN
  phase[r] = "sent" =>
    /\ i > 0 =>
         /\ par[r].op \in RowOps
         /\ b \in Of(s) /\ Done(b)
         /\ lister[s] = b =>
              /\ i \in DOMAIN page[s]
              /\ Saved(s, page[s][i]) \/ obj[page[s][i]].item = par[r].item
    /\ i = 0 /\ par[r].op \notin {"list", "addForm"} =>
         /\ par[r].op \in RowOps \cup FormOps
         /\ b \in Peers(r) /\ phase[b] = "ok"
         /\ par[b].op \in FormOf(par[r].op)
         /\ par[r].item = rendered[b]

(* A request on an instance that exists has the one it was sent for,        *)
(* selected and read by itself, and then its work is about that row alone.   *)
OnShown(r) ==
  LET s == SessionOf[r]
      o == selected[s]
      op == par[r].op
  IN
  /\ phase[r] = "refresh" =>
       o # None /\ ~selectedNew[s] /\ obj[o].item = par[r].item
  /\ phase[r] \in {"prepare", "begin", "execute", "commit"} =>
       obj[Read(r)].item = par[r].item
  /\ \/ phase[r] \in {"prepare", "begin", "execute"}
     \/ phase[r] = "commit" /\ op # "delete"
     =>
       /\ o = Read(r) /\ ~selectedNew[s]
       /\ Read(r) \in attached[r]
       /\ rendered[r] = par[r].item
       /\ work[r].kind = "none"
  /\ op = "delete" /\ phase[r] = "commit" => work[r] = [kind |-> "delete", target |-> Read(r)]
  /\ op = "edit" /\ phase[r] \in {"begin", "execute", "commit"} => obj[Read(r)].val = par[r].value

(* An add has the instance which its form made, and nothing else.           *)
OnMade(r) ==
  LET s == SessionOf[r]
      o == Made(par[r].basis)
  IN
  /\ par[r].basis \in Peers(r)
  /\ phase[r] \in {"refresh", "prepare", "begin", "execute"} =>
       selected[s] = o /\ selectedNew[s] /\ attached[r] = {}
  /\ phase[r] \in {"begin", "execute", "commit"} => obj[o].val = par[r].value
  /\ phase[r] = "commit" =>
       attached[r] = {o} /\ work[r] = [kind |-> "insert", target |-> o]

WorkInv(r) ==
  Quiet(r) =>
    /\ par[r].op \in {"show", "editForm", "delete", "edit"} => OnShown(r)
    /\ par[r].op = "add" => OnMade(r)

WrittenInv(r) == phase[r] = "ok" /\ ~disturbed[r] => Written(r)

WriteInv ==
  /\ \A s \in Sessions : OwnInv(s) /\ LatestInv(s)
  /\ \A r \in Requests : /\ StageInv(r) /\ AloneInv(r) /\ SentInv(r)
                         /\ WorkInv(r) /\ WrittenInv(r)

(* A step of a request leaves the other requests and the other sessions     *)
(* alone, but that a request of its session that runs may be disturbed.     *)
LEMMA Frame ==
  ASSUME StoreInv, \A s \in Sessions : OwnInv(s), NEW q \in Requests, Serve(q)
  PROVE  /\ par' = par
         /\ \A r \in Requests \ {q} :
              /\ phase'[r] = phase[r] /\ tx'[r] = tx[r] /\ work'[r] = work[r]
              /\ attached'[r] = attached[r] /\ rendered'[r] = rendered[r]
              /\ effect'[r] = effect[r]
         /\ \A s \in Sessions \ {SessionOf[q]} :
              /\ selected'[s] = selected[s] /\ selectedNew'[s] = selectedNew[s]
              /\ page'[s] = page[s] /\ latest'[s] = latest[s] /\ lister'[s] = lister[s]
         /\ \A o \in Objects : SessionOf[o[1]] # SessionOf[q] => obj'[o] = obj[o]
         /\ \A r \in Requests : disturbed[r] => disturbed'[r]
         /\ \A r \in Requests : disturbed'[r] /\ ~disturbed[r] =>
              /\ phase[q] = "sent" /\ SessionOf[r] = SessionOf[q]
              /\ r = q \/ Running(r)
<1> DEFINE s == SessionOf[q]
<1>0. s \in Sessions /\ TypeOK /\ ObjectInv
  BY OperationsAssumption DEF StoreInv
<1>Q. Read(q) \in Objects /\ Made(q) \in Objects /\ Read(q)[1] = q /\ Made(q)[1] = q
  BY ObjectFacts DEF Read, Made
<1>O. OwnInv(s)
  BY <1>0
<1> USE DEF TypeOK, Go, Select, containerVars, hibernateVars, historyVars
<1> HIDE DEF s
<1>1. CASE ConfigureSelected(q)
  <2>1. /\ UNCHANGED <<store, page, hibernateVars, par, tx, work, rendered, lister, effect>>
        /\ phase[q] = "sent" /\ \A r \in Requests \ {q} : phase'[r] = phase[r]
    BY <1>0, <1>1 DEF ConfigureSelected
  <2>2. \A z \in Sessions \ {s} : /\ selected'[z] = selected[z] /\ latest'[z] = latest[z]
                                  /\ selectedNew'[z] = selectedNew[z]
    BY <1>0, <1>1 DEF ConfigureSelected, s
  <2>3. \A r \in Requests :
          disturbed'[r] <=> \/ disturbed[r]
                            \/ r \in {p \in Peers(q) : Running(p)}
                            \/ r = q /\ ({p \in Peers(q) : Running(p)} # {} \/ Stale(q))
    <3> HIDE DEF TypeOK
    <3> QED
      BY <1>1 DEF ConfigureSelected, Disturb
  <2>4. \A r \in Peers(q) : SessionOf[r] = SessionOf[q]
    BY DEF Peers
  <2> QED
    BY <2>1, <2>2, <2>3, <2>4 DEF s
<1>2. CASE Refresh(q)
  BY <1>0, <1>Q, <1>2 DEF Refresh, s
<1>3. CASE NewInstance(q)
  BY <1>0, <1>Q, <1>3 DEF NewInstance, s
<1>4. CASE ProcessFields(q)
  <2>1. selected[s] # None => selected[s] \in Objects /\ SessionOf[selected[s][1]] = s
    BY <1>O DEF OwnInv, InstancesOf
  <2> QED
    BY <1>0, <1>4, <2>1 DEF ProcessFields, s
<1>5. CASE Begin(q) \/ ExecuteShow(q) \/ ExecuteFails(q) \/ Finish(q) \/ CommitFails(q)
  BY <1>0, <1>5 DEF Begin, ExecuteShow, ExecuteFails, Finish, CommitFails, Throw, s
<1>6. CASE ExecuteList(q)
  BY <1>0, <1>6 DEF ExecuteList, s
<1>7. CASE ExecuteWrite(q)
  BY <1>0, <1>7 DEF ExecuteWrite, Attach, s
<1>8. CASE Commit(q)
  <2>1. work[q].kind = "insert" => work[q].target \in Objects /\ SessionOf[work[q].target[1]] = s
    <3> HIDE DEF TypeOK
    <3>1. work[q].target \in InstancesOf(s) \cup {None}
      BY <1>O DEF OwnInv, Of, s
    <3> QED
      BY <1>0, <3>1, OperationsAssumption DEF InstancesOf, ObjectInv
  <2>2. \A o \in Objects : SessionOf[o[1]] # s => obj'[o] = obj[o]
    BY <1>0, <1>8, <2>1 DEF Commit, WriteRows
  <2> QED
    BY <1>0, <1>8, <2>2 DEF Commit, WriteRows, s
<1>9. CASE Rollback(q)
  BY <1>0, <1>9 DEF Rollback, s
<1> QED
  BY <1>1, <1>2, <1>3, <1>4, <1>5, <1>6, <1>7, <1>8, <1>9 DEF Serve

(* What holds of a session is about its own part of the state.              *)
LEMMA SameSession ==
  ASSUME StoreInv, WriteInv, NEW s \in Sessions,
         selected'[s] = selected[s], selectedNew'[s] = selectedNew[s],
         page'[s] = page[s], latest'[s] = latest[s], lister'[s] = lister[s],
         \A o \in InstancesOf(s) : obj'[o] = obj[o],
         \A r \in Of(s) :
           /\ phase'[r] = phase[r] /\ par'[r] = par[r] /\ tx'[r] = tx[r]
           /\ work'[r] = work[r] /\ attached'[r] = attached[r]
           /\ rendered'[r] = rendered[r] /\ effect'[r] = effect[r]
           /\ disturbed'[r] <=> disturbed[r]
  PROVE  /\ OwnInv(s)' /\ LatestInv(s)'
         /\ \A r \in Of(s) : /\ StageInv(r)' /\ AloneInv(r)' /\ SentInv(r)'
                             /\ WorkInv(r)' /\ WrittenInv(r)'
<1>0. TypeOK /\ OwnInv(s) /\ LatestInv(s)
  BY DEF StoreInv, WriteInv
<1>Of. \A r : r \in Of(s) <=> r \in Requests /\ SessionOf[r] = s
  BY DEF Of
<1>P. \A r \in Of(s) : \A p \in Peers(r) : p \in Of(s)
  BY DEF Of, Peers
<1>S. selected[s] # None => selected[s] \in InstancesOf(s)
  BY <1>0 DEF OwnInv
<1>I. \A i \in DOMAIN page[s] : page[s][i] \in InstancesOf(s)
  <2> SUFFICES ASSUME NEW i \in DOMAIN page[s] PROVE page[s][i] \in InstancesOf(s)
    OBVIOUS
  <2>1. page[s] \in Seq(Requests \X (1..PageSize))
    BY <1>0 DEF TypeOK
  <2>2. page[s][i] \in Requests \X (1..PageSize)
    BY <2>1, LenProperties, ElementOfSeq
  <2>3. lister[s] \in Of(s) /\ page[s][i] = <<lister[s], i>>
    BY <1>0 DEF OwnInv
  <2> QED
    BY <2>2, <2>3, ObjectFacts DEF InstancesOf, Of
<1>1. OwnInv(s)'
  BY <1>0 DEF OwnInv, Of, InstancesOf, Done
<1>2. LatestInv(s)'
  <2>1. latest[s] # None => latest[s] \in Of(s)
    BY <1>0 DEF OwnInv
  <2> QED
    BY <1>0, <1>S, <2>1 DEF LatestInv, Running, Of
<1>3. ASSUME NEW r \in Of(s) PROVE StageInv(r)' /\ AloneInv(r)' /\ WrittenInv(r)'
  <2>1. r \in Requests /\ StageInv(r) /\ AloneInv(r) /\ WrittenInv(r)
    BY <1>3 DEF WriteInv, Of
  <2>2. StageInv(r)'
    BY <1>3, <2>1 DEF StageInv
  <2>3. AloneInv(r)'
    BY <1>3, <1>P, <2>1 DEF AloneInv, Quiet, Running, Peers
  <2>4. WrittenInv(r)'
    BY <1>3, <2>1 DEF WrittenInv, Written
  <2> QED
    BY <2>2, <2>3, <2>4
<1>4. ASSUME NEW r \in Of(s) PROVE SentInv(r)'
  <2>1. r \in Requests /\ SessionOf[r] = s /\ SentInv(r)
    BY <1>3 DEF WriteInv, Of
  <2>2. \A o : (\E q \in Of(s) : /\ phase'[q] = "ok"
                              /\ work'[q] = [kind |-> "insert", target |-> o])
                <=> Saved(s, o)
    BY DEF Saved
  <2>3. lister[s] # None => lister[s] \in Of(s)
    BY <1>0 DEF OwnInv
  <2> DEFINE b == par[r].basis
             i == par[r].index
  <2>4. SUFFICES ASSUME phase[r] = "sent" PROVE SentInv(r)'
    BY <1>4 DEF SentInv
  <2>5. ASSUME i > 0
        PROVE  /\ par[r].op \in RowOps
               /\ b \in Of(s) /\ Done(b)'
               /\ lister'[s] = b =>
                    /\ i \in DOMAIN page'[s]
                    /\ Saved(s, page[s][i])' \/ obj'[page'[s][i]].item = par[r].item
    <3>1. b \in Of(s) /\ Done(b)
      BY <2>1, <2>4, <2>5 DEF SentInv
    <3> QED
      BY <1>I, <2>1, <2>2, <2>3, <2>4, <2>5, <3>1 DEF SentInv, Saved, Done
  <2>6. ASSUME i = 0, par[r].op \notin {"list", "addForm"}
        PROVE  /\ par[r].op \in RowOps \cup FormOps
               /\ b \in Peers(r) /\ phase'[b] = "ok"
               /\ par'[b].op \in FormOf(par[r].op)
               /\ par[r].item = rendered'[b]
    BY <1>P, <1>4, <2>1, <2>4, <2>6 DEF SentInv
  <2> QED
    BY <1>4, <2>1, <2>5, <2>6 DEF SentInv
<1>5. ASSUME NEW r \in Of(s) PROVE WorkInv(r)'
  <2>1. r \in Requests /\ SessionOf[r] = s /\ WorkInv(r)
    BY <1>3 DEF WriteInv, Of
  <2>2. Read(r) \in InstancesOf(s)
    BY <2>1, ObjectFacts DEF InstancesOf, Read
  <2>3. Quiet(r)' <=> Quiet(r)
    BY <1>5 DEF Quiet, Running
  <2>4. OnShown(r) => OnShown(r)'
    BY <1>5, <1>S, <2>1, <2>2 DEF OnShown, Read
  <2>5. OnMade(r) => OnMade(r)'
    <3>1. par[r].basis \in Peers(r) => Made(par[r].basis) \in InstancesOf(s)
      BY <1>P, <1>5, <1>Of, ObjectFacts DEF InstancesOf, Made
    <3> QED
      BY <1>5, <2>1, <3>1 DEF OnMade
  <2> QED
    BY <1>5, <2>1, <2>3, <2>4, <2>5 DEF WorkInv
<1> QED
  BY <1>1, <1>2, <1>3, <1>4, <1>5

(* A served request goes on: the phases have an order.                     *)
LEMMA Onward ==
  ASSUME StoreInv, NEW q \in Requests, Serve(q)
  PROVE  \/ phase[q] = "sent" /\ phase'[q] \in {"refresh", "failed"}
         \/ phase[q] = "refresh" /\ phase'[q] \in {"prepare", "begin", "ok", "failed"}
         \/ phase[q] = "prepare" /\ phase'[q] \in {"begin", "ok", "failed"}
         \/ phase[q] = "begin" /\ phase'[q] \in {"execute", "failed"}
         \/ phase[q] = "execute" /\ phase'[q] \in {"commit", "rollback", "failed"}
         \/ phase[q] = "commit" /\ phase'[q] \in {"ok", "rollback", "failed"}
         \/ phase[q] = "rollback" /\ phase'[q] = "failed"
<1>0. phase \in [Requests -> Phases]
  BY DEF StoreInv, TypeOK
<1> USE <1>0 DEF Go
<1>1. CASE ConfigureSelected(q)
  BY <1>1 DEF ConfigureSelected
<1>2. CASE Refresh(q)
  <2>1. \A op, o : AfterRefresh(op, o) \in {"prepare", "begin", "ok", "failed"}
    BY DEF AfterRefresh
  <2>2. \/ phase' = [phase EXCEPT ![q] = "failed"]
        \/ \E op, o : phase' = [phase EXCEPT ![q] = AfterRefresh(op, o)]
    BY <1>2 DEF Refresh
  <2>3. phase[q] = "refresh"
    BY <1>2 DEF Refresh
  <2> QED
    BY <2>1, <2>2, <2>3
<1>3. CASE NewInstance(q) \/ ProcessFields(q) \/ Begin(q)
  BY <1>3 DEF NewInstance, ProcessFields, Begin
<1>4. CASE ExecuteList(q) \/ ExecuteShow(q) \/ ExecuteWrite(q) \/ ExecuteFails(q)
  BY <1>4 DEF ExecuteList, ExecuteShow, ExecuteWrite, ExecuteFails, Throw
<1>5. CASE Commit(q) \/ Finish(q) \/ CommitFails(q) \/ Rollback(q)
  BY <1>5 DEF Commit, Finish, CommitFails, Rollback, Throw
<1> QED
  BY <1>1, <1>2, <1>3, <1>4, <1>5 DEF Serve

(* The rows of a page are instances of the request that listed it.          *)
LEMMA PageFacts ==
  ASSUME StoreInv, NEW s \in Sessions, OwnInv(s), NEW i \in DOMAIN page[s]
  PROVE  /\ page[s][i] = <<lister[s], i>> /\ page[s][i] \in InstancesOf(s)
         /\ i \in 1..PageSize /\ i > 0 /\ lister[s] \in Of(s)
<1>1. page[s] \in Seq(Requests \X (1..PageSize))
  BY DEF StoreInv, TypeOK
<1>2. page[s][i] \in Requests \X (1..PageSize)
  BY <1>1, LenProperties, ElementOfSeq
<1>3. lister[s] \in Of(s) /\ page[s][i] = <<lister[s], i>>
  BY DEF OwnInv
<1>4. page[s][i] \in InstancesOf(s)
  BY <1>2, <1>3, ObjectFacts DEF InstancesOf, Of
<1>5. i \in 1..PageSize
  BY <1>2, <1>3
<1> QED
  BY <1>3, <1>4, <1>5, OperationsAssumption

(* The container of a session holds instances of its requests.              *)
LEMMA OwnStep ==
  ASSUME StoreInv, WriteInv, NEW q \in Requests, Serve(q)
  PROVE  OwnInv(SessionOf[q])'
<1> DEFINE s == SessionOf[q]
<1>0. s \in Sessions /\ TypeOK /\ OwnInv(s)
  BY OperationsAssumption DEF StoreInv, WriteInv
<1>1. q \in Of(s) /\ Read(q) \in InstancesOf(s) /\ Made(q) \in InstancesOf(s)
  BY ObjectFacts DEF Of, InstancesOf, Read, Made
<1>2. \A r \in Requests : Done(r) => Done(r)'
  <2>1. \A r \in Requests \ {q} : phase'[r] = phase[r]
    BY Frame DEF WriteInv
  <2>2. Done(q) => Done(q)'
    BY Onward DEF Done
  <2> QED
    BY <2>1, <2>2 DEF Done
<1>3. \A i \in DOMAIN page[s] : page[s][i] \in InstancesOf(s)
  BY <1>0, PageFacts
<1> SUFFICES /\ selected'[s] \in InstancesOf(s) \cup {None}
             /\ latest'[s] \in Of(s) \cup {None}
             /\ lister'[s] # None =>
                  /\ lister'[s] \in Of(s)
                  /\ phase'[lister'[s]] \in {"commit", "rollback", "ok", "failed"}
             /\ \A i \in DOMAIN page'[s] : lister'[s] # None /\ page'[s][i] = <<lister'[s], i>>
             /\ \A r \in Of(s) : work'[r].target \in InstancesOf(s) \cup {None}
  BY DEF OwnInv, Done, Of, InstancesOf
<1> HIDE DEF s
<1>4. selected'[s] \in InstancesOf(s) \cup {None}
  <2>1. selected \in [Sessions -> Objects \cup {None}]
    BY <1>0 DEF TypeOK
  <2>2. selected[s] \in InstancesOf(s) \cup {None}
    BY <1>0 DEF OwnInv
  <2>3. \/ selected' = selected
        \/ \E o \in InstancesOf(s) \cup {None} : selected' = [selected EXCEPT ![s] = o]
    <3>1. CASE ConfigureSelected(q)
      BY <1>3, <3>1 DEF ConfigureSelected, RowAt, Select, s
    <3>2. CASE Refresh(q) \/ NewInstance(q)
      BY <1>1, <3>2 DEF Refresh, NewInstance, Select, s
    <3>3. CASE ExecuteWrite(q)
      BY <3>3 DEF ExecuteWrite, Select, s
    <3>4. CASE \/ ProcessFields(q) \/ Begin(q) \/ ExecuteList(q) \/ ExecuteShow(q)
               \/ ExecuteFails(q) \/ Commit(q) \/ Finish(q) \/ CommitFails(q) \/ Rollback(q)
      BY <3>4 DEF ProcessFields, Begin, ExecuteList, ExecuteShow, ExecuteFails, Commit,
         Finish, CommitFails, Rollback, WriteRows, containerVars
    <3> QED
      BY <3>1, <3>2, <3>3, <3>4 DEF Serve
  <2> QED
    BY <1>0, <2>1, <2>2, <2>3
<1>5. latest'[s] \in Of(s) \cup {None}
  <2>1. latest[s] \in Of(s) \cup {None} /\ latest \in [Sessions -> Requests \cup {None}]
    BY <1>0 DEF OwnInv, TypeOK
  <2>2. latest' = latest \/ latest' = [latest EXCEPT ![s] = q]
    BY DEF Serve, ConfigureSelected, Refresh, NewInstance, ProcessFields, Begin,
       ExecuteList, ExecuteShow, ExecuteWrite, ExecuteFails, Commit, WriteRows, Finish,
       CommitFails, Rollback, historyVars, s
  <2> QED
    BY <1>0, <1>1, <2>1, <2>2
<1>6. \A r \in Of(s) : work'[r].target \in InstancesOf(s) \cup {None}
  <2>1. work \in [Requests -> Work]
    BY <1>0 DEF TypeOK
  <2>2. \A r \in Of(s) : work[r].target \in InstancesOf(s) \cup {None}
    BY <1>0 DEF OwnInv
  <2>3. selected[s] \in InstancesOf(s) \cup {None}
    BY <1>0 DEF OwnInv
  <2>4. \/ work' = work
        \/ work' = [work EXCEPT ![q] = NoWork]
        \/ \E k : work' = [work EXCEPT ![q] = [kind |-> k, target |-> selected[s]]]
    BY DEF Serve, ConfigureSelected, Refresh, NewInstance, ProcessFields, Begin,
       ExecuteList, ExecuteShow, ExecuteWrite, Attach, ExecuteFails, Commit, WriteRows,
       Finish, CommitFails, Rollback, s
  <2> QED
    BY <2>1, <2>2, <2>3, <2>4 DEF NoWork, Of
<1>7. CASE ExecuteList(q)
  <2>1. PICK l \in Listings :
           page' = [page EXCEPT ![s] = [i \in DOMAIN l |-> <<q, i>>]]
    BY <1>7 DEF ExecuteList, s
  <2>2. page'[s] = [i \in DOMAIN l |-> <<q, i>>]
    BY <1>0, <2>1 DEF TypeOK
  <2>3. lister'[s] = q /\ phase'[q] = "commit"
    BY <1>0, <1>7 DEF ExecuteList, Go, Done, TypeOK, s
  <2>4. q # None
    BY OperationsAssumption
  <2> QED
    BY <1>1, <1>4, <1>5, <1>6, <2>2, <2>3, <2>4
<1>8. CASE ~ExecuteList(q)
  <2>1. page' = page /\ lister' = lister
    BY <1>8 DEF Serve, ConfigureSelected, Refresh, NewInstance, ProcessFields, Begin,
       ExecuteShow, ExecuteWrite, ExecuteFails, Commit, WriteRows, Finish,
       CommitFails, Rollback, historyVars, containerVars
  <2>2. /\ lister[s] # None => lister[s] \in Of(s) /\ Done(lister[s])
        /\ \A i \in DOMAIN page[s] : lister[s] # None /\ page[s][i] = <<lister[s], i>>
    BY <1>0 DEF OwnInv
  <2> QED
    BY <1>2, <1>4, <1>5, <1>6, <2>1, <2>2 DEF Of, Done
<1> QED
  BY <1>7, <1>8

(* A request and its transaction go together.                              *)
LEMMA StageStep ==
  ASSUME StoreInv, WriteInv, NEW q \in Requests, Serve(q)
  PROVE  StageInv(q)'
<1>0. TypeOK /\ StageInv(q) /\ par' = par
  BY Frame DEF StoreInv, WriteInv
<1>1. /\ attached' = attached \/ phase[q] \notin {"sent"}
      /\ work' = work \/ work' = [work EXCEPT ![q] = NoWork] \/ phase[q] = "execute"
  BY DEF Serve, ConfigureSelected, Refresh, NewInstance, ProcessFields, Begin,
     ExecuteList, ExecuteShow, ExecuteWrite, ExecuteFails, Commit, WriteRows, Finish,
     CommitFails, Rollback, hibernateVars
<1>2. /\ phase'[q] = "prepare" => par[q].op \in FormOps \cup {"addForm"}
      /\ phase'[q] = "begin" => par[q].op # "addForm"
  <2>1. CASE Refresh(q)
    <3>1. \/ phase' = [phase EXCEPT ![q] = "failed"]
          \/ \E o : phase' = [phase EXCEPT ![q] = AfterRefresh(par[q].op, o)]
      BY <2>1 DEF Refresh, Go
    <3>2. \A o : /\ AfterRefresh(par[q].op, o) = "prepare" =>
                       par[q].op \in FormOps \cup {"addForm"}
                 /\ AfterRefresh(par[q].op, o) = "begin" => par[q].op # "addForm"
      BY DEF AfterRefresh
    <3> QED
      BY <1>0, <3>1, <3>2 DEF TypeOK
  <2>2. CASE ProcessFields(q)
    BY <2>2, Onward DEF ProcessFields, FormOps
  <2>3. CASE ~Refresh(q) /\ ~ProcessFields(q)
    <3>1. phase[q] \in {"refresh", "prepare"} => NewInstance(q)
      BY <2>3 DEF Serve, ConfigureSelected, Begin, ExecuteList, ExecuteShow, ExecuteWrite,
         ExecuteFails, Commit, Finish, CommitFails, Rollback
    <3>2. NewInstance(q) => phase'[q] = "ok"
      BY <1>0 DEF NewInstance, Go, TypeOK
    <3> QED
      BY <3>1, <3>2, Onward
  <2> QED
    BY <2>1, <2>2, <2>3
<1>3. CASE Begin(q)
  <2>1. phase[q] = "begin" /\ phase' \in [Requests -> Phases]
    BY <1>0, <1>3 DEF Begin, Go, TypeOK, Phases
  <2>2. UNCHANGED <<attached, work, effect>>
    BY <1>3 DEF Begin, hibernateVars, historyVars
  <2>3. \/ phase'[q] = "execute" /\ (tx'[q] <=> Opens(par[q].op))
        \/ phase'[q] = "failed" /\ tx' = tx
    <3>1. tx \in [Requests -> BOOLEAN] /\ phase \in [Requests -> Phases]
      BY <1>0 DEF TypeOK
    <3> QED
      BY <1>3, <3>1 DEF Begin, Go
  <2> QED
    BY <1>0, <1>2, <2>1, <2>2, <2>3 DEF StageInv
<1>4. CASE Commit(q)
  <2>1. phase[q] = "commit" /\ tx[q] /\ phase'[q] = "ok" /\ ~tx'[q]
    BY <1>0, <1>4 DEF Commit, Go, TypeOK
  <2> QED
    BY <1>0, <2>1 DEF StageInv
<1>5. CASE ~Begin(q) /\ ~Commit(q)
  <2>8. effect' = effect
    BY <1>5 DEF Serve, ConfigureSelected, Refresh, NewInstance, ProcessFields,
       ExecuteList, ExecuteShow, ExecuteWrite, ExecuteFails, Finish, CommitFails,
       Rollback, historyVars
  <2>9. Rollback(q) \/ tx' = tx
    BY <1>5 DEF Serve, ConfigureSelected, Refresh, NewInstance, ProcessFields,
       ExecuteList, ExecuteShow, ExecuteWrite, ExecuteFails, Finish, CommitFails
  <2>10. Rollback(q) => tx' = [tx EXCEPT ![q] = FALSE] /\ phase'[q] = "failed"
    BY <1>0 DEF Rollback, Go, TypeOK
  <2>1. /\ \/ tx' = tx
           \/ tx' = [tx EXCEPT ![q] = FALSE] /\ phase'[q] = "failed"
        /\ effect' = effect
    BY <2>8, <2>9, <2>10
  <2>2. tx'[q] => tx[q]
    BY <1>0, <2>1 DEF TypeOK
  <2>3. work'[q] = work[q] \/ work'[q] = NoWork \/ phase[q] = "execute"
    BY <1>0, <1>1 DEF TypeOK
  <2>4. phase[q] = "begin" => phase'[q] = "failed"
    BY <1>0, <1>5 DEF Serve, ConfigureSelected, Refresh, NewInstance, ProcessFields,
       ExecuteList, ExecuteShow, ExecuteWrite, ExecuteFails, Finish, CommitFails, Rollback
  <2>5. phase'[q] = "failed" \/ tx' = tx
    BY <2>1
  <2> QED
    BY <1>0, <1>1, <1>2, <2>1, <2>2, <2>3, <2>4, <2>5, Onward DEF StageInv
<1> QED
  BY <1>3, <1>4, <1>5

(* A step of a request disturbs the running ones of its session, if it is   *)
(* the first of its steps, and the request itself if there are any.         *)
LEMMA Disturbs ==
  ASSUME StoreInv, WriteInv, NEW q \in Requests, Serve(q)
  PROVE  /\ \A r \in Peers(q) : ~Quiet(r)'
         /\ AloneInv(q)'
<1>0. /\ \A r \in Peers(q) : r \in Requests /\ phase'[r] = phase[r] /\ q \in Peers(r)
      /\ \A r \in Requests : disturbed[r] => disturbed'[r]
      /\ \A r \in Requests : AloneInv(r)
  BY Frame DEF WriteInv, Peers
<1>1. CASE phase[q] = "sent"
  <2>1. ConfigureSelected(q)
    BY <1>1 DEF Serve, Refresh, NewInstance, ProcessFields, Begin, ExecuteList,
       ExecuteShow, ExecuteWrite, ExecuteFails, Commit, Finish, CommitFails, Rollback
  <2>2. /\ \A r \in Peers(q) : Running(r) => disturbed'[r]
        /\ (\E r \in Peers(q) : Running(r)) => disturbed'[q]
    BY <1>0, <2>1 DEF ConfigureSelected, Disturb
  <2> QED
    BY <1>0, <2>2 DEF Quiet, AloneInv, Running
<1>2. CASE phase[q] # "sent"
  <2>1. Running(q)
    BY <1>2, Onward DEF Running
  <2>2. \A r \in Peers(q) : ~Quiet(r)
    BY <1>0, <2>1 DEF AloneInv
  <2>3. Quiet(q)' => Quiet(q)
    BY <1>0, <2>1 DEF Quiet
  <2> QED
    BY <1>0, <2>2, <2>3 DEF Quiet, AloneInv, Running, Peers
<1> QED
  BY <1>1, <1>2

(* What holds of the other requests of the session.                         *)
LEMMA PeerStep ==
  ASSUME StoreInv, WriteInv, NEW q \in Requests, Serve(q), NEW r \in Peers(q)
  PROVE  StageInv(r)' /\ AloneInv(r)' /\ WorkInv(r)' /\ WrittenInv(r)'
<1>1. /\ r \in Requests /\ StageInv(r) /\ WrittenInv(r) /\ ~Quiet(r)'
      /\ phase'[r] = phase[r] /\ tx'[r] = tx[r] /\ work'[r] = work[r] /\ par' = par
      /\ attached'[r] = attached[r] /\ effect'[r] = effect[r]
      /\ disturbed[r] => disturbed'[r]
  BY Frame, Disturbs DEF WriteInv, Peers
<1>2. AloneInv(r)' /\ WorkInv(r)'
  BY <1>1 DEF AloneInv, WorkInv
<1>3. StageInv(r)'
  BY <1>1 DEF StageInv
<1>4. WrittenInv(r)'
  BY <1>1 DEF WrittenInv, Written
<1> QED
  BY <1>2, <1>3, <1>4

(* An instance of a page changes its row when its page is listed, or when   *)
(* it is saved as a new one.                                               *)
LEMMA RowStays ==
  ASSUME StoreInv, NEW q \in Requests, Serve(q), ~ExecuteList(q),
         NEW o \in Requests \X (1..PageSize)
  PROVE  \/ obj'[o].item = obj[o].item
         \/ phase'[q] = "ok" /\ work'[q] = [kind |-> "insert", target |-> o]
<1>0. TypeOK /\ o \in Objects /\ o # Read(q) /\ o # Made(q)
  BY ObjectFacts DEF StoreInv
<1>1. CASE Refresh(q) \/ NewInstance(q)
  <2>1. \/ obj' = obj
        \/ \E x : obj' = [obj EXCEPT ![Read(q)] = x]
        \/ \E x : obj' = [obj EXCEPT ![Made(q)] = x]
    BY <1>1 DEF Refresh, NewInstance, hibernateVars
  <2> QED
    BY <1>0, <2>1 DEF TypeOK
<1>2. CASE ProcessFields(q)
  <2>1. CASE obj' = obj
    BY <2>1
  <2>2. CASE \E x, v : obj' = [obj EXCEPT ![x].val = v]
    <3>1. obj[o] \in Instance
      BY <1>0 DEF TypeOK
    <3> QED
      BY <1>0, <2>2, <3>1 DEF TypeOK, Instance
  <2> QED
    BY <1>2, <2>1, <2>2 DEF ProcessFields
<1>3. CASE Commit(q)
  <2>1. /\ \/ obj' = obj
           \/ work[q].kind = "insert" /\ \E x : obj' = [obj EXCEPT ![work[q].target].item = x]
        /\ work' = work /\ phase'[q] = "ok"
    BY <1>0, <1>3 DEF Commit, WriteRows, Go, TypeOK
  <2>2. work[q] = [kind |-> work[q].kind, target |-> work[q].target]
    BY <1>0 DEF TypeOK, Work
  <2>3. CASE work[q].target = o
    BY <2>1, <2>2, <2>3
  <2>4. CASE work[q].target # o
    BY <1>0, <2>1, <2>4 DEF TypeOK
  <2> QED
    BY <2>3, <2>4
<1>4. CASE ~(Refresh(q) \/ NewInstance(q) \/ ProcessFields(q) \/ Commit(q))
  <2>1. obj' = obj
    BY <1>4 DEF Serve, ConfigureSelected, Begin, ExecuteShow, ExecuteWrite, ExecuteFails,
       Finish, CommitFails, Rollback, hibernateVars
  <2> QED
    BY <2>1
<1> QED
  BY <1>1, <1>2, <1>3, <1>4

(* What a request that was sent has seen: the row of a page, until that     *)
(* page is replaced, or what another request ended with.                    *)
LEMMA SentStep ==
  ASSUME StoreInv, WriteInv, NEW q \in Requests, Serve(q), NEW r \in Of(SessionOf[q])
  PROVE  SentInv(r)'
<1> DEFINE s == SessionOf[q]
           i == par[r].index
           b == par[r].basis
<1>0. s \in Sessions /\ TypeOK /\ OwnInv(s)
  BY OperationsAssumption DEF StoreInv, WriteInv
<1>1. r \in Requests /\ SessionOf[r] = s /\ SentInv(r) /\ par' = par
  BY Frame DEF Of, WriteInv
<1>2. phase[q] # "ok" /\ phase'[q] # "sent"
  BY Onward
<1>3. \A p \in Requests \ {q} : /\ phase'[p] = phase[p] /\ rendered'[p] = rendered[p]
                                /\ work'[p] = work[p]
  BY Frame DEF WriteInv
<1>4. SUFFICES ASSUME phase[r] = "sent", r # q PROVE SentInv(r)'
  BY <1>1, <1>2, <1>3 DEF SentInv
<1>5. \A p \in Requests : Done(p) => Done(p)'
  <2>1. Done(q) => Done(q)'
    BY Onward DEF Done
  <2> QED
    BY <1>3, <2>1 DEF Done
<1>6. ASSUME i > 0
      PROVE  /\ par[r].op \in RowOps
             /\ b \in Of(s) /\ Done(b)'
             /\ lister'[s] = b =>
                  /\ i \in DOMAIN page'[s]
                  /\ \/ \E p \in Of(s) : /\ phase'[p] = "ok"
                                         /\ work'[p] = [kind |-> "insert", target |-> page'[s][i]]
                     \/ obj'[page'[s][i]].item = par[r].item
  <2>1. /\ par[r].op \in RowOps /\ b \in Of(s) /\ Done(b)
        /\ lister[s] = b =>
             /\ i \in DOMAIN page[s]
             /\ Saved(s, page[s][i]) \/ obj[page[s][i]].item = par[r].item
    BY <1>1, <1>4, <1>6 DEF SentInv
  <2>2. Done(b)'
    BY <1>1, <1>5, <2>1 DEF Of, Done
  <2>3. CASE ExecuteList(q)
    <3>1. lister'[s] = q /\ phase[q] = "execute"
      BY <1>0, <2>3 DEF ExecuteList, TypeOK
    <3> QED
      BY <2>1, <2>2, <3>1 DEF Done
  <2>4. CASE ~ExecuteList(q)
    <3>1. page' = page /\ lister' = lister
      BY <2>4 DEF Serve, ConfigureSelected, Refresh, NewInstance, ProcessFields, Begin,
         ExecuteShow, ExecuteWrite, ExecuteFails, Commit, WriteRows, Finish,
         CommitFails, Rollback, historyVars, containerVars
    <3> SUFFICES ASSUME lister[s] = b
                 PROVE  \/ \E p \in Of(s) :
                             /\ phase'[p] = "ok"
                             /\ work'[p] = [kind |-> "insert", target |-> page[s][i]]
                        \/ obj'[page[s][i]].item = par[r].item
      BY <2>1, <2>2, <3>1
    <3>2. CASE Saved(s, page[s][i])
      BY <1>2, <1>3, <3>2 DEF Saved, Of
    <3>3. CASE obj[page[s][i]].item = par[r].item
      <4>1. page[s][i] \in Requests \X (1..PageSize)
        BY <1>0, <2>1, PageFacts, SMTT(30) DEF Of
      <4>2. \/ obj'[page[s][i]].item = obj[page[s][i]].item
            \/ phase'[q] = "ok" /\ work'[q] = [kind |-> "insert", target |-> page[s][i]]
        BY <2>4, <4>1, RowStays
      <4>3. q \in Of(s)
        BY DEF Of
      <4> QED
        BY <3>3, <4>2, <4>3
    <3> QED
      BY <2>1, <3>2, <3>3
  <2> QED
    BY <2>3, <2>4
<1>7. ASSUME i = 0, par[r].op \notin {"list", "addForm"}
      PROVE  /\ par[r].op \in RowOps \cup FormOps
             /\ b \in Peers(r) /\ phase'[b] = "ok"
             /\ par[b].op \in FormOf(par[r].op)
             /\ par[r].item = rendered'[b]
  <2>1. /\ par[r].op \in RowOps \cup FormOps
        /\ b \in Peers(r) /\ phase[b] = "ok"
        /\ par[b].op \in FormOf(par[r].op)
        /\ par[r].item = rendered[b]
    BY <1>1, <1>4, <1>7 DEF SentInv
  <2> QED
    BY <1>2, <1>3, <2>1 DEF Peers
<1> QED
  BY <1>1, <1>6, <1>7 DEF SentInv, Done, Saved

(* The selection a request works on, and the row behind it, stay what the   *)
(* page it was sent from showed, from step to step.                         *)
LEMMA ConfigureWork ==
  ASSUME StoreInv, WriteInv, NEW q \in Requests, ConfigureSelected(q), Serve(q)
  PROVE  WorkInv(q)'
<1> DEFINE s == SessionOf[q]
           i == par[q].index
           b == par[q].basis
<1>0. /\ s \in Sessions /\ TypeOK /\ OwnInv(s) /\ LatestInv(s)
      /\ SentInv(q) /\ StageInv(q) /\ phase[q] = "sent"
  BY OperationsAssumption DEF StoreInv, WriteInv, ConfigureSelected
<1>1. UNCHANGED <<obj, attached, par, work, page, lister>>
  BY DEF ConfigureSelected, hibernateVars
<1>2. SUFFICES ASSUME Quiet(q)', par[q].op \in RowOps \cup FormOps PROVE WorkInv(q)'
  BY <1>1 DEF WorkInv, RowOps, FormOps
<1>3. phase'[q] = "refresh"
  <2>1. phase'[q] \in {"refresh", "failed"}
    BY <1>0, Onward
  <2> QED
    BY <1>2, <2>1 DEF Quiet, Running
<1>4. ~Stale(q)
  <2>1. ~disturbed'[q]
    BY <1>2 DEF Quiet
  <2> QED
    BY <2>1 DEF ConfigureSelected, Disturb
<1>5. attached[q] = {}
  BY <1>0 DEF StageInv
<1>6. \A j \in DOMAIN page[s] : j > 0
  BY <1>0, PageFacts
<1>7. i \in Nat /\ par[q].op # "list" /\ par[q].op # "addForm"
  BY <1>0, <1>2 DEF TypeOK, Parameters, RowOps, FormOps
<1>8. ASSUME i > 0
      PROVE  par[q].op \in RowOps /\ OnShown(q)'
  <2>1. /\ par[q].op \in RowOps /\ b \in Of(s)
        /\ lister[s] = b =>
             /\ i \in DOMAIN page[s]
             /\ Saved(s, page[s][i]) \/ obj[page[s][i]].item = par[q].item
    BY <1>0, <1>8 DEF SentInv
  <2>2. /\ lister[s] = b
        /\ ~\E p \in Peers(q) : work[p] = [kind |-> "insert", target |-> page[s][i]]
    BY <1>4, <1>7, <1>8 DEF Stale
  <2>3. ~Saved(s, page[s][i])
    BY <1>0, <2>2 DEF Saved, Of, Peers
  <2>4. i \in DOMAIN page[s] /\ obj[page[s][i]].item = par[q].item
    BY <2>1, <2>2, <2>3
  <2>5. page[s][i] \in Objects
    BY <1>0, <2>4, PageFacts DEF InstancesOf
  <2>6. /\ selected' = [selected EXCEPT ![s] = page[s][i]]
        /\ selectedNew' = [selectedNew EXCEPT ![s] = FALSE]
    <3>1. phase' # [phase EXCEPT ![q] = "failed"]
      BY <1>0, <1>3 DEF TypeOK
    <3> QED
      BY <1>7, <1>8, <2>4, <3>1 DEF ConfigureSelected, RowAt, Select, Go
  <2>7. selected'[s] = page[s][i] /\ ~selectedNew'[s]
    BY <1>0, <2>6 DEF TypeOK
  <2>8. None \notin Objects
    BY OperationsAssumption
  <2> QED
    BY <1>1, <1>3, <2>1, <2>4, <2>5, <2>7, <2>8 DEF OnShown
<1>9. ASSUME i = 0
      PROVE  /\ par[q].op \in RowOps \cup {"edit"} => OnShown(q)'
             /\ par[q].op = "add" => OnMade(q)'
  <2>1. /\ b \in Peers(q) /\ phase[b] = "ok"
        /\ par[b].op \in FormOf(par[q].op)
        /\ par[q].item = rendered[b]
    BY <1>0, <1>7, <1>9 DEF SentInv
  <2>2. latest[s] = b /\ ~disturbed[b]
    BY <1>4, <1>7, <1>9 DEF Stale
  <2>3. UNCHANGED <<selected, selectedNew>>
    <3>1. i \notin DOMAIN page[s] /\ ~(i > Len(page[s]))
      <4>1. Len(page[s]) \in Nat
        BY <1>0, LenProperties DEF TypeOK
      <4> QED
        BY <1>6, <1>9, <4>1
    <3> QED
      BY <1>7, <3>1 DEF ConfigureSelected
  <2>4. b # None
    BY <2>1, OperationsAssumption DEF Peers
  <2>5. CASE par[q].op \in RowOps \cup {"edit"}
    <3>1. par[b].op \in {"show", "editForm"}
      BY <2>1, <2>5 DEF FormOf, RowOps
    <3>2. selected[s] # None /\ ~selectedNew[s] /\ obj[selected[s]].item = rendered[b]
      BY <1>0, <2>1, <2>2, <2>4, <3>1 DEF LatestInv
    <3> QED
      BY <1>1, <1>3, <2>1, <2>3, <2>5, <3>2 DEF OnShown, RowOps
  <2>6. CASE par[q].op = "add"
    <3>1. par[b].op = "addForm"
      BY <2>1, <2>6 DEF FormOf
    <3>2. selected[s] = Made(b) /\ selectedNew[s]
      BY <1>0, <2>1, <2>2, <2>4, <3>1 DEF LatestInv
    <3> QED
      BY <1>1, <1>3, <1>5, <2>1, <2>3, <2>6, <3>2 DEF OnMade, RowOps
  <2> QED
    BY <2>5, <2>6
<1> QED
  BY <1>1, <1>2, <1>7, <1>8, <1>9 DEF WorkInv, RowOps, FormOps

LEMMA WorkStep ==
  ASSUME StoreInv, WriteInv, NEW q \in Requests, Serve(q)
  PROVE  WorkInv(q)'
<1> DEFINE s == SessionOf[q]
           o == selected[s]
           m == Made(par[q].basis)
<1>0. /\ s \in Sessions /\ TypeOK /\ OwnInv(s) /\ StageInv(q) /\ WorkInv(q)
      /\ Read(q) \in Objects /\ par' = par /\ phase \in [Requests -> Phases]
      /\ \A r \in Requests : disturbed[r] => disturbed'[r]
  BY OperationsAssumption, ObjectFacts, Frame DEF StoreInv, WriteInv, TypeOK
<1>1. CASE ConfigureSelected(q)
  BY <1>1, ConfigureWork
<1>2. SUFFICES ASSUME ~ConfigureSelected(q), Quiet(q)' PROVE WorkInv(q)'
  BY <1>1 DEF WorkInv
<1>3. Quiet(q)
  <2>1. Running(q)
    BY <1>2, Onward DEF Running, Serve, Refresh, NewInstance, ProcessFields, Begin, ExecuteList,
       ExecuteShow, ExecuteWrite, ExecuteFails, Commit, Finish, CommitFails, Rollback
  <2> QED
    BY <1>0, <1>2, <2>1 DEF Quiet
<1>4. Running(q)'
  BY <1>2 DEF Quiet
<1>5. SUFFICES /\ par[q].op \in {"show", "editForm", "delete", "edit"} /\ OnShown(q)
                    => OnShown(q)'
               /\ par[q].op = "add" /\ OnMade(q) /\ m \in Objects
                    => OnMade(q)'
  <2>1. OnMade(q) => m \in Objects
    BY ObjectFacts DEF OnMade, Peers
  <2> QED
    BY <1>0, <1>3, <2>1 DEF WorkInv
<1>6. CASE Refresh(q)
  <2>1. phase[q] = "refresh" /\ UNCHANGED work /\ work[q] = NoWork
    BY <1>0, <1>6 DEF Refresh, StageInv
  <2>2. ASSUME par[q].op \in {"show", "editForm", "delete", "edit"}, OnShown(q)
        PROVE  OnShown(q)'
    <3>1. o # None /\ ~selectedNew[s] /\ obj[o].item = par[q].item
      BY <2>1, <2>2 DEF OnShown
    <3>2. phase' # [phase EXCEPT ![q] = "failed"]
      BY <1>0, <1>4 DEF Running
    <3>3. /\ obj' = [obj EXCEPT ![Read(q)] = [item |-> obj[o].item, val |-> store[obj[o].item]]]
          /\ attached' = [attached EXCEPT ![q] = {Read(q)}]
          /\ selected' = [selected EXCEPT ![s] = Read(q)]
          /\ selectedNew' = [selectedNew EXCEPT ![s] = FALSE]
          /\ phase' = [phase EXCEPT ![q] = AfterRefresh(par[q].op, Read(q))]
          /\ rendered' = [rendered EXCEPT ![q] = obj[o].item]
      BY <1>6, <3>1, <3>2 DEF Refresh, Select, Go
    <3>4. /\ obj'[Read(q)].item = par[q].item /\ attached'[q] = {Read(q)}
          /\ selected'[s] = Read(q) /\ ~selectedNew'[s] /\ rendered'[q] = par[q].item
          /\ phase'[q] = AfterRefresh(par[q].op, Read(q))
      BY <1>0, <3>1, <3>3 DEF TypeOK
    <3>5. /\ phase'[q] \in {"prepare", "begin", "ok", "failed"}
          /\ par[q].op = "edit" => phase'[q] = "prepare"
      <4>1. par[q].op = "edit" => AfterRefresh(par[q].op, Read(q)) = "prepare"
        BY DEF AfterRefresh, FormOps
      <4> QED
        BY <2>1, <3>4, <4>1, Onward
    <3> QED
      BY <1>0, <2>1, <3>4, <3>5 DEF OnShown, NoWork
  <2>3. ASSUME par[q].op = "add", OnMade(q), m \in Objects
        PROVE  OnMade(q)'
    <3>1. o = m /\ selectedNew[s] /\ attached[q] = {} /\ par[q].basis \in Peers(q)
      BY <2>1, <2>3 DEF OnMade
    <3>2. /\ UNCHANGED <<selected, selectedNew, attached, obj>>
          /\ phase' = [phase EXCEPT ![q] = AfterRefresh(par[q].op, o)]
      BY <1>6, <3>1 DEF Refresh, Go, hibernateVars
    <3>3. AfterRefresh(par[q].op, o) = "prepare"
      BY <2>3 DEF AfterRefresh, FormOps
    <3>4. phase'[q] = "prepare"
      BY <1>0, <3>2, <3>3
    <3> QED
      BY <1>0, <3>1, <3>2, <3>4 DEF OnMade
  <2> QED
    BY <1>5, <2>2, <2>3
<1>7. CASE ProcessFields(q)
  <2>1. /\ phase[q] = "prepare" /\ o # None /\ par[q].op \in FormOps
        /\ obj' = [obj EXCEPT ![o].val = par[q].value] /\ phase'[q] = "begin"
        /\ UNCHANGED <<selected, selectedNew, attached, work, rendered>>
    <3>1. phase' # [phase EXCEPT ![q] = "failed"]
      BY <1>0, <1>4 DEF Running
    <3> QED
      BY <1>0, <1>7, <3>1 DEF ProcessFields, Go, containerVars, historyVars
  <2>2. o \in Objects
    BY <1>0, <2>1 DEF TypeOK
  <2>3. obj'[o].item = obj[o].item /\ obj'[o].val = par[q].value
    <3>1. obj[o] \in Instance
      BY <1>0, <2>2 DEF TypeOK
    <3> QED
      BY <1>0, <2>1, <2>2, <3>1 DEF Instance, TypeOK
  <2>4. ASSUME par[q].op \in {"show", "editForm", "delete", "edit"}, OnShown(q)
        PROVE  OnShown(q)'
    BY <1>0, <2>1, <2>3, <2>4 DEF OnShown
  <2>5. ASSUME par[q].op = "add", OnMade(q), m \in Objects
        PROVE  OnMade(q)'
    BY <1>0, <2>1, <2>3, <2>5 DEF OnMade
  <2> QED
    BY <1>5, <2>4, <2>5
<1>8. CASE Begin(q) \/ ExecuteShow(q)
  <2>1. /\ \/ phase[q] = "begin" /\ phase'[q] = "execute"
           \/ phase[q] = "execute" /\ phase'[q] = "commit" /\ par[q].op = "show"
        /\ UNCHANGED <<selected, selectedNew, attached, work, rendered, obj>>
    BY <1>0, <1>4, <1>8 DEF Begin, ExecuteShow, Go, Running, containerVars, hibernateVars,
       historyVars
  <2>2. ASSUME par[q].op \in {"show", "editForm", "delete", "edit"}, OnShown(q)
        PROVE  OnShown(q)'
    BY <1>0, <2>1, <2>2 DEF OnShown
  <2>3. ASSUME par[q].op = "add", OnMade(q), m \in Objects
        PROVE  OnMade(q)'
    BY <1>0, <2>1, <2>3 DEF OnMade
  <2> QED
    BY <1>5, <2>2, <2>3
<1>9. CASE ExecuteWrite(q)
  <2>1. /\ phase[q] = "execute" /\ phase'[q] = "commit"
        /\ UNCHANGED <<obj, rendered>>
    BY <1>0, <1>9 DEF ExecuteWrite, Go, historyVars
  <2>2. ASSUME par[q].op \in {"show", "editForm", "delete", "edit"}, OnShown(q)
        PROVE  OnShown(q)'
    <3>1. /\ o = Read(q) /\ Read(q) \in attached[q] /\ ~selectedNew[s]
          /\ obj[Read(q)].item = par[q].item /\ rendered[q] = par[q].item
          /\ par[q].op = "edit" => obj[Read(q)].val = par[q].value
      BY <2>1, <2>2 DEF OnShown
    <3>2. obj[o].item # NoItem
      BY <1>0, <3>1, OperationsAssumption DEF StoreInv, ObjectInv
    <3>3. CASE par[q].op = "edit"
      <4>1. Attach(q, "none", Read(q)) /\ UNCHANGED <<selected, selectedNew>>
        BY <1>9, <3>1, <3>3 DEF ExecuteWrite
      <4>2. attached'[q] = attached[q] \cup {Read(q)} /\ work'[q].kind = "none"
        BY <1>0, <4>1 DEF Attach, TypeOK
      <4> QED
        BY <1>0, <2>1, <3>1, <3>3, <4>1, <4>2 DEF OnShown
    <3>4. CASE par[q].op = "delete"
      <4>1. Attach(q, "delete", Read(q))
        BY <1>9, <3>1, <3>2, <3>4 DEF ExecuteWrite
      <4>2. work'[q] = [kind |-> "delete", target |-> Read(q)]
        BY <1>0, <4>1 DEF Attach, TypeOK
      <4> QED
        BY <1>0, <2>1, <3>1, <3>4, <4>2 DEF OnShown
    <3> QED
      BY <1>9, <2>2, <3>3, <3>4 DEF ExecuteWrite
  <2>3. ASSUME par[q].op = "add", OnMade(q), m \in Objects
        PROVE  OnMade(q)'
    <3>1. /\ o = m /\ attached[q] = {} /\ obj[m].val = par[q].value
          /\ par[q].basis \in Peers(q)
      BY <2>1, <2>3 DEF OnMade
    <3>2. Attach(q, "insert", m)
      BY <1>9, <2>3, <3>1 DEF ExecuteWrite
    <3>3. attached'[q] = {m} /\ work'[q] = [kind |-> "insert", target |-> m]
      BY <1>0, <3>1, <3>2 DEF Attach, TypeOK
    <3> QED
      BY <1>0, <2>1, <3>1, <3>3 DEF OnMade
  <2> QED
    BY <1>5, <2>2, <2>3
<1>10. CASE ExecuteFails(q) \/ CommitFails(q)
  <2>1. phase'[q] = "rollback"
    BY <1>0, <1>4, <1>10 DEF ExecuteFails, CommitFails, Throw, Go, Running
  <2> QED
    BY <1>0, <1>5, <2>1 DEF OnShown, OnMade
<1>11. CASE ExecuteList(q) \/ NewInstance(q)
  BY <1>0, <1>5, <1>11 DEF ExecuteList, NewInstance
<1>12. CASE Commit(q) \/ Finish(q) \/ Rollback(q)
  BY <1>0, <1>4, <1>12 DEF Commit, Finish, Rollback, Go, Running
<1> QED
  BY <1>2, <1>6, <1>7, <1>8, <1>9, <1>10, <1>11, <1>12 DEF Serve

(* What the page of the last request with a selection shows stays selected, *)
(* while the session runs nothing but lists.                                *)
LEMMA LatestStep ==
  ASSUME StoreInv, WriteInv, NEW q \in Requests, Serve(q)
  PROVE  LatestInv(SessionOf[q])'
<1> DEFINE s == SessionOf[q]
           b == latest[s]
           o == selected[s]
<1>0. /\ s \in Sessions /\ TypeOK /\ OwnInv(s) /\ LatestInv(s) /\ StageInv(q) /\ SentInv(q)
      /\ WorkInv(q) /\ AloneInv(q) /\ q \in Of(s) /\ par' = par /\ q # None
      /\ phase \in [Requests -> Phases]
  BY OperationsAssumption, Frame DEF StoreInv, WriteInv, Of, TypeOK
<1>F. /\ \A r \in Requests \ {q} : phase'[r] = phase[r] /\ rendered'[r] = rendered[r]
      /\ \A r \in Requests : disturbed[r] => disturbed'[r]
  BY Frame DEF WriteInv
<1>L. \/ latest'[s] = b
      \/ latest'[s] = q /\ phase'[q] # "ok"
  <2>1. CASE ConfigureSelected(q)
    <3>1. phase'[q] # "ok"
      BY <2>1, Onward DEF ConfigureSelected
    <3>2. latest' = latest \/ latest' = [latest EXCEPT ![s] = q]
      BY <2>1 DEF ConfigureSelected
    <3> QED
      BY <1>0, <3>1, <3>2 DEF TypeOK
  <2>2. CASE ~ConfigureSelected(q)
    <3>1. latest' = latest
      BY <2>2 DEF Serve, Refresh, NewInstance, ProcessFields, Begin, ExecuteList, ExecuteShow,
         ExecuteWrite, ExecuteFails, Commit, WriteRows, Finish, CommitFails, Rollback,
         historyVars
    <3> QED
      BY <3>1
  <2> QED
    BY <2>1, <2>2
<1>1. SUFFICES ASSUME latest'[s] = b, b # None, phase'[b] = "ok", ~disturbed'[b]
               PROVE  /\ \A p \in Of(s) : Running(p)' => par[p].op = "list"
                      /\ par[b].op \in {"show", "editForm"} =>
                           /\ selected'[s] # None /\ selected'[s][2] = 0
                           /\ ~selectedNew'[s]
                           /\ obj'[selected'[s]].item = rendered'[b]
                      /\ par[b].op = "addForm" =>
                           selected'[s] = Made(b) /\ selectedNew'[s]
  BY <1>0, <1>L DEF LatestInv, Running, Of
<1>2. b \in Of(s) /\ ~disturbed[b]
  BY <1>0, <1>1, <1>F DEF OwnInv, Of
<1>3. CASE b = q
  <2>1. Quiet(q)
    BY <1>1, <1>2, <1>3, Onward DEF Quiet, Running
  <2>2. \A p \in Of(s) : ~Running(p)'
    <3>1. ~Running(q)'
      BY <1>1, <1>3 DEF Running
    <3>2. \A p \in Of(s) \ {q} : p \in Peers(q) /\ ~Running(p) /\ phase'[p] = phase[p]
      BY <1>0, <1>F, <2>1 DEF AloneInv, Of, Peers
    <3> QED
      BY <3>1, <3>2 DEF Running
  <2>3. phase[q] = "refresh" \/ phase[q] = "prepare" \/ phase[q] = "commit"
    BY <1>1, <1>3, Onward
  <2>4. CASE Refresh(q)
    <3>1. \/ phase' = [phase EXCEPT ![q] = "failed"]
          \/ \E x : phase' = [phase EXCEPT ![q] = AfterRefresh(par[q].op, x)]
      BY <2>4 DEF Refresh, Go
    <3>2. \A x : AfterRefresh(par[q].op, x) = "ok" => par[q].op = "editForm"
      BY DEF AfterRefresh
    <3>3. par[q].op = "editForm"
      BY <1>0, <1>1, <1>3, <3>1, <3>2
    <3>4. o # None /\ ~selectedNew[s]
      BY <1>0, <2>1, <2>4, <3>3 DEF WorkInv, OnShown, Refresh
    <3>5. phase' # [phase EXCEPT ![q] = "failed"]
      BY <1>0, <1>1, <1>3
    <3>6. /\ obj' = [obj EXCEPT ![Read(q)] = [item |-> obj[o].item, val |-> store[obj[o].item]]]
          /\ selected' = [selected EXCEPT ![s] = Read(q)]
          /\ selectedNew' = [selectedNew EXCEPT ![s] = FALSE]
          /\ rendered' = [rendered EXCEPT ![q] = obj[o].item]
      BY <2>4, <3>4, <3>5 DEF Refresh, Select, Go
    <3>7. /\ selected'[s] = Read(q) /\ ~selectedNew'[s]
          /\ obj'[Read(q)].item = rendered'[q]
      BY <1>0, <3>6, ObjectFacts DEF TypeOK
    <3>8. Read(q) # None /\ Read(q)[2] = 0
      BY ObjectFacts, OperationsAssumption DEF Read
    <3> QED
      BY <1>3, <2>2, <3>3, <3>7, <3>8
  <2>5. CASE phase[q] = "prepare"
    <3>1. NewInstance(q)
      <4>1. NewInstance(q) \/ ProcessFields(q)
        BY <2>5 DEF Serve, ConfigureSelected, Refresh, Begin, ExecuteList, ExecuteShow,
           ExecuteWrite, ExecuteFails, Commit, Finish, CommitFails, Rollback
      <4>2. ProcessFields(q) => phase'[q] # "ok"
        BY <1>0 DEF ProcessFields, Go
      <4> QED
        BY <1>1, <1>3, <4>1, <4>2
    <3>2. /\ par[q].op = "addForm"
          /\ selected'[s] = Made(q) /\ selectedNew'[s]
      BY <1>0, <3>1 DEF NewInstance, Select, TypeOK
    <3> QED
      BY <1>3, <2>2, <3>2
  <2>6. CASE phase[q] = "commit"
    <3>1. par[q].op # "addForm"
      BY <1>0, <2>6 DEF StageInv
    <3>2. ASSUME par[q].op \in {"show", "editForm"}
          PROVE  /\ selected'[s] # None /\ selected'[s][2] = 0
                 /\ ~selectedNew'[s]
                 /\ obj'[selected'[s]].item = rendered'[q]
      <4>1. ~tx[q]
        BY <1>0, <2>6, <3>2 DEF StageInv, Opens
      <4>2. UNCHANGED <<selected, selectedNew, obj, rendered>>
        BY <2>6, <4>1 DEF Serve, ConfigureSelected, Refresh, NewInstance, ProcessFields,
           Begin, ExecuteList, ExecuteShow, ExecuteWrite, ExecuteFails, Commit, Finish,
           CommitFails, Rollback, containerVars, hibernateVars, historyVars
      <4>3. /\ o = Read(q) /\ ~selectedNew[s] /\ obj[Read(q)].item = par[q].item
            /\ rendered[q] = par[q].item
        BY <1>0, <2>1, <2>6, <3>2 DEF WorkInv, OnShown
      <4>4. Read(q) # None /\ Read(q)[2] = 0
        BY ObjectFacts, OperationsAssumption DEF Read
      <4> QED
        BY <4>2, <4>3, <4>4
    <3> QED
      BY <1>3, <2>2, <3>1, <3>2
  <2> QED
    BY <2>3, <2>4, <2>5, <2>6 DEF Serve, ConfigureSelected, NewInstance, ProcessFields, Begin,
       ExecuteList, ExecuteShow, ExecuteWrite, ExecuteFails, Commit, Finish,
       CommitFails, Rollback
<1>4. CASE b # q
  <2>1. phase[b] = "ok" /\ rendered'[b] = rendered[b]
    BY <1>1, <1>2, <1>4, <1>F DEF Of
  <2>2. /\ \A p \in Of(s) : Running(p) => par[p].op = "list"
        /\ par[b].op \in {"show", "editForm"} =>
             o # None /\ o[2] = 0 /\ ~selectedNew[s] /\ obj[o].item = rendered[b]
        /\ par[b].op = "addForm" => o = Made(b) /\ selectedNew[s]
    BY <1>0, <1>1, <1>2, <2>1 DEF LatestInv
  <2>3. par[q].op = "list"
    <3>1. CASE ConfigureSelected(q)
      <4>1. latest' # [latest EXCEPT ![s] = q]
        BY <1>0, <1>1, <1>4 DEF TypeOK
      <4> QED
        BY <3>1, <4>1 DEF ConfigureSelected
    <3>2. CASE ~ConfigureSelected(q)
      <4>1. Running(q)
        BY <3>2, Onward DEF Running, Serve, Refresh, NewInstance, ProcessFields, Begin,
           ExecuteList, ExecuteShow, ExecuteWrite, ExecuteFails, Commit, Finish,
           CommitFails, Rollback
      <4> QED
        BY <1>0, <2>2, <4>1
    <3> QED
      BY <3>1, <3>2
  <2>4. \A p \in Of(s) : Running(p)' => par[p].op = "list"
    BY <1>F, <2>2, <2>3 DEF Running, Of
  <2>5. o # None => o \in Objects
    BY <1>0 DEF TypeOK
  <2>6. CASE Refresh(q)
    <3>1. CASE par[b].op \in {"show", "editForm"}
      <4>1. \/ UNCHANGED <<selected, selectedNew, obj>>
            \/ /\ obj' = [obj EXCEPT ![Read(q)] = [item |-> obj[o].item,
                                                   val |-> store[obj[o].item]]]
               /\ selected' = [selected EXCEPT ![s] = Read(q)]
               /\ selectedNew' = [selectedNew EXCEPT ![s] = FALSE]
        BY <2>6 DEF Refresh, Select, hibernateVars
      <4>2. Read(q) # None /\ Read(q)[2] = 0 /\ Read(q) \in Objects
        BY ObjectFacts, OperationsAssumption DEF Read
      <4>3. \/ UNCHANGED <<selected, selectedNew, obj>>
            \/ /\ obj'[Read(q)].item = obj[o].item
               /\ selected'[s] = Read(q) /\ ~selectedNew'[s]
        BY <1>0, <4>1, <4>2 DEF TypeOK
      <4> QED
        BY <2>1, <2>2, <2>4, <3>1, <4>2, <4>3
    <3>2. CASE par[b].op = "addForm"
      BY <2>2, <2>4, <2>6, <3>2 DEF Refresh
    <3> QED
      BY <2>4, <3>1, <3>2
  <2>7. CASE ~Refresh(q)
    <3>1. UNCHANGED <<selected, selectedNew>>
      <4>1. CASE ConfigureSelected(q)
        <5>1. ~(par[q].index > 0)
          BY <1>0, <2>3, <4>1 DEF SentInv, ConfigureSelected, RowOps
        <5>2. /\ Len(page[s]) \in Nat /\ par[q].index \in Nat
              /\ par[q].index \in DOMAIN page[s] => par[q].index > 0
          BY <1>0, PageFacts, LenProperties DEF TypeOK, Parameters
        <5> QED
          BY <2>3, <4>1, <5>1, <5>2 DEF ConfigureSelected
      <4>2. CASE ~ConfigureSelected(q)
        BY <2>3, <2>7, <4>2 DEF Serve, NewInstance, ProcessFields, Begin, ExecuteList,
           ExecuteShow, ExecuteWrite, ExecuteFails, Commit, WriteRows, Finish, CommitFails,
           Rollback, containerVars
      <4> QED
        BY <4>1, <4>2
    <3>2. par[b].op \in {"show", "editForm"} => obj'[o] = obj[o]
      <4>1. CASE ExecuteList(q)
        <5>1. \E l \in Listings :
                obj' = [x \in Objects |->
                          IF x[1] = q /\ x[2] \in DOMAIN l
                            THEN [item |-> l[x[2]], val |-> store[l[x[2]]]] ELSE obj[x]]
          BY <4>1 DEF ExecuteList
        <5>2. \A l \in Listings : 0 \notin DOMAIN l
          BY OperationsAssumption DEF Listings
        <5> QED
          BY <2>2, <2>5, <5>1, <5>2
      <4>2. CASE ~ExecuteList(q)
        <5>1. ~Commit(q)
          BY <1>0, <2>3 DEF Commit, StageInv, Opens
        <5>2. obj' = obj
          BY <2>3, <2>7, <4>2, <5>1 DEF Serve, ConfigureSelected, NewInstance, ProcessFields,
             Begin, ExecuteShow, ExecuteWrite, ExecuteFails, Finish, CommitFails, Rollback,
             hibernateVars, FormOps
        <5> QED
          BY <5>2
      <4> QED
        BY <4>1, <4>2
    <3> QED
      BY <2>1, <2>2, <2>4, <3>1, <3>2
  <2> QED
    BY <2>6, <2>7
<1> QED
  BY <1>3, <1>4

(* A request that ends well, undisturbed, has written what was shown.       *)
LEMMA WrittenStep ==
  ASSUME StoreInv, WriteInv, NEW q \in Requests, Serve(q)
  PROVE  WrittenInv(q)'
<1> DEFINE m == Made(par[q].basis)
<1>0. /\ TypeOK /\ StageInv(q) /\ WorkInv(q) /\ par' = par
      /\ disturbed[q] => disturbed'[q]
  BY Frame DEF StoreInv, WriteInv
<1>1. SUFFICES ASSUME phase'[q] = "ok", ~disturbed'[q] PROVE Written(q)'
  BY DEF WrittenInv
<1>2. Quiet(q) /\ phase[q] \in {"refresh", "prepare", "commit"}
  BY <1>0, <1>1, Onward DEF Quiet, Running
<1>3. effect[q] = {}
  BY <1>0, <1>2 DEF StageInv
<1>4. CASE Commit(q)
  <2>1. PICK new \in Items : effect' = [effect EXCEPT ![q] = Flush(q, new)]
    BY <1>4 DEF Commit, WriteRows
  <2>2. /\ effect'[q] = Dirty(q) \cup Updated(q) \cup Inserted(q, new)
        /\ phase[q] = "commit" /\ Opens(par[q].op)
    BY <1>0, <1>4, <2>1 DEF Commit, Flush, StageInv, TypeOK
  <2>3. CASE par[q].op = "edit"
    <3>1. /\ obj[Read(q)].item = par[q].item /\ obj[Read(q)].val = par[q].value
          /\ work[q].kind = "none"
      BY <1>0, <1>2, <2>2, <2>3 DEF WorkInv, OnShown
    <3>2. Updated(q) = {} /\ Inserted(q, new) = {}
      BY <3>1 DEF Updated, Inserted
    <3>3. Dirty(q) \subseteq {<<par[q].item, par[q].value>>}
      BY <3>1 DEF Dirty
    <3> QED
      BY <1>0, <2>2, <2>3, <3>2, <3>3 DEF Written
  <2>4. CASE par[q].op = "delete"
    <3>1. /\ obj[Read(q)].item = par[q].item
          /\ work[q] = [kind |-> "delete", target |-> Read(q)]
      BY <1>0, <1>2, <2>2, <2>4 DEF WorkInv, OnShown
    <3>2. Updated(q) = {<<par[q].item, Absent>>} /\ Inserted(q, new) = {} /\ Dirty(q) = {}
      BY <3>1 DEF Updated, Inserted, Dirty, Deletes
    <3> QED
      BY <1>0, <2>2, <2>4, <3>2 DEF Written
  <2>5. CASE par[q].op = "add"
    <3>1. /\ attached[q] = {m} /\ work[q] = [kind |-> "insert", target |-> m]
          /\ obj[m].val = par[q].value /\ par[q].basis \in Requests
      BY <1>0, <1>2, <2>2, <2>5 DEF WorkInv, OnMade, Peers
    <3>2. Read(q) # m
      BY <3>1, ObjectFacts
    <3>3. Updated(q) = {} /\ Dirty(q) = {} /\ Inserted(q, new) = {<<new, par[q].value>>}
      BY <3>1, <3>2 DEF Updated, Inserted, Dirty
    <3> QED
      BY <1>0, <2>2, <2>5, <3>3 DEF Written
  <2> QED
    BY <2>2, <2>3, <2>4, <2>5 DEF Opens
<1>5. CASE ~Commit(q)
  <2>1. effect' = effect
    BY <1>5 DEF Serve, ConfigureSelected, Refresh, NewInstance, ProcessFields, Begin,
       ExecuteList, ExecuteShow, ExecuteWrite, ExecuteFails, Finish, CommitFails,
       Rollback, historyVars
  <2>2. par[q].op \notin {"add", "delete"}
    <3>1. phase \in [Requests -> Phases]
      BY <1>0 DEF TypeOK
    <3>2. CASE Refresh(q)
      <4>1. \/ phase' = [phase EXCEPT ![q] = "failed"]
            \/ \E x : phase' = [phase EXCEPT ![q] = AfterRefresh(par[q].op, x)]
        BY <3>2 DEF Refresh, Go
      <4>2. \A x : AfterRefresh(par[q].op, x) = "ok" => par[q].op = "editForm"
        BY DEF AfterRefresh
      <4> QED
        BY <1>1, <3>1, <4>1, <4>2
    <3>3. CASE NewInstance(q)
      BY <3>3 DEF NewInstance
    <3>4. CASE ProcessFields(q)
      BY <1>1, <3>1, <3>4 DEF ProcessFields, Go
    <3>5. CASE phase[q] = "commit"
      <4>1. CASE Finish(q)
        BY <1>0, <3>5, <4>1 DEF Finish, StageInv, Opens
      <4>2. CASE CommitFails(q)
        BY <1>1, <3>1, <4>2 DEF CommitFails, Throw, Go
      <4> QED
        BY <1>5, <3>5, <4>1, <4>2 DEF Serve, ConfigureSelected, Refresh, NewInstance,
           ProcessFields, Begin, ExecuteList, ExecuteShow, ExecuteWrite, ExecuteFails, Rollback
    <3> QED
      BY <1>2, <3>2, <3>3, <3>4, <3>5 DEF Serve, ConfigureSelected, Begin, ExecuteList,
         ExecuteShow, ExecuteWrite, ExecuteFails, Commit, Finish, CommitFails, Rollback
  <2> QED
    BY <1>0, <1>3, <2>1, <2>2 DEF Written
<1> QED
  BY <1>4, <1>5

(* Sending a request changes nothing for the others, and it is sent from    *)
(* what its page shows.                                                    *)
LEMMA SendWrites ==
  ASSUME StoreInv, WriteInv, NEW q \in Requests,
         SendPlain(q) \/ SendRow(q) \/ SendForm(q)
  PROVE  WriteInv'
<1> DEFINE s == SessionOf[q]
<1>1. PICK p : Send(q, p)
  BY DEF SendPlain, SendRow, SendForm
<1>2. /\ phase[q] = "free" /\ phase'[q] = "sent" /\ par'[q] = p
      /\ UNCHANGED <<page, selected, selectedNew, obj, attached, tx, work, rendered,
                     latest, lister, disturbed, effect>>
      /\ \A r \in Requests \ {q} : phase'[r] = phase[r] /\ par'[r] = par[r]
  BY <1>1 DEF Send, Go, StoreInv, TypeOK, containerVars, hibernateVars, historyVars
<1>3. /\ s \in Sessions /\ TypeOK /\ OwnInv(s) /\ q \in Of(s)
  BY OperationsAssumption DEF StoreInv, WriteInv, Of
<1>4. \A r \in Requests : Done(r)' <=> Done(r)
  BY <1>2 DEF Done
<1>5. ASSUME NEW z \in Sessions PROVE OwnInv(z)'
  <2>1. OwnInv(z)
    BY DEF WriteInv
  <2> QED
    BY <1>2, <1>4, <2>1 DEF OwnInv, Of, InstancesOf, Done
<1>6. ASSUME NEW z \in Sessions PROVE LatestInv(z)'
  <2>1. LatestInv(z) /\ latest[z] \in Of(z) \cup {None}
    BY DEF WriteInv, OwnInv
  <2>2. \A r \in Requests : Running(r)' => Running(r) /\ r # q
    BY <1>2 DEF Running
  <2>3. latest[z] # None /\ phase'[latest[z]] = "ok" =>
          /\ latest[z] # q /\ phase[latest[z]] = "ok"
          /\ par'[latest[z]] = par[latest[z]]
    BY <1>2, <2>1 DEF Of
  <2> QED
    BY <1>2, <2>1, <2>2, <2>3 DEF LatestInv, Of
<1>7. ASSUME NEW r \in Requests
      PROVE  StageInv(r)' /\ AloneInv(r)' /\ WorkInv(r)' /\ WrittenInv(r)'
  <2>1. StageInv(r) /\ AloneInv(r) /\ WorkInv(r) /\ WrittenInv(r)
    BY DEF WriteInv
  <2>2. CASE r = q
    BY <1>2, <2>1, <2>2 DEF StageInv, AloneInv, WorkInv, WrittenInv, Quiet, Running
  <2>3. CASE r # q
    <3>1. phase'[r] = phase[r] /\ par'[r] = par[r] /\ (Quiet(r)' <=> Quiet(r))
      BY <1>2, <2>3 DEF Quiet, Running
    <3>2. StageInv(r)' /\ WrittenInv(r)'
      BY <1>2, <2>1, <3>1 DEF StageInv, WrittenInv, Written
    <3>3. AloneInv(r)'
      BY <1>2, <2>1, <3>1 DEF AloneInv, Running, Peers
    <3>4. WorkInv(r)'
      BY <1>2, <2>1, <3>1 DEF WorkInv, OnShown, OnMade
    <3> QED
      BY <3>2, <3>3, <3>4
  <2> QED
    BY <2>2, <2>3
<1>8. ASSUME NEW r \in Requests, r # q PROVE SentInv(r)'
  <2>1. SentInv(r) /\ par'[r] = par[r] /\ phase'[r] = phase[r]
    BY <1>2, <1>8 DEF WriteInv
  <2>2. \A o : (\E x \in Of(SessionOf[r]) : /\ phase'[x] = "ok"
                                            /\ work'[x] = [kind |-> "insert", target |-> o])
                <=> Saved(SessionOf[r], o)
    BY <1>2 DEF Saved, Of
  <2>3. \A b \in Requests : phase[b] = "ok" => par'[b] = par[b] /\ phase'[b] = "ok"
    BY <1>2
  <2>4. CASE par[r].index > 0
    BY <1>2, <1>4, <2>1, <2>2, <2>4 DEF SentInv, Of, Saved, Done
  <2>5. CASE ~(par[r].index > 0)
    BY <1>2, <2>1, <2>3, <2>5 DEF SentInv, Peers
  <2> QED
    BY <2>4, <2>5
<1>9. SentInv(q)'
  <2>1. CASE SendPlain(q)
    <3>1. PICK op \in {"list", "addForm"} : Send(q, [NoPar EXCEPT !.op = op])
      BY <2>1 DEF SendPlain
    <3>2. par'[q] = [NoPar EXCEPT !.op = op]
      BY <1>3, <3>1 DEF Send, TypeOK
    <3>3. par'[q].op \in {"list", "addForm"} /\ par'[q].index = 0
      BY <3>2 DEF NoPar
    <3> QED
      BY <3>3 DEF SentInv
  <2>2. CASE SendRow(q)
    <3>1. PICK op \in RowOps, i \in DOMAIN page[s] :
            Send(q, [op |-> op, index |-> i, value |-> Absent,
                     item |-> obj[page[s][i]].item, basis |-> lister[s]])
      BY <2>2 DEF SendRow
    <3>2. /\ par'[q].op = op /\ par'[q].index = i
          /\ par'[q].item = obj[page[s][i]].item /\ par'[q].basis = lister[s]
      BY <1>3, <3>1 DEF Send, TypeOK
    <3>3. lister[s] \in Of(s) /\ i > 0 /\ Done(lister[s]) /\ i \in 1..PageSize
      BY <1>3, PageFacts DEF OwnInv
    <3>4. Done(lister[s])'
      BY <1>2, <1>4, <3>3 DEF Of, Done
    <3>5. i # 0
      BY <3>3
    <3> QED
      BY <1>2, <3>1, <3>2, <3>3, <3>4, <3>5 DEF SentInv, Of, Done
  <2>3. CASE SendForm(q)
    <3>1. PICK op \in RowOps \cup FormOps, v \in Values, b \in Peers(q) :
            /\ phase[b] = "ok" /\ par[b].op \in FormOf(op)
            /\ Send(q, [op |-> op, index |-> 0,
                        value |-> IF op \in FormOps THEN v ELSE Absent,
                        item |-> rendered[b], basis |-> b])
      BY <2>3 DEF SendForm
    <3>2. /\ par'[q].op = op /\ par'[q].index = 0
          /\ par'[q].item = rendered[b] /\ par'[q].basis = b
      BY <1>3, <3>1 DEF Send, TypeOK
    <3>3. phase'[b] = "ok" /\ par'[b] = par[b]
      BY <1>2, <3>1 DEF Peers
    <3> QED
      BY <1>2, <3>1, <3>2, <3>3 DEF SentInv
  <2> QED
    BY <2>1, <2>2, <2>3
<1> QED
  BY <1>5, <1>6, <1>7, <1>8, <1>9 DEF WriteInv

(* A served step keeps what holds of its session, and of the other ones.    *)
LEMMA ServeWrites ==
  ASSUME StoreInv, WriteInv, NEW q \in Requests, Serve(q)
  PROVE  WriteInv'
<1> DEFINE s == SessionOf[q]
<1>0. s \in Sessions
  BY OperationsAssumption
<1>1. OwnInv(s)' /\ LatestInv(s)'
  BY OwnStep, LatestStep
<1>2. ASSUME NEW r \in Requests, SessionOf[r] = s
      PROVE  StageInv(r)' /\ AloneInv(r)' /\ SentInv(r)' /\ WorkInv(r)' /\ WrittenInv(r)'
  <2>1. SentInv(r)'
    BY <1>2, SentStep DEF Of
  <2>2. CASE r = q
    BY <2>1, <2>2, StageStep, Disturbs, WorkStep, WrittenStep
  <2>3. CASE r # q
    BY <1>2, <2>1, <2>3, PeerStep DEF Peers
  <2> QED
    BY <2>2, <2>3
<1>3. ASSUME NEW z \in Sessions, z # s
      PROVE  /\ OwnInv(z)' /\ LatestInv(z)'
             /\ \A r \in Of(z) : /\ StageInv(r)' /\ AloneInv(r)' /\ SentInv(r)'
                                 /\ WorkInv(r)' /\ WrittenInv(r)'
  <2>1. /\ selected'[z] = selected[z] /\ selectedNew'[z] = selectedNew[z]
        /\ page'[z] = page[z] /\ latest'[z] = latest[z] /\ lister'[z] = lister[z]
    BY <1>3, Frame DEF WriteInv
  <2>2. \A o \in InstancesOf(z) : obj'[o] = obj[o]
    BY <1>3, Frame DEF WriteInv, InstancesOf
  <2>3. \A r \in Of(z) :
           /\ phase'[r] = phase[r] /\ par'[r] = par[r] /\ tx'[r] = tx[r]
           /\ work'[r] = work[r] /\ attached'[r] = attached[r]
           /\ rendered'[r] = rendered[r] /\ effect'[r] = effect[r]
           /\ disturbed'[r] <=> disturbed[r]
    BY <1>3, Frame DEF WriteInv, Of
  <2> QED
    BY <2>1, <2>2, <2>3, SameSession
<1>4. ASSUME NEW r \in Requests
      PROVE  StageInv(r)' /\ AloneInv(r)' /\ SentInv(r)' /\ WorkInv(r)' /\ WrittenInv(r)'
  <2>1. SessionOf[r] \in Sessions /\ r \in Of(SessionOf[r])
    BY OperationsAssumption DEF Of
  <2> QED
    BY <1>2, <1>3, <2>1
<1> QED
  BY <1>1, <1>3, <1>4 DEF WriteInv

(* Whatever the requests of the other sessions do, a request that ends well *)
(* and that no other one of its session disturbed wrote the row which the   *)
(* page it was sent from showed, with the value of its form, and no other.  *)
THEOREM ShownIsWritten == Spec => []WritesWhatWasShown
<1>1. Init => WriteInv
  <2> SUFFICES ASSUME Init PROVE WriteInv
    OBVIOUS
  <2>1. ASSUME NEW s \in Sessions PROVE OwnInv(s) /\ LatestInv(s)
    <3>1. /\ selected[s] = None /\ latest[s] = None /\ lister[s] = None /\ page[s] = <<>>
          /\ \A r \in Requests : work[r].target = None
      BY DEF Init, NoWork
    <3> QED
      BY <3>1 DEF OwnInv, LatestInv, Of
  <2>2. ASSUME NEW r \in Requests
        PROVE  StageInv(r) /\ AloneInv(r) /\ SentInv(r) /\ WorkInv(r) /\ WrittenInv(r)
    BY DEF Init, StageInv, AloneInv, SentInv, WorkInv, WrittenInv, Quiet, Running
  <2> QED
    BY <2>1, <2>2 DEF WriteInv
<1>2. StoreInv /\ WriteInv /\ [Next]_vars => WriteInv'
  <2> SUFFICES ASSUME StoreInv, WriteInv, [Next]_vars PROVE WriteInv'
    OBVIOUS
  <2>1. CASE UNCHANGED vars
    <3>1. ASSUME NEW s \in Sessions
          PROVE  /\ OwnInv(s)' /\ LatestInv(s)'
                 /\ \A r \in Of(s) : /\ StageInv(r)' /\ AloneInv(r)' /\ SentInv(r)'
                                     /\ WorkInv(r)' /\ WrittenInv(r)'
      BY <2>1, SameSession DEF vars, containerVars, hibernateVars, historyVars
    <3>2. \A r \in Requests : SessionOf[r] \in Sessions /\ r \in Of(SessionOf[r])
      BY OperationsAssumption DEF Of
    <3> QED
      BY <3>1, <3>2 DEF WriteInv
  <2> QED
    BY <2>1, SendWrites, ServeWrites DEF Next
<1>3. WriteInv => WritesWhatWasShown
  BY DEF WriteInv, WrittenInv, WritesWhatWasShown
<1> QED
  BY <1>1, <1>2, <1>3, StoreAlways, PTL DEF Spec
=============================================================================
