---------------------------- MODULE MCOperations ----------------------------
(* Three requests of one PM session, overlapping as they like; or, in turns, *)
(* these and two of another session, where the requests of one session       *)
(* follow each other and a page has one row.  The requests of a session, the *)
(* rows and the values are alike.                                           *)
EXTENDS Operations, TLC

CONSTANTS r1, r2, r3, q1, q2, s1, s2

VARIABLE inTurns

MCSessionOf == [r \in Requests |-> IF r \in {q1, q2} THEN s2 ELSE s1]
Alike == Permutations({r1, r2, r3}) \cup Permutations({q1, q2})
           \cup Permutations(Items) \cup Permutations(Values)

Answered(r) == \A q \in Peers(r) : phase[q] \in {"free", "ok", "failed"}

MCInit == Init /\ inTurns \in BOOLEAN
MCNext ==
  /\ \E r \in Requests :
       \/ /\ IF inTurns THEN Answered(r) ELSE SessionOf[r] = s1
          /\ SendPlain(r) \/ SendRow(r) \/ SendForm(r)
       \/ Serve(r)
  /\ inTurns => \A s \in Sessions : Len(page'[s]) <= 1
  /\ UNCHANGED inTurns
MCSpec == MCInit /\ [][MCNext]_<<vars, inTurns>>
=============================================================================
