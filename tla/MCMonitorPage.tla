---------------------------- MODULE MCMonitorPage ----------------------------
(* The two parts of the monitor page, that share no state: what moves in it, a *)
(* menu with a list below another one and the window of the lines, and the     *)
(* requests for them, of which two can be open at a time, of one loop or of     *)
(* two.  A behaviour moves the part that it begins with.                       *)
EXTENDS Effects, Polling

CONSTANTS top, sub

VARIABLE part

MCParentOf == [m \in {top, sub} |-> IF m = sub THEN top ELSE NoMenu]

MCMaxQueue == [e \in Menus \cup Panes |-> IF e = top THEN 3 ELSE 2]

Motion(A) == part = "motion" /\ A
Asking(A) == part = "requests" /\ A

MCInit == part \in {"motion", "requests"} /\ EffectsInit /\ Init

MCNext ==
    \/ part = "motion" /\ EffectsNext /\ UNCHANGED <<vars, part>>
    \/ part = "requests" /\ Next /\ UNCHANGED <<effectVars, part>>

(* The fairness of the part that moves: that of EffectsFairSpec and FairSpec.   *)
MCSpec ==
    /\ MCInit /\ [][MCNext]_<<effectVars, vars, part>>
    /\ WF_effectVars(Motion(Interval))
    /\ WF_vars(Asking(Round))
    /\ SF_vars(Asking(Round /\ \E r \in Ids : Send(r)))
    /\ WF_vars(Asking(ServeNobody))
    /\ SF_vars(Asking(\E r \in Ids : Collect(r)))
    /\ \A r \in Ids :
          /\ WF_vars(Asking(Render(r) \/ Break(r)))
          /\ WF_vars(Asking(Arrive(r) \/ Break(r)))
          /\ WF_vars(Asking(Answer(r)))
=============================================================================
