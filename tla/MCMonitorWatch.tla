--------------------------- MODULE MCMonitorWatch ---------------------------
(* The composition with two observers for one session, which replaces its   *)
(* observer while the monitor tells it lines.  The longest file is left to   *)
(* the behaviours with one of them: Shared bounds the lines of the others.   *)
EXTENDS MonitorWatch, FiniteSets

CONSTANT Shared

Fits == \/ file <= Shared
        \/ Cardinality({o \in Observers : stage[o] # "new"}) <= 1

MCNext ==
  \/ Append1 /\ Fits' /\ UNCHANGED watchVars
  \/ (Rotate \/ ThreadStep) /\ UNCHANGED watchVars
  \/ \E s \in Sessions :
       \/ \E o \in Observers : Watch(s, o) /\ Fits'
       \/ Poll(s)
       \/ RequestStep(s)
  \/ Tick
  \/ \E o \in Observers : TimerFires(o) \/ TaskRuns(o)

MCSpec == WatchInit /\ [][MCNext]_allVars /\ WatchFairness
=============================================================================
