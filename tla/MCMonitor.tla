------------------------------ MODULE MCMonitor ------------------------------
(* Monitor with two observers that come, poll and go.  The longest files and *)
(* the file that is emptied are left to the behaviours of one of them: Shared *)
(* bounds the lines of those with both.                                     *)
EXTENDS Monitor, FiniteSets

CONSTANT Shared

Fits == \/ file <= Shared /\ rotations = 0
        \/ Cardinality({o \in Observers : stage[o] # "new"}) <= 1

MCNext ==
  \/ Append1 /\ Fits'
  \/ Rotate /\ Fits'
  \/ ThreadStep
  \/ \E o \in Observers :
       \/ AddObserver(o) /\ Fits'
       \/ SetLines(o) \/ CopyLines(o) \/ CopyTorn(o) \/ ClearLines(o) \/ DeleteObserver(o)

(* Neither the thread nor the rest of a request that began is held back.     *)
MCSpec ==
  /\ Init /\ [][MCNext]_monitorVars
  /\ WF_monitorVars(ThreadStep)
  /\ \A o \in Observers : WF_monitorVars(SetLines(o)) /\ WF_monitorVars(ClearLines(o))
=============================================================================
