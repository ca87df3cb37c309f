---------------------------- MODULE MonitorWatch ----------------------------
(***************************************************************************)
(* The web side of a monitor: a page that shows a monitor asks for its new  *)
(* lines again and again (struts/actions/MonitorAction.java), through the   *)
(* observer its HTTP session keeps.  Nobody says when the page is closed,   *)
(* so the observer carries a timer that deletes it unless it is polled      *)
(* (struts/StrutsMonitorObserver.java).                                     *)
(*                                                                         *)
(* Time passes in ticks.  A timer that is due, and the task it runs, take   *)
(* as long as the scheduler lets them.                                     *)
(***************************************************************************)
EXTENDS Monitor

CONSTANTS
  Sessions,      \* HTTP sessions
  NoObserver,    \* no attribute "pm.monitor.watcher" in the session
  Delay          \* Monitor.delay, in ticks

ASSUME WatchAssumption ==
  /\ NoObserver \notin Observers
  /\ Delay \in Nat \ {0}

VARIABLES
  watcher,       \* attribute "pm.monitor.watcher" of each session
  serving,       \* the observer the request of a session works on
  at,            \* where that request is; "out" when there is none
  armed,         \* is the task of the observer's timer scheduled?
  left,          \* ticks until that task is due
  firing,        \* has a task of the observer started?
  idle           \* history: ticks since the last getLines, up to Expiry

watchVars == <<watcher, serving, at, armed, left, firing, idle>>
allVars   == <<monitorVars, watchVars>>

(* timer.schedule(task, getMonitor().getDelay()*3)                          *)
Expiry == Delay * 3

WatchInit ==
  /\ Init
  /\ watcher = [s \in Sessions |-> NoObserver]
  /\ serving = [s \in Sessions |-> NoObserver]
  /\ at = [s \in Sessions |-> "out"]
  /\ armed = [o \in Observers |-> FALSE]
  /\ left = [o \in Observers |-> 0]
  /\ firing = [o \in Observers |-> FALSE]
  /\ idle = [o \in Observers |-> 0]

----------------------------------------------------------------------------
(* MonitorAction.doExecute.  It holds the lock of the HttpSession from its  *)
(* first to its last step, so a session has one request at a time here.    *)

Step(s, from, to) == at[s] = from /\ at' = [at EXCEPT ![s] = to]

(* A request without "continue", or of a session without observer: makes a  *)
(* new one, whose constructor registers it first.                          *)
Watch(s, o) ==
  /\ Step(s, "out", "building")
  /\ AddObserver(o)
  /\ serving' = [serving EXCEPT ![s] = o]
  /\ UNCHANGED <<watcher, armed, left, firing, idle>>

BuildList(s) ==
  /\ Step(s, "building", "scheduling")
  /\ SetLines(serving[s])
  /\ UNCHANGED <<watcher, serving, armed, left, firing, idle>>

(* Mutant of Arm: cancelled and not scheduled again.                        *)
Cancel(o) ==
  /\ armed' = [armed EXCEPT ![o] = FALSE]
  /\ idle' = [idle EXCEPT ![o] = 0]
  /\ UNCHANGED left

Arm(o) ==
  /\ armed' = [armed EXCEPT ![o] = TRUE]
  /\ left' = [left EXCEPT ![o] = Expiry]
  /\ idle' = [idle EXCEPT ![o] = 0]

(* The end of the constructor, and the observer becomes the session's in    *)
(* place of the one it had, which stays registered.                        *)
Schedule(s) ==
  /\ Step(s, "scheduling", "out")
  /\ Arm(serving[s])
  /\ watcher' = [watcher EXCEPT ![s] = serving[s]]
  /\ serving' = [serving EXCEPT ![s] = NoObserver]
  /\ UNCHANGED <<firing, monitorVars>>

(* A request with "continue": getLines first cancels the timer, which does  *)
(* not stop a task that has started, and makes another.                    *)
Poll(s) ==
  /\ watcher[s] # NoObserver
  /\ Step(s, "out", "copying")
  /\ Arm(watcher[s])
  /\ serving' = [serving EXCEPT ![s] = watcher[s]]
  /\ UNCHANGED <<watcher, firing, monitorVars>>

Copy(s) ==
  /\ Step(s, "copying", "clearing")
  /\ CopyLines(serving[s]) \/ CopyTorn(serving[s])
  /\ UNCHANGED <<watcher, serving, armed, left, firing, idle>>

Clear(s) ==
  /\ at[s] = "clearing"
  /\ ClearLines(serving[s])
  /\ UNCHANGED watchVars

(* The list is cleared, by Clear or in a race with the monitor's thread.    *)
Return(s) ==
  /\ Step(s, "clearing", "out")
  /\ stage[serving[s]] = "ready"
  /\ serving' = [serving EXCEPT ![s] = NoObserver]
  /\ UNCHANGED <<watcher, armed, left, firing, idle, monitorVars>>

RequestStep(s) ==
  BuildList(s) \/ Schedule(s) \/ Copy(s) \/ Clear(s) \/ Return(s)

----------------------------------------------------------------------------
(* The timers.                                                             *)

Tick ==
  /\ left' = [o \in Observers |->
                IF armed[o] /\ left[o] > 0 THEN left[o] - 1 ELSE left[o]]
  /\ idle' = [o \in Observers |->
                IF o \in observers /\ idle[o] < Expiry
                  THEN idle[o] + 1 ELSE idle[o]]
  /\ UNCHANGED <<watcher, serving, at, armed, firing, monitorVars>>

TimerFires(o) ==
  /\ armed[o] /\ left[o] = 0
  /\ armed' = [armed EXCEPT ![o] = FALSE]
  /\ firing' = [firing EXCEPT ![o] = TRUE]
  /\ UNCHANGED <<watcher, serving, at, left, idle, monitorVars>>

(* Mutant of TaskRuns: it deletes itself, the task.                         *)
TaskDeletesItself(o) ==
  /\ firing[o]
  /\ firing' = [firing EXCEPT ![o] = FALSE]
  /\ UNCHANGED <<watcher, serving, at, armed, left, idle, monitorVars>>

(* getMonitor().deleteObserver(self())                                     *)
TaskRuns(o) ==
  /\ firing[o]
  /\ firing' = [firing EXCEPT ![o] = FALSE]
  /\ DeleteObserver(o)
  /\ UNCHANGED <<watcher, serving, at, armed, left, idle>>

----------------------------------------------------------------------------
WatchNext ==
  \/ (Append1 \/ Rotate \/ ThreadStep) /\ UNCHANGED watchVars
  \/ \E s \in Sessions :
       \/ \E o \in Observers : Watch(s, o)
       \/ Poll(s)
       \/ RequestStep(s)
  \/ Tick
  \/ \E o \in Observers : TimerFires(o) \/ TaskRuns(o)

WatchSpec == WatchInit /\ [][WatchNext]_allVars

(* A request that began is served, time passes, a timer that is due runs    *)
(* its task.  No session has to watch or to poll, no line has to come.     *)
WatchFairness ==
  /\ WF_allVars(ThreadStep /\ UNCHANGED watchVars)
  /\ \A s \in Sessions : WF_allVars(RequestStep(s))
  /\ WF_allVars(Tick)
  /\ \A o \in Observers : WF_allVars(TimerFires(o)) /\ WF_allVars(TaskRuns(o))
WatchFairSpec == WatchSpec /\ WatchFairness

----------------------------------------------------------------------------
Places == {"out", "building", "scheduling", "copying", "clearing"}

(* Every variable keeps its type.                                          *)
WatchTypeOK ==
  /\ TypeOK
  /\ watcher \in [Sessions -> Observers \cup {NoObserver}]
  /\ serving \in [Sessions -> Observers \cup {NoObserver}]
  /\ at \in [Sessions -> Places]
  /\ armed \in [Observers -> BOOLEAN]
  /\ left \in [Observers -> 0..Expiry]
  /\ firing \in [Observers -> BOOLEAN]
  /\ idle \in [Observers -> 0..Expiry]

(* No observer is left behind: one that is registered is being built, or    *)
(* its timer is scheduled, or its task is about to delete it.  Replaced     *)
(* observers and those of sessions that ended are not kept by anybody, so   *)
(* one without a timer would be told of every line for ever.               *)
UnderConstruction(o) ==
  \E s \in Sessions : serving[s] = o /\ at[s] \in {"building", "scheduling"}
NoLeak == \A o \in observers : armed[o] \/ firing[o] \/ UnderConstruction(o)

(* "As a Web interface cannot be called, then we don't know when to stop    *)
(* observing" (StrutsMonitorObserver.java:28): an observer is polled again  *)
(* or forgotten.                                                           *)
AbandonedIsForgotten ==
  \A o \in Observers : []<>(o \notin observers \/ left[o] = Expiry)

(* "If the getLines method is not called since 3 times the delay monitor    *)
(* parameter, we asume that this observer is no longer needed and delete"   *)
(* (StrutsMonitorObserver.java:29): no other observer is deleted.          *)
DeletedOnlyWhenIdle ==
  [][\A o \in Observers : o \in observers /\ o \notin observers'
       => idle[o] = Expiry]_allVars
=============================================================================
