------------------------------ MODULE Monitor ------------------------------
(***************************************************************************)
(* A monitor of the Presentation Manager: one thread per Monitor follows a  *)
(* growing file and hands every new line to the observers registered with   *)
(* it (core/monitor/Monitor.java, FileMonitorSource.java,                   *)
(* MonitorObserver.java).  Observers come and go from other threads, and    *)
(* the thread is put to sleep for ever while there are none.                *)
(*                                                                         *)
(* A line is its number in the file, so its content and its format are      *)
(* abstracted away.  The observers of java.util.Observable are a set: the   *)
(* order in which they are told is left open, as its contract leaves it.    *)
(***************************************************************************)
EXTENDS Integers, Sequences, Functions

CONSTANTS
  Observers,     \* the MonitorObserver objects that may be created
  All,           \* the "all" flag of the monitor
  MaxLines,      \* bound: lines the file may reach
  MaxRotations   \* bound: times the file may be emptied

ASSUME MonitorAssumption ==
  /\ All \in BOOLEAN
  /\ MaxLines \in Nat
  /\ MaxRotations \in Nat

Null == -1       \* the null reference: no line number

VARIABLES
  file,          \* number of lines in the monitored file
  rotations,     \* times the file was emptied
  pc,            \* where Monitor.run is
  interrupted,   \* the interrupt status of the monitor's thread
  actual,        \* Monitor.actual: number of the last line seen
  changed,       \* Observable.changed
  observers,     \* Observable.obs
  batch,         \* the argument of notifyObservers
  pending,       \* observers of the current notification still to be told
  stage,         \* how far the construction of each observer is
  lines,         \* MonitorObserver.lines
  res,           \* the list getLines is about to return
  got,           \* history: every line update received, per observer
  shown,         \* history: every line getLines returned, per observer
  stale,         \* history: lines that a race left in the list for another poll
  spoilt         \* history: lines of notifications cut short by an exception

sourceVars   == <<file, rotations>>
threadVars   == <<pc, actual, batch, pending, spoilt>>
observerVars == <<stage, lines, res, got, shown, stale>>
monitorVars  == <<sourceVars, threadVars, observerVars,
                  interrupted, changed, observers>>

Init ==
  /\ file \in 0..MaxLines
  /\ rotations = 0
  /\ pc = "top"
  /\ interrupted = FALSE
  /\ actual = Null
  /\ changed = FALSE
  /\ observers = {}
  /\ batch = <<>>
  /\ pending = {}
  /\ stage = [o \in Observers |-> "new"]
  /\ lines = [o \in Observers |-> <<>>]
  /\ res = [o \in Observers |-> <<>>]
  /\ got = [o \in Observers |-> <<>>]
  /\ shown = [o \in Observers |-> <<>>]
  /\ stale = [o \in Observers |-> {}]
  /\ spoilt = {}

----------------------------------------------------------------------------
(* The monitored file, written by some other program.                      *)

Append1 ==
  /\ file < MaxLines
  /\ file' = file + 1
  /\ UNCHANGED <<rotations, threadVars, observerVars,
                 interrupted, changed, observers>>

Rotate ==
  /\ rotations < MaxRotations
  /\ rotations' = rotations + 1
  /\ file' = 0
  /\ UNCHANGED <<threadVars, observerVars, interrupted, changed, observers>>

(* FileMonitorSource.getLastLine: numbers start at 0, an empty file yields  *)
(* a line without number.                                                  *)
LastLine == IF file = 0 THEN Null ELSE file - 1

(* FileMonitorSource.getLinesFrom: a null argument counts as line 0, the    *)
(* lines up to and including that one are skipped, and a file without them  *)
(* is an IOException.                                                      *)
StartLine(from) == IF from = Null THEN 0 ELSE from
TooSmall(from)  == file < StartLine(from) + 1

(* Mutants of LinesFrom: one line too many at the beginning, the last line  *)
(* only.                                                                   *)
LinesIncluding(from) ==
  [i \in 1..(file - StartLine(from)) |-> StartLine(from) + i - 1]
LinesSkipping(from) ==
  IF file - 1 > StartLine(from) THEN <<file - 1>> ELSE <<>>

LinesFrom(from) ==
  [i \in 1..(file - 1 - StartLine(from)) |-> StartLine(from) + i]

----------------------------------------------------------------------------
(* The thread: Monitor.run.                                                *)

Goto(label) == pc' = label

(* if (countObservers()==0)                                                *)
Top ==
  /\ pc = "top"
  /\ Goto(IF observers = {} THEN "asleep" ELSE "start")
  /\ UNCHANGED <<sourceVars, actual, batch, pending, spoilt, observerVars,
                 interrupted, changed, observers>>

(* Thread.sleep(Long.MAX_VALUE) only ends by an interrupt, one that came    *)
(* before the call included.                                               *)
Woken ==
  /\ pc = "asleep"
  /\ interrupted
  /\ interrupted' = FALSE
  /\ Goto("top")
  /\ UNCHANGED <<sourceVars, actual, batch, pending, spoilt, observerVars,
                 changed, observers>>

StartWatching ==
  /\ pc = "start"
  /\ actual' = LastLine
  /\ batch' = <<LastLine>>
  /\ Goto("greet")
  /\ UNCHANGED <<sourceVars, pending, spoilt, observerVars,
                 interrupted, changed, observers>>

(* while (countObservers()>0)                                              *)
Loop ==
  /\ pc = "loop"
  /\ Goto(IF observers = {} THEN "top" ELSE "read")
  /\ UNCHANGED <<sourceVars, actual, batch, pending, spoilt, observerVars,
                 interrupted, changed, observers>>

(* Mutant of Publish: setChanged is forgotten.                             *)
PublishUnchanged(new) ==
  /\ batch' = new
  /\ actual' = new[Len(new)]
  /\ UNCHANGED changed

Publish(new) ==
  /\ batch' = new
  /\ actual' = new[Len(new)]
  /\ changed' = TRUE

(* getNewLines up to setChanged.  An IOException, and a file with nothing   *)
(* new, end the call without telling anybody: the observers are notified of *)
(* the exception without setChanged, which Observable ignores.             *)
GetNewLines ==
  LET from == IF All THEN Null ELSE actual IN
  /\ pc = "read"
  /\ IF TooSmall(from) \/ LinesFrom(from) = <<>>
       THEN /\ Goto("nap")
            /\ UNCHANGED <<actual, batch, changed>>
       ELSE /\ Publish(LinesFrom(from))
            /\ Goto("notify")
  /\ UNCHANGED <<sourceVars, pending, spoilt, observerVars,
                 interrupted, observers>>

(* Observable.notifyObservers: under its lock it returns if nothing         *)
(* changed, else it takes a copy of the observers and clears the flag.      *)
NotifyObservers(after) ==
  IF changed
    THEN /\ changed' = FALSE
         /\ pending' = observers
         /\ Goto("deliver")
    ELSE /\ Goto(after)
         /\ UNCHANGED <<changed, pending>>

(* notifyObservers(getFormatter().format(line)) in startWatching           *)
Greet ==
  /\ pc = "greet"
  /\ NotifyObservers("loop")
  /\ UNCHANGED <<sourceVars, actual, batch, spoilt, observerVars,
                 interrupted, observers>>

(* notifyObservers(result) in getNewLines                                  *)
NotifyLines ==
  /\ pc = "notify"
  /\ NotifyObservers("nap")
  /\ UNCHANGED <<sourceVars, actual, batch, spoilt, observerVars,
                 interrupted, observers>>

(* MonitorObserver.update of an observer that has its list of lines.  The   *)
(* list is an ArrayList used by two threads without a lock; if getLines is  *)
(* about to clear or to copy it, the two calls may overlap: see DeliverTorn *)
(* and CopyTorn.                                                           *)
Tell(o) ==
  /\ pc = "deliver"
  /\ o \in pending
  /\ pending' = pending \ {o}
  /\ got' = [got EXCEPT ![o] = @ \o batch]
  /\ UNCHANGED <<sourceVars, pc, actual, batch, spoilt,
                 interrupted, changed, observers>>

Deliver(o) ==
  /\ Tell(o)
  /\ stage[o] \in {"ready", "polling"}
  /\ lines' = [lines EXCEPT ![o] = @ \o batch]
  /\ UNCHANGED <<stage, res, shown, stale>>

(* ArrayList.clear nulls the elements and sets the size to 0 after addAll   *)
(* copied the new ones behind them and before it adds their number to the   *)
(* size it reads after, or that it had read before.  An addAll that makes   *)
(* the array longer may have copied an old element before clear nulled it.  *)
(* (How long the array is is left open: it may be too short for any addAll.) *)
Left(old, K) == [i \in 1..Len(old) |-> IF i \in K THEN old[i] ELSE Null]
TornLists(old, new) ==
  LET torn == {Left(old, K) \o new : K \in SUBSET (1..Len(old))}
  IN  torn \cup {SubSeq(s, 1, Len(new)) : s \in torn}

DeliverTorn(o) ==
  /\ Tell(o)
  /\ stage[o] = "polling"
  /\ \E torn \in TornLists(lines[o], batch) :
       /\ lines' = [lines EXCEPT ![o] = torn]
       /\ stale' = [stale EXCEPT ![o] = @ \cup (Range(torn) \cap Range(res[o]))]
  /\ shown' = [shown EXCEPT ![o] = @ \o res[o]]
  /\ stage' = [stage EXCEPT ![o] = "ready"]
  /\ UNCHANGED res

(* update of an observer whose constructor has not made the list yet: the   *)
(* NullPointerException leaves notifyObservers, getNewLines swallows it,    *)
(* and the observers not told yet never get these lines.                   *)
DeliverFails(o) ==
  /\ pc = "deliver"
  /\ o \in pending
  /\ stage[o] = "registered"
  /\ pending' = {}
  /\ spoilt' = spoilt \cup {batch[i] : i \in DOMAIN batch}
  /\ Goto("nap")
  /\ UNCHANGED <<sourceVars, actual, batch, observerVars,
                 interrupted, changed, observers>>

Delivered ==
  /\ pc = "deliver"
  /\ pending = {}
  /\ Goto("nap")
  /\ UNCHANGED <<sourceVars, actual, batch, pending, spoilt, observerVars,
                 interrupted, changed, observers>>

(* Thread.sleep(getDelay()) ends by itself or by an interrupt.             *)
Nap ==
  /\ pc = "nap"
  /\ interrupted' = FALSE
  /\ Goto("loop")
  /\ UNCHANGED <<sourceVars, actual, batch, pending, spoilt, observerVars,
                 changed, observers>>

ThreadStep ==
  \/ Top \/ Woken \/ StartWatching \/ Greet \/ Loop \/ GetNewLines
  \/ NotifyLines \/ Delivered \/ Nap
  \/ \E o \in Observers : Deliver(o) \/ DeliverTorn(o) \/ DeliverFails(o)

----------------------------------------------------------------------------
(* The observers, run by the threads that serve the requests.              *)

(* Mutant of AddObserver: the observers are counted before the new one.     *)
AddObserverUnheard(o) ==
  /\ stage[o] = "new"
  /\ stage' = [stage EXCEPT ![o] = "registered"]
  /\ observers' = observers \cup {o}
  /\ interrupted' = (interrupted \/ observers = {o})
  /\ UNCHANGED <<sourceVars, threadVars, lines, res, got, shown, stale, changed>>

(* MonitorObserver's constructor registers the object, in                   *)
(* Monitor.addObserver, before it gives it a list of lines.                *)
AddObserver(o) ==
  /\ stage[o] = "new"
  /\ stage' = [stage EXCEPT ![o] = "registered"]
  /\ observers' = observers \cup {o}
  /\ interrupted' = (interrupted \/ observers' = {o})   \* countObservers()==1
  /\ UNCHANGED <<sourceVars, threadVars, lines, res, got, shown, stale, changed>>

SetLines(o) ==
  /\ stage[o] = "registered"
  /\ stage' = [stage EXCEPT ![o] = "ready"]
  /\ lines' = [lines EXCEPT ![o] = <<>>]
  /\ UNCHANGED <<sourceVars, threadVars, res, got, shown, stale,
                 interrupted, changed, observers>>

(* MonitorObserver.getLines: copy the list, then clear it.                 *)
CopyLines(o) ==
  /\ stage[o] = "ready"
  /\ stage' = [stage EXCEPT ![o] = "polling"]
  /\ res' = [res EXCEPT ![o] = lines[o]]
  /\ UNCHANGED <<sourceVars, threadVars, lines, got, shown, stale,
                 interrupted, changed, observers>>

(* The copy asks for the array before an addAll that makes a longer one, and *)
(* for the size after: the new rows of the copy are empty.                 *)
Nulls(n) == [i \in 1..n |-> Null]
CopyTorn(o) ==
  /\ Tell(o)
  /\ stage[o] = "ready"
  /\ stage' = [stage EXCEPT ![o] = "polling"]
  /\ res' = [res EXCEPT ![o] = lines[o] \o Nulls(Len(batch))]
  /\ lines' = [lines EXCEPT ![o] = @ \o batch]
  /\ UNCHANGED <<shown, stale>>

ClearLines(o) ==
  /\ stage[o] = "polling"
  /\ stage' = [stage EXCEPT ![o] = "ready"]
  /\ lines' = [lines EXCEPT ![o] = <<>>]
  /\ shown' = [shown EXCEPT ![o] = @ \o res[o]]
  /\ UNCHANGED <<sourceVars, threadVars, res, got, stale,
                 interrupted, changed, observers>>

DeleteObserver(o) ==
  /\ observers' = observers \ {o}
  /\ UNCHANGED <<sourceVars, threadVars, observerVars, interrupted, changed>>

----------------------------------------------------------------------------
Next ==
  \/ Append1 \/ Rotate
  \/ ThreadStep
  \/ \E o \in Observers :
       \/ AddObserver(o) \/ SetLines(o) \/ CopyLines(o) \/ CopyTorn(o)
       \/ ClearLines(o) \/ DeleteObserver(o)

Spec == Init /\ [][Next]_monitorVars

(* The thread is scheduled, and a constructor or a getLines that began is   *)
(* finished by its thread.  Nobody has to write the file, to create an      *)
(* observer, to poll it or to delete it.                                   *)
FairSpec ==
  /\ Spec
  /\ WF_monitorVars(ThreadStep)
  /\ \A o \in Observers : WF_monitorVars(SetLines(o))
  /\ \A o \in Observers : WF_monitorVars(ClearLines(o))

----------------------------------------------------------------------------
Labels == {"top", "asleep", "start", "greet", "loop", "read", "notify",
           "deliver", "nap"}
Stages == {"new", "registered", "ready", "polling"}
LineNumbers == Null..(MaxLines - 1)

(* Every variable keeps its type.                                          *)
TypeOK ==
  /\ file \in 0..MaxLines
  /\ rotations \in 0..MaxRotations
  /\ pc \in Labels
  /\ interrupted \in BOOLEAN
  /\ changed \in BOOLEAN
  /\ actual \in LineNumbers
  /\ observers \in SUBSET Observers
  /\ pending \in SUBSET Observers
  /\ batch \in Seq(LineNumbers)
  /\ stage \in [Observers -> Stages]
  /\ lines \in [Observers -> Seq(LineNumbers)]
  /\ res \in [Observers -> Seq(LineNumbers)]
  /\ got \in [Observers -> Seq(LineNumbers)]
  /\ shown \in [Observers -> Seq(LineNumbers)]
  /\ stale \in [Observers -> SUBSET LineNumbers]
  /\ spoilt \in SUBSET LineNumbers

(* No wakeup is lost: a thread that sleeps for ever, or is about to, while   *)
(* somebody observes has been interrupted.  It is what addObserver's        *)
(* interrupt of the first observer is for, against the unlocked test of     *)
(* countObservers in run and the deletions of other threads.               *)
NoLostWakeup == pc = "asleep" /\ observers # {} => interrupted

(* s increases strictly, but for rows that are in S and those that a torn   *)
(* list left empty.                                                        *)
Increasing(s, S) ==
  \A i, j \in DOMAIN s : i < j /\ s[i] # Null /\ s[j] # Null =>
    s[i] < s[j] \/ s[j] \in S

(* An observer is told of no line twice or after a later one, and no poll   *)
(* returns one so, over all its polls, whatever the file, the other          *)
(* observers and the restarts of the watching do.  The exception are lines  *)
(* that an update and the clearing of a poll left in the list between them   *)
(* (MonitorObserver.java:57, 93): see ReturnedOnce.  ("all" repeats the file *)
(* on purpose.)                                                            *)
InOrder == ~All => \A o \in Observers :
  Increasing(got[o], {}) /\ Increasing(shown[o], stale[o])

(* Between two lines an observer was told of, it was told of every line     *)
(* but those of a notification that an exception cut short.                *)
Gapless ==
  ~All => \A o \in Observers : \A i \in 1..(Len(got[o]) - 1) :
            \A n \in (got[o][i] + 1)..(got[o][i + 1] - 1) : n \in spoilt

(* Somebody who observes gets the thread to watch.                         *)
Watching == pc \notin {"top", "asleep"}
ObservedIsWatched == observers # {} ~> (Watching \/ observers = {})

(* And a line behind the last one seen reaches an observer that is registered *)
(* and has its list: it is told of it, or an exception cuts the             *)
(* notification short, the observer is deleted, or the file is emptied.  The *)
(* exception is the first line of a file in which none had been seen: it is  *)
(* passed over (FileMonitorSource.java:52-57), see SinceTheActual.          *)
Ready(o) == o \in observers /\ stage[o] \in {"ready", "polling"}
LinesArrive ==
  /\ ObservedIsWatched
  /\ ~All => \A o \in Observers : \A n \in 0..(MaxLines - 1) :
       (Ready(o) /\ pc = "loop" /\ actual < n /\ n < file)
         ~> \/ n \in {got[o][i] : i \in DOMAIN got[o]}
            \/ n \in spoilt \/ o \notin observers \/ file <= n
            \/ n = 0

(* "Get the file lines since the actual until the last"                     *)
(* (FileMonitorSource.java:35): the lines that are told begin with the one  *)
(* behind the last one seen, which is the first if none was.               *)
SinceTheActual ==
  [][pc = "read" /\ pc' = "notify" /\ ~All => batch'[1] = actual + 1]_monitorVars

(* "@return the lines and clear them for next time"                         *)
(* (MonitorObserver.java:88): what an observer was told of is what its      *)
(* polls returned and what waits for the next one.                         *)
NothingCleared ==
  \A o \in Observers : stage[o] = "ready" => shown[o] \o lines[o] = got[o]

(* The same comment: a line that was returned is cleared, and not there for  *)
(* the next poll.                                                          *)
ReturnedOnce == ~All => \A o \in Observers : Increasing(shown[o], {})
=============================================================================
