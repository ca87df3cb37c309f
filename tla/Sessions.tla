------------------------------ MODULE Sessions ------------------------------
(***************************************************************************)
(* The registry of PM sessions (core/PresentationManager.java): one         *)
(* PMSession per HTTP session id, made by a login, removed by a logout, by  *)
(* the session list of the administrator, or by a timer that looks for idle *)
(* ones.  The map is a plain HashMap: a registration and the timer hold its *)
(* lock, the lookups and the other removals do not.                         *)
(*                                                                         *)
(* Time passes in ticks and a PMSession has the name of the login that made *)
(* it.  A request is served once.                                          *)
(***************************************************************************)
EXTENDS Integers, FiniteSets

CONSTANTS
  Ids,           \* ids of HTTP sessions
  Requests,      \* requests of the browsers
  Timeout,       \* "session-timeout", in ticks
  None           \* the null reference

Free    == "free"       \* nobody holds the lock
Checker == "checker"    \* the timer's thread holds it

ASSUME SessionsAssumption ==
  /\ Timeout \in Nat
  /\ None \notin Requests \cup Nat
  /\ Free \notin Requests /\ Checker \notin Requests

VARIABLES
  sessions,      \* PresentationManager.sessions
  lastAccess,    \* ticks since PMSession.lastAccess; None before the first
  user,          \* has the PMSession a user?
  lock,          \* who is in a synchronized (sessions) block
  checker,       \* where the timer's task is
  toScan,        \* entries its iterator has still to visit
  modified,      \* the map was changed under the iterator
  toRemove,      \* ids of the sessions found idle
  found,         \* history: the PMSession found under each of those ids
  at,            \* where a request is
  kind,          \* what it is
  id,            \* the HTTP session it belongs to
  good           \* does a login have the right password?

checkVars   == <<checker, toScan, modified, toRemove, found>>
requestVars == <<kind, id, good>>
vars == <<sessions, lastAccess, user, lock, checkVars, at, requestVars>>

Kinds == {"login", "logout", "work", "kick"}

Init ==
  /\ sessions = [i \in Ids |-> None]
  /\ lastAccess = [r \in Requests |-> None]
  /\ user = [r \in Requests |-> FALSE]
  /\ lock = Free
  /\ checker = "waiting"
  /\ toScan = {}
  /\ modified = FALSE
  /\ toRemove = {}
  /\ found = [i \in Ids |-> None]
  /\ at = [r \in Requests |-> "free"]
  /\ kind \in [Requests -> Kinds]
  /\ id \in [Requests -> Ids]
  /\ good \in [Requests -> BOOLEAN]

Go(r, from, to) == at[r] = from /\ at' = [at EXCEPT ![r] = to]

Registered == {i \in Ids : sessions[i] # None}

(* getSession: the lookup of an id is an access to its session.            *)
Touch(i) ==
  lastAccess' = IF sessions[i] = None THEN lastAccess
                ELSE [lastAccess EXCEPT ![sessions[i]] = 0]

(* removeSession takes no lock.                                            *)
RemoveSession(i) ==
  /\ sessions' = [sessions EXCEPT ![i] = None]
  /\ modified' = (modified \/ sessions[i] # None)

----------------------------------------------------------------------------
(* LoginAction.doExecute.                                                  *)

(* Mutants of CheckId: it does not wait for the lock, it does not keep it.  *)
CheckIdNoWait(r) ==
  /\ kind[r] = "login"
  /\ \/ /\ sessions[id[r]] # None
        /\ Go(r, "free", "refused")
     \/ /\ sessions[id[r]] = None
        /\ Go(r, "free", "unknown")
  /\ UNCHANGED <<sessions, lastAccess, user, lock, checkVars, requestVars>>
CheckIdUnlocked(r) == lock = Free /\ CheckIdNoWait(r)

(* registerSession, in its synchronized block: a known id is an error, the  *)
(* session is put and then looked up, which sets its first access.         *)
CheckId(r) ==
  /\ kind[r] = "login"
  /\ lock = Free
  /\ \/ /\ sessions[id[r]] # None
        /\ Go(r, "free", "refused")
        /\ UNCHANGED lock
     \/ /\ sessions[id[r]] = None
        /\ Go(r, "free", "unknown")
        /\ lock' = r
  /\ UNCHANGED <<sessions, lastAccess, user, checkVars, requestVars>>

(* Mutant of Put: the block ends here.                                     *)
PutUnlocks(r) ==
  /\ Go(r, "unknown", "put")
  /\ sessions' = [sessions EXCEPT ![id[r]] = r]
  /\ modified' = TRUE
  /\ lock' = Free
  /\ UNCHANGED <<lastAccess, user, checker, toScan, toRemove, found,
                 requestVars>>

Put(r) ==
  /\ Go(r, "unknown", "put")
  /\ sessions' = [sessions EXCEPT ![id[r]] = r]
  /\ modified' = TRUE
  /\ UNCHANGED <<lastAccess, user, lock, checker, toScan, toRemove, found,
                 requestVars>>

(* The session that is looked up may have been removed already.            *)
FirstAccess(r) ==
  /\ Go(r, "put", IF sessions[id[r]] = None THEN "failed" ELSE "authenticate")
  /\ Touch(id[r])
  /\ lock' = Free
  /\ UNCHANGED <<sessions, user, checkVars, requestVars>>

(* A wrong password leaves the session registered without a user.          *)
Authenticate(r) ==
  /\ Go(r, "authenticate", IF good[r] THEN "done" ELSE "failed")
  /\ user' = [user EXCEPT ![r] = good[r]]
  /\ UNCHANGED <<sessions, lastAccess, lock, checkVars, requestVars>>

----------------------------------------------------------------------------
(* LogoutAction, and DataAccessPMSession.delete, which removes the session  *)
(* of anybody: here the session with that id.                              *)
Logout(r) ==
  /\ kind[r] \in {"logout", "kick"}
  /\ Go(r, "free", "done")
  /\ RemoveSession(id[r])
  /\ UNCHANGED <<lastAccess, user, lock, checker, toScan, toRemove, found,
                 requestVars>>

----------------------------------------------------------------------------
(* Any other request: each use of the session looks it up again.           *)

(* ActionSupport.prepare, OperationCommandSupport.prepare                  *)
FindSession(r) ==
  /\ kind[r] = "work"
  /\ Go(r, "free", IF sessions[id[r]] = None THEN "refused" ELSE "found")
  /\ Touch(id[r])
  /\ UNCHANGED <<sessions, user, lock, checkVars, requestVars>>

(* ctx.getUser() == null, which looks the session up twice: to see that     *)
(* there is one, and for its user.                                         *)
FindUser(r) ==
  /\ Go(r, "found", IF sessions[id[r]] = None THEN "refused" ELSE "asking")
  /\ Touch(id[r])
  /\ UNCHANGED <<sessions, user, lock, checkVars, requestVars>>

(* Mutant of ReadUser: any session will do.                                *)
ReadAnyone(r) ==
  /\ Go(r, "asking", IF sessions[id[r]] = None THEN "failed" ELSE "working")
  /\ Touch(id[r])
  /\ UNCHANGED <<sessions, user, lock, checkVars, requestVars>>

(* A session removed between the two is a NullPointerException.            *)
ReadUser(r) ==
  /\ \/ /\ sessions[id[r]] = None
        /\ Go(r, "asking", "failed")
     \/ /\ sessions[id[r]] # None
        /\ Go(r, "asking", IF user[sessions[id[r]]] THEN "working" ELSE "refused")
  /\ Touch(id[r])
  /\ UNCHANGED <<sessions, user, lock, checkVars, requestVars>>

(* configureEntityContainer and all that follows dereference the session    *)
(* without a check.                                                        *)
UseSession(r) ==
  /\ Go(r, "working", IF sessions[id[r]] = None THEN "failed" ELSE "done")
  /\ Touch(id[r])
  /\ UNCHANGED <<sessions, user, lock, checkVars, requestVars>>

RequestStep(r) ==
  \/ CheckId(r) \/ Put(r) \/ FirstAccess(r) \/ Authenticate(r) \/ Logout(r)
  \/ FindSession(r) \/ FindUser(r) \/ ReadUser(r) \/ UseSession(r)

----------------------------------------------------------------------------
(* The task of the session checker, in its synchronized block.             *)

StartCheck ==
  /\ checker = "waiting"
  /\ lock = Free
  /\ lock' = Checker
  /\ checker' = "scanning"
  /\ toScan' = Registered
  /\ modified' = FALSE
  /\ UNCHANGED <<sessions, lastAccess, user, toRemove, found, at, requestVars>>

Idle(r) == lastAccess[r] # None /\ lastAccess[r] > Timeout

(* The iterator's next: a change of the map since the iteration began is a  *)
(* ConcurrentModificationException, which ends the timer's thread.         *)
Scan(i) ==
  /\ checker = "scanning"
  /\ i \in toScan
  /\ \/ /\ modified
        /\ checker' = "dead"
        /\ lock' = Free
        /\ toRemove' = {}
        /\ toScan' = {}
        /\ found' = [j \in Ids |-> None]
     \/ /\ ~modified
        /\ toScan' = toScan \ {i}
        /\ toRemove' = IF Idle(sessions[i]) THEN toRemove \cup {i} ELSE toRemove
        /\ found' = IF Idle(sessions[i]) THEN [found EXCEPT ![i] = sessions[i]]
                                         ELSE found
        /\ UNCHANGED <<checker, lock>>
  /\ UNCHANGED <<sessions, lastAccess, user, modified, at, requestVars>>

EndScan ==
  /\ checker = "scanning"
  /\ toScan = {}
  /\ checker' = "removing"
  /\ UNCHANGED <<sessions, lastAccess, user, lock, toScan, modified, toRemove,
                 found, at, requestVars>>

(* Mutant of RemoveIdle: the key is not the one of the map.                *)
RemoveNothing(i) ==
  /\ checker = "removing"
  /\ i \in toRemove
  /\ toRemove' = toRemove \ {i}
  /\ found' = [found EXCEPT ![i] = None]
  /\ UNCHANGED <<sessions, modified, lastAccess, user, lock, checker, toScan,
                 at, requestVars>>

RemoveIdle(i) ==
  /\ checker = "removing"
  /\ i \in toRemove
  /\ toRemove' = toRemove \ {i}
  /\ found' = [found EXCEPT ![i] = None]
  /\ RemoveSession(i)
  /\ UNCHANGED <<lastAccess, user, lock, checker, toScan, at, requestVars>>

EndCheck ==
  /\ checker = "removing"
  /\ toRemove = {}
  /\ checker' = "waiting"
  /\ lock' = Free
  /\ UNCHANGED <<sessions, lastAccess, user, toScan, modified, toRemove, found,
                 at, requestVars>>

CheckerStep ==
  \/ StartCheck \/ EndScan \/ EndCheck
  \/ \E i \in Ids : Scan(i) \/ RemoveIdle(i)

(* Time, counted up to the first tick at which a session is idle.          *)
Tick ==
  /\ lastAccess' = [r \in Requests |->
                      IF lastAccess[r] # None /\ lastAccess[r] <= Timeout
                        THEN lastAccess[r] + 1 ELSE lastAccess[r]]
  /\ UNCHANGED <<sessions, user, lock, checkVars, at, requestVars>>

----------------------------------------------------------------------------
Next == CheckerStep \/ Tick \/ \E r \in Requests : RequestStep(r)

Spec == Init /\ [][Next]_vars

(* The timer runs its task again and again, time passes, and a request that *)
(* began is served by its thread.                                          *)
FairSpec ==
  /\ Spec
  /\ WF_vars(CheckerStep)
  /\ WF_vars(Tick)
  /\ \A r \in Requests : WF_vars(at[r] # "free" /\ RequestStep(r))

----------------------------------------------------------------------------
Places == {"free", "unknown", "put", "authenticate", "found", "asking",
           "working", "done", "failed", "refused"}

(* Every variable keeps its type.                                          *)
TypeOK ==
  /\ sessions \in [Ids -> Requests \cup {None}]
  /\ lastAccess \in [Requests -> 0..(Timeout + 1) \cup {None}]
  /\ user \in [Requests -> BOOLEAN]
  /\ lock \in Requests \cup {Free, Checker}
  /\ checker \in {"waiting", "scanning", "removing", "dead"}
  /\ toScan \in SUBSET Ids
  /\ modified \in BOOLEAN
  /\ toRemove \in SUBSET Ids
  /\ found \in [Ids -> Requests \cup {None}]
  /\ at \in [Requests -> Places]
  /\ kind \in [Requests -> Kinds]
  /\ id \in [Requests -> Ids]
  /\ good \in [Requests -> BOOLEAN]

(* The checker reads lastAccess of every session it visits: none of them is *)
(* still without, although registerSession puts a session before its first  *)
(* access.                                                                 *)
NoNullAccess ==
  checker = "scanning" /\ ~modified =>
    \A i \in toScan : sessions[i] # None /\ lastAccess[sessions[i]] # None

(* "The new session id. Must be unique" (PresentationManager.java:526): a    *)
(* login takes no id over from a session that is registered, although the   *)
(* logouts that free an id come between its check of the id and its put.   *)
NeverReplaced ==
  [][\A i \in Ids : sessions[i] # None => sessions'[i] \in {sessions[i], None}]_vars

(* The session the checker removes under an id is the one it found idle     *)
(* under that id, not one registered since.                                *)
RemovesWhatItFound ==
  checker = "removing" =>
    \A i \in toRemove : sessions[i] \in {found[i], None}

(* A request works only if a login with the right password made a session   *)
(* for its id: each lookup of its session may find none, or another one     *)
(* than the lookup before, so that of its user has to be the one that lets   *)
(* it work.  The session it goes on with may be another one again.          *)
WorksWithUser ==
  \A r \in Requests : kind[r] = "work" /\ at[r] = "working" =>
    \E l \in Requests : kind[l] = "login" /\ good[l] /\ id[l] = id[r] /\ user[l]

(* An idle session is removed, unless it is used again, as long as the      *)
(* timer's thread is alive.                                                *)
ExpiredIsRemoved ==
  [](checker # "dead") =>
    \A r \in Requests :
      (Idle(r) /\ sessions[id[r]] = r) ~> (~Idle(r) \/ sessions[id[r]] # r)
=============================================================================
