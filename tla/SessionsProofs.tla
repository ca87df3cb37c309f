--------------------------- MODULE SessionsProofs ---------------------------
(***************************************************************************)
(* Theorems about Sessions, for any ids, requests and timeout: what the     *)
(* lock of the registry protects, although removals do not take it.         *)
(***************************************************************************)
EXTENDS Sessions, TLAPS

(* Every step keeps the types.                                             *)
LEMMA TypeStep == TypeOK /\ [Next]_vars => TypeOK'
<1> SUFFICES ASSUME TypeOK, [Next]_vars PROVE TypeOK'
  OBVIOUS
<1> USE SessionsAssumption DEF TypeOK, Places, Kinds, Go, requestVars, checkVars
<1>1. ASSUME NEW r \in Requests, CheckId(r) PROVE TypeOK'
  BY <1>1 DEF CheckId
<1>2. ASSUME NEW r \in Requests, Put(r) PROVE TypeOK'
  BY <1>2 DEF Put
<1>3. ASSUME NEW r \in Requests, FirstAccess(r) PROVE TypeOK'
  BY <1>3 DEF FirstAccess, Touch
<1>4. ASSUME NEW r \in Requests, Authenticate(r) PROVE TypeOK'
  BY <1>4 DEF Authenticate
<1>5. ASSUME NEW r \in Requests, Logout(r) PROVE TypeOK'
  BY <1>5 DEF Logout, RemoveSession
<1>6. ASSUME NEW r \in Requests, FindSession(r) \/ FindUser(r) \/ ReadUser(r) \/ UseSession(r)
      PROVE  TypeOK'
  BY <1>6 DEF FindSession, FindUser, ReadUser, UseSession, Touch
<1>7. CASE StartCheck
  BY <1>7 DEF StartCheck, Registered
<1>8. CASE EndScan \/ EndCheck
  BY <1>8 DEF EndScan, EndCheck
<1>9. ASSUME NEW i \in Ids, Scan(i) PROVE TypeOK'
  BY <1>9 DEF Scan
<1>10. ASSUME NEW i \in Ids, RemoveIdle(i) PROVE TypeOK'
  BY <1>10 DEF RemoveIdle, RemoveSession
<1>11. CASE Tick
  BY <1>11 DEF Tick
<1>12. CASE UNCHANGED vars
  BY <1>12 DEF vars
<1> QED
  BY <1>1, <1>2, <1>3, <1>4, <1>5, <1>6, <1>7, <1>8, <1>9, <1>10, <1>11, <1>12
  DEF Next, CheckerStep, RequestStep

(* Every variable keeps its type, whatever the requests and the timer do.   *)
THEOREM TypeCorrect == Spec => []TypeOK
<1>1. Init => TypeOK
  BY SessionsAssumption DEF Init, TypeOK, Places, Kinds
<1> QED
  BY <1>1, TypeStep, PTL DEF Spec

----------------------------------------------------------------------------
(* The lock belongs to the one in its block, and an id a login found free    *)
(* stays free until it puts its session.                                   *)
LockInv ==
  /\ \A r \in Requests : at[r] \in {"unknown", "put"} <=> lock = r
  /\ checker \in {"scanning", "removing"} <=> lock = Checker
  /\ \A r \in Requests : at[r] = "unknown" => sessions[id[r]] = None

(* A session is registered under the id of the login that made it; it is    *)
(* without access only until its login has looked it up; and it has a user  *)
(* if the password was right.                                              *)
OwnerInv ==
  /\ \A r \in Requests :
       at[r] \in {"unknown", "put", "authenticate"} => kind[r] = "login"
  /\ \A i \in Ids : sessions[i] # None =>
       /\ kind[sessions[i]] = "login" /\ id[sessions[i]] = i
       /\ lastAccess[sessions[i]] = None => at[sessions[i]] = "put"
  /\ \A r \in Requests : user[r] => good[r]

(* The iterator has only entries of the map before it, unless the map was   *)
(* changed, and what it found idle is there still or gone.                 *)
CheckInv ==
  /\ checker \in {"waiting", "dead"} => toRemove = {}
  /\ \A i \in toRemove : sessions[i] \in {found[i], None}
  /\ checker = "scanning" /\ ~modified => \A i \in toScan : sessions[i] # None

RegistryInv == TypeOK /\ LockInv /\ OwnerInv /\ CheckInv /\ WorksWithUser

(* Every step keeps LockInv.                                              *)
LEMMA LockStep ==
  ASSUME RegistryInv, [Next]_vars PROVE LockInv'
<1> USE SessionsAssumption DEF RegistryInv, LockInv, TypeOK, Go, requestVars, checkVars
<1>1. ASSUME NEW r \in Requests, CheckId(r) PROVE LockInv'
  BY <1>1 DEF CheckId, Free, Checker
<1>2. ASSUME NEW r \in Requests, Put(r) PROVE LockInv'
  BY <1>2 DEF Put
<1>3. ASSUME NEW r \in Requests, FirstAccess(r) PROVE LockInv'
  BY <1>3 DEF FirstAccess, Free, Checker
<1>4. ASSUME NEW r \in Requests, Authenticate(r) PROVE LockInv'
  BY <1>4 DEF Authenticate
<1>5. ASSUME NEW r \in Requests, Logout(r) PROVE LockInv'
  BY <1>5 DEF Logout, RemoveSession
<1>6. ASSUME NEW r \in Requests, FindSession(r) \/ FindUser(r) \/ ReadUser(r) \/ UseSession(r)
      PROVE  LockInv'
  BY <1>6 DEF FindSession, FindUser, ReadUser, UseSession
<1>7. CASE StartCheck \/ EndScan \/ EndCheck
  BY <1>7 DEF StartCheck, EndScan, EndCheck, Free, Checker
<1>8. ASSUME NEW i \in Ids, Scan(i) PROVE LockInv'
  BY <1>8 DEF Scan, Free, Checker
<1>9. ASSUME NEW i \in Ids, RemoveIdle(i) PROVE LockInv'
  BY <1>9 DEF RemoveIdle, RemoveSession
<1>10. CASE Tick
  BY <1>10 DEF Tick
<1>11. CASE UNCHANGED vars
  BY <1>11 DEF vars
<1> QED
  BY <1>1, <1>2, <1>3, <1>4, <1>5, <1>6, <1>7, <1>8, <1>9, <1>10, <1>11
  DEF Next, CheckerStep, RequestStep

(* A lookup gives a date to the session it finds, and takes none away.      *)
Dated(i) ==
  /\ sessions[i] # None => lastAccess'[sessions[i]] # None
  /\ \A r \in Requests : lastAccess[r] # None => lastAccess'[r] # None

LEMMA TouchDates ==
  ASSUME TypeOK, NEW i \in Ids, Touch(i) PROVE Dated(i)
BY SessionsAssumption DEF TypeOK, Touch, Dated

(* Every step keeps OwnerInv.                                             *)
LEMMA OwnerStep ==
  ASSUME RegistryInv, [Next]_vars PROVE OwnerInv'
<1> USE SessionsAssumption DEF RegistryInv, OwnerInv, TypeOK, Go, requestVars, checkVars
<1>1. ASSUME NEW r \in Requests, CheckId(r) PROVE OwnerInv'
  BY <1>1 DEF CheckId
<1>2. ASSUME NEW r \in Requests, Put(r) PROVE OwnerInv'
  BY <1>2 DEF Put
<1>3. ASSUME NEW r \in Requests, FirstAccess(r) PROVE OwnerInv'
  <2>1. Dated(id[r])
    BY <1>3, TouchDates DEF FirstAccess
  <2> QED
    BY <1>3, <2>1 DEF FirstAccess, Dated
<1>4. ASSUME NEW r \in Requests, Authenticate(r) PROVE OwnerInv'
  BY <1>4 DEF Authenticate
<1>5. ASSUME NEW r \in Requests, Logout(r) PROVE OwnerInv'
  BY <1>5 DEF Logout, RemoveSession
<1>6. ASSUME NEW r \in Requests, FindSession(r) \/ FindUser(r) \/ ReadUser(r) \/ UseSession(r)
      PROVE  OwnerInv'
  <2>1. Dated(id[r])
    BY <1>6, TouchDates DEF FindSession, FindUser, ReadUser, UseSession
  <2> QED
    BY <1>6, <2>1 DEF FindSession, FindUser, ReadUser, UseSession, Dated
<1>7. CASE StartCheck \/ EndScan \/ EndCheck
  BY <1>7 DEF StartCheck, EndScan, EndCheck
<1>8. ASSUME NEW i \in Ids, Scan(i) PROVE OwnerInv'
  BY <1>8 DEF Scan
<1>9. ASSUME NEW i \in Ids, RemoveIdle(i) PROVE OwnerInv'
  BY <1>9 DEF RemoveIdle, RemoveSession
<1>10. CASE Tick
  BY <1>10 DEF Tick
<1>11. CASE UNCHANGED vars
  BY <1>11 DEF vars
<1> QED
  BY <1>1, <1>2, <1>3, <1>4, <1>5, <1>6, <1>7, <1>8, <1>9, <1>10, <1>11
  DEF Next, CheckerStep, RequestStep

(* Every step keeps CheckInv: only Put registers a session, under the lock. *)
LEMMA CheckStep ==
  ASSUME RegistryInv, [Next]_vars PROVE CheckInv'
<1> USE SessionsAssumption DEF RegistryInv, CheckInv, TypeOK, Go, requestVars, checkVars
<1>1. ASSUME NEW r \in Requests, Put(r) PROVE CheckInv'
  <2>1. checker \in {"waiting", "dead"}
    BY <1>1 DEF Put, LockInv
  <2> QED
    BY <1>1, <2>1 DEF Put
<1>2. ASSUME NEW r \in Requests,
             \/ CheckId(r) \/ FirstAccess(r) \/ Authenticate(r)
             \/ FindSession(r) \/ FindUser(r) \/ ReadUser(r) \/ UseSession(r)
      PROVE  CheckInv'
  BY <1>2 DEF CheckId, FirstAccess, Authenticate, FindSession, FindUser, ReadUser, UseSession
<1>3. ASSUME NEW r \in Requests, Logout(r) PROVE CheckInv'
  BY <1>3 DEF Logout, RemoveSession
<1>4. CASE StartCheck \/ EndScan \/ EndCheck
  BY <1>4 DEF StartCheck, EndScan, EndCheck, Registered
<1>5. ASSUME NEW i \in Ids, Scan(i) PROVE CheckInv'
  BY <1>5 DEF Scan
<1>6. ASSUME NEW i \in Ids, RemoveIdle(i) PROVE CheckInv'
  BY <1>6 DEF RemoveIdle, RemoveSession
<1>7. CASE Tick
  BY <1>7 DEF Tick
<1>8. CASE UNCHANGED vars
  BY <1>8 DEF vars
<1> QED
  BY <1>1, <1>2, <1>3, <1>4, <1>5, <1>6, <1>7, <1>8
  DEF Next, CheckerStep, RequestStep

(* Every step keeps WorksWithUser: no step takes the user of a session      *)
(* away, and only ReadUser lets a request work.                            *)
LEMMA UserStep ==
  ASSUME RegistryInv, [Next]_vars PROVE WorksWithUser'
<1>1. \A l \in Requests : user[l] => user'[l]
  <2>1. ASSUME NEW r \in Requests, Authenticate(r)
        PROVE  \A l \in Requests : user[l] => user'[l]
    BY <2>1 DEF Authenticate, RegistryInv, OwnerInv, TypeOK
  <2>2. ASSUME NEW r \in Requests, RequestStep(r), ~Authenticate(r) PROVE user' = user
    BY <2>2 DEF RequestStep, CheckId, Put, FirstAccess, Logout, FindSession,
       FindUser, ReadUser, UseSession
  <2>3. CASE CheckerStep \/ Tick \/ UNCHANGED vars
    BY <2>3 DEF CheckerStep, StartCheck, Scan, EndScan, RemoveIdle, EndCheck,
       Tick, vars
  <2> QED
    BY <2>1, <2>2, <2>3 DEF Next
<1>2. UNCHANGED requestVars
  BY DEF Next, CheckerStep, StartCheck, Scan, EndScan, RemoveIdle, EndCheck, Tick,
     vars, RequestStep, CheckId, Put, FirstAccess, Authenticate, Logout,
     FindSession, FindUser, ReadUser, UseSession
<1>3. ASSUME NEW r \in Requests, at'[r] = "working", at[r] # "working", kind[r] = "work"
      PROVE  sessions[id[r]] # None /\ user[sessions[id[r]]]
  <2> USE DEF Go, RegistryInv, TypeOK
  <2>1. ASSUME NEW q \in Requests, RequestStep(q)
        PROVE  sessions[id[r]] # None /\ user[sessions[id[r]]]
    BY <1>3, <2>1 DEF RequestStep, CheckId, Put, FirstAccess, Authenticate, Logout,
       FindSession, FindUser, ReadUser, UseSession
  <2>2. CASE CheckerStep \/ Tick \/ UNCHANGED vars
    BY <1>3, <2>2 DEF CheckerStep, StartCheck, Scan, EndScan, RemoveIdle, EndCheck,
       Tick, vars
  <2> QED
    BY <2>1, <2>2 DEF Next
<1>4. ASSUME NEW r \in Requests, kind[r] = "work", at'[r] = "working"
      PROVE  \E l \in Requests : kind[l] = "login" /\ good[l] /\ id[l] = id[r] /\ user'[l]
  <2>1. CASE at[r] = "working"
    BY <1>1, <1>4, <2>1 DEF RegistryInv, WorksWithUser
  <2>2. CASE at[r] # "working"
    <3>1. sessions[id[r]] \in Requests /\ user[sessions[id[r]]] /\ id[r] \in Ids
      BY <1>3, <1>4, <2>2 DEF RegistryInv, TypeOK
    <3>2. LET l == sessions[id[r]]
          IN  kind[l] = "login" /\ good[l] /\ id[l] = id[r] /\ user'[l]
      BY <1>1, <3>1, SessionsAssumption DEF RegistryInv, OwnerInv
    <3> QED
      BY <3>1, <3>2
  <2> QED
    BY <2>1, <2>2
<1> QED
  BY <1>2, <1>4 DEF WorksWithUser, requestVars

(* RegistryInv holds at first and every step keeps it.                      *)
LEMMA RegistryAlways == Spec => []RegistryInv
<1>1. Init => RegistryInv
  <2>1. Init => TypeOK
    BY SessionsAssumption DEF Init, TypeOK, Places, Kinds
  <2>2. Init => LockInv
    BY SessionsAssumption DEF Init, LockInv, Free, Checker
  <2>3. Init => OwnerInv /\ CheckInv /\ WorksWithUser
    BY DEF Init, OwnerInv, CheckInv, WorksWithUser
  <2> QED
    BY <2>1, <2>2, <2>3 DEF RegistryInv
<1>2. RegistryInv /\ [Next]_vars => RegistryInv'
  <2> SUFFICES ASSUME RegistryInv, [Next]_vars PROVE RegistryInv'
    OBVIOUS
  <2>1. TypeOK'
    BY TypeStep DEF RegistryInv
  <2> QED
    BY <2>1, LockStep, OwnerStep, CheckStep, UserStep DEF RegistryInv
<1> QED
  BY <1>1, <1>2, PTL DEF Spec

(* The timer's task dereferences no missing date: although registerSession  *)
(* puts a session before its first access, the lock keeps the task out.     *)
THEOREM EveryScannedIsDated == Spec => []NoNullAccess
<1>1. RegistryInv => NoNullAccess
  BY SessionsAssumption DEF RegistryInv, TypeOK, LockInv, OwnerInv, CheckInv, NoNullAccess
<1> QED
  BY <1>1, RegistryAlways, PTL

(* The timer's task removes the sessions it found idle, or nothing: an id    *)
(* that a logout freed since cannot be taken before the task has ended.     *)
THEOREM RemovalIsOfTheFound == Spec => []RemovesWhatItFound
<1>1. RegistryInv => RemovesWhatItFound
  BY DEF RegistryInv, CheckInv, RemovesWhatItFound
<1> QED
  BY <1>1, RegistryAlways, PTL

(* Whoever works has a session whose login had the right password.          *)
THEOREM WorkIsAuthenticated == Spec => []WorksWithUser
<1>1. RegistryInv => WorksWithUser
  BY DEF RegistryInv
<1> QED
  BY <1>1, RegistryAlways, PTL

(* No login takes over the id of a registered session.                      *)
THEOREM IdsAreUnique == Spec => NeverReplaced
<1> DEFINE Kept == \A i \in Ids : sessions[i] # None => sessions'[i] \in {sessions[i], None}
<1>1. RegistryInv /\ [Next]_vars => Kept
  <2> SUFFICES ASSUME RegistryInv, [Next]_vars PROVE Kept
    OBVIOUS
  <2> USE DEF RegistryInv, TypeOK
  <2>1. ASSUME NEW r \in Requests, Put(r) PROVE Kept
    BY <2>1 DEF Put, Go, LockInv
  <2>2. ASSUME NEW r \in Requests, Logout(r) PROVE Kept
    BY <2>2 DEF Logout, RemoveSession
  <2>3. ASSUME NEW i \in Ids, RemoveIdle(i) PROVE Kept
    BY <2>3 DEF RemoveIdle, RemoveSession
  <2>4. CASE sessions' = sessions
    BY <2>4
  <2> QED
    BY <2>1, <2>2, <2>3, <2>4 DEF Next, CheckerStep, RequestStep, StartCheck, EndScan,
       EndCheck, Scan, Tick, vars, CheckId, FirstAccess, Authenticate, FindSession,
       FindUser, ReadUser, UseSession
<1> QED
  BY <1>1, RegistryAlways, PTL DEF Spec, NeverReplaced
=============================================================================
