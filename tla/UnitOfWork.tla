----------------------------- MODULE UnitOfWork -----------------------------
(***************************************************************************)
(* What a request promises of the database: it ends once, and either it     *)
(* succeeds, with whatever it wrote, or it fails and wrote nothing.         *)
(***************************************************************************)
CONSTANTS Requests, Items, Values, Absent

VARIABLES
  store,         \* the committed rows
  outcome        \* "open", then "ok" or "failed"

vars == <<store, outcome>>

Rows == [Items -> Values \cup {Absent}]

Init ==
  /\ store \in Rows
  /\ outcome = [r \in Requests |-> "open"]

Succeed(r) ==
  /\ outcome[r] = "open"
  /\ outcome' = [outcome EXCEPT ![r] = "ok"]
  /\ store' \in Rows

Fail(r) ==
  /\ outcome[r] = "open"
  /\ outcome' = [outcome EXCEPT ![r] = "failed"]
  /\ UNCHANGED store

Next == \E r \in Requests : Succeed(r) \/ Fail(r)

Spec == Init /\ [][Next]_vars
=============================================================================
