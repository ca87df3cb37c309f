----------------------------- MODULE Operations -----------------------------
(***************************************************************************)
(* The operation engine: what the requests for the operations list, show,   *)
(* add, edit and delete of an entity do to the database and to the entity   *)
(* container of their PM session (core/operations/*.java, run by the        *)
(* actions of the same name under struts/actions; core_db/DataAccessDB and  *)
(* DBPersistenceManager, over Hibernate).                                   *)
(*                                                                         *)
(* Each request has a thread, a context and a Hibernate session of its own. *)
(* The requests of a PM session share its container, with the page of rows  *)
(* last listed and the selected instance, and no lock: a request runs in    *)
(* the steps between which another one may read or write the container.     *)
(*                                                                         *)
(* A request is served once.  A row is an item with one value.  An instance *)
(* is named by the request that created it and by what it was created for:  *)
(* a row of a page, to be read again, or as new.                           *)
(***************************************************************************)
EXTENDS Integers, Sequences

CONSTANTS
  Requests, Sessions, Items, Values,
  PageSize,      \* bound: rows of a page
  SessionOf,     \* the PM session of each request
  NoItem,        \* an instance without row, or no instance at all
  Absent,        \* what the store has for an item without row
  None           \* the null reference

(* The instances of a request: the rows of its page, the one it read again, *)
(* the new one it made.                                                    *)
Read(r) == <<r, 0>>
Made(r) == <<r, -1>>
Objects == Requests \X (-1..PageSize)

ASSUME OperationsAssumption ==
  /\ PageSize \in Nat
  /\ SessionOf \in [Requests -> Sessions]
  /\ NoItem \notin Items
  /\ Absent \notin Values
  /\ None \notin Requests \cup Objects

VARIABLES
  store,         \* the committed rows
  page,          \* container.list.contents, instances, per session
  selected,      \* container.selected, an instance or None, per session
  selectedNew,   \* container.selectedNew, per session
  obj,           \* the instances: item and value
  loaded,        \* the value a request read its instance with
  attached,      \* instances the Hibernate session of a request holds
  phase,         \* where a request is
  par,           \* its parameters
  tx,            \* its transaction is open
  work,          \* what it did in that transaction
  \* History variables.
  rendered,      \* the item a request showed when it ended
  latest,        \* the last request of a session to set the selection
  lister,        \* the request of a session that made the page
  disturbed,     \* another request of the session got in the way
  effect         \* the rows a request wrote, with their new value

containerVars == <<page, selected, selectedNew>>
hibernateVars == <<obj, loaded, attached>>
historyVars   == <<rendered, latest, lister, disturbed, effect>>
vars == <<store, containerVars, hibernateVars, phase, par, tx, work, historyVars>>

Instance   == [item : Items \cup {NoItem}, val : Values \cup {Absent}]
NoInstance == [item |-> NoItem, val |-> Absent]
NoWork     == [kind |-> "none", target |-> None]
NoPar      == [op |-> "none", index |-> 0, value |-> Absent,
               item |-> NoItem, basis |-> None]

Init ==
  /\ store \in [Items -> Values \cup {Absent}]
  /\ page = [s \in Sessions |-> <<>>]
  /\ selected = [s \in Sessions |-> None]
  /\ selectedNew = [s \in Sessions |-> FALSE]
  /\ obj = [o \in Objects |-> NoInstance]
  /\ loaded = [r \in Requests |-> Absent]
  /\ attached = [r \in Requests |-> {}]
  /\ phase = [r \in Requests |-> "free"]
  /\ par = [r \in Requests |-> NoPar]
  /\ tx = [r \in Requests |-> FALSE]
  /\ work = [r \in Requests |-> NoWork]
  /\ rendered = [r \in Requests |-> NoItem]
  /\ latest = [s \in Sessions |-> None]
  /\ lister = [s \in Sessions |-> None]
  /\ disturbed = [r \in Requests |-> FALSE]
  /\ effect = [r \in Requests |-> {}]

Go(r, to) == phase' = [phase EXCEPT ![r] = to]
Running(r) == phase[r] \in {"refresh", "prepare", "begin", "execute",
                            "commit", "rollback"}
Peers(r) == {q \in Requests \ {r} : SessionOf[q] = SessionOf[r]}

----------------------------------------------------------------------------
(* The user sends a request from what a page showed: a row of the list, by  *)
(* its index, or the instance of a form or of a page rendered before, which *)
(* the request does not name.                                              *)

RowOps   == {"show", "editForm", "delete"}
FormOps  == {"edit", "add"}
FormOf(op) == IF op = "edit" THEN {"editForm"}
              ELSE IF op = "add" THEN {"addForm"}
              ELSE {"show", "editForm"}

Send(r, p) ==
  /\ phase[r] = "free"
  /\ Go(r, "sent")
  /\ par' = [par EXCEPT ![r] = p]
  /\ UNCHANGED <<store, containerVars, hibernateVars, tx, work, historyVars>>

SendPlain(r) ==
  \E op \in {"list", "addForm"} : Send(r, [NoPar EXCEPT !.op = op])

SendRow(r) ==
  LET s == SessionOf[r] IN
  \E op \in RowOps, i \in DOMAIN page[s] :
    Send(r, [op |-> op, index |-> i, value |-> Absent,
             item |-> obj[page[s][i]].item, basis |-> lister[s]])

SendForm(r) ==
  \E op \in RowOps \cup FormOps, v \in Values, b \in Peers(r) :
    /\ phase[b] = "ok"
    /\ par[b].op \in FormOf(op)
    /\ Send(r, [op |-> op, index |-> 0,
                value |-> IF op \in FormOps THEN v ELSE Absent,
                item |-> rendered[b], basis |-> b])

----------------------------------------------------------------------------
(* OperationCommandSupport.prepare.                                        *)

(* The page a request was sent from is not what its answer will be about:   *)
(* another page was listed since, the instance of the row was since saved   *)
(* as a new row, by an add that found it selected, or another selection     *)
(* was made.                                                               *)
Stale(r) ==
  LET s == SessionOf[r] IN
  CASE par[r].op \in {"list", "addForm"} -> FALSE
    [] par[r].index > 0 ->
         \/ lister[s] # par[r].basis
         \/ \E q \in Peers(r) :
              work[q] = [kind |-> "insert", target |-> page[s][par[r].index]]
    [] OTHER -> latest[s] # par[r].basis \/ disturbed[par[r].basis]

(* Requests of one session that run at the same time disturb each other,    *)
(* and so does one that came after the page a request was sent from, or     *)
(* that disturbed the request this page answers.                           *)
Disturb(r) ==
  LET running == {q \in Peers(r) : Running(q)} IN
  disturbed' = [q \in Requests |->
                  \/ disturbed[q]
                  \/ q \in running
                  \/ q = r /\ (running # {} \/ Stale(r))]

(* Mutant of Select: one container for all the sessions.                    *)
SelectForAll(s, o, isNew) ==
  /\ selected' = [t \in Sessions |-> o]
  /\ selectedNew' = [t \in Sessions |-> isNew]

Select(s, o, isNew) ==
  /\ selected' = [selected EXCEPT ![s] = o]
  /\ selectedNew' = [selectedNew EXCEPT ![s] = isNew]

(* The row of the page with an index.                                       *)
RowAt(s, i) == page[s][i]

(* configureSelected: "clean_selected" (of the add form) forgets the        *)
(* selection; an index takes the instance of the page, which the refresh    *)
(* that follows reads again, and one outside of the page is an exception.   *)
ConfigureSelected(r) ==
  LET s == SessionOf[r] IN
  /\ phase[r] = "sent"
  /\ Disturb(r)
  /\ latest' = IF par[r].op = "list" THEN latest
                                     ELSE [latest EXCEPT ![s] = r]
  /\ \/ /\ par[r].op = "addForm"
        /\ Select(s, None, FALSE)
        /\ Go(r, "refresh")
     \/ /\ par[r].index \in DOMAIN page[s]
        /\ Select(s, RowAt(s, par[r].index), FALSE)
        /\ Go(r, "refresh")
     \/ /\ par[r].index > Len(page[s])
        /\ Go(r, "failed")
        /\ UNCHANGED <<selected, selectedNew>>
     \/ /\ par[r].index = 0
        /\ par[r].op # "addForm"
        /\ Go(r, "refresh")
        /\ UNCHANGED <<selected, selectedNew>>
  /\ UNCHANGED <<store, page, hibernateVars, par, tx, work,
                 rendered, lister, effect>>

(* refreshSelectedObject: an instance that is not new is merged into the    *)
(* Hibernate session of the request and read again.  Of a row that is gone,  *)
(* merge makes a new instance, to be saved, which refresh refuses as it has  *)
(* no row: no transaction is open, so it is never saved.                   *)
(* Then the checks and the end of prepare, per operation: show wants a      *)
(* selection, add and edit without "finish" end here.                      *)
AfterRefresh(op, sel) ==
  CASE op = "show" /\ sel = None -> "failed"
    [] op \in FormOps \cup {"addForm"} -> "prepare"
    [] op = "editForm" -> "ok"
    [] OTHER -> "begin"

Refresh(r) ==
  LET s == SessionOf[r]
      o == selected[s]
      item == obj[o].item
  IN
  /\ phase[r] = "refresh"
  /\ \/ /\ o = None \/ selectedNew[s]
        /\ Go(r, AfterRefresh(par[r].op, o))
        /\ rendered' = [rendered EXCEPT ![r] = IF o = None THEN NoItem ELSE item]
        /\ UNCHANGED <<selected, selectedNew, hibernateVars>>
     \/ /\ o # None /\ ~selectedNew[s]
        /\ item \in Items /\ store[item] # Absent
        /\ obj' = [obj EXCEPT ![Read(r)] = [item |-> item, val |-> store[item]]]
        /\ loaded' = [loaded EXCEPT ![r] = store[item]]
        /\ attached' = [attached EXCEPT ![r] = {Read(r)}]
        /\ Select(s, Read(r), FALSE)
        /\ Go(r, AfterRefresh(par[r].op, Read(r)))
        /\ rendered' = [rendered EXCEPT ![r] = item]
     \/ /\ o # None /\ ~selectedNew[s]
        /\ item \notin Items \/ store[item] = Absent
        /\ Go(r, "failed")
        /\ UNCHANGED <<selected, selectedNew, hibernateVars, rendered>>
  /\ UNCHANGED <<store, page, par, tx, work, latest, lister, disturbed, effect>>

(* AddOperation.prepare without "finish": a new instance.                  *)
NewInstance(r) ==
  /\ phase[r] = "prepare"
  /\ par[r].op = "addForm"
  /\ obj' = [obj EXCEPT ![Made(r)] = NoInstance]
  /\ Select(SessionOf[r], Made(r), TRUE)
  /\ Go(r, "ok")
  /\ rendered' = [rendered EXCEPT ![r] = NoItem]
  /\ UNCHANGED <<store, page, loaded, attached, par, tx, work,
                 latest, lister, disturbed, effect>>

(* AddOperation.prepare and EditOperation.prepare with "finish": the fields *)
(* go into the selected instance one by one, and the errors of all are      *)
(* looked at when those without error have been set.                       *)
ProcessFields(r) ==
  LET o == selected[SessionOf[r]] IN
  /\ phase[r] = "prepare"
  /\ par[r].op \in FormOps
  /\ \/ /\ o = None
        /\ Go(r, "failed")
        /\ UNCHANGED obj
     \/ /\ o # None
        /\ obj' = [obj EXCEPT ![o].val = par[r].value]
        /\ Go(r, "begin") \/ Go(r, "failed")
     \/ /\ o # None
        /\ Go(r, "failed")
        /\ UNCHANGED obj
  /\ UNCHANGED <<store, containerVars, loaded, attached, par, tx, work, historyVars>>

----------------------------------------------------------------------------
(* OperationCommandSupport.internalExecute.                                *)

Opens(op) == op \in {"add", "edit", "delete"}

(* validate, which may refuse, and startTransaction, which may fail.       *)
Begin(r) ==
  /\ phase[r] = "begin"
  /\ \/ /\ Go(r, "execute")
        /\ tx' = [tx EXCEPT ![r] = Opens(par[r].op)]
     \/ /\ Go(r, "failed")
        /\ UNCHANGED tx
  /\ UNCHANGED <<store, containerVars, hibernateVars, par, work, historyVars>>

(* Mutant of Throw: the exception leaves without a rollback.               *)
ThrowOut(r) == Go(r, "failed")

(* An exception of preExecute, doExecute, postExecute or commit.           *)
Throw(r) == Go(r, IF tx[r] THEN "rollback" ELSE "failed")

(* ListOperation: the rows of a query, some of those stored in some order.  *)
Listings == {l \in UNION {[1..n -> {i \in Items : store[i] # Absent}] : n \in 0..PageSize} :
               \A i, j \in DOMAIN l : l[i] = l[j] => i = j}

ExecuteList(r) ==
  /\ phase[r] = "execute"
  /\ par[r].op = "list"
  /\ \E l \in Listings :
       /\ page' = [page EXCEPT ![SessionOf[r]] = [i \in DOMAIN l |-> <<r, i>>]]
       /\ obj' = [o \in Objects |->
                    IF o[1] = r /\ o[2] \in DOMAIN l
                      THEN [item |-> l[o[2]], val |-> store[l[o[2]]]] ELSE obj[o]]
  /\ lister' = [lister EXCEPT ![SessionOf[r]] = r]
  /\ Go(r, "commit")
  /\ UNCHANGED <<store, selected, selectedNew, loaded, attached, par, tx, work,
                 rendered, latest, disturbed, effect>>

ExecuteShow(r) ==
  /\ phase[r] = "execute"
  /\ par[r].op = "show"
  /\ Go(r, "commit")
  /\ UNCHANGED <<store, containerVars, hibernateVars, par, tx, work, historyVars>>

(* A row can be in a Hibernate session as one instance only.               *)
Clashes(r, o) ==
  /\ o \notin attached[r]
  /\ \E a \in attached[r] : obj[a].item = obj[o].item

Attach(r, kind, o) ==
  /\ attached' = [attached EXCEPT ![r] = @ \cup {o}]
  /\ work' = [work EXCEPT ![r] = [kind |-> kind, target |-> o]]

(* DataAccess.add is Session.save: an instance the session holds stays what *)
(* it is, any other one gets a new row.  update takes an instance with a    *)
(* row, delete ignores one without.  The instance is the one selected now.  *)
ExecuteWrite(r) ==
  LET s == SessionOf[r]
      o == selected[s]
  IN
  /\ phase[r] = "execute"
  /\ o # None
  /\ \/ /\ par[r].op = "add"
        /\ Attach(r, IF o \in attached[r] THEN "none" ELSE "insert", o)
        /\ UNCHANGED <<selected, selectedNew>>
     \/ /\ par[r].op = "edit"
        /\ obj[o].item # NoItem /\ ~Clashes(r, o)
        /\ Attach(r, IF o \in attached[r] THEN "none" ELSE "update", o)
        /\ UNCHANGED <<selected, selectedNew>>
     \/ /\ par[r].op = "delete"
        /\ obj[o].item = NoItem \/ ~Clashes(r, o)
        /\ Attach(r, IF obj[o].item = NoItem THEN "none" ELSE "delete", o)
        /\ Select(s, None, FALSE)
  /\ Go(r, "commit")
  /\ UNCHANGED <<store, page, obj, loaded, par, tx, historyVars>>

(* No instance is selected, or preExecute or the data access throws;        *)
(* delete leaves the selection in that case.                               *)
ExecuteFails(r) ==
  /\ phase[r] = "execute"
  /\ Throw(r)
  /\ UNCHANGED <<store, containerVars, hibernateVars, par, tx, work, historyVars>>

(* The commit writes what the session holds: the instance it read, if its   *)
(* value changed, and the target of the operation.                         *)
Deletes(r, o) == work[r] = [kind |-> "delete", target |-> o]
Dirty(r) ==
  LET o == Read(r) IN
  IF o \in attached[r] /\ obj[o].val # loaded[r] /\ ~Deletes(r, o)
    THEN {<<obj[o].item, obj[o].val>>} ELSE {}

Updated(r) ==
  LET o == work[r].target IN
  CASE work[r].kind = "update" -> {<<obj[o].item, obj[o].val>>}
    [] work[r].kind = "delete" -> {<<obj[o].item, Absent>>}
    [] OTHER -> {}

Inserted(r, new) ==
  IF work[r].kind = "insert" THEN {<<new, obj[work[r].target].val>>} ELSE {}

Flush(r, new) == Dirty(r) \cup Updated(r) \cup Inserted(r, new)

(* An update or a delete of a row that is gone fails.                      *)
WriteRows(r) ==
  /\ \A w \in Dirty(r) \cup Updated(r) : store[w[1]] # Absent
  /\ \E new \in Items :
       /\ work[r].kind = "insert" => store[new] = Absent
       /\ store' = [i \in Items |->
                      IF \E w \in Flush(r, new) : w[1] = i
                        THEN (CHOOSE w \in Flush(r, new) : w[1] = i)[2]
                        ELSE store[i]]
       /\ effect' = [effect EXCEPT ![r] = Flush(r, new)]
       /\ obj' = IF work[r].kind = "insert"
                   THEN [obj EXCEPT ![work[r].target].item = new] ELSE obj
  /\ UNCHANGED <<containerVars, loaded, attached, par, work,
                 rendered, latest, lister, disturbed>>

(* Mutant of Commit: it comes before postExecute, which may still fail.     *)
CommitFirst(r) ==
  /\ phase[r] = "commit"
  /\ tx[r]
  /\ WriteRows(r)
  /\ tx' = [tx EXCEPT ![r] = FALSE]
  /\ UNCHANGED phase

Commit(r) ==
  /\ phase[r] = "commit"
  /\ tx[r]
  /\ WriteRows(r)
  /\ tx' = [tx EXCEPT ![r] = FALSE]
  /\ Go(r, "ok")

(* No transaction to commit.                                               *)
Finish(r) ==
  /\ phase[r] = "commit"
  /\ ~tx[r]
  /\ Go(r, "ok")
  /\ UNCHANGED <<store, containerVars, hibernateVars, par, tx, work, historyVars>>

(* postExecute or the commit throws.                                       *)
CommitFails(r) ==
  /\ phase[r] = "commit"
  /\ Throw(r)
  /\ UNCHANGED <<store, containerVars, hibernateVars, par, tx, work, historyVars>>

(* DBPersistenceManager.rollback closes the session and opens another; its  *)
(* own exceptions are swallowed.                                           *)
Rollback(r) ==
  /\ phase[r] = "rollback"
  /\ tx' = [tx EXCEPT ![r] = FALSE]
  /\ attached' = [attached EXCEPT ![r] = {}]
  /\ work' = [work EXCEPT ![r] = NoWork]
  /\ Go(r, "failed")
  /\ UNCHANGED <<store, containerVars, obj, loaded, par, historyVars>>

----------------------------------------------------------------------------
Serve(r) ==
  \/ ConfigureSelected(r) \/ Refresh(r) \/ NewInstance(r) \/ ProcessFields(r)
  \/ Begin(r) \/ ExecuteList(r) \/ ExecuteShow(r) \/ ExecuteWrite(r)
  \/ ExecuteFails(r) \/ Commit(r) \/ Finish(r) \/ CommitFails(r) \/ Rollback(r)

Next == \E r \in Requests :
          SendPlain(r) \/ SendRow(r) \/ SendForm(r) \/ Serve(r)

Spec == Init /\ [][Next]_vars

----------------------------------------------------------------------------
Operators == RowOps \cup FormOps \cup {"none", "list", "addForm"}
Phases == {"free", "sent", "refresh", "prepare", "begin", "execute", "commit",
           "rollback", "ok", "failed"}
Parameters == [op : Operators, index : Nat, value : Values \cup {Absent},
               item : Items \cup {NoItem}, basis : Requests \cup {None}]
Work == [kind : {"none", "insert", "update", "delete"},
         target : Objects \cup {None}]

(* Every variable keeps its type.                                          *)
TypeOK ==
  /\ store \in [Items -> Values \cup {Absent}]
  /\ page \in [Sessions -> Seq(Requests \X (1..PageSize))]
  /\ selected \in [Sessions -> Objects \cup {None}]
  /\ selectedNew \in [Sessions -> BOOLEAN]
  /\ obj \in [Objects -> Instance]
  /\ loaded \in [Requests -> Values \cup {Absent}]
  /\ attached \in [Requests -> SUBSET Objects]
  /\ phase \in [Requests -> Phases]
  /\ par \in [Requests -> Parameters]
  /\ tx \in [Requests -> BOOLEAN]
  /\ work \in [Requests -> Work]
  /\ rendered \in [Requests -> Items \cup {NoItem}]
  /\ latest \in [Sessions -> Requests \cup {None}]
  /\ lister \in [Sessions -> Requests \cup {None}]
  /\ disturbed \in [Requests -> BOOLEAN]
  /\ effect \in [Requests -> SUBSET (Items \X (Values \cup {Absent}))]

(* A transaction is open from its start to its commit or rollback only: no  *)
(* path of exceptions leaves one behind when the request has ended.        *)
NoDanglingTransaction ==
  \A r \in Requests : tx[r] => phase[r] \in {"execute", "commit", "rollback"}

(* A request answered by a failure wrote no row, and the answer to any      *)
(* request is given once.                                                  *)
Unit == INSTANCE UnitOfWork WITH
  outcome <- [r \in Requests |->
                IF phase[r] \in {"ok", "failed"} THEN phase[r] ELSE "open"]
UnitSpec == Unit!Spec

(* A request writes the item that the page it was sent from showed, and no  *)
(* other, with the value of its form: whatever the requests of the other    *)
(* sessions do, and unless one of its own session got in between.          *)
Written(r) ==
  CASE par[r].op = "edit"   -> effect[r] \subseteq {<<par[r].item, par[r].value>>}
    [] par[r].op = "delete" -> effect[r] = {<<par[r].item, Absent>>}
    [] par[r].op = "add"    -> \E i \in Items : effect[r] = {<<i, par[r].value>>}
    [] OTHER                -> effect[r] = {}
WritesWhatWasShown ==
  \A r \in Requests : phase[r] = "ok" /\ ~disturbed[r] => Written(r)
=============================================================================
