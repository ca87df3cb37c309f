------------------------------- MODULE Polling -------------------------------
(* The monitor page in the browser: the loop of the arte plugin, which asks  *)
(* the server for lines at every round, and the requests of jQuery.ajax that *)
(* carry the questions and the answers.                                      *)
(*                                                                           *)
(* The loop does not wait for an answer before it asks again, so requests    *)
(* may be open at the same time and their answers overtake each other.       *)
(* jQuery does not listen to a request but looks at it every 13 ms, so there *)
(* is a time in which an answer is there and not seen, and a timeout or an   *)
(* abort may come first.  The callbacks of a browser run one at a time.      *)
EXTENDS Integers, Sequences, FiniteSets

CONSTANTS Ids,        \* the requests that can be open at a time
          MaxLines,   \* bound of the model: lines of the monitored source
          MaxStuck,   \* bound of the model: requests that could not be sent
          MaxLoops,   \* bound of the model: pending timers of rounds
          MaxOrphans  \* bound of the model: given up before they were served

ASSUME ConstantsAssumption ==
    /\ IsFiniteSet(Ids)
    /\ MaxLines \in Nat /\ MaxStuck \in Nat /\ MaxLoops \in Nat /\ MaxOrphans \in Nat

VARIABLES started,    \* _is_started
          rounds,     \* timers of _launch_loop that are pending
          request,    \* what has become of each request
          active,     \* jQuery.active
          busy,       \* whether ajaxStart came after the last ajaxStop
          stuck,      \* requests whose send threw: their interval runs for ever
          orphans,    \* requests the server will answer to nobody
          produced,   \* lines of the monitored source
          waiting,    \* the lines that the observer of the session has
          attribute,  \* pm_monitor_lines of the session
          shown,      \* the lines on the page
          lost,       \* lines that were taken from the observer for nothing
          crossed,    \* history: lines of two requests that the server ran at once
          overlapped  \* history: a round found another request open

page == <<started, rounds>>
lines == <<produced, waiting, attribute, shown, lost, crossed>>
vars == <<page, request, active, busy, stuck, orphans, lines, overlapped>>

-----------------------------------------------------------------------------
(* Requests.  "sent" until the server looks at it, "collected" until its page *)
(* is written, "served" while the answer is under way, "arrived" or "failed"  *)
(* when readyState is 4, "aborted" when it is 0.                             *)
NoRequest == [phase |-> "free", lines |-> <<>>]

IsOpen(r) == request[r].phase # "free"
Opened == {r \in Ids : IsOpen(r)}
Collected == {r \in Ids : request[r].phase = "collected"}

(* A request counts from its beginning to its complete function, and the     *)
(* first and the last one are told to the page.                              *)
Begin ==
    /\ active' = active + 1
    /\ busy' = TRUE

Complete ==
    /\ active' = active - 1
    /\ busy' = (active # 1)

Elements(s) == {s[i] : i \in 1..Len(s)}

(* ajax, up to send.                                                         *)
Send(r) ==
    /\ ~IsOpen(r)
    /\ request' = [request EXCEPT ![r].phase = "sent"]
    /\ Begin
    /\ overlapped' = (overlapped \/ Opened # {})
    /\ UNCHANGED stuck

(* send throws: the error is handled, the interval that looks at the request *)
(* stays, and so does the count of the request, until a timer of the request  *)
(* ends it or the interval sees that it was aborted (StuckEnds).             *)
SendThrows ==
    /\ stuck < MaxStuck
    /\ stuck' = stuck + 1
    /\ Begin
    /\ UNCHANGED <<request, overlapped>>

StuckEnds ==
    /\ stuck > 0
    /\ stuck' = stuck - 1
    /\ Complete
    /\ UNCHANGED <<page, request, orphans, lines, overlapped>>

(* _launch_loop, when it is started: a request, and the timer of the next    *)
(* round, whatever became of the request.                                    *)
Launch(left) ==
    /\ (\E r \in Ids : Send(r)) \/ SendThrows
    /\ rounds' = left + 1

-----------------------------------------------------------------------------
(* The operations of the plugin.                                             *)

Init ==
    /\ started = FALSE
    /\ rounds = 0
    /\ request = [r \in Ids |-> NoRequest]
    /\ active = 0
    /\ busy = FALSE
    /\ stuck = 0
    /\ orphans = 0
    /\ produced = 0
    /\ waiting = <<>>
    /\ attribute = <<>>
    /\ shown = <<>>
    /\ lost = {}
    /\ crossed = {}
    /\ overlapped = FALSE

(* A loop that is started goes on, one that is not begins with a round at    *)
(* once: toogle does this or stops.                                          *)
Start ==
    /\ ~started
    /\ rounds < MaxLoops
    /\ started' = TRUE
    /\ Launch(rounds)
    /\ UNCHANGED <<orphans, lines>>

Stop ==
    /\ started
    /\ started' = FALSE
    /\ UNCHANGED <<rounds, request, active, busy, stuck, orphans, lines, overlapped>>

(* The timer of a round.                                                     *)
Round ==
    /\ rounds > 0
    /\ IF started
       THEN Launch(rounds - 1)
       ELSE rounds' = rounds - 1 /\ UNCHANGED <<request, active, busy, stuck, overlapped>>
    /\ UNCHANGED <<started, orphans, lines>>

-----------------------------------------------------------------------------
(* The server and the network.                                               *)

Produce ==
    /\ produced < MaxLines
    /\ produced' = produced + 1
    /\ waiting' = Append(waiting, produced + 1)
    /\ UNCHANGED <<page, request, active, busy, stuck, orphans, attribute, shown, lost, crossed,
                   overlapped>>

(* doExecute, which holds the lock of the session: the lines of the observer   *)
(* become an attribute of the session.  If the page of another request is not *)
(* written yet, it will show these lines and not its own.                     *)
Take ==
    /\ attribute' = waiting
    /\ waiting' = <<>>
    /\ crossed' = IF Collected = {} THEN crossed
                  ELSE crossed \cup Elements(attribute) \cup Elements(waiting)

Collect(r) ==
    /\ request[r].phase = "sent"
    /\ Take
    /\ request' = [request EXCEPT ![r].phase = "collected"]
    /\ UNCHANGED <<page, active, busy, stuck, orphans, produced, shown, lost, overlapped>>

(* monitor_cont.jsp, which holds no lock: the lines that the session has now. *)
Render(r) ==
    /\ request[r].phase = "collected"
    /\ request' = [request EXCEPT ![r] = [phase |-> "served", lines |-> attribute]]
    /\ UNCHANGED <<page, active, busy, stuck, orphans, lines, overlapped>>

(* A request that was given up may reach the server all the same.  Its page is *)
(* written for nobody.                                                       *)
ServeNobody ==
    /\ orphans > 0
    /\ orphans' = orphans - 1
    /\ \/ /\ Take
          /\ lost' = IF Collected = {} THEN lost \cup Elements(waiting) ELSE lost
       \/ UNCHANGED <<waiting, attribute, lost, crossed>>
    /\ UNCHANGED <<page, request, active, busy, stuck, produced, shown, overlapped>>

Arrive(r) ==
    /\ request[r].phase = "served"
    /\ request' = [request EXCEPT ![r].phase = "arrived"]
    /\ UNCHANGED <<page, active, busy, stuck, orphans, lines, overlapped>>

(* The lines a request was to bring.                                         *)
Brings(r) == IF r \in Collected THEN Elements(attribute) ELSE Elements(request[r].lines)

(* The connection breaks before or after the server has answered.            *)
Break(r) ==
    /\ request[r].phase \in {"sent", "collected", "served"}
    /\ request' = [request EXCEPT ![r] = [phase |-> "failed", lines |-> <<>>]]
    /\ lost' = lost \cup Brings(r)
    /\ UNCHANGED <<page, active, busy, stuck, orphans, produced, waiting, attribute, shown, crossed,
                   overlapped>>

-----------------------------------------------------------------------------
(* The callbacks of a request.                                               *)

(* The interval sees an answer: success and update_field, or error, and      *)
(* complete; the interval is cleared.  Two mutants: the interval sees the     *)
(* same answer again, or only a success is looked at.                        *)
PollAgain(r) ==
    /\ request[r].phase \in {"arrived", "failed"}
    /\ IF request[r].phase = "arrived"
       THEN request' = request
       ELSE request' = [request EXCEPT ![r] = NoRequest]
    /\ Len(shown) <= MaxLines
    /\ shown' = shown \o request[r].lines
    /\ Complete
    /\ UNCHANGED <<page, stuck, orphans, produced, waiting, attribute, lost, crossed, overlapped>>
PollSuccess(r) ==
    /\ request[r].phase = "arrived"
    /\ request' = [request EXCEPT ![r] = NoRequest]
    /\ shown' = shown \o request[r].lines
    /\ Complete
    /\ UNCHANGED <<page, stuck, orphans, produced, waiting, attribute, lost, crossed, overlapped>>
Poll(r) ==
    /\ request[r].phase \in {"arrived", "failed"}
    /\ request' = [request EXCEPT ![r] = NoRequest]
    /\ shown' = shown \o request[r].lines
    /\ Complete
    /\ UNCHANGED <<page, stuck, orphans, produced, waiting, attribute, lost, crossed, overlapped>>

(* The interval sees that the request was aborted: no function is called.    *)
PollAborted(r) ==
    /\ request[r].phase = "aborted"
    /\ request' = [request EXCEPT ![r] = NoRequest]
    /\ Complete
    /\ UNCHANGED <<page, stuck, orphans, lines, overlapped>>

(* What is lost with a request that nobody waits for any more: its answer,   *)
(* or, if the server has not looked at it, what it will be answered.         *)
GiveUp(r) ==
    /\ lost' = lost \cup Brings(r)
    /\ IF request[r].phase = "sent"
       THEN orphans < MaxOrphans /\ orphans' = orphans + 1
       ELSE UNCHANGED orphans

(* Mutant of Timeout: the interval is not cleared, and sees the abort.       *)
TimeoutOnly(r) ==
    /\ request[r].phase \in {"sent", "collected", "served", "arrived", "failed"}
    /\ GiveUp(r)
    /\ request' = [request EXCEPT ![r] = [phase |-> "aborted", lines |-> <<>>]]
    /\ Complete
    /\ UNCHANGED <<page, stuck, produced, waiting, attribute, shown, crossed, overlapped>>

(* The timer of a request that has a timeout: error and complete, even if    *)
(* the answer is there and was not seen yet.  An aborted one is left to the  *)
(* branch of PollAborted.                                                    *)
Timeout(r) ==
    /\ request[r].phase \in {"sent", "collected", "served", "arrived", "failed"}
    /\ GiveUp(r)
    /\ request' = [request EXCEPT ![r] = NoRequest]
    /\ Complete
    /\ UNCHANGED <<page, stuck, produced, waiting, attribute, shown, crossed, overlapped>>

(* abort of the XMLHttpRequest that ajax returned.                           *)
Abort(r) ==
    /\ request[r].phase \in {"sent", "collected", "served", "arrived", "failed"}
    /\ GiveUp(r)
    /\ request' = [request EXCEPT ![r] = [phase |-> "aborted", lines |-> <<>>]]
    /\ UNCHANGED <<page, active, busy, stuck, produced, waiting, attribute, shown, crossed,
                   overlapped>>

-----------------------------------------------------------------------------
Answer(r) == Poll(r) \/ PollAborted(r)

Next ==
    \/ Start \/ Stop \/ Round \/ StuckEnds
    \/ Produce \/ ServeNobody
    \/ \E r \in Ids : Collect(r) \/ Render(r) \/ Arrive(r) \/ Break(r) \/ Answer(r) \/ Timeout(r) \/ Abort(r)

Spec == Init /\ [][Next]_vars

(* Timers fire, and a request the server has looked at ends in an answer or  *)
(* a broken connection.  A send may throw, and connections may break or be   *)
(* given up, for ever; but of the requests that are tried again and again    *)
(* one is sent, and one of those reaches the server.                         *)
FairSpec ==
    /\ Spec
    /\ WF_vars(Round)
    /\ SF_vars(Round /\ \E r \in Ids : Send(r))
    /\ WF_vars(ServeNobody)
    /\ SF_vars(\E r \in Ids : Collect(r))
    /\ \A r \in Ids :
          WF_vars(Render(r) \/ Break(r)) /\ WF_vars(Arrive(r) \/ Break(r)) /\ WF_vars(Answer(r))

-----------------------------------------------------------------------------
(* jQuery.active is the number of requests that are open, and of those that  *)
(* could never be sent; the page was told that it is busy exactly when there *)
(* are some.  Each way a request can end, an answer, a timeout, an abort,    *)
(* must count it once, in whatever order they come.                          *)
ActiveCounts ==
    /\ active = Cardinality(Opened) + stuck
    /\ busy = (active # 0)

(* Every line is in one place: with the observer, in the session for the page  *)
(* that is being written, in a request, on the page, or lost with a request   *)
(* that failed or was given up.  So none is shown twice, and none is missing   *)
(* of which no request is to blame.  The exception are the lines of requests   *)
(* that the server ran at once: between the lock of one and the page of the    *)
(* other (MonitorAction.java:66, monitor_cont.jsp:1) they may be shown twice or *)
(* not at all.  As long as no round came before the answer of the last one the *)
(* lines are on the page in their order, each once, even if the server still   *)
(* ran a request that was given up; without this condition nothing keeps an    *)
(* answer from overtaking.                                                   *)
EachLineOnce ==
    LET written == IF Collected = {} THEN {} ELSE Elements(attribute)
        places == <<Elements(waiting), written, Elements(shown), lost>>
        carried(r) == Elements(request[r].lines)
    IN  /\ 1..produced = places[1] \cup places[2] \cup places[3] \cup places[4]
                          \cup (UNION {carried(r) : r \in Ids}) \cup crossed
        /\ \A i, j \in 1..4 : i # j => places[i] \cap places[j] \subseteq crossed
        /\ \A r \in Ids : \A i \in 1..4 : carried(r) \cap places[i] \subseteq crossed
        /\ \A r, q \in Ids : r # q => carried(r) \cap carried(q) \subseteq crossed
        /\ \A i, j \in 1..Len(shown) : i < j =>
              /\ shown[i] = shown[j] => shown[i] \in crossed
              /\ ~overlapped => shown[i] < shown[j]

(* A loop that stays stopped comes to an end, all rounds of it; and while the *)
(* page asks, every line is shown in the end or lost with a request that      *)
(* failed, or with two that the server ran at once: no line stays with the    *)
(* observer for ever.                                                        *)
LinesSettle ==
    /\ <>[](~started) => <>[](rounds = 0)
    /\ <>[]started => \A n \in 1..MaxLines :
           n <= produced ~> n \in Elements(shown) \cup lost \cup crossed
=============================================================================
