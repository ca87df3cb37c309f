--------------------------------- MODULE Tabs ---------------------------------
(* The tabs widget of jQuery UI: tabs that are clicked, added, removed and   *)
(* disabled while the content of one is being loaded.  What a click is to    *)
(* hide and show waits in a queue until the answer has come.                 *)
EXTENDS Naturals, Sequences, FiniteSets, SequencesExt

CONSTANTS TabIds,       \* the tabs that there may be
          Remote,       \* those whose content is loaded
          NoTab,
          TabsCollapse, \* the option: whether a click closes the open tab
          Cache         \* the option: whether content is loaded once only

ASSUME TabsAssumption ==
    Remote \subseteq TabIds /\ NoTab \notin TabIds /\ TabsCollapse \in BOOLEAN /\ Cache \in BOOLEAN

VARIABLES lis,         \* the tabs, in order
          selectedTab, \* options.selected: a place in lis, or 0
          disabled,    \* options.disabled: places in lis
          selectedCls, \* the tabs with the class of the selected one
          disabledCls, \* the tabs with the class of a disabled one
          processing,  \* the tabs with the class of one that is loading
          panels,      \* the tabs whose panel is not hidden
          tabQueue,    \* what waits in the queue "tabs"
          xhr,         \* the tab whose content is requested, or NoTab
          cached       \* the tabs whose content is kept

tabVars == <<lis, selectedTab, disabled, selectedCls, disabledCls, processing, panels,
             tabQueue, xhr, cached>>

-----------------------------------------------------------------------------
(* The widget as a record, changed by one call after the other.            *)

Widget == [lis |-> lis, selected |-> selectedTab, disabled |-> disabled, sel |-> selectedCls,
           dis |-> disabledCls, proc |-> processing, panels |-> panels, queue |-> tabQueue,
           xhr |-> xhr, cached |-> cached]

WidgetIs(w) ==
    /\ lis' = w.lis /\ selectedTab' = w.selected /\ disabled' = w.disabled
    /\ selectedCls' = w.sel /\ disabledCls' = w.dis /\ processing' = w.proc
    /\ panels' = w.panels /\ tabQueue' = w.queue /\ xhr' = w.xhr /\ cached' = w.cached

PlaceOf(w, t) == IF \E i \in DOMAIN w.lis : w.lis[i] = t
                 THEN CHOOSE i \in DOMAIN w.lis : w.lis[i] = t ELSE 0

HideTab(hide) == [kind |-> "hide", tab |-> NoTab, hide |-> hide]

ShowTab(t) == [kind |-> "show", tab |-> t, hide |-> {}]

(* The first tab is shown at once, and only its event waits.               *)
ShowEvent == [kind |-> "event", tab |-> NoTab, hide |-> {}]

(* The calls at the front of the queue that hide: hideTab goes on to the     *)
(* next of the queue itself.                                               *)
Hides(q) ==
    LET hides(i) == q[i].kind = "hide" IN
    CHOOSE n \in 0 .. Len(q) : (\A i \in 1 .. n : hides(i)) /\ (n < Len(q) => ~hides(n + 1))

(* dequeue: what hides, and the first call after it.                       *)
Dequeue(w) ==
    LET n == Hides(w.queue)
        shown == IF n < Len(w.queue) /\ w.queue[n + 1].kind = "show"
                 THEN {w.queue[n + 1].tab} ELSE {}
        hidden == UNION {w.queue[i].hide : i \in 1 .. n}
    IN  [w EXCEPT !.sel = (IF n > 0 THEN @ \ ToSet(w.lis) ELSE @) \cup shown,
                  !.panels = (@ \ hidden) \cup shown,
                  !.queue = SubSeq(@, n + 2, Len(@))]

(* Mutant of Abort: the queue is left alone. *)
AbortRequest(w) == [w EXCEPT !.xhr = NoTab, !.proc = @ \ ToSet(w.lis)]

(* abort keeps what was queued by the latest click: two calls at most.     *)
Abort(w) ==
    [w EXCEPT !.queue = SubSeq(@, IF Len(@) > 2 THEN Len(@) - 1 ELSE 1, Len(@)),
              !.xhr = NoTab,
              !.proc = @ \ ToSet(w.lis)]

Load(w, t) ==
    LET a == Abort(w) IN
    IF t \notin Remote \/ (a.queue # <<>> /\ t \in a.cached) THEN Dequeue(a)
    ELSE [a EXCEPT !.proc = @ \cup {t}, !.xhr = t]

(* The handler of a click, or of select, on a tab.                         *)
Ignores(w, t) ==
    \/ t \in w.sel /\ ~TabsCollapse
    \/ t \in w.dis
    \/ t \in w.proc

Clicked(w, t) ==
    LET hide == w.panels
        a == Abort([w EXCEPT !.selected = PlaceOf(w, t)])
        queued(fs) == [a EXCEPT !.queue = @ \o fs]
    IN  CASE Ignores(w, t) -> w
          [] ~Ignores(w, t) /\ TabsCollapse /\ t \in w.sel ->
                Dequeue([queued(<<HideTab(hide)>>) EXCEPT !.selected = 0])
          [] ~Ignores(w, t) /\ ~(TabsCollapse /\ t \in w.sel) ->
                Load(queued(IF hide = {} THEN <<ShowTab(t)>> ELSE <<HideTab(hide), ShowTab(t)>>), t)

(* _tabify, after a change of the list.                                    *)
Tabify(w) ==
    LET marked == {i \in DOMAIN w.lis : w.lis[i] \in w.sel} IN
    [w EXCEPT !.selected = IF marked = {} THEN 0 ELSE CHOOSE i \in marked : \A j \in marked : i <= j,
              !.dis = {w.lis[i] : i \in {j \in w.disabled \cap DOMAIN w.lis : w.lis[j] \notin w.sel}},
              !.panels = @ \cap ToSet(w.lis),
              !.cached = IF Cache THEN @ ELSE {}]

-----------------------------------------------------------------------------
(* Operations.                                                             *)

TabsInit ==
    \E t \in TabIds :
        LET w == [lis |-> <<t>>, selected |-> 1, disabled |-> {}, sel |-> {t}, dis |-> {},
                  proc |-> {}, panels |-> {t}, queue |-> <<>>, xhr |-> NoTab, cached |-> {}]
            i == IF t \in Remote THEN [w EXCEPT !.queue = <<ShowEvent>>, !.proc = {t}, !.xhr = t]
                 ELSE w
        IN  /\ lis = i.lis /\ selectedTab = i.selected /\ disabled = i.disabled
            /\ selectedCls = i.sel /\ disabledCls = i.dis /\ processing = i.proc
            /\ panels = i.panels /\ tabQueue = i.queue /\ xhr = i.xhr /\ cached = i.cached

ClickTab(t) ==
    /\ t \in ToSet(lis)
    /\ WidgetIs(Clicked(Widget, t))

AddTab(t, index) ==
    /\ t \notin ToSet(lis) \cup {xhr} \cup {tabQueue[i].tab : i \in DOMAIN tabQueue}
    /\ LET w == Tabify([Widget EXCEPT
                          !.lis = InsertAt(@, index, t),
                          !.disabled = {IF n >= index THEN n + 1 ELSE n : n \in @},
                          !.sel = @ \ {t}, !.proc = @ \ {t},
                          !.panels = @ \ {t}, !.cached = @ \ {t}])
       IN  WidgetIs(IF Len(w.lis) > 1 THEN w
                    ELSE Load([w EXCEPT !.selected = 1, !.sel = {t}, !.panels = {t},
                                        !.queue = Append(@, ShowEvent)], t))

(* remove selects a tab beside the one that goes while the old places hold.  *)
RemoveTab(index) ==
    LET t == lis[index]
        beside == lis[IF index < Len(lis) THEN index + 1 ELSE index - 1]
        w == IF t \in selectedCls /\ Len(lis) > 1 THEN Clicked(Widget, beside) ELSE Widget
    IN  WidgetIs(Tabify([w EXCEPT
            !.lis = RemoveAt(@, index),
            !.disabled = {IF n >= index THEN n - 1 ELSE n : n \in @ \ {index}}]))

EnableTab(index) ==
    /\ index \in disabled
    /\ WidgetIs([Widget EXCEPT !.dis = @ \ {lis[index]}, !.disabled = @ \ {index}])

DisableTab(index) ==
    /\ index # selectedTab
    /\ WidgetIs([Widget EXCEPT !.dis = @ \cup {lis[index]}, !.disabled = @ \cup {index}])

(* The answer, which is shown in the panel; an error has no handler.       *)
Answered ==
    /\ xhr # NoTab
    /\ WidgetIs(Dequeue([Widget EXCEPT
            !.xhr = NoTab, !.proc = @ \ ToSet(lis),
            !.cached = IF Cache THEN @ \cup {xhr} ELSE @]))

AnswerLost ==
    /\ xhr # NoTab
    /\ WidgetIs([Widget EXCEPT !.xhr = NoTab])

TabsNext ==
    \/ \E t \in TabIds : ClickTab(t)
    \/ \E t \in TabIds, index \in 1..Len(lis) + 1 : AddTab(t, index)
    \/ \E index \in DOMAIN lis : RemoveTab(index)
    \/ \E index \in DOMAIN lis : EnableTab(index)
    \/ \E index \in DOMAIN lis : DisableTab(index)
    \/ Answered
    \/ AnswerLost

TabsSpec == TabsInit /\ [][TabsNext]_tabVars

-----------------------------------------------------------------------------
(* Properties.                                                             *)

(* One panel is shown at most, that of the tab that is marked, whatever is   *)
(* clicked, added, removed or loaded meanwhile: the calls that hide and show *)
(* are queued by one event and run by another (_tabify, load and abort).     *)
OnePanelShown ==
    /\ Cardinality(panels \cap ToSet(lis)) <= 1
    /\ panels \cap ToSet(lis) = selectedCls \cap ToSet(lis)

(* What abort says of itself: the queue "must not contain more than two       *)
(* elements, which are the callbacks for the latest clicked tab", the one     *)
(* that is being loaded.  A click that finds no panel to hide, because it was *)
(* removed or closed, queues one only, so that an earlier click's is among    *)
(* the last two and is run for it.                                          *)
QueueIsOfLatestTab ==
    /\ Len(tabQueue) <= 2
    /\ xhr # NoTab => \A i \in DOMAIN tabQueue : tabQueue[i].kind = "show" => tabQueue[i].tab = xhr

=============================================================================
