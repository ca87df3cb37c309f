-------------------------------- MODULE Events --------------------------------
(* The handlers of one element in jQuery.event: how they are bound, unbound  *)
(* and called, by an event of the browser or by trigger, and by handlers     *)
(* that do all this themselves.  "over" is a type of the browser; "enter" is *)
(* a special one, heard through a handler of jQuery on "over".               *)
EXTENDS Naturals, Sequences

CONSTANTS Handlers,   \* the functions of the page, each with its guid
          WithinElement, \* withinElement, the handler of jQuery
          Nothing,
          MaxDepth    \* bound of the model: dispatches inside of each other

ASSUME EventsAssumption ==
    MaxDepth \in Nat \ {0} /\ WithinElement \notin Handlers /\ Nothing \notin Handlers \cup {WithinElement}

Types == {"over", "enter"}

VARIABLES events,     \* for each type with a table, what its guids stand for
          listening,  \* the types the browser calls the element for
          frames,     \* the dispatches that run, the innermost first
          spent,      \* history: the handlers of "one" called since they were bound
          deaf        \* history: "over" was unbound whole while "enter" had this table

eventVars == <<events, listening, frames, spent, deaf>>

-----------------------------------------------------------------------------
(* Tables and the loops that run over them.  A loop does not come to a       *)
(* handler that is deleted before it does.                                  *)

ElementOf(ev, li, fr) == [events |-> ev, listening |-> li, frames |-> fr]

Element == ElementOf(events, listening, frames)

HandlersOf(e, t) == IF t \in DOMAIN e.events THEN DOMAIN e.events[t] ELSE {}

Put(f, k, v) == [x \in DOMAIN f \cup {k} |-> IF x = k THEN v ELSE f[x]]

Without(f, S) == [x \in DOMAIN f \ S |-> f[x]]

Dropped(fr, t, hs) ==
    [i \in DOMAIN fr |-> IF fr[i].of = t THEN [fr[i] EXCEPT !.todo = @ \ hs] ELSE fr[i]]

Delete(e, t, hs) ==
    ElementOf(Put(e.events, t, Without(e.events[t], hs)), e.listening, Dropped(e.frames, t, hs))

NoTable(e, t) == ElementOf(Without(e.events, {t}), e.listening, e.frames)

-----------------------------------------------------------------------------
(* add and remove.                                                         *)

(* A function joins the table of a type that has one.                      *)
Join(e, t, h, kind) ==
    ElementOf(Put(e.events, t, Put(e.events[t], h, kind)), e.listening, e.frames)

AddOver(e, h, kind) ==
    IF "over" \in DOMAIN e.events THEN Join(e, "over", h, kind)
    ELSE ElementOf(Put(e.events, "over", Put(<<>>, h, kind)), e.listening \cup {"over"}, e.frames)

AddEnter(e, h, kind) ==
    IF "enter" \in DOMAIN e.events THEN Join(e, "enter", h, kind)
    ELSE Join(AddOver(ElementOf(Put(e.events, "enter", <<>>), e.listening, e.frames), WithinElement, "bind"),
              "enter", h, kind)

AddHandler(e, t, h, kind) == IF t = "over" THEN AddOver(e, h, kind) ELSE AddEnter(e, h, kind)

(* A type whose last handler is gone goes with its listener, unless "ret" is *)
(* left from a type removed in the same call.                               *)
RemoveOver(e, hs, ret) ==
    IF "over" \notin DOMAIN e.events THEN [element |-> e, ret |-> ret]
    ELSE LET d == Delete(e, "over", hs) IN
         IF DOMAIN d.events["over"] # {} THEN [element |-> d, ret |-> TRUE]
         ELSE IF ret THEN [element |-> d, ret |-> TRUE]
         ELSE [element |-> ElementOf(NoTable(d, "over").events, d.listening \ {"over"}, d.frames),
               ret |-> FALSE]

(* Mutant of RemoveEnter: the helper of the type stays. *)
RemoveEnterOnly(e, hs, ret) ==
    IF "enter" \notin DOMAIN e.events THEN [element |-> e, ret |-> ret]
    ELSE LET d == Delete(e, "enter", hs) IN
         IF DOMAIN d.events["enter"] # {} \/ ret THEN [element |-> d, ret |-> TRUE]
         ELSE [element |-> NoTable(d, "enter"), ret |-> FALSE]

RemoveEnter(e, hs, ret) ==
    IF "enter" \notin DOMAIN e.events THEN [element |-> e, ret |-> ret]
    ELSE LET d == Delete(e, "enter", hs) IN
         IF DOMAIN d.events["enter"] # {} \/ ret THEN [element |-> d, ret |-> TRUE]
         ELSE [element |-> NoTable(RemoveOver(d, {WithinElement}, FALSE).element, "enter"),
               ret |-> FALSE]

RemoveType(r, t, hs) == IF t = "over" THEN RemoveOver(r.element, hs, r.ret)
                        ELSE RemoveEnter(r.element, hs, r.ret)

(* The call names one type or two.                                         *)
RemoveFrom(e, types, hs) ==
    LET first == RemoveType([element |-> e, ret |-> FALSE], types[1], hs)
    IN  IF Len(types) = 1 THEN first.element ELSE RemoveType(first, types[2], hs).element

EventsBecomeWith(e, unheard) ==
    /\ events' = e.events
    /\ listening' = e.listening
    /\ frames' = e.frames
    /\ deaf' = ("enter" \in DOMAIN e.events /\ unheard)

EventsBecome(e) == EventsBecomeWith(e, deaf)

-----------------------------------------------------------------------------
(* handle: a loop over the handlers of a type.                             *)

Frame(type, of, todo, running) == [type |-> type, of |-> of, todo |-> todo, running |-> running]

Push(e, t) ==
    ElementOf(e.events, e.listening, <<Frame(t, t, HandlersOf(e, t), Nothing)>> \o e.frames)

(* Code of the page runs between events and in a handler.                  *)
PageRuns == frames # <<>> => frames[1].running # Nothing

(* The next handler of the innermost loop.  That of "one" unbinds itself by  *)
(* the type the event has then; withinElement gives it its own type, and     *)
(* the outer loop goes on with it.                                          *)
Called(e, h) ==
    LET f == e.frames[1]
    IN  ElementOf(e.events, e.listening, <<Frame(f.type, f.of, f.todo \ {h}, h)>> \o Tail(e.frames))

Call(h) ==
    LET f == frames[1]
        kind == events[f.of][h]
        c == Called(Element, h)
    IN  /\ EventsBecome(IF kind = "one" THEN RemoveFrom(c, <<f.type>>, {h}) ELSE c)
        /\ spent' = IF kind = "one" THEN spent \cup {<<f.of, h>>} ELSE spent

(* withinElement, for a pointer that came from outside of the element, and   *)
(* for one that did not.                                                    *)
CallWithin(outside) ==
    LET f == frames[1]
        type == IF outside THEN "enter" ELSE f.type
        c == ElementOf(events, listening,
                       <<Frame(type, f.of, f.todo \ {WithinElement}, Nothing)>> \o Tail(frames))
    IN  /\ EventsBecome(IF outside THEN Push(c, "enter") ELSE c)
        /\ UNCHANGED spent

CanCall ==
    /\ frames # <<>>
    /\ frames[1].running = Nothing

Handle ==
    /\ CanCall
    /\ \/ \E h \in frames[1].todo \cap Handlers : Call(h)
       \/ \E outside \in BOOLEAN :
             /\ WithinElement \in frames[1].todo
             /\ outside => Len(frames) < MaxDepth
             /\ CallWithin(outside)

(* A handler ends, and the loop with it if it stopped the event for others;    *)
(* and with it the outer loop whose event withinElement handed to this one.  *)
Return ==
    /\ frames # <<>> /\ frames[1].running # Nothing
    /\ \E stops \in BOOLEAN :
          LET f == frames[1]
              rest == Tail(frames)
              within == rest # <<>> /\ rest[1].running = Nothing
          IN  frames' = <<Frame(f.type, f.of, IF stops THEN {} ELSE f.todo, Nothing)>>
                        \o (IF stops /\ within
                            THEN <<Frame(rest[1].type, rest[1].of, {}, Nothing)>> \o Tail(rest)
                            ELSE rest)
    /\ UNCHANGED <<events, listening, spent, deaf>>

EndHandle ==
    /\ CanCall
    /\ frames[1].todo = {}
    /\ frames' = Tail(frames)
    /\ UNCHANGED <<events, listening, spent, deaf>>

-----------------------------------------------------------------------------
(* The page and the browser.                                               *)

EventsInit ==
    /\ events = <<>>
    /\ listening = {}
    /\ frames = <<>>
    /\ spent = {}
    /\ deaf = FALSE

Joined(fr, t, h) ==
    [i \in DOMAIN fr |-> IF fr[i].of = t THEN [fr[i] EXCEPT !.todo = @ \cup {h}] ELSE fr[i]]

(* bind and one.  A loop over the table may come to the new handler or not.  *)
Bind(t, h, kind) ==
    /\ PageRuns
    /\ LET e == AddHandler(Element, t, h, kind) IN
       \/ EventsBecome(e)
       \/ /\ h \notin HandlersOf(Element, t)
          /\ t \in DOMAIN events
          /\ EventsBecome(ElementOf(e.events, e.listening, Joined(frames, t, h)))
    /\ spent' = spent \ {<<t, h>>}

(* unbind of a handler, from one type or from several.                     *)
Unbind(types, h) ==
    /\ PageRuns
    /\ EventsBecome(RemoveFrom(Element, types, {h}))
    /\ UNCHANGED spent

(* unbind of a type with all its handlers, that of jQuery among them.  Of two  *)
(* types it leaves what unbind of all does.                                  *)
UnbindType(t) ==
    /\ PageRuns
    /\ EventsBecomeWith(RemoveFrom(Element, <<t>>, Handlers \cup {WithinElement}), deaf \/ t = "over")
    /\ UNCHANGED spent

(* unbind of all: each type is removed by a call of its own.               *)
UnbindAll ==
    /\ PageRuns
    /\ \E t1, t2 \in Types :
          /\ t1 # t2
          /\ LET all == Handlers \cup {WithinElement} IN
             EventsBecome(RemoveFrom(RemoveFrom(Element, <<t1>>, all), <<t2>>, all))
    /\ UNCHANGED spent

(* The browser calls a listener; trigger calls the handlers by itself.     *)
Occur ==
    /\ frames = <<>>
    /\ "over" \in listening
    /\ EventsBecome(Push(Element, "over"))
    /\ UNCHANGED spent

Trigger(t) ==
    /\ PageRuns
    /\ Len(frames) < MaxDepth
    /\ DOMAIN events # {}
    /\ EventsBecome(Push(Element, t))
    /\ UNCHANGED spent

EventsNext ==
    \/ Handle
    \/ Return
    \/ EndHandle
    \/ \E t \in Types, h \in Handlers, kind \in {"bind", "one"} : Bind(t, h, kind)
    \/ \E types \in {<<"over">>, <<"enter">>, <<"over", "enter">>, <<"enter", "over">>},
          h \in Handlers : Unbind(types, h)
    \/ \E t \in Types : UnbindType(t)
    \/ UnbindAll
    \/ Occur
    \/ \E t \in Types : Trigger(t)

EventsSpec == EventsInit /\ [][EventsNext]_eventVars

-----------------------------------------------------------------------------
(* Properties.                                                             *)

(* A type has a table exactly while it can be heard: the listener of the     *)
(* browser for one, the handler of jQuery that stands for the other.  Tables *)
(* come and go with their first and last handler, inside of dispatches and   *)
(* of each other (add and remove of jQuery.event).  The exception is a table  *)
(* of enter that was there when all of over was unbound, the handler of       *)
(* jQuery with it: it is not heard until its last handler is unbound, whatever *)
(* is bound meanwhile.  And a handler bound by "one" to enter is called once   *)
(* at most for each time it was bound, although it may trigger the event again *)
(* itself.                                                                   *)
TablesAreHeard ==
    /\ "over" \in DOMAIN events <=> "over" \in listening
    /\ "enter" \in DOMAIN events /\ ~deaf <=> WithinElement \in HandlersOf(Element, "over")
    /\ \A i \in DOMAIN frames, h \in Handlers :
          /\ frames[i].of = "enter" /\ h \in frames[i].todo /\ events["enter"][h] = "one"
          => <<"enter", h>> \notin spent
=============================================================================
