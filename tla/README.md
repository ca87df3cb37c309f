# jPOS Presentation Manager in TLA+

The Presentation Manager (PM) is a CRUD and monitoring web framework: entities
described in XML get lists, forms and operations over Hibernate, a login, a
menu, and pages that follow a file or a table as it grows.  It runs inside a
servlet container, so every request is a thread; besides those it has one
thread per monitor, one `java.util.Timer` per watched monitor page and one for
the session checker.  Almost none of the state these threads share is guarded
by a lock, and that is one half of this project.  The other half is the browser:
the pages filter their lists, ask for lines, open calendars and animate their
menu with scripts that the repository carries, libraries included.  There one
callback runs at a time, but events, timers, answers and animations come in any
order, and what one callback left behind meets the next.

Paths below are abbreviated: `core/` is
`src/modules/pm_core/src/org/jpos/ee/pm/core/`, `struts/` is
`src/modules/pm_struts/src/org/jpos/ee/pm/struts/`, `core_db/` is
`src/modules/pm_core_db/src/org/jpos/ee/pm/core/`, `js/` is
`src/modules/pm_struts/webapps/pm/js/`.

## 1. Inventory

| Component | State | Operations | Who calls it |
|---|---|---|---|
| Monitor thread (`core/monitor/Monitor.java`) | `actual` (last line seen), the `Observable`'s observers and changed flag, the thread's interrupt status | `run`: sleep for ever without observers, else greet, then read, notify, nap; `addObserver` interrupts it | started once by the PM; request threads add and timers delete observers |
| Monitor source (`FileMonitorSource`, `SQLMonitorSource`) | a file (a table) another program writes | `getLastLine`, `getLinesFrom` | the monitor thread |
| Observer (`core/monitor/MonitorObserver.java`) | `lines` | `update` by the monitor thread, `getLines` by a request, unlocked | both |
| Web client (`struts/StrutsMonitorObserver.java`, `struts/actions/MonitorAction.java`) | the observer of an HTTP session, its timer | watch, poll, expire | the browser, timers |
| Session registry (`core/PresentationManager.java`) | `sessions` map, `lastAccess` and user of each session | `registerSession`, `getSession`, `removeSession`, the session checker | login, logout, every request, a timer |
| Login and logout (`struts/actions/LoginAction.java`, `LogoutAction.java`) | - | register then authenticate; remove | the browser |
| Operation engine (`core/operations/*.java`) | the context of one request | `prepare` (select, refresh, process the fields), `internalExecute` (validate, transaction, execute, commit or roll back) | the Struts actions |
| Entity container (`core/EntityContainer.java`) | `list`, `selected`, `selectedNew`, filter, owner: per PM session and entity, shared by its requests | setters, `setSelected` | the engine |
| Database access (`core_db/`) | a Hibernate session and transaction per request | list, refresh, add, update, delete, start, commit, rollback | the engine |
| Pagination (`core/PaginatedList.java`, `ListManager.java`, `DisplacedList.java`) | page, pages, total, rows per page, displacement | the list operation | the engine |
| Filters and order | the filter of the container | filter, clear, sort operations | the engine |
| Weak entities | the collection of an owner's instance | add and delete against the owner | the engine |
| Metadata (`Entity`, `Field`, `Operation`, `Operations`) | read at start-up, plus caches filled lazily | lookups by scope, field and permission | everybody |
| Security connector, user manager | one connector for all requests; failed logins, password history | authenticate, change password, lock | login, user pages |
| Menu, converters, validators, XML parsers, formatters, Pentaho bridge | none or constant | pure functions, start-up | - |
| Monitor page (`js/jquery-plugin-arte.js`, `ajax` of `js/jquery.js`) | the started flag, the timers of rounds, the open requests, `jQuery.active` | start, stop, a round, send, poll the request, timeout, abort | the page, timers, the network |
| Animations (`js/jquery.js`, `js/jqueryslidemenu.js`) | the queue of each element, `jQuery.timers`, the interval | `animate`, `slideDown`, `slideUp`, the tick | the pointer, the answers of a monitor |
| List of a page (`js/jquery.dataTables.js`, `js/list.js`) | the rows on display, the searches, the boxes and their prompts | key-up, focus and blur of a box | the user |
| Calendar (`js/jquery-ui.js`) and `EditDateConverter` | one popup for all date fields; the date of each field; its text | show, hide, keys, days, key-up; write and read the text | the user, the server |
| Events and `ready` (`js/jquery.js`) | the tables of handlers, `one`'s proxies, the list of waiting functions | bind, unbind, trigger, dispatch, ready | everything in the page |
| Selectors (`js/jquery.js`) | the set under construction, marks left on the nodes | `Sizzle.find`, `Sizzle.filter` | everything in the page |
| MD5 (`js/md5.js`, `MD5_hex.java`) | the four words | one block | the server; the login pages load the script, and `encrypt.js` does not call it at this commit |
| Widgets of `js/jquery-ui.js`: tabs, dialog, accordion, autocomplete, slider, drag and drop, sortable, selectable | see the modules | see the modules | nobody in this repository: the pages load the file, and use its calendar only |

How they interact.  A page asks `MonitorAction` for lines; the action holds the
lock of the `HttpSession`, creates or finds the observer of the session and
calls its `getLines`.  The observer is registered with the monitor, whose thread
calls `update` on it.  Any other request goes through `ActionSupport`, which
looks its PM session up in the registry (and again at each use), then runs an
operation; the operation works on the entity container of that PM session and
on a Hibernate session of its own.

In the browser, every page binds its scripts with `ready` and `bind`, finds its
elements with selectors, slides its menu with the effect queue and filters its
list with DataTables; a monitor page runs the rounds of the arte plugin over
`jQuery.ajax` and scrolls its window with the same queue, and a form with a date
has the shared calendar.  The text of a date is what the calendar and the server
agree on, or not.  `js/jquery-ui.js` holds more widgets than the pages use; they are
part of the repository's code and have modules of their own, and what is said of
them is said of the library, not of the pages.

What is hard:

- interleaving: registration against the unlocked test of `countObservers`;
  `update` against `getLines` on one `ArrayList`; two requests of one PM session
  on one container; the session checker's iterator against unlocked removals;
- ordering: an observer that is registered before it has a list; a PM session
  that is put in the map before its first access;
- timers: a task that has started cannot be cancelled; a session found idle is
  removed after the scan;
- failure: each step of an operation may throw, before or after the database
  was asked to write; a monitored file may be emptied;
- staleness: the selection and the page of rows outlive the request that made
  them, and other sessions change the rows meanwhile;
- in the browser: answers that overtake each other, requests that time out, are
  aborted or cannot be sent; animations that queue up while the pointer comes and
  goes; timers that outlive the focus, the dialog or the drag they were started
  for; a search that builds on the result of the last one; handlers that bind
  and unbind handlers while they are called.

The hazards in `PROJECT.json` list each of them at its line.

## 2. Plan

Written in this order, each module after the one it composes with:

1. `Monitor`, then `MonitorWatch` (Monitor under its web client);
2. `Operations`, with the abstract specification `UnitOfWork` it implements;
3. `Sessions`;
4. `Pagination`;
5. the proofs about the server: `MonitorProofs` (with `MonitorWatch`),
   `SessionsProofs`, `OperationsProofs`, `PaginationProofs`;
6. the browser: `Polling`, `Effects`, `Table`, `Popup`, `Calendar`, `DateText`, `Events`,
   `Ready`, `Sizzle`, `Filters`, `Md5`;
7. the widgets of the library: `Tabs`, `Dialog`, `Accordion`, `Autocomplete`,
   `Slider`, `DragDrop`, `Sortable`, `Selectable`;
8. the proofs about the browser: `PollingProofs`, `EffectsProofs`, `PageProofs`
   (popup, calendar, events, table, ready, selectors and filters) and `WidgetProofs`.

What could follow: weak entities (the owner's collection is changed outside of the
transaction); the security connector that all requests share; a second monitor,
whose lines a session may get from the watcher of the first.

## 3. Modules

### Monitor

One `Monitor` object, its thread and the observers other threads register.  A
line is its number: content and format do not matter to the thread, which only
counts.  `pc` follows `Monitor.run`; each action is a stretch of `run` between
two accesses to what other threads share:

| Action | Code |
|---|---|
| `Top`, `Woken` | the test of `countObservers`, and the sleep of `Long.MAX_VALUE` that only an interrupt ends |
| `StartWatching`, `Greet` | `startWatching`: `actual` becomes the last line, and `notifyObservers` is called without `setChanged`, so normally nobody is told |
| `Loop`, `GetNewLines`, `NotifyLines` | one turn of the inner loop; exceptions are caught there and end the turn |
| `Deliver`, `DeliverTorn`, `DeliverFails`, `Delivered` | `notifyObservers` over its copy of the observers: the call of `update`, which appends to the list; overlaps with a running `getLines`; or meets an observer whose constructor has not made its list yet, and throws |
| `Nap` | the sleep of `delay`, or an interrupt that cuts it |
| `AddObserver`, `SetLines` | the constructor of an observer, which registers before it makes the list |
| `CopyLines`, `CopyTorn`, `ClearLines` | `getLines` |
| `DeleteObserver` | a timer's task |
| `Append1`, `Rotate` | the program that writes the file |

`ArrayList` is not synchronized.  `DeliverTorn` covers the overlap of `addAll`
with `clear`: `clear` nulls the elements and resets the size while `addAll` is
between its copy of the new elements and its addition to the size.  If the array is
long enough this leaves null rows before the new lines, or only the first rows of
that list; if `addAll` makes the array longer it may have copied some of the old rows
before `clear` nulled them, and they stay in the list (`Left`, `TornLists`), to be
returned again by the next poll.  How long the array is is left open.  `CopyTorn` is
the copy of `getLines` that meets an `addAll` half done.  The exceptions, the null rows
and the old ones are outcomes of the model, not left out.  `got`, `shown`, `stale` (the
lines that such a race left for another poll) and `spoilt` are history.

### MonitorWatch

Extends `Monitor`: HTTP sessions create observers (`Watch`, `BuildList`,
`Schedule`), poll them (`Poll`, `Copy`, `Clear`, `Return`) and abandon them.
`armed`, `left` and `firing` are the timer of an observer: `Arm` cancels the task
and schedules another, which does not stop a task that has started (`firing`).  The
action holds the lock of the HTTP session, so a session has one request at a time;
observers that a new page replaces stay registered until their timer deletes them.
Every step is one of `Monitor`'s or leaves its variables alone: the actions are
written so, and it is only a lemma (`PagesAreObservers`) that carries the theorems
of `Monitor` over.

### Operations and UnitOfWork

`Operations` is the engine for list, show, add, edit and delete of a strong
entity.  A request is *sent* from what a page showed (a row of the list, by its
index, or the instance of a form that the request does not name), then runs
through `phase`:

| Phase | Actions | Code |
|---|---|---|
| sent | `ConfigureSelected` | `configureSelected`: forget the selection, take a row of the page, or keep what is selected |
| refresh | `Refresh` | `refreshSelectedObject`: merge and refresh in the session of this request; fails when the row is gone |
| prepare | `NewInstance`, `ProcessFields` | `AddOperation.prepare`, `EditOperation.prepare`, whose fields are set before the errors are looked at |
| begin | `Begin` | validation, `startTransaction` |
| execute | `ExecuteList`, `ExecuteShow`, `ExecuteWrite`, `ExecuteFails` | `preExecute`, `doExecute` |
| commit | `Commit`, `Finish`, `CommitFails` | `postExecute`, `commit` |
| rollback | `Rollback` | `rollback`, which closes the session |

An instance is named by the request that created it: `Read(r)` is the one `r` read
again, `Made(r)` the new one it made, `<<r, i>>` row `i` of the page it listed.
`disturbed` is history: a request ran beside another one of its session, or was sent
from a page that is not what the container holds any more (`Stale`): another page
was listed, another selection made, or the instance of the row was saved as a new
row by an add that found it selected.  Hibernate is external and modelled by what
the code relies on: a session holds one instance per row (`Clashes`), a flush writes
the instance that was read if its value changed and the target of the operation
(`Flush`), an update or delete of a row that is gone fails, and the identifier of a
deleted row may be used again.

`UnitOfWork` is what a request promises: it is answered once, and a request
that is answered by a failure has written nothing.  `UnitSpec` is its
specification under the mapping that reads `outcome` off `phase`.

### Sessions

The registry of PM sessions.  `registerSession` is `CheckId`, `Put` and
`FirstAccess` under the lock of the map; `removeSession` (`Logout`, for logouts
and for the administrator's session list) and the lookups take no lock.  The
session checker holds the lock from `StartCheck` to `EndCheck`: its iterator
(`Scan`) is a step per entry, and finds a map that was changed under it with a
`ConcurrentModificationException`, which ends the timer's thread for good
(`dead`).  A working request looks its session up four times: `FindSession`; twice to
ask for its user, once to see that there is a session (`FindUser`) and once to read the
user (`ReadUser`), where one that was removed in between is a `NullPointerException`;
and for all that follows (`UseSession`).
`Authenticate` leaves the session registered without a user when the password is
wrong, as the code does.

### Pagination

The list of one PM session while other sessions insert and delete rows.  `List`
and `Filter` start a request, `ReadRows` and `Count` are its two queries, `Show`
stores the rows and the total and makes the page, `Fail` is an exception of a
query, which leaves the new page with the old rows.  `Configure` is `setPage`,
which compares with the total of the request before, and then `setRowsPerPage`.
`rows` are the rows that match the filter, so that a new filter and a change by
another session are changes of the same variable.  `current` and `settled` are
history: whether the rows are still those that were counted, and whether the
page was compared with the right total.

### The pages

`Polling` is the loop of the arte plugin over `jQuery.ajax`: `Launch` sends a question
and arms the next round without waiting.  The server answers in two steps: `Collect` is
`MonitorAction`, which holds the lock of the HTTP session while it makes the waiting
lines an attribute of that session (`Take`), and `Render` is `monitor_cont.jsp`, which
holds no lock and writes whatever the attribute is by then.  `crossed` is history: the
lines of a request that collected while the page of another was not written; they may
be shown twice or never.  `ServeNobody` is the same for a request that the browser has
given up.  `Arrive` and `Break` are the network,
`Poll` is jQuery's look at the request every 13 ms, which finds an answer, an abort
or a timeout, whichever came first.  `overlapped` is history: a round came before
the answer of the last one.  Then answers may overtake each other and lines be shown
out of order, which nothing in the code prevents; `EachLineOnce` says what holds.

`Effects` has the queue of an element, the timers that all animations share and
their interval.  The callback of the interval is a series of steps (`Tick`, `Move`,
`Finish`, `Pause`), since what it visits may start animations.  `Enter` and `Leave`
are the hover handlers of the menu, `Update` an answer in the window of a monitor.

`Table` follows `_fnFilter` and `_fnFilterColumn` with the boxes of `list.js`: a box that
shows its prompt searches for nothing, key-up is heard by the box that has the
focus at the release, and a search that continues the last one works on the rows
on display.  `Popup` has the popup that all calendars share with its queue of
animations and the callbacks that come late; `Calendar` the text, the current and
the selected date of one field; `DateText` a field between the converter and the
calendar, with the formats taken apart into letters on both sides.

`Events` is `jQuery.event` for one element: `add`, `remove`, `handle`, `trigger` and
`one`, with `mouseenter`, which lives on a handler of `mouseover`; handlers may do
all of this while they are called (`frames`).  `unbind` of a type without a handler
(`UnbindType`) takes that handler of jQuery out with the others: after an
`unbind("mouseover")` a table of `mouseenter` stays and is not heard (`deaf`).  A
handler that stops the event stops the outer loop too when that called it
(`Return`).  `Ready` is `jQuery.ready` with functions that bind others or throw.
`Sizzle` runs the combinators from right to left over a tree, one part per step,
with the marks that save walks; `Filters` takes the filters of one part in the order
of their types (`NextFilter`), and says of an expression what it means from left to
right (`Meaning`).  When the first thing with a colon is a position, the expression
of `CHILD` also finds the name of an `:nth-child` inside of a `:not`
(`CutChildren`): it is cut out, and what is left means something else or is refused
(`FilterThrows`).  `Md5` makes the digest block by block, as the script and as the
server do.

### The widgets

`Tabs`: clicks, additions and removals while a panel is loaded, and the queue of
calls that an answer runs.  `Dialog`: modal dialogs, the list of overlays that
`destroy` takes the wrong one from (`$.inArray` with its arguments swapped), the
heights, and the timer of `create`.  `Accordion`: clicks and keys while contents
slide.  `Autocomplete`: the timers of search and blur, the menu and its keys.
`Slider`: two handles.  `DragDrop`: one draggable over nested and greedy droppables.
`Sortable`: connected lists, placeholders and the events a list is told.
`Selectable`: a lasso with the meta key pressed or released at any time.

## 4. What the runs check

| Run | Bounds | Shows |
|---|---|---|
| `monitor` | 2 observers, up to 3 lines; or 1 of them, 4 lines and a file emptied once | `NoLostWakeup`; `InOrder`: no observer is told a line twice or after a later one, and no poll returns one so but a line that a race left in the list; `Gapless`: no line is skipped between two that were told, unless an exception cut a notification short; `LinesArrive`: the lines behind the last one seen reach an observer, but for the first of a file in which none was seen |
| `monitor_clear` | 1 observer, 3 lines | violation: a line is cleared without having been returned |
| `monitor_again` | 1 observer, 3 lines | violation: a line that a poll returned is returned by the next one |
| `monitor_first` | 1 observer, 2 lines | violation: the first line of a file is passed over |
| `watch` | 1 session, 2 observers, 1 line; or 1 of them and 2 lines | `NoLeak`, `AbandonedIsForgotten` |
| `watch_expiry` | 1 session, 1 observer | violation: an observer that was just polled is deleted |
| `operations` | 3 requests of one PM session, which overlap as they like, with 2 rows on a page; or these in turns, and 2 of another session, with 1 row on a page; 2 rows | `NoDanglingTransaction`, `WritesWhatWasShown`, and `UnitSpec`: the refinement of `UnitOfWork` |
| `sessions` | 1 id, 3 requests of any kind | `NoNullAccess`, `RemovesWhatItFound`, `WorksWithUser`, `NeverReplaced`, `ExpiredIsRemoved` |
| `pagination` | up to 3 rows, 1 or 2 to a page | `IndexFindsRow`: the index shown next to a row selects it; `EveryRowHasAPage`; `ShowsAPage`: a page out of range becomes the last one, if the total it is compared with is right |
| `monitor_page` | a menu of two levels and a window; or 2 requests open at a time, 2 lines, 2 loops, 1 request given up and 1 never sent | `NothingStuck`, `RestsAsMeant`, `AwayCloses`: a list the pointer has left closes; `ActiveCounts`, `EachLineOnce`, `LinesSettle`: the loop ends when it is stopped, and no line stays with the server |
| `page` | a small instance of each of its nine modules, below; of the widgets 3 tabs, 3 dialogs, 4 headers, 3 nested droppables, 2 lists, 3 elements | `ShowsWhatIsSearched`, `PopupServesField`, `FieldIsCurrent`, `EndsAgree`, `TablesAreHeard`, `EachRunsOnce`, `FindsWhatIsMeant`, `KeepsWhatIsMeant`, `SameDigest`; `OnePanelShown`, `DialogsAreUsable`, `ShowsActiveOnly`, `MenuBelongsToField`, `RangeIsUsable`, `OverWhatItMeets`, `OrderIsTold`, `SelectionIsTold` |
| `tabs_latest` | 3 tabs, 2 loaded | violation: the queue holds a call of a tab that is not the latest |

`page` and `monitor_page` check several modules at once.  Their parts share no state,
so nothing would come of interleaving them: a variable (`part`) says which one a
behaviour moves, and the others stay at their beginning.  The state space is the sum
of those of the parts, and the fairness of `monitor_page` is that of the part that
moves.  In `operations` a variable (`inTurns`) says whether the requests of a session
follow each other.

Every type invariant is a theorem, and not checked again in a run.

Why the bounds are enough to make the cases happen.  Two observers are what it takes
for one to stay while the other comes, goes or throws; line 0 is never told
(`monitor_first`), so four lines are what it takes to have two batches with a line
between them.  The longest files, and the rotation that puts `actual` behind the end
of the file, are left to the behaviours with one observer (`MCMonitor`); the
theorems cover the others.  Two observers let one session replace its observer while
the old one is still registered, and the timer of `Delay = 1` tick runs out while a
poll is under way, and lines are delivered meanwhile.  Three requests of a session
are a list, a form for one of its rows and the edit of it, or a form and its add
sent twice, without anything between them but what another session does: a list and
a request for one of its rows, such as its delete, when the requests come in turns.
When they do not, the three overlap: a list, a request that selects from it and one
that gets in between.  What overlaps is `disturbed`, and `WritesWhatWasShown` says
nothing of it: that one request of a session writes what another one selected (H16
of the hazards) and that an add sent again adds another row (H21) are behaviours of
the code and of the model that no property forbids, since nothing in the repository
says they may not happen.  Two rows and two values tell the wrong row and the wrong
value.  Three requests on the registry are a login, the logout that frees its id and
the login that takes it over while the checker is at work. With three rows and one
or two to a page there are full and partly filled last pages, an empty list (zero
pages, and page zero), and pages asked for beyond the end.

In the browser: two open requests are what it takes to overtake and to cross in the
server, where one that was given up may be a third.  The list of the menu has three
effects in its queue, enough for one that opens, one that closes and one that waits.
The table has three rows, two columns and texts of up to two words of two letters,
so that a search can be narrowed, widened and replaced.  Two date fields share the
popup.  The calendar has three short months.  The formats are those of both year
lengths, with and without padding; the dates are the ends of months and years from
1931 to 2020 (see Findings).  Selectors have up to three parts over all documents of
five nodes with two labels; filters up to three over eight elements, with up to
three positions among them. The digests are of messages around the lengths where the
padding takes another block, and of "abc", whose digest `md5_vm_test` states.  Three
tabs and three dialogs are one to be shown, one to be hidden and one that comes in
between; four headers let a click come while two contents slide; the droppables are
nested three deep; two lists with three items can exchange one while another moves
back.

The bounds are `MaxLines`, `MaxRotations`, `Shared`, `PageSize`, `Timeout`, `MaxRows`,
`MaxPage`, `MaxStuck`, `MaxLoops`, `MaxOrphans`, `Ticks`, `MaxQueue`, `MaxHeight`,
`MaxAnimations`, `MaxDepth`, `HighestZ`, `MaxTimers` and `MaxClosers`; in `Operations`
and `MonitorWatch` a request and an observer are used once.

`operations` and `pagination` use symmetry: they check safety
only, and no definition tells two requests of a session, two rows or two values
apart but by what happens to them.

All configurations but those of `sessions` and `pagination` say
`CHECK_DEADLOCK FALSE`: a monitor without observers sleeps for ever, a file that
reached its bound stops growing, requests that have all been served and a
selector that has been resolved leave nothing to do, and a page on which
nobody does anything rests.  `sessions` and `pagination` check that their system
never stops.

A definition whose comment begins "Mutant of" is a changed form of the
definition that follows it, as a plausible mistake would change it; the
specification does not use it.  `PROJECT.json` names for each property the mutant
under which TLC finds that property violated.

### Fairness

`Monitor.FairSpec`: the thread is scheduled, and a constructor or a `getLines`
that began is finished by its thread (each is a few instructions of a runnable
thread).  Nobody has to append, observe, poll or delete.  `MonitorWatch` adds the
timers' threads, the clock and the steps of requests that began; no page has to
be opened or polled.  `Sessions.FairSpec`: the timer's thread, the clock, the
requests that began.  All of it is weak fairness of runnable threads: none of
these threads waits for a condition that another may take away again, except
for the lock of `sessions`, for which no fairness is asked of `CheckId`.

`EffectsFairSpec` is weak fairness of the interval, which the browser calls again
as long as it is set.  `Polling.FairSpec`: a timer that is armed goes off (`Round`),
an open request is rendered, answered, broken or given up in the end and looked at by
jQuery's interval; and strong fairness of a round that sends and of `Collect`, since a
send may throw, and a request may time out each time before the server takes it: a
browser that can never send and a server that never takes any of infinitely many
questions are what is excluded, a single question may always be lost.
`LinesSettle` asks for it only where the page asks for ever.

## 5. What is proved

The theorems hold for every value of the constants, under `MonitorAssumption`,
`WatchAssumption`, `SessionsAssumption`, `OperationsAssumption`,
`PaginationAssumption`, the `ConstantsAssumption` of `Polling`, `EffectsAssumption`,
`PopupAssumption`, `CalendarAssumption`, `EventsAssumption`, `TableAssumption`, `ReadyAssumption`, `SizzleAssumption`, `FiltersAssumption` and
those of the widgets.  They say that bounds are natural numbers, that a page holds
at least one row, that the null values are not objects, that requests and dialogs
are finitely many, that a menu has two levels, that a month has at least a week,
that a slider has a positive step and whole pages, that a table has a column, that a
function given by another is given by that one alone, that in a `:not` an
`:nth-child` follows tags and classes only, that an item is in one list once, and
that the nodes of a document come in its order, a parent first.  Two theorems have a
hypothesis of their own, which their paragraphs name.

No theorem of the library that takes an operator can be used, induction over the
natural numbers among them.  Where a model goes through a list of any length
the proofs have two lemmas in its place, from the well-founded order of the
numbers: what holds of 0 and goes on from each number to the next holds up to n,
since a set of numbers has a least one (`LeastExists`, `GoesOn`); and a recursion
that makes each value of the one before defines a function (`StepsDefine`).  The
tree of a document is taken the same way, since a parent comes before its children.

`MonitorProofs`: `TypeCorrect`, `WakeupNeverLost`, `LinesInOrder`,
`NoLineSkipped`.
`NoLostWakeup` is inductive with nothing more than types: whoever makes the set
of observers non-empty sets the interrupt, and only the waking thread takes it.
`InOrder` and `Gapless` are not: nothing in them bounds the next batch.  The
invariant `SafeInv` adds where each observer stands in the current notification
(`Upto`: the line before the batch if it still waits, else `actual`), that all it
holds is at most there, that what a poll copied and what a race may keep of it is in
order but for the stale lines (`OrderInv`), that the lines from its last one to there are
spoilt (`GapInv`), that a batch is consecutive and ends at `actual`
(`BatchInv`), and that nobody has heard anything when the watching starts
again, which is what lets `actual` be set back after a rotation (`ControlInv`).

In the same module, about `MonitorWatch`: the lemma `PagesAreObservers` says that
its steps are those of `Monitor`, from the fact that a request beyond its first step
works on an observer (`ClientInv`).  `PagesShowLinesInOrder` carries a theorem of
`Monitor` over it.  `NothingLeaks` needs in addition only that an observer under
construction is served by the request that registered it.

`SessionsProofs`: all five safety properties from `RegistryInv`: the holder of
the lock is the one inside its block and an id found free stays free until the
put (`LockInv`); a session sits under the id of the login that made it and has no
date only between put and lookup (`OwnerInv`); what the checker found is still
there or gone (`CheckInv`).

`OperationsProofs`: `TypeCorrect` needs `ObjectInv` (an instance that was read
or is written has a row, and an instance nobody made is in nobody's hands).
`TransactionsEnd` follows the phases.  `RequestsAreUnits` is the refinement of
`UnitOfWork`: only `Commit` changes the rows, and it is the step that answers.
`ShownIsWritten` is about the whole way from a page to the row: the page of one
request is the basis of a later one, and between the two anything may happen to
the container.  Its invariant `WriteInv` says for each session that its instances
are its own (`OwnInv`) and that, as long as nothing disturbed the request that
selected last, the selection is the instance that request left (`LatestInv`); for
each request sent and not stale that what the container holds stands for the
item its page rendered (`SentInv`); for each undisturbed one that runs that it is alone
(`AloneInv`) and works on that item, with its form's value from the preparation
on (`WorkInv`); and for each one served that it wrote just this (`WrittenInv`).
The attempt showed that `Stale` had been too narrow: with five requests of one
session an add can save the instance of a listed row as another row, after which
the row's index deletes the wrong one.  The code lets this happen, so `Stale` now
counts such a request as disturbed, and Findings lists it.

`PaginationProofs`: `PageInv` ties the total to the rows while nobody changes
them (`CountInv`), the screen to the elements of the list and their
displacement (`ScreenInv`), and the page of a settled request to the pages of
those rows and the rows it read to that page (`SettledInv`).  `RowsHavePages`
and `PagesAreShown` then rest on two lemmas about division, `PositionHasPage`
and `PageBegins`.

`PollingProofs`: `RequestsAreCounted` needs the types only, of which it is part that a
request carries lines between the server and the page alone; every end of a
request takes it out of `Opened` and out of the count.  `LinesAreShownOnce` rests on
two invariants.  `Places` says that every line produced is in exactly one place, or
`crossed`, and has one lemma for each way a line moves.  `Order` says that what waits with
the server is increasing and newer than what was given away, and that as long as
no round overlapped one request at most is open, whose lines are newer than those
shown: `EachLineOnce` alone says nothing of the lines under way, so it would
not survive the answer that brings them.

`EffectsProofs`: `NothingIsStuck` and `RestIsAsMeant` from one invariant, `EffInv`, which
TLC has checked on the instance of `monitor_page`.  Neither is inductive: they speak of
the effect that plays, and the next one is only known by its place in the queue.
For each element (`ElementInv`) it says that every effect that waits found the
element with its own style and has moved nothing (`Waiting`), that the first is not
done (`Unfinished`) and the timers of the element are what is left of it (`Left`),
that the last effect of a list the pointer has left hides it (`Closes`), and that
the last scroll of a window goes to its end (`ScrollsTo`).  The callback of the interval
takes timers out of the array by index while completed effects add to it; that
the array stays without duplicates and the interval set is `TimersInv`.

`PageProofs`: `PopupServes` rests on `PopupInv`, which says of the field that needs
not be shown again, and of the one with the focus, that the popup was drawn for it,
and of the popup and its queue that they are `Settled`: one that is displayed and
has no animation left is known to be showing.  Each thing the code does to the queue
keeps this, and the hard one is `Begin`, which passes over any number of animations
that find the popup as they would leave it (`Passed`, whose place exists because a
set of numbers has a least one): the flag that `PostProcess` sets for them is the
one the popup is left with.  `FieldDateIsCurrent` needs two facts of a calendar that
is shown, what was read last is current (`ReadInv`) and what is current is marked
(`MarkInv`). `TablesHeard` rests on `EventsInv`: the table of a type and its
listener come and go together (`Tables`), the special type with the handler of
jQuery unless it is `deaf` (`Special`), each loop has to do only what its table
still has, and one over the special type carries an event of that type (`Loops`);
the last is what makes the unbinding of "one", which goes by the type the event has
at that moment, take the handler out of the right table.  The handlers may call each
other to any depth. `TableShows` rests on `TableInv`: the rows on display are in
ascending order and are those that match the searches done last (`TableRows`), which
are those of the boxes where a key was released since they changed
(`TableSearches`).  The hard step is a search that continues the last one, which
only looks at the rows on display: none is missed, since each word of the shorter
search is the beginning of a word of the longer one and so occurs wherever that does
(`LongerRestricts`). `ReadyRunsOnce` needs to know that a function waits once, that
before the document is ready nothing ran and all that was given waits, and that a
function given by another is given only after that one ran (`ReadyInv`); with it
each function is called by the list or by its one giver, up to the first that
throws.

`SelectorFindsMeant` has two halves, and `SizzleInv` keeps both while the combinators
are processed from right to left (`HeldBy`): an element whose candidate is meant by
the parts that are left is meant by the selector, and where the nearest
candidates suffice each element that is meant was found and has a candidate that
is.  The hard step is one walk (`VisitWalks`), whose loop stops at a node that an
earlier element's walk has visited and takes that element's candidate.  `Walked` says of
all nodes what a mark on them is worth: its element ended with what a walk from that node
on might end with, and with the nearest there is unless a walk could begin at a node
that fits.  This is why `NearestSuffices` excludes a `~` whose context fits: the
mark a walk leaves where it begins would hide that node from the others.  The rest
is the line of a node's ancestors or elder siblings (`LineIs`): a walk that stops at a
node has seen of its line what a walk begun there sees (`HitsAgree`), and if a
farther ancestor would do for a blank then so does the nearest (`NearestIsMeant`).

`FiltersKeepMeant` (of expressions whose `:not` are `Understood`, and in which no
position stands before a `:not` with an `:nth-child`, `SparesNth`) compares two
orders: `filter` takes what an expression says of an element alone by its type, a
`:not` when it is the first that begins with a colon, and a position when nothing
else is left before it (`NextIs`), while the meaning counts every position among
what the filters to its left leave.  `FiltersInv` says that the turns fall into two
phases.  Until a position is taken the loop holds what meets the filters that were,
whatever their order (`MetByTaken`); from then on only positions and `:not` are
left, those after a place, and the loop holds what the expression means up to that
place (`MeantUpTo`).  That the first phase ends where the second begins is
`MeaningIsMet`, that elementary filters between two colons change nothing, and that
an empty loop stays empty, `MeaningNarrows`.  The place of an element in the loop is
the number of those before it, as the loop is in order (`CountedIs`), and the
remainder and the sign that `:nth-child` looks at tell whether there is a multiple
(`NthIs`).

`WidgetProofs`: eight machines of the library, each with its own invariant.
`SliderIsUsable` keeps the values in order and in the range, and the rest is the
arithmetic of rounding.  `AccordionShows` has an accordion at rest or one content that
slides at a time, under the hypothesis
that an accordion does not have `Collapsible` and `ClosesAtWill` at once (see
Findings; without it the property is false).  `MenuFollowsField` ties the open menu to the
timers that may still close or refill it.  `SelectionTold` says for each element how
its classes follow from the hits, the meta key and what was selected when the
drag began.  `DialogsUsable` is a matter of counting: `destroy` takes another overlay's
height from the list, so no dialog can be told its overlay, but each overlay has as
many open modal dialogs above it as there are overlays from it to the end of the
list (`Covered`).
The greatest of finitely many heights is found by the well-founded order of
subsets, in place of an induction.

`OnePanelIsShown` has the hypothesis that a click does not close the open tab
(`~TabsCollapse`; with it the property is false, see Findings).  `OnePanelShown` says
nothing of the queue, whose calls are made by one click and run after others, so
`TabsInv` adds what the queue may hold between two handlers: two calls at most, the
last of which does not hide, and, as long as an answer may still come, a first one
that hides all that is shown, shows what is shown already, shows a tab that has
gone, or only tells of it (`MayRun`).  The finding about the queue, a click whose
call stays behind that of an earlier one, is one of these cases: it shows the
wrong panel, but one.

`OverIsWhatItMeets` is about one move of the mouse, which compares the droppables one
after the other while the greedy ones mark those around them: a droppable is
passed over when it bears a mark and over again when its greedy child lets go.
It speaks of the droppables that are `Settled`: they have one greedy droppable right
within them at most, which has none itself; two, or one with another, undo each other's
marks, and then the code does not keep the property.  `DragInv` says that the settled
ones around a greedy one that is over bear a mark, and no others but those left over
from an earlier drag (`Marked`), that all innermost greedy ones have been told of the
place, whatever their order in the list (`GreedyTold`), and that the other settled ones
have once the draggable has stayed (`ToldUnlessMarked`): one move is not enough, as a
droppable may come before its greedy child.

`OrderIsToldRight`: an order is told by the handler of the list that an item
left or got, and `OrderIsTold` speaks of the lists at rest only.  `SortInv` says what
stays true during a drag: every item and the placeholder of each drag is in the
lists exactly once (`DragsLaid`, the part that holds of several drags at a time), and
as long as no drag was begun beside another, the order told last is that of the
lists without the placeholder, and the drag knows the list of its item and the
element before it there (`OrderKnown`).  What the drop compares with these decides
whether anything is told; that it is enough is `DroppedWhereItWas`: an item that stands
after the same element of the same list is where it was.

Only model-checked: the liveness properties (the provers installed do not treat
fairness and `ENABLED`); `EndsAgree`, whose texts and formats are read letter
by letter; and `SameDigest`, whose model has bitwise operators.

## 6. Findings

Each of these is a run that expects a violation:

- `monitor_clear`: `getLines` clears lines it did not return, against "@return the
  lines and clear them for next time".
- `monitor_again`: and it returns lines it did return: an `addAll` that makes the array
  longer while `clear` empties it brings them back.
- `monitor_first`: the first line of a file that was empty when the watching began is
  told to nobody, against "Get the file lines since the actual until the last": no
  line seen and line 0 seen are the same to `FileMonitorSource`.
- `watch_expiry`: an observer that was polled in time for its page, but after its
  task had started, is deleted all the same, and the page stays empty.
- `tabs_latest`: the queue of the tabs keeps the last two calls, which are of two
  clicks when the second click found no panel to hide, against "which are the
  callbacks for the latest clicked tab".  With the option `collapsible` two panels
  may be shown at once by it, which is why `page` has it off.

Met while modelling, and kept out of the properties by a condition they state or
by a constant:

- A request with another page and other rows per page has its page compared with the
  pages there were before (PaginatedList.java:175, called before ListOperation.java:49
  sets the rows per page), and so has one that finds the total changed: the page is cut
  to the last one of before or stays out of range, where the comment says "Out of range
  page sets to last one" (`settled`).
- A two-digit year is in the ten years ahead for the calendar (`shortYearCutoff`)
  and in the twenty years ahead for the server: outside of the years 1931 to 2020
  (with the clock at 2010) the two ends read one text as two dates.
- A round of the arte plugin that comes before the answer of the last one may show
  lines out of order (`overlapped`).
- Two requests of a session for lines that the server runs at once: the page of one
  shows what the other collected, so that lines are shown twice or never
  (`crossed`, `MonitorAction.java:66` and `monitor_cont.jsp:1`).
- After `unbind("mouseover")` the handlers of `mouseenter` are not heard any more, also
  those bound afterwards, until the last of them is unbound (`deaf`).
- An `:nth-child` in a `:not` after a position, as in `:eq(1):not(:nth-child(2n))`, is cut
  out of the selector or ends in a syntax error (`SparesNth`).
- A list of the menu below another one may stay open when the pointer has left:
  its closing is skipped if the list around it is not displayed.  `RestsAsMeant` and
  `AwayCloses` speak of the lists of the top level.
- An add saves whatever is selected when it executes.  If a concurrent request of its
  session selected a row of the list, that row's instance becomes another row, and
  the row's index on the page selects the new one (`Stale`).
- A `ready` function that throws keeps the rest of the list from running.
- The selector engine takes the nearest candidate of an element only, and misses
  what a farther one would give (`NearestSuffices`); `:not(.a.b)` is taken as neither
  `.a` nor `.b` (`Understood`).
- `activate(false)` closes the content of an accordion also while contents slide,
  the only way past the test for a running animation (`ClosesAtWill`).
- Of two handles of a slider at one value above the minimum a press takes the
  first, which cannot be pulled up past the second.
- Two greedy droppables side by side, or one in another, undo each other's
  events (`Settled`).
- A drag of a sortable begun while another item still moves back is left out of
  the order that is told (`mixed`), and its `cancel` called during a drag ends in a
  `TypeError`.
- A selectable with the tolerance "fit" can show an element as selected that it
  told to be unselected.

## 7. Abstractions

- The file is read in one step; a file that grows during a read is one that
  grew before or after it.
- `prepare` refreshes the selection twice in a row; the model does it once.
  `setSelected` and `setSelectedNew` are one step.
- The index of a row counts from the start of the page; the displacement of the
  list cancels out between the page and the lookup.
- A row has one value, a form sets it or fails to.
- There is no version column in the mapped entities and no lock on rows: two
  sessions that edit one row overwrite each other in the model as in the code.
- `HashMap` is read and written without a lock by several threads; the model takes
  single reads and writes as atomic.
- `Pagination` has one request of the session at a time; that a request of the
  same session may replace the page and the list under another one is modelled in
  `Operations`, where such requests are *disturbed*.  Lists that are not paginable
  are left out.  Hibernate takes a first row below zero, which the code asks for
  after an empty list, for none.
- A browser sends a request from a page it got, for what that page showed.
- `DragDrop` does not keep how many handlers of missed mouseups are bound: with some, a
  move makes one pass over the droppables or two.
- A browser runs one callback at a time.  Where events may come between two lines
  of a script (an answer, a timer, the end of an animation) they are actions;
  otherwise a handler is one action with all the handlers it causes.  Places on
  the screen, styles and effects are left out, except for what is displayed, what
  scrolls and what is above what.  Time is left out: a timer goes off some time
  after it was armed.
- `Effects` leaves out `stop`, fades, and animations outside of the queue.
- `Table` has no order and no paging, which the pages switch off, and looks for
  words letter by letter, without the escapes of regular expressions.
- `Calendar` numbers months without end and knows no limits; the popup of it is
  shown and hidden at once, and `Popup` has the animations without the dates.
- `Events` has one element and two types, without namespaces, `live` or bubbling.
- `Sizzle` has labels in place of tags, classes and identifiers; `Filters` one list of
  elements with a place among their siblings, and no `:not` inside of a `:not`.
- `Md5` takes characters of one byte.
- `Sortable` never loses the release of the mouse; `Selectable` has the tolerance
  "touch"; `Slider` an undivided range and no handles at one place to begin with.

### Not modelled

- On the server, besides the parts without state (validators, formatters, the
  converters of strings) and those that run once at start-up (XML parsers,
  configuration): weak entities, filters and order of lists (`Pagination` takes
  their outcome as an input), the user manager, the security connector and the
  older action framework, each with its reason in `PROJECT.json`.
- In `js/jquery.js`: `live`, namespaces, `html` and the building of nodes, styles and
  sizes, script and JSONP requests.  In `js/jquery-ui.js`: resizable, button,
  progressbar, the effects, the plugins of draggable, `cancel` of sortable.
- `js/jquery.floatobject-1.2.js`, `js/jquery.dragnresize.js` and the popup of
  `js/list.js`: nothing calls them.  `js/jquery.modal.js` opens and closes the box
  in which a list is sorted, `js/jquery.center.js` places it, `js/cookies.js` writes
  a cookie and `js/encrypt.js` makes a field read-only: one step each.
