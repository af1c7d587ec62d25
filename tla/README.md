# Nettomation: a verification project

Nettomation is a small C++ web server for home automation. A program registers
*contents* (pages, widgets, controllers); each has a thread of its own
(`controlLoop`), a `render` method that writes HTML and a `callback` for the
buttons. The engine keeps the pages in all browsers up to date by long polling.
The largest example, brewApp, drives a brewery with it.

The TLA+ modules beside this file model the engine, from the bytes of a request
to the update of a page, and the control logic of brewApp. TLC checks them on
small instances; TLAPS proves the central invariants of each of the eight
components for every size.

## Components

| part | state | operations | what makes it hard | what makes it correct |
|---|---|---|---|---|
| **SmartLock** (`engine/smartlock`) | a global mutex, `_mutexes` and `_nrWaiting` by address | `lockPointer`, `unlockPointer` | mutexes are made by the first user and deleted by the last, while others sleep on them; the global mutex itself is made by an unguarded check | one holder per address; nobody sleeps on a deleted mutex; no leak; no cycle of waiting |
| **SharedQueue** (`engine/sharedqueue.h`) | a deque of sockets, `_accessMutex`, `_emptyMutex`, `_nrWaitingThreads` | `push`, `pop` | a mutex is used as a signal and unlocked by threads that do not hold it | no wakeup lost, none too many; first in, first out |
| **main, WebThread, WatchdogThread, GenericThread** (`engine/main.cpp`, `webthread`, `watchdogthread`, `genericthread`) | the pool, two sets and two maps of threads with their ages, the descriptors of each thread | accept and enlarge; `run`, `cleanup`; `tic`, `tac`, rounds, `respawnSlowestThread`; `start`, `cancel` | deferred cancellation: a stopped thread lives on for a while beside its successor, on the same object | every connection has one holder and ends; a busy thread is watched; the oldest is replaced |
| **WebContent, RenderingRecord, Dispatcher (updates), dispatcher.js** | a counter of stamps, a stamp per content, a tree of cached renderings, the page and the stamp of each browser | `show`, `hide`, `invalidate`; `renderContent`, `incrementalUpdate`; `renderIncremental`; refresh, timeout, answer | stamps are compared without a lock; requests overlap, get lost, arrive late; the server is restarted | a page that has seen all stamps shows the contents; pages never go back; they become current |
| **Dispatcher (sessions, routing, start), WebTop, AutoRegister** | `_authorizedSessions`, the registry `_map`, `_webTop`, `_renderingTop`, `_contextId` | creating the contents; login and logout; `processWeb`, `dispatchCallback` | requests come before the start is over, or with the context of a server that has ended; sessions change between requests; callbacks of many users overlap | a callback meets complete contents; pages without a session leave; a browser comes back by itself |
| **WebThread (parser), Encoder** | a buffer, the state of an automaton, positions in the buffer | reading a request by pieces; `urlDecode`, `decodeUriComponent`, `encodeUriComponent` | parts cut where reads end, the limit of the buffer, a client that goes away | the request parsed is the one sent; no waiting for bytes that do not come |
| **SHA-256** | none | a pure function | | |
| **brewApp: BrewingPage** | the list of steps, the active one, a queue of commands, the saved recipe | 9 commands, callbacks, drops, the loop | commands name positions on pages shown before; loading replaces list and queue at once | exactly the active step is running; a saved recipe can be loaded |
| **brewApp: steps, ValveController, HLTController** | a queue of valve operations, the valves, pump, stirrer, heaters | `start`, `step`, `finish` of 12 kinds of steps; two control loops | steps are stopped at any moment, valves need seconds | pump only on a settled route; everything off when idle; one owner of the heater |
| **brewApp: the two pages** | `_hidden` of each | `hide()` and `show()` in a callback | two users change the page together | one page is shown |
| **brewApp: fermenting, sensors, meters; chatApp; helloWorld** | one number or text each | loops that read a device | little | |

Calls go from the browser's script through a socket, the accept loop, the queue
and a web thread to the Dispatcher, which calls `callback`, or walks the tree
of contents for an update. Shared state is guarded by SmartLocks, or not at all
(stamps, flags). The control loops of the contents run beside all that.

## Modules

| module | models | abstract specification | proofs |
|---|---|---|---|
| `SmartLock` | every statement of `engine/smartlock.cpp` | `PointerLock`: a lock per address | `SmartLockProofs` |
| `SharedQueue` | every statement of `push` and `pop` | `FifoQueue` | `SharedQueueProofs` |
| `ServerPool` | accept loop, web threads, watchdog, cancellation | (uses the queue as `FifoQueue` specifies it) | `ServerPoolProofs` |
| `LivePage` | stamps, records, long polling, the page in the browser | | `LivePageProofs` |
| `RequestParser`, `UriEncoding` | `parseStream` byte by byte, the conversions of texts | (the request that was sent) | `RequestInvariants`, `RequestParserProofs` |
| `Dispatcher` | start, end and restart, sessions, the routing of callbacks, the two pages | | `DispatcherProofs` |
| `Recipe` | the list of steps and its commands, recipe files | | `RecipeProofs` |
| `BrewPlant` | the steps' work, the valve thread and the HLT thread | | `BrewPlantProofs` |

The `MC...` modules give values to the constants for TLC; a `.cfg` is a run.

### How state and actions correspond to the code

- **SmartLock.** `pc[t]` is the statement a thread is at; an action is one
  lock, unlock, read or write of shared memory. Heap cells are reused, so a
  deleted mutex may come back for another address. `held` is the set of live
  SmartLock objects. The engine nests locks in one order (`Rank`, `Nests`): the
  record of a page before the data of a content, and those before a stamp.
- **SharedQueue.** The same, with `emptyLocked` for `_emptyMutex`, which is not
  owned by anybody. A producer is the accept loop; sockets are numbered.
- **ServerPool.** `thread[s]` is the last thread started for the object `s`;
  older ones that have been cancelled may still be at work. `pc` follows
  `WebThread::run`: waiting in `pop`, adopting the handle (`init`), `tic`,
  reading and parsing by turns, printing and writing by turns, `tac`, and
  `cleanup` up to `shutdown` (`clean`) and from there (`close`). A thread may
  stay in `read` or `write` for ever. A section of the watchdog's mutex is a
  step. `pthread_cancel` marks a thread at *any* place (`cancelled`), and the
  canceller's `cleanup` closes what the object has. A marked thread does not come
  back from `read()`, `write()` or `close()`. Everywhere else it goes on as the code
  does, on the fields that its successor uses by then: it makes a stream of the
  successor's handle, prints into the successor's stream, takes the successor's
  entries off the watchdog's books, shuts down and closes its socket, pops the next
  handle and overwrites the one that is there. Printing to a stream that the
  canceller has closed is undefined: the text is lost, or gets into any stream that
  is open, or the process ends (`PrintDangling`, `Crash`). What is printed is
  remembered by who has printed it (`text`). `strayed` is a history variable: the
  objects of which a marked thread has done anything but die.
- **LivePage.** A page is a tree of nodes, each with a content; a content may be
  at two nodes. Nodes are numbered in the order in which the walk renders them,
  so that those below a node are an interval that ends at `LastIn`. The data of a content is the number of its changes. A change
  takes a stamp from the counter and stores it in another step, as in
  `invalidate()`. A refresh locks the top record and walks the tree in actions
  of one node; rendering a content reads its data, and its visibility when the
  contents inserted in it are rendered, too. The stamp of a refresh is the
  counter read before.
  Requests and answers are the entries of `poll`: each may be lost, and answers
  may overtake each other.
- **RequestParser.** A request is chosen from a set, and its bytes (`wire`) are
  what the browser makes of it. An action takes one byte in one state of the
  automaton, or is one `read()` of any number of bytes. Positions count from 1,
  and parts are positions in the buffer, as in the code: their texts are what is
  found there up to the next zero, later changes included. The method, the
  names of the headers and `session=` are parameters, so that TLC runs with
  words of one byte. What is done with the request is the `outcome`.
- **Dispatcher.** The contents are created one by one, and then `_webTop` and
  `_renderingTop` are assigned (`phase`). A request is authorized in one step
  and served in another; a page or a refresh that is served too early meets
  NULL, and the process ends (`UsedTooEarly`). A restart has another context.
  Callbacks carry the context of their page, and may be under way for any time.
  A change of the page is three steps, the test of `isHidden()`, `hide()`, and
  `show()`. What a refresh carries is in `LivePage`, how it reaches a thread
  in `SharedQueue` and `ServerPool`. Another window with the same cookie logs in
  and out (`Elsewhere`).
- **Recipe.** Callbacks append a command to `actions`; the loop takes the locks
  (`Wake`), performs one command per action, and ends with `Perform`. Positions
  in commands are bounded by the longest list a page has shown (`longest`), so
  they may be outdated, as the code expects. `starts` counts `start()` less
  `finish()`. Changing the mode takes effect without a lock and queues its
  command as well, as in the code.
- **BrewPlant.** An operation of the valve thread begins (solenoids switch,
  motors turn) and ends (motors stop, fully turned if they had the time). A
  change of step is one action, as the loop calls `finish()` and `start()`
  without letting anybody between them except the two other threads, which see
  only the queue and `_active`. Volumes, temperatures and times are free.

### External parts

Nothing outside `src/` is a module of its own. `pthread` mutexes are modelled by
how the code uses them: a locked mutex blocks, unlocking lets any one waiter in,
`pthread_cancel` marks a thread that dies at a cancellation point. `read()`,
`write()` and `close()` are such points; `printf`, opening and reading a file and
`fclose` may be; waiting for a mutex, `fdopen` and `shutdown` are none. Browsers are
modelled where they matter: the requests they write (`Header`, `Wire`), and
`encodeURIComponent`, `decodeURIComponent`, `escape` and the encoding of forms
(`UriEncoding`).

## Runs

| run | question | bounds | states |
|---|---|---|---|
| `SmartLock` | Do mutexes made on demand exclude, count, hand over, and implement one lock per address? | 3 threads, 2 addresses, 3 heap cells | 37 000 |
| `SharedQueue` | Is the empty mutex a sound signal? | 1 producer, 3 consumers, 4 sockets | 75 000 |
| `ServerPool` | Who holds, writes to and watches a connection, and does it end, while threads hang, are marked anywhere, go on and are replaced? | 2 objects, 2 descriptors, 3 connections, 4 threads per object, cut by `Bound` | 118 000 |
| `LivePage` | Is a page with all stamps up to date, and does each answer find its divs? | 4 nodes with a widget twice, 2 writers, 2 changes, 1 request at a time | 1 135 000 |
| `LivePageFailures` | Do pages recover, and never go back? | 2 nodes, 2 overlapping requests, 1 change, 1 loss or restart | 254 000 |
| `RequestParser` | Is the request parsed the one sent, wherever the reads end? | 198 requests of up to 60 bytes, a buffer of 38, all ways to cut them | 64 000 |
| `Dispatcher` | Are callbacks safe from restarts and from each other, and do browsers recover? | 1 browser and other windows of its session, 3 instances, 3 events (buttons, logins and logouts elsewhere), 3 contents | 138 000 |
| `Recipe` | Does the active step survive all editing? | 4 steps, 4 commands, 2 of them waiting | 265 000 |
| `BrewPlant` | Is pumping always on a settled route, whatever is stopped when? | 4 changes of step | 68 000 |

The bounds are the smallest at which the interesting cases meet. Three threads
allow one to leave, one to sleep and one to arrive at the same mutex, and three
cells let a freed one be reused. Three consumers and four sockets make a push
meet a thread that has been signalled and has not yet popped. Three connections
on two objects fill the pool and make it respawn the slowest, with a descriptor
used again; a thread is replaced at most once for each `tic()`, so that four
threads per object are enough for three connections. What the
marked threads do is most of the states, and `Bound` limits it: it is explored with one
object and two connections (a marked thread meets a successor and the one after it); with
more, behaviours are followed with one marked thread at a time, up to its first step
that is not dying. All properties but the types and `BusyIsWatched` say nothing after
that, so that for them only the number of threads marked at once is restricted, and
that the network does not fail after the third connection; the proofs have no bound.
A behaviour that violates `EveryConnectionEnds` is one in which no marked thread
ever goes on, so that leaving out the others hides none. With two writers two stamps can be counted before one is
stored; a node with a child, and the child once more elsewhere, let a parent be
rendered while its child is sent. Four commands on four steps are enough for
add, add, play and a move, or a load followed by edits. Four changes of step let
a step that uses the valves be interrupted twice and the plant be left idle.
Names of up to four letters, dots and slashes behind the first slash contain
every way to write `../`; a buffer of 38 bytes holds the longest of the other
requests, and not two that are longer; values with a space, an
ampersand, a percentage, a plus and a byte below 16 are what the conversions
treat in different ways. Three instances let a callback pass two restarts; three
events let two changes overlap with a third one pressed before, or a button
pressed in an old page meet a login elsewhere.
`CHECK_DEADLOCK` is off where the system may stop: when all sockets have been
served and the server has ended, or crashed (`ServerPool`), when the request has been
answered (`RequestParser`), when the server is down for the last time
(`Dispatcher`), and when no more steps are played (`BrewPlant`).

What the properties say is in the comment above each of them. The ones to read
first: `ImplementsPointerLock`, `NoDanglingMutex`, `ImplementsFifoQueue`,
`OneHolder`, `ServedAlone`, `EveryConnectionEnds`, `UpToDate`, `NoBrokenScript`,
`NeverBackwards`, `ParsedAsSent`, `ComesBack`, `OnlyActiveRuns`, `PumpHasRoute`,
`ValvesSettle`. Properties that follow from these (mutual exclusion of SmartLocks
from `ImplementsPointerLock`, for instance) are proved but not run; so is `NoWaitCycle`,
which the order of nesting implies (the run checks for deadlocks).

### Disagreements between code and comments

Three runs are expected to find a counterexample.

| run | what the text says | what the code does |
|---|---|---|
| `LivePageOvertaken` | `invalidate()` "causes re-rendering in subsequent updates" (helloWorld/userpages.cpp:63) | the stamp is counted before it is stored (webcontent.cpp:65); a refresh in between makes the client skip the change |
| `LivePageLateAnswer` | the condition in an answer avoids moving backwards "from out-of-order data" (dispatcher.cpp:440) | an answer of the server before the restart is accepted after one of the new server, because only equal contexts are compared |
| `BrewPlantHeater` | the HLT "might be emptied so we should not heat it during pumping" (userpages.cpp:1963) | the HLT loop has tested `_active` before and switches the heater on afterwards |

`LivePage` has a constant (`LateAnswers`) or a history variable (`overtaken`),
`BrewPlant` has `late` and `ServerPool` has `strayed` for these cases, so that the
passing runs show what holds apart from them.

In `ServerPool` nothing is excluded: threads are marked anywhere, and go on.
`OldestIsSlowest`, `OneHolder`, `ServedAlone` and `EveryConnectionEnds` say what holds
until some marked thread has done anything but die, `BusyIsWatched` says it of each
object by itself. So the pool is sound if a thread that is cancelled is in
`read()` or `write()`, or comes to a cancellation point at once, which is the usual
case; the code makes it no more than that. What comments say without this
condition is not so. The module states three of them; given to TLC as an `INVARIANT` in the
place of the others in `ServerPool.cfg`, each has a counterexample of about 20 steps:

| formula | what the text says | what the code does |
|---|---|---|
| `WatchedFromTic` | "do not watch the thread until the tic() comes" (watchdogthread.cpp:98), so that from then on it is watched | a thread marked behind its last cancellation point, while it waits for the mutex in `tac()` for instance, takes its successor, the same object, off the books (watchdogthread.cpp:74): if the successor's client hangs, no round ends it, in spite of the "max delay allowed" (main.cpp:164) |
| `SlowestIsPicked` | "pick the slowest(oldest) thread" (watchdogthread.cpp:93) | a marked thread that finds no handle in `cleanup()` pops the next socket and calls `tic()`, while the thread of the object that is then the oldest still waits in `pop()` |
| `HandleIsSocket` | `_handle`: "this is the TCP-IP socket" (webthread.h:39) | a marked thread wraps its successor's handle (webthread.cpp:452), shuts it down, closes it and sets it to 0 while the successor serves it |

One more case is known, and has no run of its own:

- The parameters of a step "are used to import/export the recipe"
  (userpages.h:82), but values that the step has refused, or empty ones, are
  exported and do not restore it. `PlainStepsRestored` leaves them out.

### Fairness

- `SmartLock`, `SharedQueue`: a runnable thread is scheduled (weak fairness of
  its steps). Nothing is assumed of the order in which a mutex is granted. In
  `SharedQueue` a web thread also comes back to `pop`.
- `ServerPool`: runnable threads are scheduled, and the watchdog's round comes
  again and again (strong fairness: its mutex is free again and again). Clients
  may hang for ever: reading and writing are not fair, except that a call on a
  socket that has been shut down returns. Of marked threads nothing is assumed: they may
  linger.
- `LivePage`: threads are scheduled, timers expire, answers arrive or are lost;
  a request that wants the lock of the top record gets it in the end (strong
  fairness, as others release it again and again). Changes and failures are not
  fair, and bounded.
- `Dispatcher`: the thread that creates the contents and the web threads are
  scheduled; a browser that shows contents refreshes by its timers; a user whose
  page is gone loads it again, and logs in again and again (strong fairness:
  the form may be gone in between). Nothing makes the server stop or start, or
  users press buttons; stops and starts are bounded by `MaxInstances`.
- `RequestParser`: none. A client may stop sending at any byte; that the parser
  never waits for bytes that are not missing is an invariant
  (`NeverWaitsInVain`).
- `BrewPlant`: the valve thread is scheduled. Users may do nothing.

## Proofs

All proofs are checked by `tlapm` with Z3, Zenon and LS4.

- **SmartLockProofs** proves type correctness, the exclusiveness of the global
  section, mutual exclusion, `NoDanglingMutex`, `CountsExact` and the refinement
  of `PointerLock`, for any finite set of threads and any addresses and cells.
  Assumption: one thread makes the first call (`SerialStartup`), which the code
  gets from the thread of the Dispatcher, which takes stamps for its contents
  before it starts their threads; a request served in these first moments would
  break it. Exclusion by itself is not inductive: it needs that the cell of an
  address is the one all its users have in `m`, which needs that the counts are
  exact, which is why those are one invariant (`IInv`). `NoWaitCycle` needs two
  things more: a locked mutex belongs to a thread that owns its address
  (`LockedInv`), and who asks for an address holds only addresses of lower rank
  (`OrderInv`). If all threads of a set waited for each other, one for which the
  fewest ask for something higher could not.
- **SharedQueueProofs** proves types, `NeverPopEmpty`, `CountExact`,
  `ServedOnce` and the refinement of `FifoQueue`. The signal is a token: the empty
  mutex is unlocked, or one push is about to unlock it, or one thread has
  locked it and not passed it on; whenever it is given there is an item
  (`TokenInv`).
- **BrewPlantProofs** proves types, `PumpHasRoute`, `QuietWhenIdle`, `HalfOpen`
  and `HeaterHasOneOwner` for recipes of any length. The invariant says: the last
  operation in the queue is one the active step wants to end with; when the queue
  is empty, it is the one under way; when none is under way, the valves are where
  it has put them. An operation with less than the full time follows one that
  has closed the same valve.
- **DispatcherProofs** proves types, `CallbacksFindContents` and `SomePageShown`
  for any browsers, sessions and contents, any number of restarts and of presses.
  A page learns a context only from an update of a server that is ready, so while
  a server starts every context in a browser or in a request is older than its
  own (`ContextInv`). No callback is then routed, and only the constructor shows
  and hides pages: the first page is shown when it is created. From then on a
  page is hidden only by a request that is going to show the other (`ShownInv`).
  That the constructor finds a creator as long as a content is missing is an
  argument about cardinalities (`NextCreator`). For `OnePageShown`, as long as
  changes have overlapped at most once, those under way are to the same page
  (`PagesInv`).
- **ServerPoolProofs** proves types, `BusyIsWatched`, `OldestIsSlowest`, `ServedAlone`
  and `OneHolder` for any number of objects, threads and connections, without any
  assumption on when threads are marked. An object has one thread that is not
  marked, the last one, and main and the watchdog mark no other (`ControlInv`,
  always true). As long as the marked threads of an object do nothing but die, only
  the last one touches its handle, its stream and its entries in the books,
  whatever the threads of other objects do (`OwnInv`, of one object); hence
  `BusyIsWatched`. `strayed` never shrinks, so the other three may assume this of
  all objects at once, in the past too. In the books the ages and the two sets then
  tell the same order (`WatchInv`). What is open is in some place, what is in a place
  is open, and in no other place (`OpenIsHeld`, `HeldIsOpen`, `HeldOnce`);
  `OneHolder` counts these places. A socket is shut down only by who is about to
  close it, and a stream has the text of its own thread only (`AloneInv`).
- **LivePageProofs** proves types, `NeverBackwards`, `UpToDate` and, for one chain of
  requests per browser (`MaxPolls = 1`), `NoBrokenScript`, for every tree of contents, any number of writers, browsers, requests in flight, changes, losses and
  restarts. Types need nothing; the others assume `~LateAnswers`, which is what
  the finding `LivePageLateAnswer` is about. `UpToDate` is far from inductive. Its
  invariant (`LiveInv`) has these parts:
  - What is cached is out of date only if a newer stamp says so, or will when it is
    stored (`DataInv`, `VisibilityInv`). A record has the stamp of the one it was
    rendered for or a newer one, and as long as nothing between them was rendered
    again both caches agree (`NestedInv`). While a subtree is rendered, its
    top is already newer than all around it (`FluxInv`).
  - Who has a stamp has seen what is up to it: no stamp is waiting to be stored
    below it without being marked as overtaken, and no record is older than its
    content, unless the content has changed since (`Seen`). A refresh that is
    under way has seen this of the nodes it has passed (`ScanSeen`).
  - What the walk compares a node with is the client's stamp, or that of a content
    around the node that was sent in whole; then nothing in between was sent after it
    (`OldInv`, `Cover`).
  - On *any* page, the script of an answer leaves each div right for the stamp of the
    answer, or as it was, and then it has not changed since the stamp of the
    request, unless the script has thrown (`Done`; `ToCome` for the nodes to
    come). This is said of all pages, because requests overlap: the
    page on which a script runs need not be the one that has asked for it.
  - Each page is right for its stamp (`PageInv`), and that is `UpToDate`.

  `NoBrokenScript` needs more (`OwnInv`), because an id must match exactly where
  `UpToDate` only needs that a wrong one stops the script. With one chain of
  requests, a request is for what its page still shows (`OwnPageInv`). What a browser
  shows has the id of each record, except where a content around it was rendered
  after its stamp (`PageIds`), and the script keeps that true (`WalkWorks`,
  `AnswersWork`). Ids change only below a subtree that is rendered, and its top is
  already newer than all stamps that browsers have or are about to get
  (`TopIsNewer`), unless a stamp was overtaken. When the script addresses a div, no
  content around it was rendered since the stamp of the page, or that content was
  sent before, with the new id in it (`EmitWorks`).

  The script is a recursive function of its statements; what it does is derived
  from that of one statement more (`ScriptAppend`).
- **RecipeProofs** proves `OnlyActiveRuns` for lists, queues and files of any
  length. The invariant says that the ids in the list are different and were
  given out before, that `activeStep` is a position of the list or none, and that
  `starts` is 1 at the id found there and 0 elsewhere. Every edit then needs two
  facts: the new list rearranges old steps, no step twice (`Rearranges`), and the
  new position holds the step that the old one held. `ListsAreTyped` says
  what the queue, the list and the file hold; moving a step down needs it, since the
  code compares only `index + 1` with the length. `SavedIsCurrent` is inductive as
  it is; `DropMovesOne` follows from where each step of the old list is found in the
  new one (`OthersKeepOrder`). `TypeOK` adds the bounds on ids, lengths and positions:
  what is created, waits or is loaded is counted (`Bounds`). `PlainStepsRestored` is
  a statement about two loops over the words of a line. Exporting writes the
  parameters in the order of their indices, importing sets them one by one; after
  the first words the parameters are those up to some index, and so are the settings
  (`Restores`, by induction over the words).
- **RequestParserProofs** proves all four invariants of `RequestParser`, for any size of
  the buffer, whatever was in it before, and any cut by `read()`. What the invariant
  says is in `RequestInvariants`.
  - Types are more than that here: every index the parser writes to or keeps is inside
    the buffer. What is written are zeros at the automaton's position, which is not
    behind what has been read; and decoded texts, which are not longer than they were
    (`DecodeType`) and end where the automaton is or before (`DecodedType`). That needs
    that no pointer is ahead of the automaton, and that those it is about to use are
    set (`PointersSet`).
  - `OnlyUpwardPathsRefused`: no `../` has passed up to where the automaton is, or up to
    the end of the name, which nothing that is written later changes: a value in the
    body is decoded in place, behind it (`NameInv`). That a request is refused for no
    other reason needs that the automaton is in the part of the first line that the
    client has sent at this position (`LineInv`).
  - `NeverWaitsInVain` and `ParsedAsSent` need a map of the request. A plan (`Plan`) says
    where each part is in the bytes that are sent: where it starts and ends, which byte
    ends it, and that this byte is not in it. Every request has one (`PlanExists`), from
    where the sequences are that `FlattenSeq` joins (`FlattenPlaces`). The invariant
    (`PlannedInv`) says that the automaton is in the part of the plan that its state
    and the lengths of its lists tell (`WhereInHeader`, `WhereInBody`); that from the
    start of this part on the buffer is as it was sent (`PartIsSent`), so that the next byte is the one of the plan; and that all parts before
    are held below, each with a zero behind it (`HeldInHeader`, `HeldBelow`). One lemma per
    action of the automaton shows that it keeps to that (`MethodStep` to
    `EndBodyStep`). When the header ends, the fields held are those sent, so `Body` is
    the length of the body (`BodyIsSent`), and the bytes that are still to come are
    counted by `responseSize` from then on (`Counted`). So when the automaton is behind
    what has been read, the plan goes on, which is `NeverWaitsInVain`; and what is
    accepted is held with all parts, which gives `ParsedAsSent`.
  - What is held of the body has been decoded when it was read, and a parameter of the
    first line is decoded when it is used. That decoding gives back what was encoded is
    `RoundTrip`, a statement about any text, any place of its bytes in the encoding, and
    any solution of the decoder's equations, by induction from the last byte; the two
    encodings of a parameter (`escape` of `encodeURIComponent`) are `EscapedTwice`, that
    of a form is `FormIsDecoded`, and the one of a page that shows the value again is
    `ShownAgain`.

  There are two assumptions on the requests. Types and `OnlyUpwardPathsRefused` use only
  `ConstantsAssumption`: no text has a byte of 0, the words of the first line have no end of
  line, and a file has no space and no question mark (`Readable`); otherwise "the file that
  was sent" means nothing. The header, the parameters and the body may be any bytes. The
  other two use `ProtocolAssumption` (`WellFormed`): names of parameters are letters and
  digits, fields have a name without colon, only the last parameter of a simple request is
  a name alone, a POST has the size of its body in the header, and no other request has a
  body. A client that sends less than it says does wait, and is not the parser's fault.

Facts that need induction (`FlattenSeq` gives a list, a set of numbers has a greatest
element, what holds of 0 and of each next number holds up to n, the conversions of
texts solve the equations of their definitions) are derived from the least element of
a set of numbers; each module states those it uses.

The assumptions on the constants (`ConstantsAssumption` of each module, and
`ProtocolAssumption`) are evaluated by TLC in every run. Only model-checked are: all liveness
(`Handoff`, `EventuallyServed`, `EveryConnectionEnds`, `EventuallyConsistent`,
`ValvesSettle`, `LoggedOutPagesLeave`, `ComesBack`), which is out of the prover's
reach. Every safety property that a run checks is also proved, under the conditions above
(`NoBrokenScript` for one chain of requests per browser).

## Not modelled

HTML and wording; the arguments of `main` and the set-up of the socket; SHA-256
(thousands of 32-bit operations without control; its use, the comparison of the
hash with the one of the browser, is whether a login brings the password);
sending files (the type by the extension, 403, 404); dygraph; sensors and the
loop of the fermenting page (a number read, an output switched); helloWorld,
which is a part of chatApp. Two servers with the same context (started within a
second, or by chance) are not distinguished from one. The parameters of one
module are not those of another: `Dispatcher` takes the delivery of updates from
`LivePage` as one step, and `ServerPool` the parsing of a request. In `ServerPool`,
`cleanup()` is one step for the canceller, and the close and the assignments
behind it are one step for the thread itself; what a marked thread does to the bytes of
`_buffer`, and a file that is closed twice (`_file`), are not followed; and the counter of
the watchdog does not wrap.

## Plan

1. Done, in this order: `SmartLock`, `SharedQueue`, `LivePage`, `ServerPool`,
   `Recipe`, `BrewPlant`, `RequestParser` and `Dispatcher`, with the proofs above.
2. Composition of `Recipe` and `BrewPlant`: the recipe's `Switch` is the plant's.
