----------------------------- MODULE LivePage -----------------------------
(***************************************************************************)
(* How a change on the server reaches the page in a browser: the stamps of *)
(* the Dispatcher and of the WebContents, the cached RenderingRecords and  *)
(* the long polling of dispatcher.js.                                      *)
(*                                                                         *)
(* A page is a tree of nodes; a node shows a content, and a content may be *)
(* inserted at several nodes.  The nodes are numbered in the order in      *)
(* which they are rendered: those below a node follow it without a gap.    *)
(* Every change of a content takes the next value of one counter and       *)
(* stores it as the stamp of the content.  A refresh request brings the    *)
(* stamp up to which the client has seen all changes; the answer carries   *)
(* what is newer and the counter as it was when the request began.         *)
(***************************************************************************)
EXTENDS Integers, Sequences, FiniteSets

CONSTANTS
  Contents,    \* the registered WebContents, and the WebTop
  NrNodes,     \* number of places on the page where a content is inserted
  LastIn,      \* LastIn[n]: the last node that is inserted below n, or n
  ContentOf,   \* ContentOf[n]: the content inserted at n
  Guarded,     \* contents changed and rendered under a lock of their data
  Clients,     \* open browser windows
  Writers,     \* control loops and callbacks, which change the contents
  MaxPolls,    \* bound: requests of a client in flight
  MaxChanges,  \* bound: changes of contents
  MaxFailures, \* bound: requests or answers lost, and restarts of the server
  LateAnswers, \* may an answer of a killed server still arrive?
  None

Nodes == 1..NrNodes
Root == 1   \* the node of the WebTop

ASSUME ConstantsAssumption ==
  /\ NrNodes \in Nat \ {0}
  /\ LastIn \in [Nodes -> Nodes] /\ LastIn[Root] = NrNodes
  /\ \A n \in Nodes : n <= LastIn[n]
  /\ \A a, n \in Nodes : a <= n /\ n <= LastIn[a] => LastIn[n] <= LastIn[a]
  /\ ContentOf \in [Nodes -> Contents]
  /\ \A c \in Contents : \E n \in Nodes : ContentOf[n] = c
  /\ Guarded \subseteq Contents
  /\ MaxPolls \in Nat \ {0} /\ MaxChanges \in Nat /\ MaxFailures \in Nat
  /\ LateAnswers \in BOOLEAN

VARIABLES
  \* the server
  counter,     \* Dispatcher::_timeStamp
  context,     \* Dispatcher::_contextId; instances are numbered
  data,        \* data[c]: how often the data of c has changed
  hidden,      \* hidden[c]: WebContent::_hidden
  stamp,       \* stamp[c].content, stamp[c].visibility: the two _timeStamps
  record,      \* record[n]: the RenderingRecord of node n
  nextId,      \* RenderingRecord's idCounter
  scan,        \* the refresh that has locked the top record, if any
  writer,      \* writer[w]: the change w is making
  \* the browsers
  page,        \* page[k]: timestamp, contextId and divs of client k
  timer,       \* timer[k]: pending refreshes, and the warning timer
  poll,        \* poll[k][i]: the requests of k in flight
  \* bounds and history
  changes, failures,
  overtaken    \* changes whose stamp was stored behind a refresh's back

serverVars == <<counter, context, data, hidden, stamp, record, nextId, scan, writer>>
clientVars == <<page, timer>>
vars == <<serverVars, clientVars, poll, changes, failures, overtaken>>

(***************************************************************************)
(* The page tree                                                           *)
(***************************************************************************)
Within(n, a) == a <= n /\ n <= LastIn[a]   \* n is a or inserted below a

Below(a) == {n \in Nodes : Within(n, a) /\ n # a}

Ancestors(n) == {a \in Nodes : Within(n, a)}

\* What a div shows: the id of its record, how old the data is, and whether
\* it is hidden; id 0 stands for a div that is not there.
NoDiv == [id |-> 0, data |-> 0, hidden |-> FALSE]
RootId == 1

NoNodes == [n \in Nodes |-> NoDiv]

(***************************************************************************)
(* Initial state: the WebTop has created its contents in the order of      *)
(* their first node, and shown each; nothing has been rendered.            *)
(***************************************************************************)
First(c) == CHOOSE n \in Nodes : /\ ContentOf[n] = c
                                 /\ \A m \in 1..(n - 1) : ContentOf[m] # c

InitialCounter == 2 * NrNodes + 1

\* the WebTop takes its first stamp before it creates the others, and is
\* shown last
InitialStamp == [c \in Contents |->
  IF First(c) = 1 THEN [content |-> 2, visibility |-> InitialCounter]
                  ELSE [content |-> 2 * First(c) - 1, visibility |-> 2 * First(c)]]

InitialRecord == [n \in Nodes |-> [id |-> IF n = Root THEN RootId ELSE 0,
                                   stamp |-> -1, cache |-> NoNodes]]

Idle == [pc |-> "idle", content |-> None, kind |-> "content", stamp |-> 0, passed |-> FALSE]
NoPoll == [pc |-> "none", old |-> 0, context |-> 0, stamp |-> 0, buffer |-> <<>>]
NoScan == [of |-> None, pc |-> "none", at |-> 0, next |-> 0, old |-> [n \in Nodes |-> 0]]

\* The page a browser has just loaded: the div of the top record, empty.
LoadedPage == [timestamp |-> 0, context |-> 0, divs |-> [NoNodes EXCEPT ![Root].id = RootId]]

Init ==
  /\ counter = InitialCounter
  /\ context = 1
  /\ data = [c \in Contents |-> 1]
  /\ hidden = [c \in Contents |-> FALSE]
  /\ stamp = InitialStamp
  /\ record = InitialRecord
  /\ nextId = RootId + 1
  /\ scan = NoScan
  /\ writer = [w \in Writers |-> Idle]
  /\ page = [k \in Clients |-> LoadedPage]
  /\ timer = [k \in Clients |-> [refresh |-> 1, warning |-> TRUE]]
  /\ poll = [k \in Clients |-> [i \in 1..MaxPolls |-> NoPoll]]
  /\ changes = 0
  /\ failures = 0
  /\ overtaken = [c \in Contents |-> [content |-> "no", visibility |-> "no"]]

(***************************************************************************)
(* Changes: control loops and callbacks                                    *)
(***************************************************************************)
Changing(c, kind) == {w \in Writers : /\ writer[w].pc # "idle"
                                      /\ writer[w].content = c
                                      /\ writer[w].kind = kind}

\* The renderer holds the lock of a guarded content until the contents
\* inserted in it are rendered, too.
Rendering(c) ==
  /\ scan.pc \in {"start", "body"}
  /\ \E n \in Nodes : /\ ContentOf[n] = c /\ scan.at <= n
                      /\ n < scan.next /\ scan.next <= LastIn[n]

StartWriting(w, c, kind) ==
  /\ writer[w].pc = "idle"
  /\ changes < MaxChanges
  /\ changes' = changes + 1
  /\ writer' = [writer EXCEPT ![w] = [Idle EXCEPT !.pc = "take", !.content = c, !.kind = kind]]

\* The data of a content changes and its invalidate() is called; a guarded
\* content stays locked until invalidate() has returned.
ChangeData(w, c) ==
  /\ StartWriting(w, c, "content")
  /\ c \in Guarded => Changing(c, "content") = {} /\ ~Rendering(c)
  /\ data' = [data EXCEPT ![c] = @ + 1]
  /\ UNCHANGED <<counter, context, hidden, stamp, record, nextId, scan,
                 clientVars, poll, failures, overtaken>>

\* show() or hide(), when it has something to do; _hidden is locked.
Toggle(w, c) ==
  /\ StartWriting(w, c, "visibility")
  /\ Changing(c, "visibility") = {}
  /\ hidden' = [hidden EXCEPT ![c] = ~@]
  /\ UNCHANGED <<counter, context, data, stamp, record, nextId, scan,
                 clientVars, poll, failures, overtaken>>

\* _dispatcher->getNewTimeStamp(), under the lock of the stamp
TakeStamp(w) ==
  /\ writer[w].pc = "take"
  /\ \A u \in Changing(writer[w].content, writer[w].kind) : writer[u].pc # "store"
  /\ counter' = counter + 1
  /\ writer' = [writer EXCEPT ![w].pc = "store", ![w].stamp = counter']
  /\ UNCHANGED <<context, data, hidden, stamp, record, nextId, scan,
                 clientVars, poll, changes, failures, overtaken>>

StampWith(c, kind, n) ==
  stamp' = IF kind = "content" THEN [stamp EXCEPT ![c].content = n]
                               ELSE [stamp EXCEPT ![c].visibility = n]

\* The new value is assigned to _timeStampContent or _timeStampVisibility,
\* some time after the dispatcher has counted it.
StoreStamp(w) ==
  LET c == writer[w].content
      was == IF writer[w].kind = "content" THEN overtaken[c].content
                                           ELSE overtaken[c].visibility
      is == IF writer[w].passed THEN "now" ELSE IF was = "now" THEN "past" ELSE was
  IN  /\ writer[w].pc = "store"
      /\ StampWith(c, writer[w].kind, writer[w].stamp)
      /\ overtaken' = IF writer[w].kind = "content"
                      THEN [overtaken EXCEPT ![c].content = is]
                      ELSE [overtaken EXCEPT ![c].visibility = is]
      /\ writer' = [writer EXCEPT ![w] = Idle]
      /\ UNCHANGED <<counter, context, data, hidden, record, nextId, scan,
                     clientVars, poll, changes, failures>>

(***************************************************************************)
(* The browser: dispatcher.js                                              *)
(***************************************************************************)
InFlight(k) == Cardinality({i \in 1..MaxPolls : poll[k][i].pc # "none"})

\* updateFromDispatcher(): a request with the stamp and the context of the
\* page; the warning timer is set anew.
Send(k, i) ==
  /\ poll[k][i].pc = "none"
  /\ poll' = [poll EXCEPT ![k][i] = [NoPoll EXCEPT !.pc = "sent",
                 !.old = page[k].timestamp, !.context = page[k].context]]

\* The scheduled refresh is not taken off the list.
Refresh_Keep(k, i) ==
  /\ timer[k].refresh > 0
  /\ timer' = [timer EXCEPT ![k].warning = TRUE]
  /\ Send(k, i)
  /\ UNCHANGED <<serverVars, page, changes, failures, overtaken>>

\* The warning timer is not set.
Refresh_NoWarning(k, i) ==
  /\ timer[k].refresh > 0
  /\ timer' = [timer EXCEPT ![k] = [refresh |-> @.refresh - 1, warning |-> FALSE]]
  /\ Send(k, i)
  /\ UNCHANGED <<serverVars, page, changes, failures, overtaken>>

\* The refresh that an answer, or the loading of the page, has scheduled.
Refresh(k, i) ==
  /\ timer[k].refresh > 0
  /\ timer' = [timer EXCEPT ![k] = [refresh |-> @.refresh - 1, warning |-> TRUE]]
  /\ Send(k, i)
  /\ UNCHANGED <<serverVars, page, changes, failures, overtaken>>

\* connectionLost(): no answer within five seconds.  The request may still be
\* answered, so that two chains of requests run from here on.
Timeout(k, i) ==
  /\ timer[k].warning
  /\ timer[k].refresh + InFlight(k) < MaxPolls
  /\ Send(k, i)
  /\ UNCHANGED <<serverVars, clientVars, changes, failures, overtaken>>

\* One statement of the answer's script; it throws if the div is not there.
Apply(state, u) ==
  IF ~state.ok \/ state.divs[u.node].id # u.id
  THEN [state EXCEPT !.ok = FALSE]
  ELSE IF u.kind = "visibility"
  THEN [state EXCEPT !.divs[u.node].hidden = u.hidden]
  ELSE [state EXCEPT !.divs =
          [n \in Nodes |-> IF n \in Below(u.node) THEN u.cache[n]
                           ELSE IF n = u.node THEN [@[n] EXCEPT !.data = u.cache[n].data]
                           ELSE @[n]]]

\* The script of every answer is run.
Newer_Always(k, p) == TRUE

\* The script is run only if its stamp is newer, or from another server.
Newer(k, p) == p.stamp > page[k].timestamp \/ p.context # page[k].context

\* What a page shows after the statements of buffer, and whether none threw
Script(divs, buffer) ==
  LET after[j \in 0..Len(buffer)] == IF j = 0 THEN [divs |-> divs, ok |-> TRUE]
                                     ELSE Apply(after[j - 1], buffer[j])
  IN  after[Len(buffer)]

Outcome(k, p) == Script(page[k].divs, IF Newer(k, p) THEN p.buffer ELSE <<>>)

\* The answer arrives and its script runs.  A script that throws leaves the
\* stamp, the context and both timers as they were.
Deliver(k, i) ==
  LET p == poll[k][i]
      after == Outcome(k, p)
  IN  /\ p.pc = "answered"
      /\ page' = [page EXCEPT ![k] =
                    IF after.ok /\ Newer(k, p)
                    THEN [timestamp |-> p.stamp, context |-> p.context, divs |-> after.divs]
                    ELSE [@ EXCEPT !.divs = after.divs]]
      /\ timer' = IF after.ok
                  THEN [timer EXCEPT ![k] = [refresh |-> @.refresh + 1, warning |-> FALSE]]
                  ELSE timer
      /\ poll' = [poll EXCEPT ![k][i] = NoPoll]
      /\ UNCHANGED <<serverVars, changes, failures, overtaken>>

\* The connection breaks, or the watchdog stops the thread that answers.
Lose(k, i) ==
  /\ failures < MaxFailures
  /\ failures' = failures + 1
  /\ poll[k][i].pc \in {"sent", "ready", "answered"}
  /\ poll' = [poll EXCEPT ![k][i] = NoPoll]
  /\ UNCHANGED <<serverVars, clientVars, changes, overtaken>>

(***************************************************************************)
(* The refresh request: Dispatcher::renderIncremental                      *)
(***************************************************************************)
\* The context is not compared.
Snapshot_NoContext(k, i) ==
  /\ poll[k][i].pc = "sent"
  /\ poll' = [poll EXCEPT ![k][i].pc = "ready", ![k][i].stamp = counter,
                ![k][i].context = context]
  /\ UNCHANGED <<serverVars, clientVars, changes, failures, overtaken>>

\* ts = getCurrentTimeStamp(); the stamp of a client of another server
\* instance is replaced by -1.
Snapshot(k, i) ==
  /\ poll[k][i].pc = "sent"
  /\ poll' = [poll EXCEPT ![k][i].pc = "ready", ![k][i].stamp = counter,
                ![k][i].old = IF poll[k][i].context = context THEN @ ELSE -1,
                ![k][i].context = context]
  /\ UNCHANGED <<serverVars, clientVars, changes, failures, overtaken>>

\* The top record is locked for the whole traversal.
BeginScan(k, i) ==
  /\ poll[k][i].pc = "ready"
  /\ scan.pc = "none"
  /\ poll' = [poll EXCEPT ![k][i].pc = "scanning"]
  /\ scan' = [NoScan EXCEPT !.of = <<k, i>>, !.pc = "check", !.at = Root,
                            !.old = [n \in Nodes |-> poll[k][i].old]]
  /\ UNCHANGED <<counter, context, data, hidden, stamp, record, nextId, writer,
                 clientVars, changes, failures, overtaken>>

Scanned == poll[scan.of[1]][scan.of[2]]   \* the request that is scanning

\* History: a refresh looks at the stamp of c before the stamp is stored,
\* although it will report a counter that includes it.
PassBy(c, kind) ==
  writer' = [w \in Writers |->
    IF /\ w \in Changing(c, kind) /\ writer[w].pc = "store"
       /\ writer[w].stamp <= Scanned.stamp
    THEN [writer[w] EXCEPT !.passed = TRUE] ELSE writer[w]]

\* if ( record._timestamp < _timeStampContent )
Check ==
  LET n == scan.at
      stale == record[n].stamp < stamp[ContentOf[n]].content
  IN  /\ scan.pc = "check"
      /\ scan' = IF stale THEN [scan EXCEPT !.pc = "start", !.next = n]
                          ELSE [scan EXCEPT !.pc = "emit"]
      /\ PassBy(ContentOf[n], "content")
      /\ UNCHANGED <<counter, context, data, hidden, stamp, record, nextId,
                     clientVars, poll, changes, failures, overtaken>>

\* renderWrapper takes the time before it renders; an inserted content gets
\* a new record, and a new div with it.
RenderStart ==
  LET n == scan.next
      new == n # scan.at
  IN  /\ scan.pc = "start"
      /\ scan' = [scan EXCEPT !.pc = "body"]
      /\ record' = [record EXCEPT ![n].stamp = counter,
                                  ![n].id = IF new THEN nextId ELSE @]
      /\ nextId' = IF new THEN nextId + 1 ELSE nextId
      /\ UNCHANGED <<counter, context, data, hidden, stamp, writer,
                     clientVars, poll, changes, failures, overtaken>>

\* render(stream) reads the data; when the contents inserted in a content are
\* rendered, too, the caller reads whether the content is hidden.  After the
\* last one the caches are complete.
RenderBody ==
  LET n == scan.next
      c == ContentOf[n]
      last == n = LastIn[scan.at]
      drawn == [record EXCEPT ![n].cache[n] = [@ EXCEPT !.id = record[n].id, !.data = data[c]]]
      shown == [m \in Nodes |-> IF m \in Below(scan.at) /\ n = LastIn[m]
                                THEN [drawn[m] EXCEPT !.cache[m].hidden = hidden[ContentOf[m]]]
                                ELSE drawn[m]]
  IN  /\ scan.pc = "body"
      /\ c \in Guarded => Changing(c, "content") = {}
      /\ scan' = [scan EXCEPT !.pc = IF last THEN "emit" ELSE "start", !.next = n + 1]
      /\ record' = IF ~last THEN shown
                   ELSE [m \in Nodes |->
                          IF Within(m, scan.at)
                          THEN [shown[m] EXCEPT !.cache =
                                  [d \in Nodes |-> IF Within(d, m) THEN shown[d].cache[d]
                                                                   ELSE NoDiv]]
                          ELSE shown[m]]
      /\ UNCHANGED <<counter, context, data, hidden, stamp, nextId, writer,
                     clientVars, poll, changes, failures, overtaken>>

\* The statements that bring node n up to date
Updates(n) ==
  LET c == ContentOf[n]
  IN  (IF stamp[c].visibility > scan.old[n]
       THEN <<[kind |-> "visibility", node |-> n, id |-> record[n].id,
               hidden |-> hidden[c]]>> ELSE <<>>)
      \o (IF record[n].stamp > scan.old[n]
          THEN <<[kind |-> "content", node |-> n, id |-> record[n].id,
                  cache |-> record[n].cache]>> ELSE <<>>)

\* All nodes to come, and not only those below, are compared with the stamp
\* of the content just sent.
Emit_AllNodes ==
  LET n == scan.at
      sendsContent == record[n].stamp > scan.old[n]
  IN  /\ scan.pc = "emit"
      /\ poll' = [poll EXCEPT ![scan.of[1]][scan.of[2]].buffer = @ \o Updates(n)]
      /\ scan' = [scan EXCEPT !.at = n + 1, !.pc = IF n = NrNodes THEN "end" ELSE "check",
                    !.old = [m \in Nodes |-> IF sendsContent THEN record[n].stamp ELSE @[m]]]
      /\ PassBy(ContentOf[n], "visibility")
      /\ UNCHANGED <<counter, context, data, hidden, stamp, record, nextId,
                     clientVars, changes, failures, overtaken>>

\* What is newer than the client's stamp goes into the answer; the nodes
\* below are compared with the stamp of the content just sent.
Emit ==
  LET n == scan.at
      sendsContent == record[n].stamp > scan.old[n]
  IN  /\ scan.pc = "emit"
      /\ poll' = [poll EXCEPT ![scan.of[1]][scan.of[2]].buffer = @ \o Updates(n)]
      /\ scan' = [scan EXCEPT !.at = n + 1, !.pc = IF n = NrNodes THEN "end" ELSE "check",
                    !.old = [m \in Nodes |-> IF sendsContent /\ Within(m, n)
                                             THEN record[n].stamp ELSE @[m]]]
      /\ PassBy(ContentOf[n], "visibility")
      /\ UNCHANGED <<counter, context, data, hidden, stamp, record, nextId,
                     clientVars, changes, failures, overtaken>>

\* The stamp of the answer is the counter when the answer is complete.
EndScan_LateStamp ==
  /\ scan.pc = "end"
  /\ scan' = NoScan
  /\ \/ poll' = [poll EXCEPT ![scan.of[1]][scan.of[2]].pc = "answered",
                             ![scan.of[1]][scan.of[2]].stamp = counter]
     \/ /\ Scanned.buffer = <<>>
        /\ poll' = [poll EXCEPT ![scan.of[1]][scan.of[2]].pc = "sent"]
  /\ UNCHANGED <<counter, context, data, hidden, stamp, record, nextId, writer,
                 clientVars, changes, failures, overtaken>>

\* The lock is released.  The answer is sent when there is something to send
\* or the hundredth attempt has passed; otherwise the request tries again.
EndScan ==
  /\ scan.pc = "end"
  /\ scan' = NoScan
  /\ \/ poll' = [poll EXCEPT ![scan.of[1]][scan.of[2]].pc = "answered"]
     \/ /\ Scanned.buffer = <<>>
        /\ poll' = [poll EXCEPT ![scan.of[1]][scan.of[2]].pc = "sent"]
  /\ UNCHANGED <<counter, context, data, hidden, stamp, record, nextId, writer,
                 clientVars, changes, failures, overtaken>>

(***************************************************************************)
(* The server is killed and started again: its data differ from what they  *)
(* were, and open requests fail.  What the old server has already sent may *)
(* be on its way for longer than the new one takes to start (LateAnswers). *)
(***************************************************************************)
Restart ==
  /\ failures < MaxFailures
  /\ failures' = failures + 1
  /\ context' = context + 1
  /\ counter' = InitialCounter
  /\ data' = [c \in Contents |-> data[c] + 1]
  /\ hidden' = [c \in Contents |-> FALSE]
  /\ stamp' = InitialStamp
  /\ record' = InitialRecord
  /\ scan' = NoScan
  /\ writer' = [w \in Writers |-> Idle]
  /\ overtaken' = [c \in Contents |-> [content |-> "no", visibility |-> "no"]]
  /\ poll' = [k \in Clients |-> [i \in 1..MaxPolls |->
                IF LateAnswers /\ poll[k][i].pc = "answered" THEN poll[k][i] ELSE NoPoll]]
  /\ UNCHANGED <<nextId, clientVars, changes>>

(***************************************************************************)
(* The specification                                                       *)
(***************************************************************************)
Change == \E w \in Writers, c \in Contents : ChangeData(w, c) \/ Toggle(w, c)

Stamping(w) == TakeStamp(w) \/ StoreStamp(w)

Scan == Check \/ RenderStart \/ RenderBody \/ Emit \/ EndScan

Asking(k, i) == Refresh(k, i) \/ Timeout(k, i) \/ Snapshot(k, i) \/ BeginScan(k, i)
                \/ Deliver(k, i)

Next == \/ Change
        \/ \E w \in Writers : Stamping(w)
        \/ \E k \in Clients, i \in 1..MaxPolls : Asking(k, i) \/ Lose(k, i)
        \/ Scan
        \/ Restart

Spec == Init /\ [][Next]_vars

\* Threads are scheduled, timers expire and answers arrive; changes and
\* failures may stop.
Fairness == /\ \A w \in Writers : WF_vars(Stamping(w))
            /\ WF_vars(Scan)
            /\ \A k \in Clients : WF_vars(\E i \in 1..MaxPolls : Refresh(k, i))
            /\ \A k \in Clients : WF_vars(\E i \in 1..MaxPolls : Timeout(k, i))
            /\ \A k \in Clients, i \in 1..MaxPolls :
                 WF_vars(Snapshot(k, i)) /\ SF_vars(BeginScan(k, i)) /\ WF_vars(Deliver(k, i))

FairSpec == Spec /\ Fairness

(***************************************************************************)
(* Properties                                                              *)
(***************************************************************************)
Divs == [id : Nat, data : Nat, hidden : BOOLEAN]
Statements == [kind : {"visibility"}, node : Nodes, id : Nat, hidden : BOOLEAN]
              \union [kind : {"content"}, node : Nodes, id : Nat, cache : [Nodes -> Divs]]
Overtaking == {"no", "now", "past"}

TypeOK ==
  /\ counter \in Nat /\ context \in 1..(MaxFailures + 1) /\ nextId \in Nat
  /\ data \in [Contents -> Nat] /\ hidden \in [Contents -> BOOLEAN]
  /\ stamp \in [Contents -> [content : 1..counter, visibility : 1..counter]]
  /\ record \in [Nodes -> [id : 0..(nextId - 1), stamp : -1..counter,
                           cache : [Nodes -> Divs]]]
  /\ scan \in [of : (Clients \X (1..MaxPolls)) \union {None},
               pc : {"none", "check", "start", "body", "emit", "end"},
               at : 0..(NrNodes + 1), next : 0..(NrNodes + 1), old : [Nodes -> -1..counter]]
  /\ writer \in [Writers -> [pc : {"idle", "take", "store"}, content : Contents \union {None},
                            kind : {"content", "visibility"}, stamp : 0..counter,
                            passed : BOOLEAN]]
  /\ page \in [Clients -> [timestamp : Nat, context : 0..(MaxFailures + 1),
                           divs : [Nodes -> Divs]]]
  /\ timer \in [Clients -> [refresh : 0..MaxPolls, warning : BOOLEAN]]
  /\ poll \in [Clients -> [1..MaxPolls ->
                 [pc : {"none", "sent", "ready", "scanning", "answered"},
                  old : Nat \union {-1}, context : 0..(MaxFailures + 1), stamp : Nat,
                  buffer : Seq(Statements)]]]
  /\ overtaken \in [Contents -> [content : Overtaking, visibility : Overtaking]]

\* The stamp of page k covers every change of c.
Covers(k, c, kind) ==
  /\ page[k].context = context
  /\ page[k].timestamp >= IF kind = "content" THEN stamp[c].content ELSE stamp[c].visibility
  /\ Changing(c, kind) = {}

\* The div of n on page k is that of its record and shows the data of n.
Shows(k, n) == /\ page[k].divs[n].id = record[n].id
               /\ page[k].divs[n].data = data[ContentOf[n]]

ShowsVisibility(k, n) == page[k].divs[n].hidden = hidden[ContentOf[n]]

\* A page whose stamp covers all changes of a content and of the contents
\* around it, so that no refresh will send them again, shows that content as
\* it is; unless a last stamp was stored behind a refresh's back.
UpToDate == \A k \in Clients, n \in Nodes :
  (\A a \in Ancestors(n) : /\ Covers(k, ContentOf[a], "content")
                           /\ overtaken[ContentOf[a]].content # "now")
  => /\ Shows(k, n)
     /\ (/\ Covers(k, ContentOf[n], "visibility")
         /\ overtaken[ContentOf[n]].visibility # "now") => ShowsVisibility(k, n)

\* "this causes re-rendering in subsequent updates" (the examples' comment on
\* invalidate()): the same without the exception.
EveryUpdateSent == \A k \in Clients, n \in Nodes :
  (\A a \in Ancestors(n) : Covers(k, ContentOf[a], "content")) => Shows(k, n)

NeverOvertaken == \A c \in Contents : overtaken[c] = [content |-> "no", visibility |-> "no"]

\* With one chain of requests, the script of an answer finds every div it
\* changes, unless a stamp has been overtaken: the nodes below a content
\* that was rendered anew are addressed only after the content is replaced.
NoBrokenScript ==
  NeverOvertaken => \A k \in Clients, i \in 1..MaxPolls :
    poll[k][i].pc = "answered" => Outcome(k, poll[k][i]).ok

\* "avoid timestap moving backwards from out-of-order data" (Dispatcher's
\* comment on the condition in its answer): no page goes back to an older
\* server, or to an older stamp of its server.
NeverBackwards == [][\A k \in Clients :
  \/ page'[k].context > page[k].context
  \/ /\ page'[k].context = page[k].context
     /\ page'[k].timestamp >= page[k].timestamp]_vars

\* "sessions can partially recover from lost connections" (README.md:107):
\* once the changes and the failures end, every page comes to
\* show the contents as they are and stays so, unless a stamp was overtaken.
EventuallyConsistent ==
  []NeverOvertaken => <>[](\A k \in Clients, n \in Nodes :
                              Shows(k, n) /\ ShowsVisibility(k, n))
=============================================================================
