---------------------------- MODULE ServerPool ----------------------------
(***************************************************************************)
(* The threads that answer requests: the accept loop of main.cpp, the      *)
(* WebThreads, the WatchdogThread that stops the ones that take too long,  *)
(* and GenericThread::start and cancel, by which a stopped WebThread gets  *)
(* another thread that runs on the same object.                            *)
(*                                                                         *)
(* pthread_cancel only marks a thread, at whatever place it is: the thread *)
(* goes on, on the object that its successor uses by then, until it comes  *)
(* to a cancellation point.  read(), write() and close() are such points;  *)
(* waiting for a mutex is none.  What a marked thread does in between is   *)
(* in the model; strayed remembers where it has done anything.             *)
(*                                                                         *)
(* The queue is used as FifoQueue specifies it; the sections of the        *)
(* watchdog's mutex are one step each.                                     *)
(***************************************************************************)
EXTENDS Integers, Sequences, FiniteSets, FiniteSetsExt

CONSTANTS
  MAXTHREADS,      \* how many WebThread objects main makes at most
  Handles,         \* file descriptors of connections
  FirstCounter,    \* values the uninitialised WatchdogThread::_counter may have
  MaxConnections,  \* bound: connections accepted
  MaxThreads       \* bound: threads started for one object

ASSUME ConstantsAssumption ==
  /\ MAXTHREADS \in Nat \ {0}
  /\ IsFiniteSet(Handles) /\ 0 \notin Handles
  /\ FirstCounter \subseteq Int
  /\ MaxConnections \in Nat /\ MaxThreads \in Nat \ {0}

Servers == 1..MAXTHREADS
Poison == 0     \* the handle that ends a thread; 0 is also no handle
Stdin == 0      \* and the descriptor of the standard input

VARIABLES
  \* main
  main,           \* where main is in its loop
  accepted,       \* the handle accept has returned
  servers,        \* servers.size()
  poisons,        \* how many times 0 has been pushed
  \* the sockets and the queue of their handles
  open,           \* the open descriptors
  cut,            \* those that have been shut down
  queue,
  connections,    \* how many have been accepted
  \* the WebThread objects
  handle,         \* handle[s]: WebThread::_handle
  output,         \* output[s]: {} for no WebThread::_output, else what it wraps
  text,           \* text[s]: the threads that have printed to that stream
  thread,         \* thread[s]: the last thread started, GenericThread::_thread
  \* the threads
  pc,             \* pc[s][j]: where thread j of s is in run()
  popped,         \* popped[s][j]: what pop has returned to it
  cancelled,      \* cancelled[s]: the threads of s that are marked
  strayed,        \* history: the objects of which a marked thread has gone on
  \* the watchdog
  counter, current, previous, ageOf, threadOf

mainVars == <<main, accepted, servers, poisons>>
socketVars == <<open, cut, queue, connections>>
streamVars == <<output, text>>
objectVars == <<handle, streamVars, thread>>
threadVars == <<pc, popped, cancelled, strayed>>
watchVars == <<counter, current, previous, ageOf, threadOf>>
vars == <<mainVars, socketVars, objectVars, threadVars, watchVars>>

Threads == 1..MaxThreads
Waiting == {x \in Servers \X Threads : pc[x[1]][x[2]] = "pop"}

Init ==
  /\ main = "accept" /\ accepted = Poison /\ servers = 0 /\ poisons = 0
  /\ open = {Stdin} /\ cut = {} /\ queue = <<>> /\ connections = 0
  /\ handle = [s \in Servers |-> 0]
  /\ output = [s \in Servers |-> {}]
  /\ text = [s \in Servers |-> {}]
  /\ thread = [s \in Servers |-> 0]
  /\ pc = [s \in Servers |-> [j \in Threads |-> "none"]]
  /\ popped = [s \in Servers |-> [j \in Threads |-> Poison]]
  /\ cancelled = [s \in Servers |-> {}] /\ strayed = {}
  /\ counter \in FirstCounter
  /\ current = {} /\ previous = {}
  /\ ageOf = <<>> /\ threadOf = <<>>

\* Thread j of s goes on, although it may be marked.
Goto(s, j, from, to) ==
  /\ pc[s][j] = from
  /\ pc' = [pc EXCEPT ![s][j] = to]
  /\ strayed' = IF j \in cancelled[s] THEN strayed \union {s} ELSE strayed

\* std::map::erase and operator[], which makes a missing entry 0
Erase(map, keys) == [x \in DOMAIN map \ keys |-> map[x]]
Entry(map, x) == IF x \in DOMAIN map THEN map[x] ELSE 0

(***************************************************************************)
(* GenericThread::cancel with WebThread::cleanup, then start               *)
(***************************************************************************)
\* What cleanup() closes: "closing _output also closes _handle".
Closed(s) == IF handle[s] = 0 THEN {}
             ELSE IF output[s] # {} THEN output[s] ELSE {handle[s]}

\* The last threads of S are marked, wherever they are.
Respawn(S) ==
  /\ \A s \in S : thread[s] < MaxThreads
  /\ cancelled' = [s \in Servers |-> IF s \in S THEN cancelled[s] \union {thread[s]}
                                                ELSE cancelled[s]]
  /\ open' = open \ UNION {Closed(s) : s \in S}
  /\ cut' = (cut \union ({handle[s] : s \in S} \intersect Handles)) \intersect open'
  /\ handle' = [s \in Servers |-> IF s \in S THEN 0 ELSE handle[s]]
  /\ output' = [s \in Servers |-> IF s \in S THEN {} ELSE output[s]]
  /\ text' = [s \in Servers |-> IF s \in S THEN {} ELSE text[s]]
  /\ thread' = [s \in Servers |-> IF s \in S THEN thread[s] + 1 ELSE thread[s]]
  /\ pc' = [s \in Servers |-> [j \in Threads |->
              IF s \in S /\ j = thread'[s] THEN "start" ELSE pc[s][j]]]
  /\ UNCHANGED <<popped, strayed>>

(***************************************************************************)
(* main                                                                    *)
(***************************************************************************)
\* accept returns a descriptor that is not in use, maybe one closed before.
Accept ==
  /\ main = "accept" /\ connections < MaxConnections
  /\ \E h \in (Handles \union {Stdin}) \ open : accepted' = h /\ open' = open \union {h}
  /\ connections' = connections + 1
  /\ main' = "push"
  /\ UNCHANGED <<servers, poisons, cut, queue, objectVars, threadVars, watchVars>>

\* someServerIsWaiting = push(s)
Push ==
  /\ main = "push"
  /\ queue' = Append(queue, accepted)
  /\ main' = IF Waiting # {} THEN "accept" ELSE "enlarge"
  /\ accepted' = Poison
  /\ UNCHANGED <<servers, poisons, open, cut, connections, objectVars, threadVars, watchVars>>

Enlarge ==
  /\ main = "enlarge" /\ servers < MAXTHREADS
  /\ servers' = servers + 1
  /\ thread' = [thread EXCEPT ![servers'] = 1]
  /\ pc' = [pc EXCEPT ![servers'][1] = "start"]
  /\ main' = "accept"
  /\ UNCHANGED <<accepted, poisons, socketVars, handle, streamVars, popped, cancelled, strayed,
                 watchVars>>

\* The thread stays watched by its age.
RespawnSlowest_KeepAge ==
  /\ main = "enlarge" /\ servers = MAXTHREADS
  /\ main' = "accept"
  /\ threadOf # <<>>
  /\ LET s == threadOf[Min(DOMAIN threadOf)]
     IN  /\ Respawn({s})
         /\ previous' = previous \ {s} /\ current' = current \ {s}
         /\ ageOf' = Erase(ageOf, {s})
  /\ UNCHANGED <<accepted, servers, poisons, queue, connections, counter, threadOf>>

\* respawnSlowestThread(): the thread with the smallest age is replaced, and
\* not watched until its tic() comes.
RespawnSlowest ==
  /\ main = "enlarge" /\ servers = MAXTHREADS
  /\ main' = "accept"
  /\ \/ /\ threadOf = <<>>
        /\ UNCHANGED <<open, cut, objectVars, threadVars, current, previous, ageOf, threadOf>>
     \/ /\ threadOf # <<>>
        /\ LET s == threadOf[Min(DOMAIN threadOf)]
           IN  /\ Respawn({s})
               /\ previous' = previous \ {s} /\ current' = current \ {s}
               /\ threadOf' = Erase(threadOf, {Entry(ageOf, s)})
               /\ ageOf' = Erase(ageOf, {s})
  /\ UNCHANGED <<accepted, servers, poisons, queue, connections, counter>>

\* accept fails: one 0 is pushed for every server, and main sleeps until the
\* process ends.
NetworkFails ==
  /\ main = "accept"
  /\ main' = "stop"
  /\ UNCHANGED <<accepted, servers, poisons, socketVars, objectVars, threadVars, watchVars>>

\* A 0 is pushed for every thread that may be.
PushPoison_Max ==
  /\ main = "stop" /\ poisons < MAXTHREADS
  /\ queue' = Append(queue, Poison)
  /\ poisons' = poisons + 1
  /\ UNCHANGED <<main, accepted, servers, open, cut, connections, objectVars, threadVars, watchVars>>

PushPoison ==
  /\ main = "stop" /\ poisons < servers
  /\ queue' = Append(queue, Poison)
  /\ poisons' = poisons + 1
  /\ UNCHANGED <<main, accepted, servers, open, cut, connections, objectVars, threadVars, watchVars>>

(***************************************************************************)
(* WebThread::run                                                          *)
(***************************************************************************)
CallPop(s, j) ==
  /\ Goto(s, j, "start", "pop")
  /\ UNCHANGED <<mainVars, socketVars, objectVars, popped, cancelled, watchVars>>

Pop(s, j) ==
  /\ queue # <<>>
  /\ queue' = Tail(queue)
  /\ popped' = [popped EXCEPT ![s][j] = Head(queue)]
  /\ Goto(s, j, "pop", IF Head(queue) = Poison THEN "done" ELSE "init")
  /\ UNCHANGED <<mainVars, open, cut, connections, objectVars, cancelled, watchVars>>

\* _handle = handle, _file and _output = NULL
Adopt(s, j) ==
  /\ Goto(s, j, "init", "tic")
  /\ handle' = [handle EXCEPT ![s] = popped[s][j]]
  /\ output' = [output EXCEPT ![s] = {}]
  /\ text' = [text EXCEPT ![s] = {}]
  /\ popped' = [popped EXCEPT ![s][j] = Poison]
  /\ UNCHANGED <<mainVars, socketVars, thread, cancelled, watchVars>>

Tic(s, j) ==
  /\ Goto(s, j, "tic", "read")
  /\ counter' = counter + 1
  /\ current' = current \union {s}
  /\ ageOf' = [x \in DOMAIN ageOf \union {s} |-> IF x = s THEN counter' ELSE ageOf[x]]
  /\ threadOf' = [x \in DOMAIN threadOf \union {counter'} |->
                    IF x = counter' THEN s ELSE threadOf[x]]
  /\ UNCHANGED <<mainVars, socketVars, objectVars, popped, cancelled, previous>>

\* A read() of parseStream returns, with bytes or without.
Read(s, j) ==
  /\ j \notin cancelled[s]
  /\ Goto(s, j, "read", "parse")
  /\ UNCHANGED <<mainVars, socketVars, objectVars, popped, cancelled, watchVars>>

\* The request goes on beyond what has been read.
ReadMore(s, j) ==
  /\ Goto(s, j, "parse", "read")
  /\ UNCHANGED <<mainVars, socketVars, objectVars, popped, cancelled, watchVars>>

\* _output = fdopen(_handle,"w"), of the handle that is there by now
OpenOutput(s, j) ==
  /\ Goto(s, j, "parse", "print")
  /\ handle[s] \in open
  /\ output' = [output EXCEPT ![s] = {handle[s]}]
  /\ text' = [text EXCEPT ![s] = {}]
  /\ UNCHANGED <<mainVars, socketVars, handle, thread, popped, cancelled, watchVars>>

\* The request cannot be read, or fdopen fails.
GiveUp(s, j) ==
  /\ Goto(s, j, "parse", "tac")
  /\ UNCHANGED <<mainVars, socketVars, objectVars, popped, cancelled, watchVars>>

\* A part of the answer is printed to _output: it fits the buffer, or is written.
PrintPart(s, j) ==
  /\ \E to \in {"print", "write"} : Goto(s, j, "print", to)
  /\ output[s] # {}
  /\ text' = [text EXCEPT ![s] = @ \union {<<s, j>>}]
  /\ UNCHANGED <<mainVars, socketVars, handle, output, thread, popped, cancelled, watchVars>>

\* The stream that processWeb has been given may have been closed under it.
Dangling(s, j) == output[s] = {} \/ j \in cancelled[s]

\* Printing to a closed stream is undefined: the text is lost, it gets into the
\* stream that has the memory now,
PrintDangling(s, j) ==
  /\ Dangling(s, j)
  /\ \E to \in {"print", "write"} : Goto(s, j, "print", to)
  /\ \/ UNCHANGED text
     \/ \E r \in Servers : output[r] # {} /\ text' = [text EXCEPT ![r] = @ \union {<<s, j>>}]
  /\ UNCHANGED <<mainVars, socketVars, handle, output, thread, popped, cancelled, watchVars>>

\* or the process ends, and with it all its threads, sockets and books.
Crash(s, j) ==
  /\ Dangling(s, j)
  /\ pc[s][j] = "print"
  /\ main' = "crashed"
  /\ pc' = [r \in Servers |-> [i \in Threads |-> "dead"]]
  /\ strayed' = IF j \in cancelled[s] THEN strayed \union {s} ELSE strayed
  /\ open' = {} /\ cut' = {}
  /\ current' = {} /\ previous' = {} /\ ageOf' = <<>> /\ threadOf' = <<>>
  /\ UNCHANGED <<accepted, servers, poisons, queue, connections, objectVars, popped, cancelled,
                 counter>>

\* write() returns.
Written(s, j) ==
  /\ j \notin cancelled[s]
  /\ Goto(s, j, "write", "print")
  /\ UNCHANGED <<mainVars, socketVars, objectVars, popped, cancelled, watchVars>>

\* All is printed, and the last fflush finds nothing to write.
Finish(s, j) ==
  /\ Goto(s, j, "print", "tac")
  /\ UNCHANGED <<mainVars, socketVars, objectVars, popped, cancelled, watchVars>>

Tac(s, j) ==
  /\ Goto(s, j, "tac", "clean")
  /\ previous' = previous \ {s} /\ current' = current \ {s}
  /\ threadOf' = Erase(threadOf, {Entry(ageOf, s)})
  /\ ageOf' = Erase(ageOf, {s})
  /\ UNCHANGED <<mainVars, socketVars, objectVars, popped, cancelled, counter>>

\* The socket is closed at once, and again after it.
Shutdown_AndClose(s, j) ==
  /\ handle[s] # 0
  /\ Goto(s, j, "clean", "close")
  /\ open' = open \ {handle[s]} /\ cut' = cut \ {handle[s]}
  /\ UNCHANGED <<mainVars, queue, connections, objectVars, popped, cancelled, watchVars>>

\* cleanup(): shutdown(_handle,SHUT_RDWR)
Shutdown(s, j) ==
  /\ handle[s] # 0
  /\ Goto(s, j, "clean", "close")
  /\ cut' = cut \union ({handle[s]} \intersect open)
  /\ UNCHANGED <<mainVars, open, queue, connections, objectVars, popped, cancelled, watchVars>>

\* The handle is forgotten, and closed only through a stream.
Close_NoOutput(s, j) ==
  /\ Goto(s, j, "close", "start")
  /\ open' = open \ output[s] /\ cut' = cut \ output[s]
  /\ handle' = [handle EXCEPT ![s] = 0]
  /\ output' = [output EXCEPT ![s] = {}]
  /\ text' = [text EXCEPT ![s] = {}]
  /\ UNCHANGED <<mainVars, queue, connections, thread, popped, cancelled, watchVars>>

\* fclose(_output), or close(_handle), which a marked thread does not come
\* through; then all is forgotten.
Close(s, j) ==
  /\ j \notin cancelled[s] \/ output[s] # {}
  /\ Goto(s, j, "close", "start")
  /\ LET closed == IF output[s] # {} THEN output[s] ELSE {handle[s]}
     IN  open' = open \ closed /\ cut' = cut \ closed
  /\ handle' = [handle EXCEPT ![s] = 0]
  /\ output' = [output EXCEPT ![s] = {}]
  /\ text' = [text EXCEPT ![s] = {}]
  /\ UNCHANGED <<mainVars, queue, connections, thread, popped, cancelled, watchVars>>

\* Without a handle cleanup() closes no socket.
SkipClose(s, j) ==
  /\ handle[s] = 0
  /\ Goto(s, j, "clean", "start")
  /\ output' = [output EXCEPT ![s] = {}]
  /\ text' = [text EXCEPT ![s] = {}]
  /\ UNCHANGED <<mainVars, socketVars, handle, thread, popped, cancelled, watchVars>>

\* A marked thread comes to a cancellation point: in read(), in write(), which
\* printf calls for the log also when it gives up, in opening or reading a file
\* between two prints, or in closing the file, which only an object with a
\* stream has, or the socket.
Die(s, j) ==
  /\ j \in cancelled[s]
  /\ pc[s][j] \in {"read", "parse", "print", "write", "clean", "close"}
  /\ pc[s][j] = "clean" => output[s] # {}
  /\ pc' = [pc EXCEPT ![s][j] = "dead"]
  /\ UNCHANGED <<mainVars, socketVars, objectVars, popped, cancelled, strayed, watchVars>>

(***************************************************************************)
(* WatchdogThread::run: who has been served since the round before the     *)
(* last is replaced.                                                       *)
(***************************************************************************)
\* The threads that have begun since the last round are forgotten.
Round_Forget ==
  /\ Respawn(previous)
  /\ previous' = {} /\ current' = {}
  /\ threadOf' = Erase(threadOf, {Entry(ageOf, s) : s \in previous})
  /\ ageOf' = Erase(ageOf, previous)
  /\ UNCHANGED <<mainVars, queue, connections, counter>>

Round ==
  /\ Respawn(previous)
  /\ previous' = current /\ current' = {}
  /\ threadOf' = Erase(threadOf, {Entry(ageOf, s) : s \in previous})
  /\ ageOf' = Erase(ageOf, previous)
  /\ UNCHANGED <<mainVars, queue, connections, counter>>

(***************************************************************************)
(* The specification                                                       *)
(***************************************************************************)
MainStep == Push \/ Enlarge \/ RespawnSlowest \/ PushPoison

Run(s, j) == \/ CallPop(s, j) \/ Pop(s, j) \/ Adopt(s, j) \/ Tic(s, j)
             \/ ReadMore(s, j) \/ OpenOutput(s, j) \/ GiveUp(s, j)
             \/ PrintPart(s, j) \/ PrintDangling(s, j) \/ Crash(s, j) \/ Finish(s, j)
             \/ Tac(s, j) \/ Shutdown(s, j) \/ Close(s, j) \/ SkipClose(s, j)

\* What waits for the client
Serve(s, j) == Read(s, j) \/ Written(s, j)

Next == \/ Accept \/ NetworkFails \/ MainStep
        \/ \E s \in Servers, j \in Threads : Run(s, j) \/ Serve(s, j) \/ Die(s, j)
        \/ Round

Spec == Init /\ [][Next]_vars

\* The thread of s that has not been replaced goes on, unless it waits for a
\* client: a call on a socket that has been shut down returns.
RunOwn(s) == LET j == thread[s]
             IN  /\ j # 0
                 /\ Run(s, j) \/ (handle[s] \notin open \ cut /\ Serve(s, j))

\* Runnable threads are scheduled, and the watchdog wakes up again and again.
\* Nothing is assumed of the clients, whose requests may hang for ever, and
\* nothing of the threads that are marked.
Fairness == /\ WF_vars(MainStep)
            /\ \A s \in Servers : WF_vars(RunOwn(s))
            /\ SF_vars(Round)

FairSpec == Spec /\ Fairness

(***************************************************************************)
(* Properties                                                              *)
(***************************************************************************)
TypeOK ==
  /\ main \in {"accept", "push", "enlarge", "stop", "crashed"}
  /\ accepted \in Handles \union {Poison}
  /\ servers \in 0..MAXTHREADS /\ poisons \in 0..servers
  /\ open \subseteq Handles \union {Stdin} /\ cut \subseteq open
  /\ queue \in Seq(Handles \union {Poison})
  /\ handle \in [Servers -> Handles \union {0}]
  /\ output \in [Servers -> {{}} \union {{h} : h \in Handles \union {Stdin}}]
  /\ text \in [Servers -> SUBSET (Servers \X Threads)]
  /\ thread \in [Servers -> 0..MaxThreads]
  /\ pc \in [Servers -> [Threads -> {"none", "start", "pop", "init", "tic", "read", "parse",
                                     "print", "write", "tac", "clean", "close", "dead",
                                     "done"}]]
  /\ popped \in [Servers -> [Threads -> Handles \union {Poison}]]
  /\ cancelled \in [Servers -> SUBSET Threads] /\ strayed \subseteq Servers
  /\ counter \in Int
  /\ current \subseteq Servers /\ previous \subseteq Servers
  /\ DOMAIN ageOf \subseteq Servers /\ \A s \in DOMAIN ageOf : ageOf[s] \in Int
  /\ DOMAIN threadOf \subseteq Int /\ \A a \in DOMAIN threadOf : threadOf[a] \in Servers

\* The thread of s that has not been replaced handles a request.
Serving == {"read", "parse", "print", "write", "tac"}
Busy(s) == thread[s] # 0 /\ pc[s][thread[s]] \in Serving

\* "do not watch the thread until the tic() comes" (watchdogthread.cpp:98):
\* from its tic() to its tac() a thread is watched.  The code does not keep
\* this: the tac() of a thread that was cancelled takes its successor, which
\* is the same object, off the books.
WatchedFromTic == \A s \in Servers : Busy(s) => s \in current \union previous

\* A thread is watched from its tic() to its tac(), so that no request takes
\* more than two rounds of the watchdog, as long as no cancelled thread of the
\* same object has gone on; what threads of other objects do does not matter.
BusyIsWatched == \A s \in Servers \ strayed : Busy(s) => s \in current \union previous

\* "pick the slowest(oldest) thread" (watchdogthread.cpp:93): the thread that
\* would be replaced to make room handles a request, and no other one has
\* handled its request for longer.  The code does not keep this: a cancelled
\* thread that goes on takes the next socket, and its tic() is counted for
\* an object whose own thread still waits for one.
SlowestIsPicked ==
  threadOf # <<>> => LET s == threadOf[Min(DOMAIN threadOf)]
                     IN  Busy(s) /\ \A r \in previous : s \in previous

\* The thread that is replaced to make room is busy and the slowest one, as
\* long as no cancelled thread has gone on.
OldestIsSlowest == strayed = {} => SlowestIsPicked

\* The places where the handle of a connection can be.
Holders(h) ==
  {<<"main">> : x \in {y \in {1} : accepted = h}}
  \union {<<"queue", k>> : k \in {k \in DOMAIN queue : queue[k] = h}}
  \union {<<"object", s>> : s \in {s \in Servers : handle[s] = h}}
  \union {<<"thread", x>> : x \in {x \in Servers \X Threads : popped[x[1]][x[2]] = h}}

\* As long as no cancelled thread has gone on, a connection that is open is in
\* exactly one place, from where it will be closed, and no place holds a
\* descriptor that is closed: no socket leaks, none is closed twice.
OneHolder ==
  strayed = {} => \A h \in Handles : Cardinality(Holders(h)) = IF h \in open THEN 1 ELSE 0

\* A busy thread has its connection to itself: the socket is open and not shut
\* down, its stream goes to it, and nobody else has printed to that stream.
\* This holds as long as no cancelled thread has gone on, however many have
\* been cancelled and still wait to die in read(), in write() or on their way.
ServedAlone ==
  strayed = {} => \A s \in Servers : Busy(s) =>
    /\ handle[s] \in open \ cut
    /\ output[s] \subseteq {handle[s]}
    /\ text[s] \subseteq {<<s, thread[s]>>}

\* "this is the TCP-IP socket" (webthread.h:39), of _handle: while a thread is
\* busy, _handle is an open socket.  The code does not keep this: a cancelled
\* thread that goes on closes and forgets the handle of its successor.
HandleIsSocket == \A s \in Servers : Busy(s) => handle[s] \in open \ {Stdin}

\* Every connection is closed in the end, even if all clients keep their
\* threads busy for ever, unless a cancelled thread goes on: then a thread that
\* is not watched any more may hang for ever, and a handle that another thread
\* overwrites is never closed.
EveryConnectionEnds == \A h \in Handles : h \in open ~> (h \notin open \/ strayed # {})
=============================================================================
