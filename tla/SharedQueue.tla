---------------------------- MODULE SharedQueue ----------------------------
(***************************************************************************)
(* engine/sharedqueue.h: the queue of accepted sockets between the accept  *)
(* loop of main.cpp and the web threads.  _emptyMutex is used as a signal: *)
(* it is locked while there is nothing to pop, and it is unlocked by a     *)
(* thread other than the one that has locked it.                           *)
(*                                                                         *)
(* Each section of _waitingMutex reads or writes one counter and calls     *)
(* nothing, so it is one step and the mutex itself is left out.            *)
(***************************************************************************)
EXTENDS Naturals, Sequences, FiniteSets

CONSTANTS Producers,   \* threads that call push (the accept loop)
          Consumers,   \* threads that call pop (the web threads)
          Items,       \* socket handles
          NoItem, Nobody

ASSUME ConstantsAssumption ==
  /\ IsFiniteSet(Consumers)
  /\ Producers \intersect Consumers = {}
  /\ Nobody \notin Producers \union Consumers
  /\ NoItem \notin Items

VARIABLES
  queue,          \* _queue
  accessMutex,    \* who has locked _accessMutex
  emptyLocked,    \* whether _emptyMutex is locked
  nrWaiting,      \* _nrWaitingThreads
  pc,             \* where each thread is in push or pop
  item,           \* argument of push, result of pop
  emptyBefore,    \* local variable of push
  waitingBefore   \* local variable of push, its return value

vars == <<queue, accessMutex, emptyLocked, nrWaiting, pc, item,
          emptyBefore, waitingBefore>>

Threads == Producers \union Consumers

Init == /\ queue = <<>>
        /\ accessMutex = Nobody
        /\ emptyLocked = TRUE
        /\ nrWaiting = 0
        /\ pc = [t \in Threads |-> "idle"]
        /\ item = [t \in Threads |-> NoItem]
        /\ emptyBefore = [p \in Producers |-> FALSE]
        /\ waitingBefore = [p \in Producers |-> FALSE]

Goto(t, from, to) == pc[t] = from /\ pc' = [pc EXCEPT ![t] = to]

LockAccess(t) == accessMutex = Nobody /\ accessMutex' = t

UnlockAccess == accessMutex' = Nobody

ItemsInQueue == {queue[k] : k \in DOMAIN queue}

\* accept returns a handle that is not open: it is neither in the queue nor
\* in the hands of a thread.
Open(i) == i \in ItemsInQueue \/ \E t \in Threads : item[t] = i

(***************************************************************************)
(* push                                                                    *)
(***************************************************************************)
CallPush(p, i) ==
  /\ Goto(p, "idle", "pushLock")
  /\ ~Open(i)
  /\ item' = [item EXCEPT ![p] = i]
  /\ UNCHANGED <<queue, accessMutex, emptyLocked, nrWaiting, emptyBefore, waitingBefore>>

PushLock(p) ==
  /\ Goto(p, "pushLock", "pushLook")
  /\ LockAccess(p)
  /\ UNCHANGED <<queue, emptyLocked, nrWaiting, item, emptyBefore, waitingBefore>>

\* emptyBefore = _queue.empty(); waitingBefore = (_nrWaitingThreads != 0)
PushLook(p) ==
  /\ Goto(p, "pushLook", "pushBack")
  /\ emptyBefore' = [emptyBefore EXCEPT ![p] = (queue = <<>>)]
  /\ waitingBefore' = [waitingBefore EXCEPT ![p] = (nrWaiting # 0)]
  /\ UNCHANGED <<queue, accessMutex, emptyLocked, nrWaiting, item>>

PushBack(p) ==
  /\ Goto(p, "pushBack", "pushSignal")
  /\ queue' = Append(queue, item[p])
  /\ item' = [item EXCEPT ![p] = NoItem]
  /\ UNCHANGED <<accessMutex, emptyLocked, nrWaiting, emptyBefore, waitingBefore>>

\* The signal is forgotten when the queue was empty.
PushSignal_Inverted(p) ==
  /\ Goto(p, "pushSignal", "pushUnlock")
  /\ emptyLocked' = (emptyLocked /\ emptyBefore[p])
  /\ UNCHANGED <<queue, accessMutex, nrWaiting, item, emptyBefore, waitingBefore>>

\* if (emptyBefore) pthread_mutex_unlock(&_emptyMutex)
PushSignal(p) ==
  /\ Goto(p, "pushSignal", "pushUnlock")
  /\ emptyLocked' = (emptyLocked /\ ~emptyBefore[p])
  /\ UNCHANGED <<queue, accessMutex, nrWaiting, item, emptyBefore, waitingBefore>>

PushUnlock(p) ==
  /\ Goto(p, "pushUnlock", "idle")
  /\ UnlockAccess
  /\ UNCHANGED <<queue, emptyLocked, nrWaiting, item, emptyBefore, waitingBefore>>

(***************************************************************************)
(* pop                                                                     *)
(***************************************************************************)
\* The thread does not count itself.
CallPop_NoCount(c) ==
  /\ Goto(c, "idle", "popWait")
  /\ item' = [item EXCEPT ![c] = NoItem]
  /\ UNCHANGED <<queue, accessMutex, emptyLocked, nrWaiting, emptyBefore, waitingBefore>>

\* A web thread that has closed its last socket comes back for another one.
CallPop(c) ==
  /\ Goto(c, "idle", "popWait")
  /\ nrWaiting' = nrWaiting + 1
  /\ item' = [item EXCEPT ![c] = NoItem]
  /\ UNCHANGED <<queue, accessMutex, emptyLocked, emptyBefore, waitingBefore>>

\* pthread_mutex_lock(&_emptyMutex): sleeps here while the queue is empty
PopWait(c) ==
  /\ Goto(c, "popWait", "popLock")
  /\ ~emptyLocked
  /\ emptyLocked' = TRUE
  /\ UNCHANGED <<queue, accessMutex, nrWaiting, item, emptyBefore, waitingBefore>>

PopLock(c) ==
  /\ Goto(c, "popLock", "popFront")
  /\ LockAccess(c)
  /\ UNCHANGED <<queue, emptyLocked, nrWaiting, item, emptyBefore, waitingBefore>>

\* The item is read but stays in the queue.
PopFront_Keep(c) ==
  /\ Goto(c, "popFront", "popLeave")
  /\ queue # <<>>
  /\ item' = [item EXCEPT ![c] = Head(queue)]
  /\ queue' = IF Len(queue) = 1 THEN <<>> ELSE queue
  /\ UNCHANGED <<accessMutex, emptyLocked, nrWaiting, emptyBefore, waitingBefore>>

\* front() and pop_front(): undefined on an empty deque
PopFront(c) ==
  /\ Goto(c, "popFront", "popLeave")
  /\ queue # <<>>
  /\ item' = [item EXCEPT ![c] = Head(queue)]
  /\ queue' = Tail(queue)
  /\ UNCHANGED <<accessMutex, emptyLocked, nrWaiting, emptyBefore, waitingBefore>>

PopLeave(c) ==
  /\ Goto(c, "popLeave", "popSignal")
  /\ nrWaiting' = nrWaiting - 1
  /\ UNCHANGED <<queue, accessMutex, emptyLocked, item, emptyBefore, waitingBefore>>

\* The signal is given although nothing is left.
PopSignal_Always(c) ==
  /\ Goto(c, "popSignal", "popUnlock")
  /\ emptyLocked' = FALSE
  /\ UNCHANGED <<queue, accessMutex, nrWaiting, item, emptyBefore, waitingBefore>>

\* if (!_queue.empty()) pthread_mutex_unlock(&_emptyMutex)
PopSignal(c) ==
  /\ Goto(c, "popSignal", "popUnlock")
  /\ emptyLocked' = (emptyLocked /\ queue = <<>>)
  /\ UNCHANGED <<queue, accessMutex, nrWaiting, item, emptyBefore, waitingBefore>>

PopUnlock(c) ==
  /\ Goto(c, "popUnlock", "idle")
  /\ UnlockAccess
  /\ UNCHANGED <<queue, emptyLocked, nrWaiting, item, emptyBefore, waitingBefore>>

(***************************************************************************)
(* The specification                                                       *)
(***************************************************************************)
PushStep(p) == PushLock(p) \/ PushLook(p) \/ PushBack(p) \/ PushSignal(p) \/ PushUnlock(p)

PopStep(c) == \/ PopWait(c) \/ PopLock(c) \/ PopFront(c) \/ PopLeave(c)
              \/ PopSignal(c) \/ PopUnlock(c)

Next == \/ \E p \in Producers : PushStep(p) \/ \E i \in Items : CallPush(p, i)
        \/ \E c \in Consumers : PopStep(c) \/ CallPop(c)

Spec == Init /\ [][Next]_vars

\* A runnable thread is scheduled, and a web thread comes back to pop after
\* every request; a client may or may not connect.
Fairness == /\ \A p \in Producers : WF_vars(PushStep(p))
            /\ \A c \in Consumers : WF_vars(PopStep(c)) /\ WF_vars(CallPop(c))

FairSpec == Spec /\ Fairness

(***************************************************************************)
(* Properties                                                              *)
(***************************************************************************)
InPush == {"pushLock", "pushLook", "pushBack", "pushSignal", "pushUnlock"}
InPop == {"popWait", "popLock", "popFront", "popLeave", "popSignal", "popUnlock"}

TypeOK == /\ queue \in Seq(Items)
          /\ accessMutex \in Threads \union {Nobody}
          /\ emptyLocked \in BOOLEAN
          /\ nrWaiting \in Nat
          /\ pc \in [Threads -> {"idle"} \union InPush \union InPop]
          /\ item \in [Threads -> Items \union {NoItem}]
          /\ emptyBefore \in [Producers -> BOOLEAN]
          /\ waitingBefore \in [Producers -> BOOLEAN]

\* A thread that has got past _emptyMutex finds an item, whatever the others
\* do before it gets _accessMutex: front() is never called on an empty deque.
NeverPopEmpty ==
  \A c \in Consumers : pc[c] \in {"popLock", "popFront"} => queue # <<>>

\* The threads between the increment and the decrement of _nrWaitingThreads.
Waiting == {c \in Consumers : pc[c] \in {"popWait", "popLock", "popFront", "popLeave"}}

\* The count push reads is exact, so its answer is what it claims to be at
\* the moment it looks.
CountExact == nrWaiting = Cardinality(Waiting)

\* A socket is in one place only: it is never served by two threads, nor
\* served while it is still in the queue.
ServedOnce ==
  /\ \A t, u \in Threads : item[t] = item[u] /\ item[t] # NoItem => t = u
  /\ \A t \in Threads : item[t] \notin ItemsInQueue
  /\ \A k, l \in DOMAIN queue : queue[k] = queue[l] => k = l

\* The wakeup is never lost: a socket in the queue is served in the end.
EventuallyServed == \A i \in Items : i \in ItemsInQueue ~> i \notin ItemsInQueue

\* The queue as the callers see it: a push takes effect when it looks at the
\* waiting threads, a pop when it leaves them.
At(t, loc) == accessMutex = t /\ pc[t] = loc

items == IF \E c \in Consumers : At(c, "popLeave")
         THEN <<item[accessMutex]>> \o queue
         ELSE IF \E p \in Producers : At(p, "pushBack")
              THEN Append(queue, item[accessMutex])
              ELSE queue

Abstract == INSTANCE FifoQueue WITH
              inPop <- Waiting,
              result <- [c \in Consumers |-> IF At(c, "popLeave") THEN NoItem ELSE item[c]],
              answer <- waitingBefore

\* SharedQueue implements a first-in first-out queue.
ImplementsFifoQueue == Abstract!Spec
=============================================================================
