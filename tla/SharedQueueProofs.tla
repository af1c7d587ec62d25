------------------------- MODULE SharedQueueProofs -------------------------
(***************************************************************************)
(* SharedQueue is safe, and implements a first-in first-out queue, for any *)
(* number of producers, consumers and sockets.                             *)
(***************************************************************************)
EXTENDS SharedQueue, FiniteSetTheorems, TLAPS

(***************************************************************************)
(* The inductive invariant                                                 *)
(***************************************************************************)
AccessSection == {"pushLook", "pushBack", "pushSignal", "pushUnlock",
                  "popFront", "popLeave", "popSignal", "popUnlock"}

\* The thread in a section of _accessMutex is the one that has locked it.
AccessInv == \A t \in Threads : pc[t] \in AccessSection <=> accessMutex = t

\* Producers only push, consumers only pop, and a pusher has a socket.
RoleInv ==
  /\ \A p \in Producers : /\ pc[p] \in {"idle"} \union InPush
                          /\ pc[p] \in {"pushLock", "pushLook", "pushBack"} => item[p] \in Items
  /\ \A c \in Consumers : /\ pc[c] \in {"idle"} \union InPop
                          /\ pc[c] = "popLeave" => item[c] \in Items
                          /\ pc[c] \in {"popWait", "popLock", "popFront"} => item[c] = NoItem

\* c has locked _emptyMutex and has not passed the signal on.
Past(c) == pc[c] \in {"popLock", "popFront", "popLeave", "popSignal"}

\* p is about to give the signal.
Signals(p) == pc[p] = "pushSignal" /\ emptyBefore[p]

\* The signal is a token: given, about to be given, or held by one thread.
TokenInv ==
  /\ \A c \in Consumers : Past(c) => /\ emptyLocked
                                     /\ \A d \in Consumers : Past(d) => c = d
                                     /\ \A p \in Producers : ~Signals(p)
  /\ \A p \in Producers : Signals(p) => emptyLocked
  /\ ~emptyLocked => queue # <<>>
  /\ \A p \in Producers : /\ pc[p] = "pushBack" => (emptyBefore[p] <=> queue = <<>>)
                          /\ pc[p] = "pushSignal" => queue # <<>>

ControlInv == TypeOK /\ AccessInv /\ RoleInv /\ TokenInv /\ NeverPopEmpty

IInv == ControlInv /\ CountExact /\ ServedOnce

USE DEF Goto, LockAccess, UnlockAccess, Threads

LEMMA InitInv == Init => IInv
<1> SUFFICES ASSUME Init PROVE IInv
  OBVIOUS
<1>1. ControlInv
  BY ConstantsAssumption DEF Init, ControlInv, TypeOK, AccessInv, AccessSection, RoleInv,
     TokenInv, Past, Signals, NeverPopEmpty, InPush, InPop
<1>2. CountExact
  <2>1. Waiting = {}
    BY DEF Init, Waiting
  <2> QED
    BY <2>1, FS_EmptySet DEF Init, CountExact
<1>3. ServedOnce
  BY DEF Init, ServedOnce, ItemsInQueue
<1> QED
  BY <1>1, <1>2, <1>3 DEF IInv

LEMMA TypeStep ==
  ASSUME IInv, [Next]_vars
  PROVE  TypeOK'
<1>0. \A c \in Consumers : pc[c] = "popLeave" => nrWaiting - 1 \in Nat
  <2> SUFFICES ASSUME NEW c \in Consumers, pc[c] = "popLeave" PROVE nrWaiting - 1 \in Nat
    OBVIOUS
  <2>1. c \in Waiting /\ IsFiniteSet(Waiting)
    BY ConstantsAssumption, FS_Subset DEF Waiting
  <2>2. Cardinality(Waiting) \in Nat /\ Cardinality(Waiting) # 0
    BY <2>1, FS_CardinalityType, FS_EmptySet
  <2> QED
    BY <2>2 DEF IInv, CountExact
<1> USE ConstantsAssumption
    DEF IInv, ControlInv, TypeOK, RoleInv, InPush, InPop
<1>1. CASE UNCHANGED vars
  BY <1>1 DEF vars
<1>2. ASSUME NEW p \in Producers, NEW i \in Items, CallPush(p, i)
      PROVE  TypeOK'
  BY <1>2 DEF CallPush
<1>3. ASSUME NEW p \in Producers, PushStep(p)
      PROVE  TypeOK'
  <2>1. CASE PushBack(p)
    BY <2>1 DEF PushBack
  <2>2. CASE PushLock(p) \/ PushLook(p) \/ PushSignal(p) \/ PushUnlock(p)
    BY ZenonT(30), <2>2 DEF PushLock, PushLook, PushSignal, PushUnlock
  <2> QED
    BY <1>3, <2>1, <2>2 DEF PushStep
<1>4. ASSUME NEW c \in Consumers, CallPop(c)
      PROVE  TypeOK'
  BY <1>4 DEF CallPop
<1>5. ASSUME NEW c \in Consumers, PopFront(c)
      PROVE  TypeOK'
  BY <1>5 DEF PopFront
<1>6. ASSUME NEW c \in Consumers, PopLeave(c)
      PROVE  TypeOK'
  BY <1>0, <1>6 DEF PopLeave
<1>7. ASSUME NEW c \in Consumers, PopWait(c) \/ PopLock(c) \/ PopSignal(c) \/ PopUnlock(c)
      PROVE  TypeOK'
  BY <1>7 DEF PopWait, PopLock, PopSignal, PopUnlock
<1> QED
  BY <1>1, <1>2, <1>3, <1>4, <1>5, <1>6, <1>7 DEF Next, PopStep

LEMMA ControlStep ==
  ASSUME IInv, [Next]_vars
  PROVE  AccessInv' /\ RoleInv' /\ TokenInv' /\ NeverPopEmpty'
<1> DEFINE Goal == AccessInv' /\ RoleInv' /\ TokenInv' /\ NeverPopEmpty'
<1> USE ConstantsAssumption
    DEF IInv, ControlInv, TypeOK, AccessInv, AccessSection, RoleInv, TokenInv, Past,
        Signals, NeverPopEmpty, InPush, InPop
<1>1. CASE UNCHANGED vars
  BY <1>1 DEF vars
<1>2. ASSUME NEW p \in Producers, NEW i \in Items, CallPush(p, i) PROVE Goal
  BY <1>2 DEF CallPush
<1>3. ASSUME NEW p \in Producers, PushLock(p) PROVE Goal
  BY <1>3 DEF PushLock
<1>4. ASSUME NEW p \in Producers, PushLook(p) PROVE Goal
  BY ZenonT(30), <1>4 DEF PushLook
<1>5. ASSUME NEW p \in Producers, PushBack(p) PROVE Goal
  BY <1>5 DEF PushBack
<1>6. ASSUME NEW p \in Producers, PushSignal(p) PROVE Goal
  BY <1>6 DEF PushSignal
<1>7. ASSUME NEW p \in Producers, PushUnlock(p) PROVE Goal
  BY <1>7 DEF PushUnlock
<1>8. ASSUME NEW c \in Consumers, CallPop(c) PROVE Goal
  BY <1>8 DEF CallPop
<1>9. ASSUME NEW c \in Consumers, PopWait(c) PROVE Goal
  BY <1>9 DEF PopWait
<1>10. ASSUME NEW c \in Consumers, PopLock(c) PROVE Goal
  BY <1>10 DEF PopLock
<1>11. ASSUME NEW c \in Consumers, PopFront(c) PROVE Goal
  BY <1>11 DEF PopFront
<1>12. ASSUME NEW c \in Consumers, PopLeave(c) PROVE Goal
  BY <1>12 DEF PopLeave
<1>13. ASSUME NEW c \in Consumers, PopSignal(c) PROVE Goal
  BY <1>13 DEF PopSignal
<1>14. ASSUME NEW c \in Consumers, PopUnlock(c) PROVE Goal
  BY <1>14 DEF PopUnlock
<1> QED
  BY <1>1, <1>2, <1>3, <1>4, <1>5, <1>6, <1>7, <1>8, <1>9, <1>10, <1>11, <1>12,
     <1>13, <1>14 DEF Next, PushStep, PopStep

LEMMA CountStep ==
  ASSUME IInv, [Next]_vars
  PROVE  CountExact'
<1>0. nrWaiting = Cardinality(Waiting) /\ IsFiniteSet(Waiting)
  BY ConstantsAssumption, FS_Subset DEF IInv, CountExact, Waiting
<1>1. ASSUME UNCHANGED nrWaiting,
             \A c \in Consumers : c \in Waiting' <=> c \in Waiting
      PROVE  CountExact'
  <2>1. Waiting' = Waiting
    BY <1>1 DEF Waiting
  <2> QED
    BY <1>0, <1>1, <2>1 DEF CountExact
<1> USE ConstantsAssumption DEF IInv, ControlInv, TypeOK
<1>2. CASE UNCHANGED vars
  BY <1>1, <1>2 DEF vars, Waiting
<1>3. ASSUME NEW p \in Producers, PushStep(p) \/ \E i \in Items : CallPush(p, i)
      PROVE  CountExact'
  BY <1>1, <1>3
     DEF PushStep, PushLock, PushLook, PushBack, PushSignal, PushUnlock, CallPush, Waiting
<1>4. ASSUME NEW c \in Consumers,
             PopWait(c) \/ PopLock(c) \/ PopFront(c) \/ PopSignal(c) \/ PopUnlock(c)
      PROVE  CountExact'
  BY <1>1, <1>4 DEF PopWait, PopLock, PopFront, PopSignal, PopUnlock, Waiting
<1>5. ASSUME NEW c \in Consumers, CallPop(c)
      PROVE  CountExact'
  <2>1. Waiting' = Waiting \union {c} /\ c \notin Waiting
    BY <1>5 DEF CallPop, Waiting
  <2>2. Cardinality(Waiting \union {c}) = Cardinality(Waiting) + 1
    BY <1>0, <2>1, FS_AddElement
  <2> QED
    BY <1>0, <1>5, <2>1, <2>2 DEF CallPop, CountExact
<1>6. ASSUME NEW c \in Consumers, PopLeave(c)
      PROVE  CountExact'
  <2>1. Waiting' = Waiting \ {c} /\ c \in Waiting
    BY <1>6 DEF PopLeave, Waiting
  <2>2. Cardinality(Waiting \ {c}) = Cardinality(Waiting) - 1
    BY <1>0, <2>1, FS_RemoveElement
  <2> QED
    BY <1>0, <1>6, <2>1, <2>2 DEF PopLeave, CountExact
<1> QED
  BY <1>2, <1>3, <1>4, <1>5, <1>6 DEF Next, PopStep

LEMMA ServedStep ==
  ASSUME IInv, [Next]_vars
  PROVE  ServedOnce'
<1> USE ConstantsAssumption
    DEF IInv, ControlInv, TypeOK, RoleInv, ServedOnce, ItemsInQueue
<1>1. CASE UNCHANGED vars
  BY <1>1 DEF vars
<1>2. ASSUME NEW p \in Producers, NEW i \in Items, CallPush(p, i)
      PROVE  ServedOnce'
  BY <1>2 DEF CallPush, Open
<1>3. ASSUME NEW p \in Producers, PushBack(p)
      PROVE  ServedOnce'
  <2>1. PICK i \in Items : i = item[p]
    BY <1>3 DEF PushBack
  <2>2. /\ queue' = Append(queue, i) /\ item' = [item EXCEPT ![p] = NoItem]
        /\ \A k \in DOMAIN queue : queue[k] # i
        /\ \A t \in Threads : t # p => item[t] # i
    BY <1>3, <2>1 DEF PushBack
  <2>3. /\ Len(queue) \in Nat /\ DOMAIN queue = 1..Len(queue)
        /\ DOMAIN queue' = 1..(Len(queue) + 1)
        /\ queue'[Len(queue) + 1] = i
        /\ \A k \in 1..Len(queue) : queue'[k] = queue[k]
    BY <2>2
  <2>4. \A k \in DOMAIN queue' : k \in DOMAIN queue \/ k = Len(queue) + 1
    BY <2>3
  <2>5. \A t \in Threads : item'[t] \notin {queue'[k] : k \in DOMAIN queue'}
    BY <2>1, <2>2, <2>3, <2>4
  <2>6. \A k, l \in DOMAIN queue' : queue'[k] = queue'[l] => k = l
    BY <2>2, <2>3, <2>4
  <2> QED
    BY <2>2, <2>5, <2>6
<1>4. ASSUME NEW p \in Producers, PushLock(p) \/ PushLook(p) \/ PushSignal(p) \/ PushUnlock(p)
      PROVE  ServedOnce'
  BY <1>4 DEF PushLock, PushLook, PushSignal, PushUnlock
<1>5. ASSUME NEW c \in Consumers, CallPop(c)
      PROVE  ServedOnce'
  BY <1>5 DEF CallPop
<1>6. ASSUME NEW c \in Consumers, PopFront(c)
      PROVE  ServedOnce'
  <2>1. /\ queue # <<>> /\ queue' = Tail(queue)
        /\ item' = [item EXCEPT ![c] = Head(queue)]
    BY <1>6 DEF PopFront
  <2>2. /\ Len(queue) \in Nat \ {0} /\ DOMAIN queue = 1..Len(queue)
        /\ DOMAIN queue' = 1..(Len(queue) - 1)
        /\ \A k \in DOMAIN queue' : queue'[k] = queue[k + 1] /\ k + 1 \in DOMAIN queue /\ k + 1 # 1
        /\ Head(queue) = queue[1] /\ 1 \in DOMAIN queue
    BY <2>1
  <2>3. \A k, l \in DOMAIN queue' : queue'[k] = queue'[l] => k = l
    BY <2>2
  <2>4. \A t \in Threads : item'[t] \notin {queue'[k] : k \in DOMAIN queue'}
    <3>1. PICK h : h = Head(queue)
      OBVIOUS
    <3>2. \A k \in DOMAIN queue' : queue'[k] # h
      BY <2>2, <3>1
    <3>3. \A t \in Threads : item'[t] = h \/ item'[t] = item[t]
      BY <2>1, <3>1
    <3>4. \A t \in Threads, k \in DOMAIN queue' : queue'[k] # item[t]
      BY <2>2
    <3> QED
      BY <3>2, <3>3, <3>4
  <2>5. \A t, u \in Threads : item'[t] = item'[u] /\ item'[t] # NoItem => t = u
    BY <2>1, <2>2
  <2> QED
    BY <2>3, <2>4, <2>5
<1>7. ASSUME NEW c \in Consumers,
             PopWait(c) \/ PopLock(c) \/ PopLeave(c) \/ PopSignal(c) \/ PopUnlock(c)
      PROVE  ServedOnce'
  BY <1>7 DEF PopWait, PopLock, PopLeave, PopSignal, PopUnlock
<1> QED
  BY <1>1, <1>2, <1>3, <1>4, <1>5, <1>6, <1>7 DEF Next, PushStep, PopStep

(***************************************************************************)
(* The theorems                                                            *)
(***************************************************************************)
\* The inductive invariant holds of every reachable state.
LEMMA Inductive == Spec => []IInv
<1>1. IInv /\ [Next]_vars => IInv'
  BY TypeStep, ControlStep, CountStep, ServedStep DEF IInv, ControlInv
<1> QED
  BY <1>1, InitInv, PTL DEF Spec

\* The state is well typed; in particular _nrWaitingThreads, an unsigned
\* count, never goes below zero.
THEOREM TypeCorrect == Spec => []TypeOK
<1>1. IInv => TypeOK
  BY DEF IInv, ControlInv
<1> QED
  BY <1>1, Inductive, PTL

\* front() is never called on an empty deque.
THEOREM FrontIsSafe == Spec => []NeverPopEmpty
<1>1. IInv => NeverPopEmpty
  BY DEF IInv, ControlInv
<1> QED
  BY <1>1, Inductive, PTL

\* The count of waiting threads is exact at every moment.
THEOREM CountIsExact == Spec => []CountExact
<1>1. IInv => CountExact
  BY DEF IInv
<1> QED
  BY <1>1, Inductive, PTL

\* No socket is served twice.
THEOREM SocketsServedOnce == Spec => []ServedOnce
<1>1. IInv => ServedOnce
  BY DEF IInv
<1> QED
  BY <1>1, Inductive, PTL

(***************************************************************************)
(* Refinement                                                              *)
(***************************************************************************)
\* Only the thread that has locked _accessMutex shifts the abstract queue.
ItemsValue ==
  /\ \A c \in Consumers : pc[c] = "popLeave" => items = <<item[c]>> \o queue
  /\ \A p \in Producers : pc[p] = "pushBack" => items = Append(queue, item[p])
  /\ (\A t \in Threads : pc[t] \notin {"popLeave", "pushBack"}) => items = queue

LEMMA ItemsAre == IInv => ItemsValue
BY ConstantsAssumption
   DEF IInv, ControlInv, AccessInv, AccessSection, RoleInv, InPush, InPop, items, At,
       ItemsValue

\* The result of pop as the callers see it.
Result(c) == IF pc[c] = "popLeave" THEN NoItem ELSE item[c]

LEMMA ResultsAre ==
  IInv => [c \in Consumers |-> IF At(c, "popLeave") THEN NoItem ELSE item[c]]
          = [c \in Consumers |-> Result(c)]
BY DEF IInv, ControlInv, AccessInv, AccessSection, At, Result

\* Every step of the code pushes at the look, begins or ends a pop at the
\* count, or leaves the abstract queue as it is.
THEOREM Refinement == Spec => ImplementsFifoQueue
<1>1. Init => Abstract!Init
  BY DEF Init, Abstract!Init, Waiting, items, At
<1>2. IInv /\ IInv' /\ [Next]_vars => [Abstract!Next]_Abstract!vars
  <2>1. IInv' => ItemsValue'
    BY ItemsAre, PTL
  <2>2. IInv' => ([c \in Consumers |-> IF At(c, "popLeave") THEN NoItem ELSE item[c]]
                  = [c \in Consumers |-> Result(c)])'
    BY ResultsAre, PTL
  <2> DEFINE res == [c \in Consumers |-> IF At(c, "popLeave") THEN NoItem ELSE item[c]]
  <2> SUFFICES ASSUME IInv, IInv', [Next]_vars
               PROVE  [Abstract!Next]_Abstract!vars
    OBVIOUS
  <2>3. ItemsValue /\ ItemsValue'
    BY <2>1, ItemsAre
  <2>4. res = [c \in Consumers |-> Result(c)] /\ res' = [c \in Consumers |-> Result(c)']
    BY <2>2, ResultsAre
  <2> HIDE DEF res
  <2> USE ConstantsAssumption
      DEF IInv, ControlInv, TypeOK, AccessInv, AccessSection, RoleInv, InPush, InPop
  <2>5. ASSUME items' = items, Waiting' = Waiting, waitingBefore' = waitingBefore,
               \A c \in Consumers : Result(c)' = Result(c)
        PROVE  UNCHANGED Abstract!vars
    <3>1. res' = res
      BY <2>4, <2>5
    <3> QED
      BY <2>5, <3>1 DEF Abstract!vars, res
  <2>6. CASE UNCHANGED vars
    BY <2>6 DEF vars, Abstract!vars, Waiting, items, At
  <2>7. ASSUME NEW p \in Producers, PushLook(p)
        PROVE  \E i \in Items : Abstract!Push(p, i)
    <3>1. item[p] \in Items
      BY <2>7 DEF PushLook
    <3>2. items = queue /\ items' = Append(queue, item[p])
      BY <2>3, <2>7 DEF PushLook, ItemsValue
    <3>3. Waiting' = Waiting
      BY <2>7 DEF PushLook, Waiting
    <3>4. \A c \in Consumers : Result(c)' = Result(c)
      BY <2>7 DEF PushLook, Result
    <3>5. res' = res
      BY <2>4, <3>4
    <3>6. nrWaiting # 0 <=> Waiting # {}
      BY FS_Subset, FS_EmptySet DEF CountExact, Waiting
    <3>7. waitingBefore' = [waitingBefore EXCEPT ![p] = (Waiting # {})]
      BY <2>7, <3>6 DEF PushLook
    <3> QED
      BY <3>1, <3>2, <3>3, <3>5, <3>7 DEF Abstract!Push, res
  <2>8. ASSUME NEW p \in Producers, NEW i \in Items, CallPush(p, i)
        PROVE  UNCHANGED Abstract!vars
    <3>1. \A c \in Consumers : Result(c)' = Result(c)
      BY <2>8 DEF CallPush, Result
    <3>2. items' = items
      BY <2>8 DEF CallPush, items, At
    <3> QED
      BY <2>5, <2>8, <3>1, <3>2 DEF CallPush, Waiting
  <2>9. ASSUME NEW p \in Producers, PushBack(p)
        PROVE  UNCHANGED Abstract!vars
    <3>1. \A c \in Consumers : Result(c)' = Result(c)
      BY <2>9 DEF PushBack, Result
    <3>2. items' = items
      BY ZenonT(30), <2>3, <2>9 DEF PushBack, ItemsValue
    <3> QED
      BY <2>5, <2>9, <3>1, <3>2 DEF PushBack, Waiting
  <2>10. ASSUME NEW p \in Producers, PushLock(p) \/ PushSignal(p) \/ PushUnlock(p)
         PROVE  UNCHANGED Abstract!vars
    <3>1. \A c \in Consumers : Result(c)' = Result(c)
      BY <2>10 DEF PushLock, PushSignal, PushUnlock, Result
    <3>2. items' = items
      BY <2>3, <2>10 DEF PushLock, PushSignal, PushUnlock, ItemsValue
    <3>3. waitingBefore' = waitingBefore /\ Waiting' = Waiting
      BY <2>10 DEF PushLock, PushSignal, PushUnlock, Waiting
    <3> QED
      BY <2>5, <3>1, <3>2, <3>3
  <2>11. ASSUME NEW c \in Consumers, CallPop(c)
         PROVE  Abstract!BeginPop(c)
    <3>1. \A d \in Consumers : Result(d)' = IF d = c THEN NoItem ELSE Result(d)
      BY <2>11 DEF CallPop, Result
    <3>2. res' = [res EXCEPT ![c] = NoItem]
      BY <2>4, <3>1
    <3>3. items' = items
      BY <2>11 DEF CallPop, items, At
    <3>4. c \notin Waiting /\ Waiting' = Waiting \union {c}
      BY <2>11 DEF CallPop, Waiting
    <3>5. waitingBefore' = waitingBefore
      BY <2>11 DEF CallPop
    <3> QED
      BY <3>2, <3>3, <3>4, <3>5 DEF Abstract!BeginPop, res
  <2>12. ASSUME NEW c \in Consumers, PopLeave(c)
         PROVE  Abstract!EndPop(c)
    <3>1. item[c] \in Items /\ queue \in Seq(Items)
      BY <2>12 DEF PopLeave
    <3>2. items = <<item[c]>> \o queue /\ items' = queue
      BY <2>3, <2>12 DEF PopLeave, ItemsValue
    <3>3. items # <<>> /\ Head(items) = item[c] /\ Tail(items) = queue
      BY <3>1, <3>2
    <3>4. \A d \in Consumers : Result(d)' = IF d = c THEN item[c] ELSE Result(d)
      BY <2>12 DEF PopLeave, Result
    <3>5. res' = [res EXCEPT ![c] = Head(items)]
      BY <2>4, <3>3, <3>4
    <3>6. c \in Waiting /\ Waiting' = Waiting \ {c} /\ waitingBefore' = waitingBefore
      BY <2>12 DEF PopLeave, Waiting
    <3> QED
      BY <3>2, <3>3, <3>5, <3>6 DEF Abstract!EndPop, res
  <2>13. ASSUME NEW c \in Consumers, PopFront(c)
         PROVE  UNCHANGED Abstract!vars
    <3>1. /\ queue # <<>> /\ queue \in Seq(Items) /\ queue' = Tail(queue)
          /\ pc[c] = "popFront" /\ pc'[c] = "popLeave" /\ item'[c] = Head(queue)
      BY <2>13 DEF PopFront
    <3>2. items = queue
      BY <2>3, <2>13, <3>1 DEF ItemsValue
    <3>3. items' = <<Head(queue)>> \o Tail(queue)
      BY <2>3, <3>1 DEF ItemsValue
    <3>4. <<Head(queue)>> \o Tail(queue) = queue
      BY <3>1
    <3>5. \A d \in Consumers : Result(d)' = Result(d)
      BY <2>13 DEF PopFront, Result
    <3>6. Waiting' = Waiting /\ waitingBefore' = waitingBefore
      BY <2>13 DEF PopFront, Waiting
    <3> QED
      BY <2>5, <3>2, <3>3, <3>4, <3>5, <3>6
  <2>14. ASSUME NEW c \in Consumers,
                PopWait(c) \/ PopLock(c) \/ PopSignal(c) \/ PopUnlock(c)
         PROVE  UNCHANGED Abstract!vars
    <3>1. \A d \in Consumers : Result(d)' = Result(d)
      BY <2>14 DEF PopWait, PopLock, PopSignal, PopUnlock, Result
    <3>2. waitingBefore' = waitingBefore /\ Waiting' = Waiting
      BY <2>14 DEF PopWait, PopLock, PopSignal, PopUnlock, Waiting
    <3>3. CASE PopWait(c)
      <4>1. items' = items
        BY <3>3 DEF PopWait, items, At
      <4> QED
        BY <2>5, <3>1, <3>2, <4>1
    <3>4. CASE PopLock(c) \/ PopSignal(c) \/ PopUnlock(c)
      <4>1. items' = items
        BY <2>3, <3>4 DEF PopLock, PopSignal, PopUnlock, ItemsValue
      <4> QED
        BY <2>5, <3>1, <3>2, <4>1
    <3> QED
      BY <2>14, <3>3, <3>4
  <2> QED
    BY <2>6, <2>7, <2>8, <2>9, <2>10, <2>11, <2>12, <2>13, <2>14
       DEF Next, PushStep, PopStep, Abstract!Next
<1> QED
  BY <1>1, <1>2, Inductive, PTL DEF Spec, Abstract!Spec, ImplementsFifoQueue
=============================================================================
