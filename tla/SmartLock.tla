----------------------------- MODULE SmartLock -----------------------------
(***************************************************************************)
(* engine/smartlock.{h,cpp}: a lock for any object, found by its address.  *)
(* The mutex of an address is made by the first thread that asks for it    *)
(* and destroyed by the last one that leaves; the map of mutexes and their *)
(* reference counts are guarded by one global mutex, itself made by the    *)
(* first caller without any guard.                                         *)
(*                                                                         *)
(* Every lock, unlock, read or write of shared memory is a step, so the    *)
(* threads interleave as finely as the code lets them.                     *)
(***************************************************************************)
EXTENDS Naturals, FiniteSets

CONSTANTS Threads,      \* threads of the server that take SmartLocks
          Pointers,     \* addresses of the data they lock
          Mutexes,      \* heap cells a pthread_mutex_t may be allocated in
          Rank,         \* order in which the engine nests the locks
          FirstUsers,   \* threads that may call while _globalMutex is NULL
          Nobody, Unallocated, NoMutex, NoPointer, NoGlobal

ASSUME ConstantsAssumption ==
  /\ Rank \in [Pointers -> Nat]
  /\ FirstUsers \subseteq Threads
  /\ IsFiniteSet(Threads)
  /\ {Nobody, Unallocated} \intersect Threads = {}
  /\ Nobody # Unallocated
  /\ NoMutex \notin Mutexes
  /\ NoPointer \notin Pointers
  /\ NoGlobal \notin Threads

VARIABLES
  globalMutex,   \* _globalMutex: NULL, or the mutex made by that thread
  globalOwner,   \* globalOwner[t]: who has locked the global mutex t made
  mutexes,       \* _mutexes: the mutex of each address in use
  nrWaiting,     \* _nrWaiting: threads that wait for or hold the address
  mutexOwner,    \* state of each heap cell: who has locked it
  pc,            \* where each thread is in lockPointer or unlockPointer
  ptr,           \* the argument v of the call in progress
  m,             \* the local variable m of the call in progress
  held           \* held[t]: addresses of the live SmartLock objects of t

vars == <<globalMutex, globalOwner, mutexes, nrWaiting, mutexOwner,
          pc, ptr, m, held>>

heap == <<mutexes, nrWaiting, mutexOwner>>

Init == /\ globalMutex = NoGlobal
        /\ globalOwner = [t \in Threads |-> Nobody]
        /\ mutexes = [p \in Pointers |-> NoMutex]
        /\ nrWaiting = [p \in Pointers |-> 0]
        /\ mutexOwner = [x \in Mutexes |-> Unallocated]
        /\ pc = [t \in Threads |-> "idle"]
        /\ ptr = [t \in Threads |-> NoPointer]
        /\ m = [t \in Threads |-> NoMutex]
        /\ held = [t \in Threads |-> {}]

Goto(t, from, to) == pc[t] = from /\ pc' = [pc EXCEPT ![t] = to]

(***************************************************************************)
(* lockPointer                                                             *)
(***************************************************************************)
\* The callers nest locks in one order only: a RenderingRecord, then the
\* data of a page, then its stamps, then the dispatcher's counter; no caller
\* locks an address it already holds.
Nests(t, p) == \A q \in held[t] : Rank[q] < Rank[p]

\* SmartLock lock(data): the constructor enters lockPointer(&data).
Construct(t, p) ==
  /\ Goto(t, "idle", "check")
  /\ Nests(t, p)
  /\ globalMutex = NoGlobal => t \in FirstUsers
  /\ ptr' = [ptr EXCEPT ![t] = p]
  /\ UNCHANGED <<globalMutex, globalOwner, heap, m, held>>

\* if ( _globalMutex == NULL )
CheckGlobal(t) ==
  /\ pc[t] = "check"
  /\ pc' = [pc EXCEPT ![t] = IF globalMutex = NoGlobal THEN "create"
                                                       ELSE "lockGlobal"]
  /\ UNCHANGED <<globalMutex, globalOwner, heap, ptr, m, held>>

\* _globalMutex = newMutex
CreateGlobal(t) ==
  /\ Goto(t, "create", "lockGlobal")
  /\ globalMutex' = t
  /\ UNCHANGED <<globalOwner, heap, ptr, m, held>>

\* pthread_mutex_lock(_globalMutex), in either function
AcquireGlobal(t) ==
  /\ globalMutex # NoGlobal
  /\ globalOwner[globalMutex] = Nobody
  /\ globalOwner' = [globalOwner EXCEPT ![globalMutex] = t]

\* pthread_mutex_unlock(_globalMutex): the variable is read again, and the
\* mutex it names is unlocked whoever has locked it
ReleaseGlobal == globalOwner' = [globalOwner EXCEPT ![globalMutex] = Nobody]

LockGlobal(t) ==
  /\ Goto(t, "lockGlobal", "find")
  /\ AcquireGlobal(t)
  /\ UNCHANGED <<globalMutex, heap, ptr, m, held>>

\* A mutex for every caller, even if the address has one.
FindOrCreate_NoLookup(t) ==
  /\ Goto(t, "find", "unlockGlobal")
  /\ \E x \in Mutexes :
        /\ mutexOwner[x] = Unallocated
        /\ mutexOwner' = [mutexOwner EXCEPT ![x] = Nobody]
        /\ mutexes' = [mutexes EXCEPT ![ptr[t]] = x]
        /\ m' = [m EXCEPT ![t] = x]
  /\ nrWaiting' = [nrWaiting EXCEPT ![ptr[t]] = @ + 1]
  /\ UNCHANGED <<globalMutex, globalOwner, ptr, held>>

\* The thread that makes the mutex is not counted.
FindOrCreate_CountFound(t) ==
  /\ Goto(t, "find", "unlockGlobal")
  /\ \/ /\ mutexes[ptr[t]] = NoMutex
        /\ \E x \in Mutexes :
              /\ mutexOwner[x] = Unallocated
              /\ mutexOwner' = [mutexOwner EXCEPT ![x] = Nobody]
              /\ mutexes' = [mutexes EXCEPT ![ptr[t]] = x]
              /\ m' = [m EXCEPT ![t] = x]
        /\ UNCHANGED nrWaiting
     \/ /\ mutexes[ptr[t]] # NoMutex
        /\ m' = [m EXCEPT ![t] = mutexes[ptr[t]]]
        /\ nrWaiting' = [nrWaiting EXCEPT ![ptr[t]] = @ + 1]
        /\ UNCHANGED <<mutexOwner, mutexes>>
  /\ UNCHANGED <<globalMutex, globalOwner, ptr, held>>

\* Find the mutex of the address or make one, and count the caller.
FindOrCreate(t) ==
  /\ Goto(t, "find", "unlockGlobal")
  /\ \/ /\ mutexes[ptr[t]] = NoMutex
        /\ \E x \in Mutexes :
              /\ mutexOwner[x] = Unallocated
              /\ mutexOwner' = [mutexOwner EXCEPT ![x] = Nobody]
              /\ mutexes' = [mutexes EXCEPT ![ptr[t]] = x]
              /\ m' = [m EXCEPT ![t] = x]
     \/ /\ mutexes[ptr[t]] # NoMutex
        /\ m' = [m EXCEPT ![t] = mutexes[ptr[t]]]
        /\ UNCHANGED <<mutexOwner, mutexes>>
  /\ nrWaiting' = [nrWaiting EXCEPT ![ptr[t]] = @ + 1]
  /\ UNCHANGED <<globalMutex, globalOwner, ptr, held>>

UnlockGlobal(t) ==
  /\ Goto(t, "unlockGlobal", "lockMutex")
  /\ ReleaseGlobal
  /\ UNCHANGED <<globalMutex, heap, ptr, m, held>>

\* pthread_mutex_lock(m): outside the global mutex, so the thread may sleep
\* here for as long as the address is locked.
LockMutex(t) ==
  /\ Goto(t, "lockMutex", "idle")
  /\ mutexOwner[m[t]] = Nobody
  /\ mutexOwner' = [mutexOwner EXCEPT ![m[t]] = t]
  /\ held' = [held EXCEPT ![t] = @ \union {ptr[t]}]
  /\ ptr' = [ptr EXCEPT ![t] = NoPointer]
  /\ m' = [m EXCEPT ![t] = NoMutex]
  /\ UNCHANGED <<globalMutex, globalOwner, mutexes, nrWaiting>>

(***************************************************************************)
(* unlockPointer                                                           *)
(***************************************************************************)
\* The SmartLock goes out of scope: scopes end in the reverse order.
Destruct(t, p) ==
  /\ Goto(t, "idle", "relockGlobal")
  /\ p \in held[t]
  /\ \A q \in held[t] \ {p} : Rank[q] < Rank[p]
  /\ held' = [held EXCEPT ![t] = @ \ {p}]
  /\ ptr' = [ptr EXCEPT ![t] = p]
  /\ UNCHANGED <<globalMutex, globalOwner, heap, m>>

RelockGlobal(t) ==
  /\ Goto(t, "relockGlobal", "unlockMutex")
  /\ AcquireGlobal(t)
  /\ UNCHANGED <<globalMutex, heap, ptr, m, held>>

\* m = _mutexes[v]; pthread_mutex_unlock(m)
UnlockMutex(t) ==
  /\ Goto(t, "unlockMutex", "drop")
  /\ mutexes[ptr[t]] # NoMutex
  /\ m' = [m EXCEPT ![t] = mutexes[ptr[t]]]
  /\ mutexOwner' = [mutexOwner EXCEPT ![mutexes[ptr[t]]] = Nobody]
  /\ UNCHANGED <<globalMutex, globalOwner, mutexes, nrWaiting, ptr, held>>

\* The mutex is destroyed although other threads count on it.
DropReference_Always(t) ==
  /\ Goto(t, "drop", "reunlockGlobal")
  /\ nrWaiting' = [nrWaiting EXCEPT ![ptr[t]] = @ - 1]
  /\ mutexOwner' = [mutexOwner EXCEPT ![m[t]] = Unallocated]
  /\ mutexes' = [mutexes EXCEPT ![ptr[t]] = NoMutex]
  /\ m' = [m EXCEPT ![t] = NoMutex]
  /\ UNCHANGED <<globalMutex, globalOwner, ptr, held>>

\* _nrWaiting[v]--, and the last one out destroys the mutex.
DropReference(t) ==
  /\ Goto(t, "drop", "reunlockGlobal")
  /\ nrWaiting' = [nrWaiting EXCEPT ![ptr[t]] = @ - 1]
  /\ \/ /\ nrWaiting[ptr[t]] = 1
        /\ mutexOwner' = [mutexOwner EXCEPT ![m[t]] = Unallocated]
        /\ mutexes' = [mutexes EXCEPT ![ptr[t]] = NoMutex]
     \/ /\ nrWaiting[ptr[t]] # 1
        /\ UNCHANGED <<mutexOwner, mutexes>>
  /\ m' = [m EXCEPT ![t] = NoMutex]
  /\ UNCHANGED <<globalMutex, globalOwner, ptr, held>>

ReunlockGlobal(t) ==
  /\ Goto(t, "reunlockGlobal", "idle")
  /\ ReleaseGlobal
  /\ ptr' = [ptr EXCEPT ![t] = NoPointer]
  /\ UNCHANGED <<globalMutex, heap, m, held>>

(***************************************************************************)
(* The specification                                                       *)
(***************************************************************************)
\* The steps a thread takes once it has entered one of the functions.
Step(t) == \/ CheckGlobal(t) \/ CreateGlobal(t) \/ LockGlobal(t)
           \/ FindOrCreate(t) \/ UnlockGlobal(t) \/ LockMutex(t)
           \/ RelockGlobal(t) \/ UnlockMutex(t) \/ DropReference(t)
           \/ ReunlockGlobal(t)

Next == \E t \in Threads :
          \/ Step(t)
          \/ \E p \in Pointers : Construct(t, p) \/ Destruct(t, p)

Spec == Init /\ [][Next]_vars

\* A runnable thread is scheduled.  Nothing is assumed of the order in which
\* a mutex is handed to the threads that compete for it.
Fairness == \A t \in Threads : WF_vars(Step(t))

FairSpec == Spec /\ Fairness

(***************************************************************************)
(* Properties                                                              *)
(***************************************************************************)
TypeOK ==
  /\ globalMutex \in Threads \union {NoGlobal}
  /\ globalOwner \in [Threads -> Threads \union {Nobody}]
  /\ mutexes \in [Pointers -> Mutexes \union {NoMutex}]
  /\ nrWaiting \in [Pointers -> Nat]
  /\ mutexOwner \in [Mutexes -> Threads \union {Nobody, Unallocated}]
  /\ pc \in [Threads -> {"idle", "check", "create", "lockGlobal", "find",
                         "unlockGlobal", "lockMutex", "relockGlobal",
                         "unlockMutex", "drop", "reunlockGlobal"}]
  /\ ptr \in [Threads -> Pointers \union {NoPointer}]
  /\ m \in [Threads -> Mutexes \union {NoMutex}]
  /\ held \in [Threads -> SUBSET Pointers]

\* The code between the "// global lock" and "// global unlock" comments.
InGlobalSection(t) == pc[t] \in {"find", "unlockGlobal", "unlockMutex", "drop",
                                 "reunlockGlobal"}

\* Only one thread at a time is between "// global lock" and "// global
\* unlock" (smartlock.cpp:37-49 and 56-68), where the maps are changed.
GlobalExclusion ==
  \A t, u \in Threads : InGlobalSection(t) /\ InGlobalSection(u) => t = u

\* Two SmartLocks of the same object are never alive in two threads at once,
\* however often its mutex has been destroyed and made again in between.
MutualExclusion ==
  \A t, u \in Threads : t # u => held[t] \intersect held[u] = {}

\* Threads that refer to the mutex of p: they are between the increment and
\* the decrement of _nrWaiting[p].
Refers(t, p) == \/ p \in held[t]
                \/ /\ ptr[t] = p
                   /\ pc[t] \in {"unlockGlobal", "lockMutex", "relockGlobal",
                                 "unlockMutex", "drop"}

Users(p) == {t \in Threads : Refers(t, p)}

\* A thread that sleeps in pthread_mutex_lock(m), outside the global mutex,
\* sleeps on the mutex the map still has for its address: no other thread
\* has deleted it or put another in its place.
NoDanglingMutex ==
  \A t \in Threads : pc[t] \in {"unlockGlobal", "lockMutex"} =>
     /\ m[t] = mutexes[ptr[t]]
     /\ m[t] \in Mutexes
     /\ mutexOwner[m[t]] # Unallocated

\* The counts are exact, and every mutex on the heap is the mutex of exactly
\* one address in use: none leaks, none is shared by two addresses.
CountsExact ==
  /\ \A p \in Pointers : /\ nrWaiting[p] = Cardinality(Users(p))
                         /\ mutexes[p] = NoMutex <=> Users(p) = {}
  /\ \A x \in Mutexes : mutexOwner[x] # Unallocated =>
        \E p \in Pointers : \A q \in Pointers : mutexes[q] = x <=> q = p

\* t sleeps on a mutex that u has locked.
WaitsFor(t, u) == /\ pc[t] = "lockMutex"
                  /\ m[t] \in Mutexes
                  /\ mutexOwner[m[t]] = u

\* The order in which the engine nests its locks keeps the threads from
\* waiting for one another: in any set of threads one can go on.
NoWaitCycle ==
  \A S \in SUBSET Threads : S # {} => \E t \in S : \A u \in S : ~WaitsFor(t, u)

\* A lock that has been given back while threads sleep on it is taken by one
\* of them (or by a newcomer): the wakeup is not lost with the mutex.
Handoff ==
  \A p \in Pointers :
     (/\ \E t \in Threads : pc[t] = "lockMutex" /\ ptr[t] = p
      /\ mutexes[p] \in Mutexes
      /\ mutexOwner[mutexes[p]] = Nobody) ~> (\E t \in Threads : p \in held[t])

\* The address a thread is waiting for: it is asking from the moment it
\* enters lockPointer until it has locked the mutex.
wanted == [t \in Threads |->
             IF pc[t] \in {"check", "create", "lockGlobal", "find",
                           "unlockGlobal", "lockMutex"} THEN ptr[t]
                                                        ELSE NoPointer]

Abstract == INSTANCE PointerLock

\* SmartLock implements a lock per pointer.
ImplementsPointerLock == Abstract!Spec

=============================================================================
