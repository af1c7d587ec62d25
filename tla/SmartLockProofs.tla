-------------------------- MODULE SmartLockProofs --------------------------
(***************************************************************************)
(* SmartLock is safe for any number of threads and addresses, provided one *)
(* thread alone makes the first call (SerialStartup).                      *)
(***************************************************************************)
EXTENDS SmartLock, FiniteSetTheorems, WellFoundedInduction, TLAPS

\* A set of natural numbers that is not empty has a least element.
LEMMA Least ==
  ASSUME NEW T \in SUBSET Nat, T # {}
  PROVE  \E x \in T : \A y \in T : x <= y
<1> DEFINE R == {ss \in Nat \X Nat : ss[1] < ss[2]}
<1>1. IsWellFoundedOn(R, Nat)
  BY NatLessThanWellFounded DEF OpToRel
<1>2. \A x, y \in Nat : y < x => <<y, x>> \in R
  OBVIOUS
<1> HIDE DEF R
<1>3. PICK x \in T : \A y \in T : ~(<<y, x>> \in R)
  BY <1>1, WFMin
<1>4. ASSUME NEW y \in T
      PROVE  x <= y
  <2>1. x \in Nat /\ y \in Nat /\ ~(<<y, x>> \in R)
    BY <1>3
  <2>2. ~(y < x)
    BY <1>2, <2>1
  <2> QED
    BY <2>1, <2>2
<1> QED
  BY <1>4

SerialStartup == \E s \in Threads : FirstUsers = {s}

(***************************************************************************)
(* The inductive invariant                                                 *)
(***************************************************************************)
\* Until the global mutex exists, nothing has happened but in the one thread
\* that is about to make it; it is made once.
StartupInv ==
  /\ globalMutex = NoGlobal => \A t \in Threads :
        /\ pc[t] \in {"idle", "check", "create"}
        /\ pc[t] # "idle" => t \in FirstUsers
        /\ globalOwner[t] = Nobody
        /\ held[t] = {}
  /\ globalMutex # NoGlobal => \A t \in Threads : pc[t] # "create"

\* The thread in the global section is the one that has locked the mutex.
SectionInv ==
  \A t \in Threads : InGlobalSection(t) =>
     globalMutex # NoGlobal /\ globalOwner[globalMutex] = t

\* A call is about an address whose SmartLock is not alive in the caller.
CallInv ==
  \A t \in Threads : pc[t] # "idle" => /\ ptr[t] \in Pointers
                                       /\ ptr[t] \notin held[t]

ControlInv == TypeOK /\ StartupInv /\ SectionInv /\ CallInv

LEMMA ControlInit == Init => ControlInv
BY ConstantsAssumption
   DEF Init, ControlInv, TypeOK, StartupInv, SectionInv, CallInv, InGlobalSection

USE DEF Goto, heap

LEMMA ControlStep ==
  ASSUME SerialStartup, ControlInv, [Next]_vars
  PROVE  StartupInv' /\ SectionInv' /\ CallInv'
<1> USE ConstantsAssumption
    DEF SerialStartup, ControlInv, TypeOK, StartupInv, SectionInv, CallInv, InGlobalSection
<1>1. CASE UNCHANGED vars
  BY <1>1 DEF vars
<1>2. ASSUME NEW t \in Threads, NEW p \in Pointers, Construct(t, p)
      PROVE  StartupInv' /\ SectionInv' /\ CallInv'
  BY <1>2 DEF Construct, Nests
<1>3. ASSUME NEW t \in Threads, CheckGlobal(t)
      PROVE  StartupInv' /\ SectionInv' /\ CallInv'
  BY <1>3 DEF CheckGlobal
<1>4. ASSUME NEW t \in Threads, CreateGlobal(t)
      PROVE  StartupInv' /\ SectionInv' /\ CallInv'
  BY <1>4 DEF CreateGlobal
<1>5. ASSUME NEW t \in Threads, LockGlobal(t)
      PROVE  StartupInv' /\ SectionInv' /\ CallInv'
  BY <1>5 DEF LockGlobal, AcquireGlobal
<1>6. ASSUME NEW t \in Threads, FindOrCreate(t)
      PROVE  StartupInv' /\ SectionInv' /\ CallInv'
  BY <1>6 DEF FindOrCreate
<1>7. ASSUME NEW t \in Threads, UnlockGlobal(t)
      PROVE  StartupInv' /\ SectionInv' /\ CallInv'
  BY <1>7 DEF UnlockGlobal, ReleaseGlobal
<1>8. ASSUME NEW t \in Threads, LockMutex(t)
      PROVE  StartupInv' /\ SectionInv' /\ CallInv'
  BY <1>8 DEF LockMutex
<1>9. ASSUME NEW t \in Threads, NEW p \in Pointers, Destruct(t, p)
      PROVE  StartupInv' /\ SectionInv' /\ CallInv'
  BY <1>9 DEF Destruct
<1>10. ASSUME NEW t \in Threads, RelockGlobal(t)
       PROVE  StartupInv' /\ SectionInv' /\ CallInv'
  BY <1>10 DEF RelockGlobal, AcquireGlobal
<1>11. ASSUME NEW t \in Threads, UnlockMutex(t)
       PROVE  StartupInv' /\ SectionInv' /\ CallInv'
  BY <1>11 DEF UnlockMutex
<1>12. ASSUME NEW t \in Threads, DropReference(t)
       PROVE  StartupInv' /\ SectionInv' /\ CallInv'
  BY <1>12 DEF DropReference
<1>13. ASSUME NEW t \in Threads, ReunlockGlobal(t)
       PROVE  StartupInv' /\ SectionInv' /\ CallInv'
  BY <1>13 DEF ReunlockGlobal, ReleaseGlobal
<1> QED
  BY <1>1, <1>2, <1>3, <1>4, <1>5, <1>6, <1>7, <1>8, <1>9, <1>10, <1>11,
     <1>12, <1>13 DEF Next, Step

(***************************************************************************)
(* The heap                                                                *)
(***************************************************************************)
\* t has locked the mutex of p and not yet unlocked it.
Owns(t, p) == \/ p \in held[t]
              \/ pc[t] \in {"relockGlobal", "unlockMutex"} /\ ptr[t] = p

OwnInv == \A t \in Threads, p \in Pointers :
             Owns(t, p) => mutexOwner[mutexes[p]] = t

\* An address has a mutex while a thread refers to it, and one of its own.
HeapInv ==
  /\ \A p \in Pointers : mutexes[p] = NoMutex <=> \A t \in Threads : ~Refers(t, p)
  /\ \A p \in Pointers : mutexes[p] # NoMutex => mutexOwner[mutexes[p]] # Unallocated
  /\ \A p, q \in Pointers : mutexes[p] = mutexes[q] /\ mutexes[p] # NoMutex => p = q
  /\ \A x \in Mutexes : mutexOwner[x] # Unallocated => \E p \in Pointers : mutexes[p] = x
  /\ \A t \in Threads : pc[t] \in {"unlockGlobal", "lockMutex", "drop"} =>
        m[t] = mutexes[ptr[t]]

CountInv == \A p \in Pointers : nrWaiting[p] = Cardinality(Users(p))

IInv == ControlInv /\ OwnInv /\ HeapInv /\ CountInv

LEMMA HeapInit == Init => OwnInv /\ HeapInv /\ CountInv
<1> SUFFICES ASSUME Init PROVE OwnInv /\ HeapInv /\ CountInv
  OBVIOUS
<1>1. OwnInv /\ HeapInv
  BY ConstantsAssumption DEF Init, OwnInv, Owns, HeapInv, Refers
<1>2. \A p \in Pointers : Users(p) = {}
  BY DEF Init, Users, Refers
<1>3. CountInv
  BY <1>2, FS_EmptySet DEF Init, CountInv
<1> QED
  BY <1>1, <1>3

\* The last thread that refers to an address is the one that finds the count
\* at one.
LEMMA LastUser ==
  ASSUME IInv, NEW t \in Threads, pc[t] = "drop"
  PROVE  /\ nrWaiting[ptr[t]] \in Nat \ {0}
         /\ nrWaiting[ptr[t]] = 1 <=>
              \A u \in Threads : Refers(u, ptr[t]) => u = t
<1> DEFINE U == Users(ptr[t])
<1>1. ptr[t] \in Pointers /\ t \in U /\ U \subseteq Threads
  BY DEF IInv, ControlInv, CallInv, Users, Refers
<1>2. IsFiniteSet(U)
  BY <1>1, ConstantsAssumption, FS_Subset
<1>3. nrWaiting[ptr[t]] = Cardinality(U)
  BY <1>1 DEF IInv, CountInv
<1>4. Cardinality(U) \in Nat /\ Cardinality(U) # 0
  BY <1>1, <1>2, FS_CardinalityType, FS_EmptySet
<1>5. Cardinality(U) = 1 <=> \E x : U = {x}
  BY <1>2, FS_Singleton
<1> QED
  BY <1>1, <1>3, <1>4, <1>5 DEF Users

LEMMA HeapStep ==
  ASSUME IInv, [Next]_vars
  PROVE  OwnInv' /\ HeapInv'
<1> USE ConstantsAssumption
    DEF IInv, ControlInv, TypeOK, CallInv, OwnInv, Owns, HeapInv, Refers
<1>1. CASE UNCHANGED vars
  BY <1>1 DEF vars
<1>2. ASSUME NEW t \in Threads, NEW p \in Pointers, Construct(t, p)
      PROVE  OwnInv' /\ HeapInv'
  BY <1>2 DEF Construct
<1>3. ASSUME NEW t \in Threads, NEW p \in Pointers, Destruct(t, p)
      PROVE  OwnInv' /\ HeapInv'
  BY <1>3 DEF Destruct
<1>4. ASSUME NEW t \in Threads, CheckGlobal(t)
      PROVE  OwnInv' /\ HeapInv'
  BY <1>4 DEF CheckGlobal
<1>5. ASSUME NEW t \in Threads, CreateGlobal(t)
      PROVE  OwnInv' /\ HeapInv'
  BY <1>5 DEF CreateGlobal
<1>6. ASSUME NEW t \in Threads, LockGlobal(t)
      PROVE  OwnInv' /\ HeapInv'
  BY <1>6 DEF LockGlobal, AcquireGlobal
<1>7. ASSUME NEW t \in Threads, FindOrCreate(t)
      PROVE  OwnInv' /\ HeapInv'
  <2>0. PICK v \in Pointers : v = ptr[t]
    BY <1>7 DEF FindOrCreate
  <2>1. /\ pc[t] = "find"
        /\ pc' = [pc EXCEPT ![t] = "unlockGlobal"]
        /\ ptr' = ptr /\ held' = held
        /\ v = ptr[t] /\ v \notin held[t]
    BY <1>7, <2>0 DEF FindOrCreate
  <2>2. /\ \A p \in Pointers : Refers(t, p)' <=> Refers(t, p) \/ p = v
        /\ \A u \in Threads, p \in Pointers :
              u # t => (Refers(u, p)' <=> Refers(u, p))
        /\ \A u \in Threads, p \in Pointers : Owns(u, p)' <=> Owns(u, p)
        /\ \A u \in Threads, p \in Pointers : Owns(u, p) => Refers(u, p)
    BY <2>1
  <2>3. CASE mutexes[v] = NoMutex
    <3>1. PICK x \in Mutexes :
             /\ mutexOwner[x] = Unallocated
             /\ mutexOwner' = [mutexOwner EXCEPT ![x] = Nobody]
             /\ mutexes' = [mutexes EXCEPT ![v] = x]
             /\ m' = [m EXCEPT ![t] = x]
      BY <1>7, <2>1, <2>3 DEF FindOrCreate
    <3>2. \A u \in Threads : ~Refers(u, v)
      BY <2>3
    <3>3. \A p \in Pointers : mutexes[p] # x
      BY <3>1
    <3>4. OwnInv'
      BY <2>2, <3>1, <3>2, <3>3
    <3>5. HeapInv'
      BY <2>1, <2>2, <3>1, <3>2, <3>3
    <3> QED
      BY <3>4, <3>5
  <2>4. CASE mutexes[v] # NoMutex
    <3>1. /\ m' = [m EXCEPT ![t] = mutexes[v]]
          /\ mutexes' = mutexes /\ mutexOwner' = mutexOwner
      BY <1>7, <2>1, <2>4 DEF FindOrCreate
    <3>2. OwnInv'
      BY <2>2, <3>1
    <3>3. HeapInv'
      BY <2>1, <2>2, <2>4, <3>1
    <3> QED
      BY <3>2, <3>3
  <2> QED
    BY <2>3, <2>4
<1>8. ASSUME NEW t \in Threads, UnlockGlobal(t)
      PROVE  OwnInv' /\ HeapInv'
  BY <1>8 DEF UnlockGlobal, ReleaseGlobal
<1>9. ASSUME NEW t \in Threads, LockMutex(t)
      PROVE  OwnInv' /\ HeapInv'
  BY <1>9 DEF LockMutex
<1>10. ASSUME NEW t \in Threads, RelockGlobal(t)
      PROVE  OwnInv' /\ HeapInv'
  BY <1>10 DEF RelockGlobal, AcquireGlobal
<1>11. ASSUME NEW t \in Threads, UnlockMutex(t)
      PROVE  OwnInv' /\ HeapInv'
  BY <1>11 DEF UnlockMutex
<1>12. ASSUME NEW t \in Threads, DropReference(t)
      PROVE  OwnInv' /\ HeapInv'
  <2>0. PICK v \in Pointers : v = ptr[t]
    BY <1>12 DEF DropReference
  <2>1. /\ pc[t] = "drop"
        /\ v = ptr[t] /\ v \notin held[t]
        /\ m[t] = mutexes[v] /\ m[t] \in Mutexes
    BY <1>12, <2>0 DEF DropReference
  <2>2. nrWaiting[ptr[t]] = 1 <=> \A u \in Threads : Refers(u, v) => u = t
    BY <2>1, LastUser
  <2>3. CASE nrWaiting[ptr[t]] = 1
    <3>1. /\ mutexOwner' = [mutexOwner EXCEPT ![m[t]] = Unallocated]
          /\ mutexes' = [mutexes EXCEPT ![v] = NoMutex]
      BY <1>12, <2>1, <2>3 DEF DropReference
    <3>2. \A u \in Threads : ~Refers(u, v)'
      BY <1>12, <2>1, <2>2, <2>3 DEF DropReference
    <3>3. \A u \in Threads, p \in Pointers : p # v => (Refers(u, p)' <=> Refers(u, p))
      BY <1>12, <2>1 DEF DropReference
    <3>4. OwnInv'
      <4> SUFFICES ASSUME NEW u \in Threads, NEW p \in Pointers, Owns(u, p)'
                   PROVE  mutexOwner'[mutexes'[p]] = u
        OBVIOUS
      <4>1. Owns(u, p) /\ Refers(u, p)
        BY <1>12, <2>1 DEF DropReference
      <4>2. p # v
        BY <1>12, <2>1, <2>2, <2>3, <4>1
      <4>3. mutexes[p] # NoMutex /\ mutexes[p] # m[t]
        BY <2>1, <4>1, <4>2
      <4> QED
        BY <3>1, <4>1, <4>2, <4>3
    <3>5. \A p \in Pointers :
             mutexes'[p] = NoMutex <=> \A u \in Threads : ~Refers(u, p)'
      <4> TAKE p \in Pointers
      <4>1. CASE p = v
        BY <3>1, <3>2, <4>1
      <4>2. CASE p # v
        <5>1. mutexes'[p] = mutexes[p]
          BY <3>1, <4>2
        <5> HIDE DEF Refers
        <5>2. mutexes[p] = NoMutex <=> \A u \in Threads : ~Refers(u, p)
          OBVIOUS
        <5> QED
          BY <3>3, <4>2, <5>1, <5>2
      <4> QED
        BY <4>1, <4>2
    <3>6. \A p \in Pointers :
             mutexes'[p] # NoMutex => mutexOwner'[mutexes'[p]] # Unallocated
      BY <2>1, <3>1
    <3>7. \A x \in Mutexes :
             mutexOwner'[x] # Unallocated => \E p \in Pointers : mutexes'[p] = x
      BY <2>1, <3>1
    <3>8. ASSUME NEW u \in Threads,
                 pc'[u] \in {"unlockGlobal", "lockMutex", "drop"}
          PROVE  m'[u] = mutexes'[ptr'[u]]
      <4>1. u # t /\ Refers(u, ptr[u]) /\ m[u] = mutexes[ptr[u]]
        BY <1>12, <2>1, <3>8 DEF DropReference
      <4> QED
        BY <1>12, <2>2, <2>3, <3>1, <4>1 DEF DropReference
    <3> QED
      BY <3>1, <3>4, <3>5, <3>6, <3>7, <3>8
  <2>4. CASE nrWaiting[ptr[t]] # 1
    <3>1. PICK w \in Threads : Refers(w, v) /\ w # t
      BY <2>2, <2>4
    <3> QED
      BY <1>12, <2>1, <2>4, <3>1 DEF DropReference
  <2> QED
    BY <2>3, <2>4
<1>13. ASSUME NEW t \in Threads, ReunlockGlobal(t)
      PROVE  OwnInv' /\ HeapInv'
  BY <1>13 DEF ReunlockGlobal, ReleaseGlobal
<1> QED
  BY <1>1, <1>2, <1>3, <1>4, <1>5, <1>6, <1>7, <1>8, <1>9, <1>10, <1>11, <1>12, <1>13 DEF Next, Step

LEMMA TypeStep ==
  ASSUME IInv, [Next]_vars
  PROVE  TypeOK'
<1>0. \A t \in Threads : pc[t] = "drop" => nrWaiting[ptr[t]] \in Nat \ {0}
  BY LastUser
<1> USE ConstantsAssumption DEF IInv, ControlInv, TypeOK, CallInv
<1>1. CASE UNCHANGED vars
  BY <1>1 DEF vars
<1>2. ASSUME NEW t \in Threads, NEW p \in Pointers, Construct(t, p) \/ Destruct(t, p)
      PROVE  TypeOK'
  BY <1>2 DEF Construct, Destruct
<1>3. ASSUME NEW t \in Threads,
             CheckGlobal(t) \/ CreateGlobal(t) \/ LockGlobal(t) \/ RelockGlobal(t)
             \/ UnlockGlobal(t) \/ ReunlockGlobal(t)
      PROVE  TypeOK'
  BY <1>3 DEF CheckGlobal, CreateGlobal, LockGlobal, RelockGlobal, UnlockGlobal,
              ReunlockGlobal, AcquireGlobal, ReleaseGlobal
<1>4. ASSUME NEW t \in Threads, FindOrCreate(t) \/ LockMutex(t) \/ UnlockMutex(t)
      PROVE  TypeOK'
  BY <1>4 DEF FindOrCreate, LockMutex, UnlockMutex
<1>5. ASSUME NEW t \in Threads, DropReference(t)
      PROVE  TypeOK'
  <2>1. nrWaiting[ptr[t]] - 1 \in Nat
    BY <1>0, <1>5 DEF DropReference
  <2> QED
    BY <1>5, <2>1 DEF DropReference
<1> QED
  BY <1>1, <1>2, <1>3, <1>4, <1>5 DEF Next, Step

\* A step that lets the users of an address alone, or adds or removes one.
LEMMA CountStep ==
  ASSUME IInv, [Next]_vars
  PROVE  CountInv'
<1> USE ConstantsAssumption DEF IInv, ControlInv, TypeOK, CallInv
<1> SUFFICES ASSUME NEW p \in Pointers
             PROVE  nrWaiting'[p] = Cardinality(Users(p)')
  BY DEF CountInv
<1>1. /\ Users(p) \subseteq Threads /\ IsFiniteSet(Users(p))
      /\ nrWaiting[p] = Cardinality(Users(p))
  BY FS_Subset DEF Users, CountInv
<1>2. ASSUME UNCHANGED nrWaiting, \A u \in Threads : Refers(u, p)' <=> Refers(u, p)
      PROVE  nrWaiting'[p] = Cardinality(Users(p)')
  <2>1. Users(p)' = Users(p)
    BY <1>2 DEF Users
  <2> QED
    BY <1>1, <1>2, <2>1
<1>3. CASE UNCHANGED vars
  BY <1>2, <1>3 DEF vars, Refers
<1>4. ASSUME NEW t \in Threads, NEW q \in Pointers, Construct(t, q) \/ Destruct(t, q)
      PROVE  nrWaiting'[p] = Cardinality(Users(p)')
  BY <1>2, <1>4 DEF Construct, Destruct, Refers
<1>5. ASSUME NEW t \in Threads,
             CheckGlobal(t) \/ CreateGlobal(t) \/ LockGlobal(t) \/ RelockGlobal(t)
      PROVE  nrWaiting'[p] = Cardinality(Users(p)')
  BY <1>2, <1>5
     DEF CheckGlobal, CreateGlobal, LockGlobal, RelockGlobal, AcquireGlobal, Refers
<1>6. ASSUME NEW t \in Threads, UnlockGlobal(t) \/ ReunlockGlobal(t)
      PROVE  nrWaiting'[p] = Cardinality(Users(p)')
  BY <1>2, <1>6 DEF UnlockGlobal, ReunlockGlobal, ReleaseGlobal, Refers
<1>7. ASSUME NEW t \in Threads, LockMutex(t) \/ UnlockMutex(t)
      PROVE  nrWaiting'[p] = Cardinality(Users(p)')
  BY <1>2, <1>7 DEF LockMutex, UnlockMutex, Refers
<1>8. ASSUME NEW t \in Threads, FindOrCreate(t)
      PROVE  nrWaiting'[p] = Cardinality(Users(p)')
  <2>1. ~Refers(t, ptr[t])
    BY <1>8 DEF FindOrCreate, Refers
  <2>2. \A u \in Threads : Refers(u, p)' <=> Refers(u, p) \/ (u = t /\ p = ptr[t])
    BY <1>8 DEF FindOrCreate, Refers
  <2>3. CASE p = ptr[t]
    <3>1. Users(p)' = Users(p) \union {t} /\ t \notin Users(p)
      BY <2>1, <2>2, <2>3 DEF Users
    <3>2. Cardinality(Users(p) \union {t}) = Cardinality(Users(p)) + 1
      BY <1>1, <3>1, FS_AddElement
    <3> QED
      BY <1>1, <1>8, <2>1, <2>3, <3>1, <3>2 DEF FindOrCreate
  <2>4. CASE p # ptr[t]
    <3>1. Users(p)' = Users(p)
      BY <2>2, <2>4 DEF Users
    <3> QED
      BY <1>1, <1>8, <2>1, <2>4, <3>1 DEF FindOrCreate
  <2> QED
    BY <2>3, <2>4
<1>9. ASSUME NEW t \in Threads, DropReference(t)
      PROVE  nrWaiting'[p] = Cardinality(Users(p)')
  <2>1. Refers(t, ptr[t]) /\ ptr[t] \in Pointers
    BY <1>9 DEF DropReference, Refers
  <2>3. \A u \in Threads : Refers(u, p)' <=> Refers(u, p) /\ ~(u = t /\ p = ptr[t])
    BY <1>9 DEF DropReference, Refers
  <2>4. CASE p = ptr[t]
    <3>1. Users(p)' = Users(p) \ {t} /\ t \in Users(p)
      BY <2>1, <2>3, <2>4 DEF Users
    <3>2. Cardinality(Users(p) \ {t}) = Cardinality(Users(p)) - 1
      BY <1>1, <3>1, FS_RemoveElement
    <3> QED
      BY <1>1, <1>9, <2>4, <3>1, <3>2 DEF DropReference
  <2>5. CASE p # ptr[t]
    <3>1. Users(p)' = Users(p)
      BY <2>3, <2>5 DEF Users
    <3> QED
      BY <1>1, <1>9, <2>5, <3>1 DEF DropReference
  <2> QED
    BY <2>4, <2>5
<1> QED
  BY <1>3, <1>4, <1>5, <1>6, <1>7, <1>8, <1>9 DEF Next, Step

(***************************************************************************)
(* The theorems                                                            *)
(***************************************************************************)
\* The inductive invariant holds of every reachable state.
LEMMA Inductive == ASSUME SerialStartup PROVE Spec => []IInv
<1>1. Init => IInv
  BY ControlInit, HeapInit DEF IInv
<1>2. IInv /\ [Next]_vars => IInv'
  BY TypeStep, ControlStep, HeapStep, CountStep DEF IInv, ControlInv
<1> QED
  BY <1>1, <1>2, PTL DEF Spec

\* The state is well typed; in particular no count of _nrWaiting goes below
\* zero.
THEOREM TypeCorrect == ASSUME SerialStartup PROVE Spec => []TypeOK
<1>1. IInv => TypeOK
  BY DEF IInv, ControlInv
<1> QED
  BY <1>1, Inductive, PTL

\* The maps are changed by one thread at a time.
THEOREM GlobalSectionExclusive ==
  ASSUME SerialStartup PROVE Spec => []GlobalExclusion
<1>1. IInv => GlobalExclusion
  BY ConstantsAssumption DEF IInv, ControlInv, SectionInv, GlobalExclusion
<1> QED
  BY <1>1, Inductive, PTL

\* No two threads are in a section protected by the same object.
THEOREM LocksExclude == ASSUME SerialStartup PROVE Spec => []MutualExclusion
<1>1. IInv => MutualExclusion
  BY DEF IInv, ControlInv, TypeOK, OwnInv, Owns, MutualExclusion
<1> QED
  BY <1>1, Inductive, PTL

\* No thread sleeps on a mutex that has been destroyed.
THEOREM SleepersSafe == ASSUME SerialStartup PROVE Spec => []NoDanglingMutex
<1>1. IInv => NoDanglingMutex
  BY ConstantsAssumption
     DEF IInv, ControlInv, TypeOK, CallInv, HeapInv, Refers, NoDanglingMutex
<1> QED
  BY <1>1, Inductive, PTL

\* The reference counts are exact and no mutex leaks.
THEOREM CountsAreExact == ASSUME SerialStartup PROVE Spec => []CountsExact
<1>1. IInv => CountsExact
  <2> SUFFICES ASSUME IInv PROVE CountsExact
    OBVIOUS
  <2>1. \A p \in Pointers : mutexes[p] = NoMutex <=> Users(p) = {}
    BY DEF IInv, HeapInv, Users
  <2>2. ASSUME NEW x \in Mutexes, mutexOwner[x] # Unallocated
        PROVE  \E p \in Pointers : \A q \in Pointers : mutexes[q] = x <=> q = p
    BY <2>2, ConstantsAssumption DEF IInv, HeapInv
  <2> QED
    BY <2>1, <2>2 DEF IInv, CountInv, CountsExact
<1> QED
  BY <1>1, Inductive, PTL

\* SmartLock implements a lock per pointer: every step of the code is a step
\* of PointerLock or leaves its state alone.
THEOREM Refinement == ASSUME SerialStartup PROVE Spec => ImplementsPointerLock
<1>1. Init => Abstract!Init
  BY DEF Init, Abstract!Init, wanted
<1>2. ASSUME IInv, [Next]_vars PROVE [Abstract!Next]_Abstract!vars
  <2> USE <1>2 DEF IInv, ControlInv, TypeOK, CallInv
  <2>0. /\ wanted = [u \in Threads |-> wanted[u]]
        /\ wanted' = [u \in Threads |-> wanted'[u]]
        /\ DOMAIN held = Threads /\ NoPointer \notin Pointers
    BY ConstantsAssumption DEF wanted
  <2>1. CASE UNCHANGED vars
    BY <2>1 DEF vars, wanted, Abstract!vars
  <2>2. ASSUME NEW t \in Threads, NEW p \in Pointers, Construct(t, p)
        PROVE  Abstract!Request(t, p)
    <3>1. ~(Rank[p] < Rank[p])
      BY ConstantsAssumption
    <3>2. wanted[t] = NoPointer /\ p \notin held[t] /\ held' = held
      BY <2>2, <3>1 DEF Construct, Nests, wanted
    <3>3. \A u \in Threads : wanted'[u] = IF u = t THEN p ELSE wanted[u]
      BY <2>2 DEF Construct, wanted
    <3> QED
      BY <2>0, <3>2, <3>3 DEF Abstract!Request
  <2>3. ASSUME NEW t \in Threads, NEW p \in Pointers, Destruct(t, p)
        PROVE  Abstract!Release(t, p)
    <3>1. \A u \in Threads : wanted'[u] = wanted[u]
      BY <2>3 DEF Destruct, wanted
    <3>2. wanted[t] = NoPointer
      BY <2>3 DEF Destruct, wanted
    <3> QED
      BY <2>0, <2>3, <3>1, <3>2 DEF Destruct, Abstract!Release
  <2>4. ASSUME NEW t \in Threads, LockMutex(t)
        PROVE  Abstract!Grant(t)
    <3>1. ptr[t] \in Pointers /\ wanted[t] = ptr[t] /\ wanted[t] # NoPointer
      BY <2>0, <2>4 DEF LockMutex, wanted
    <3>2. \A u \in Threads : wanted'[u] = IF u = t THEN NoPointer ELSE wanted[u]
      BY <2>4 DEF LockMutex, wanted
    <3>3. mutexOwner[mutexes[ptr[t]]] = Nobody
      BY <2>4 DEF LockMutex, HeapInv
    <3>4. \A u \in Threads : ptr[t] \notin held[u]
      BY <3>1, <3>3, ConstantsAssumption DEF OwnInv, Owns
    <3>5. held' = [held EXCEPT ![t] = @ \union {wanted[t]}]
      BY <2>4, <3>1 DEF LockMutex
    <3> QED
      BY <2>0, <3>1, <3>2, <3>4, <3>5 DEF Abstract!Grant
  <2>5. ASSUME NEW t \in Threads,
               CheckGlobal(t) \/ CreateGlobal(t) \/ LockGlobal(t) \/ FindOrCreate(t)
               \/ UnlockGlobal(t) \/ RelockGlobal(t) \/ UnlockMutex(t)
               \/ DropReference(t) \/ ReunlockGlobal(t)
        PROVE  UNCHANGED <<held, wanted>>
    <3>1. held' = held
      BY <2>5 DEF CheckGlobal, CreateGlobal, LockGlobal, FindOrCreate, UnlockGlobal,
                  RelockGlobal, UnlockMutex, DropReference, ReunlockGlobal
    <3>2. \A u \in Threads : wanted'[u] = wanted[u]
      BY <2>5 DEF CheckGlobal, CreateGlobal, LockGlobal, FindOrCreate, UnlockGlobal,
                  RelockGlobal, UnlockMutex, DropReference, ReunlockGlobal, wanted
    <3> QED
      BY <2>0, <3>1, <3>2
  <2> QED
    BY <2>1, <2>2, <2>3, <2>4, <2>5 DEF Next, Step, Abstract!Next, Abstract!vars
<1> QED
  BY <1>1, <1>2, Inductive, PTL DEF Spec, Abstract!Spec, ImplementsPointerLock

(***************************************************************************)
(* Waiting                                                                 *)
(***************************************************************************)
\* A mutex is locked by a thread that owns the address it stands for, and who
\* asks for an address holds only addresses that come before it.
LockedInv == \A x \in Mutexes : mutexOwner[x] \in Threads =>
               \E p \in Pointers : mutexes[p] = x /\ Owns(mutexOwner[x], p)

Asking == {"check", "create", "lockGlobal", "find", "unlockGlobal", "lockMutex"}

OrderInv == \A t \in Threads : pc[t] \in Asking =>
              \A q \in held[t] : Rank[q] < Rank[ptr[t]]

LEMMA OrderStep ==
  ASSUME IInv, OrderInv, [Next]_vars
  PROVE  OrderInv'
<1> USE ConstantsAssumption DEF IInv, ControlInv, TypeOK, CallInv, OrderInv, Asking
<1>1. CASE UNCHANGED vars
  BY <1>1 DEF vars
<1>2. ASSUME NEW t \in Threads, NEW p \in Pointers, Construct(t, p) \/ Destruct(t, p)
      PROVE  OrderInv'
  BY <1>2 DEF Construct, Destruct, Nests
<1>3. ASSUME NEW t \in Threads,
             CheckGlobal(t) \/ CreateGlobal(t) \/ LockGlobal(t) \/ RelockGlobal(t)
             \/ UnlockGlobal(t) \/ ReunlockGlobal(t)
      PROVE  OrderInv'
  BY <1>3 DEF CheckGlobal, CreateGlobal, LockGlobal, RelockGlobal, UnlockGlobal,
              ReunlockGlobal
<1>4. ASSUME NEW t \in Threads,
             FindOrCreate(t) \/ LockMutex(t) \/ UnlockMutex(t) \/ DropReference(t)
      PROVE  OrderInv'
  BY <1>4 DEF FindOrCreate, LockMutex, UnlockMutex, DropReference
<1> QED
  BY <1>1, <1>2, <1>3, <1>4 DEF Next, Step

LEMMA LockedStep ==
  ASSUME IInv, LockedInv, [Next]_vars
  PROVE  LockedInv'
<1> USE ConstantsAssumption DEF IInv, ControlInv, TypeOK, CallInv, HeapInv, LockedInv
<1>0. \A t \in Threads, p \in Pointers : Owns(t, p) => Refers(t, p)
  BY DEF Owns, Refers
<1>1. ASSUME UNCHANGED <<mutexOwner, mutexes>>,
             \A t \in Threads, p \in Pointers : Owns(t, p) => Owns(t, p)'
      PROVE  LockedInv'
  BY <1>1
<1>2. CASE UNCHANGED vars
  BY <1>1, <1>2 DEF vars, Owns
<1>3. ASSUME NEW t \in Threads, NEW p \in Pointers, Construct(t, p) \/ Destruct(t, p)
      PROVE  LockedInv'
  BY <1>1, <1>3 DEF Construct, Destruct, Owns
<1>4. ASSUME NEW t \in Threads,
             CheckGlobal(t) \/ CreateGlobal(t) \/ LockGlobal(t) \/ RelockGlobal(t)
             \/ UnlockGlobal(t) \/ ReunlockGlobal(t)
      PROVE  LockedInv'
  BY <1>1, <1>4 DEF CheckGlobal, CreateGlobal, LockGlobal, RelockGlobal, UnlockGlobal,
                    ReunlockGlobal, AcquireGlobal, ReleaseGlobal, Owns
<1>5. ASSUME NEW t \in Threads, FindOrCreate(t)
      PROVE  LockedInv'
  <2>1. \A u \in Threads, p \in Pointers : Owns(u, p)' <=> Owns(u, p)
    BY <1>5 DEF FindOrCreate, Owns
  <2>2. \A p \in Pointers : mutexes[p] # NoMutex => mutexes'[p] = mutexes[p]
    BY <1>5 DEF FindOrCreate
  <2>3. \A x \in Mutexes : mutexOwner'[x] \in Threads => mutexOwner'[x] = mutexOwner[x]
    BY <1>5 DEF FindOrCreate
  <2> QED
    BY <2>1, <2>2, <2>3
<1>6. ASSUME NEW t \in Threads, LockMutex(t)
      PROVE  LockedInv'
  <2>1. PICK v \in Pointers : v = ptr[t] /\ m[t] = mutexes[v] /\ v \in held'[t]
    BY <1>6 DEF LockMutex
  <2>2. mutexes' = mutexes
    BY <1>6 DEF LockMutex
  <2>3. \A u \in Threads, p \in Pointers : Owns(u, p) => Owns(u, p)'
    BY <1>6 DEF LockMutex, Owns
  <2>4. \A x \in Mutexes : mutexOwner'[x] = IF x = m[t] THEN t ELSE mutexOwner[x]
    BY <1>6 DEF LockMutex
  <2>5. Owns(t, v)'
    BY <2>1 DEF Owns
  <2> QED
    BY <2>1, <2>2, <2>3, <2>4, <2>5
<1>7. ASSUME NEW t \in Threads, UnlockMutex(t)
      PROVE  LockedInv'
  <2>1. /\ mutexes' = mutexes
        /\ mutexOwner' = [mutexOwner EXCEPT ![mutexes[ptr[t]]] = Nobody]
        /\ pc[t] = "unlockMutex" /\ ptr[t] \in Pointers /\ ptr' = ptr /\ held' = held
    BY <1>7 DEF UnlockMutex
  <2>2. \A u \in Threads, p \in Pointers :
          Owns(u, p) /\ ~(u = t /\ p = ptr[t]) => Owns(u, p)'
    BY <1>7 DEF UnlockMutex, Owns
  <2>3. ASSUME NEW x \in Mutexes, mutexOwner'[x] \in Threads
        PROVE  \E p \in Pointers : mutexes'[p] = x /\ Owns(mutexOwner[x], p)'
    <3>1. mutexOwner'[x] = mutexOwner[x] /\ x # mutexes[ptr[t]]
      BY <2>1, <2>3
    <3>2. PICK p \in Pointers : mutexes[p] = x /\ Owns(mutexOwner[x], p)
      BY <2>3, <3>1
    <3>3. p # ptr[t]
      BY <3>1, <3>2
    <3> QED
      BY <2>1, <2>2, <2>3, <3>1, <3>2, <3>3
  <2> QED
    BY <2>1, <2>3
<1>8. ASSUME NEW t \in Threads, DropReference(t)
      PROVE  LockedInv'
  <2>1. \A u \in Threads, p \in Pointers : Owns(u, p)' <=> Owns(u, p)
    BY <1>8 DEF DropReference, Owns
  <2>2. pc[t] = "drop" /\ ptr[t] \in Pointers /\ m[t] = mutexes[ptr[t]]
    BY <1>8 DEF DropReference
  <2>3. \/ UNCHANGED <<mutexOwner, mutexes>>
        \/ /\ mutexOwner' = [mutexOwner EXCEPT ![m[t]] = Unallocated]
           /\ mutexes' = [mutexes EXCEPT ![ptr[t]] = NoMutex]
    BY <1>8 DEF DropReference
  <2> QED
    BY <2>1, <2>2, <2>3
<1> QED
  BY <1>2, <1>3, <1>4, <1>5, <1>6, <1>7, <1>8 DEF Next, Step

\* A thread that sleeps waits for one that has another address, of a higher
\* rank, to ask for.
LEMMA WaitsUpwards ==
  ASSUME IInv, LockedInv, OrderInv, NEW t \in Threads, NEW u \in Threads,
         WaitsFor(t, u), pc[u] = "lockMutex"
  PROVE  /\ ptr[t] \in Pointers /\ ptr[u] \in Pointers
         /\ Rank[ptr[t]] < Rank[ptr[u]]
<1> USE ConstantsAssumption DEF IInv, ControlInv, TypeOK, CallInv, HeapInv
<1>1. /\ pc[t] = "lockMutex" /\ m[t] \in Mutexes /\ mutexOwner[m[t]] = u
      /\ ptr[t] \in Pointers /\ ptr[u] \in Pointers /\ m[t] = mutexes[ptr[t]]
  BY DEF WaitsFor
<1>2. PICK p \in Pointers : mutexes[p] = m[t] /\ Owns(u, p)
  BY <1>1 DEF LockedInv
<1>3. p = ptr[t]
  BY <1>1, <1>2
<1>4. p \in held[u]
  BY <1>2 DEF Owns
<1> QED
  BY <1>1, <1>3, <1>4 DEF OrderInv, Asking

\* Threads that take their locks in the order of the engine never wait for one
\* another in a circle.
THEOREM NobodyWaitsInACircle == ASSUME SerialStartup PROVE Spec => []NoWaitCycle
<1>1. Init => LockedInv /\ OrderInv
  BY ConstantsAssumption DEF Init, LockedInv, OrderInv, Asking
<1>2. IInv /\ LockedInv /\ OrderInv /\ [Next]_vars => LockedInv' /\ OrderInv'
  BY LockedStep, OrderStep
<1>3. IInv /\ LockedInv /\ OrderInv => NoWaitCycle
  <2> SUFFICES ASSUME IInv, LockedInv, OrderInv, NEW S \in SUBSET Threads, S # {},
                      \A t \in S : \E u \in S : WaitsFor(t, u)
               PROVE  FALSE
    BY DEF NoWaitCycle
  <2> DEFINE Above(t) == {u \in S : Rank[ptr[t]] < Rank[ptr[u]]}
             Sizes == {Cardinality(Above(t)) : t \in S}
  <2>1. \A t \in S : pc[t] = "lockMutex" /\ ptr[t] \in Pointers
    BY DEF WaitsFor, IInv, ControlInv, CallInv
  <2>2. \A t \in S : Rank[ptr[t]] \in Nat
    BY <2>1, ConstantsAssumption
  <2>3. \A t \in S : IsFiniteSet(Above(t)) /\ Cardinality(Above(t)) \in Nat
    BY ConstantsAssumption, FS_Subset, FS_CardinalityType
  <2>4. PICK t \in S : \A u \in S : Cardinality(Above(t)) <= Cardinality(Above(u))
    <3>1. Sizes \in SUBSET Nat /\ Sizes # {}
      BY <2>3
    <3>2. PICK n \in Sizes : \A k \in Sizes : n <= k
      BY <3>1, Least
    <3> HIDE DEF Above
    <3> QED
      BY <3>2
  <2>5. PICK u \in S : WaitsFor(t, u)
    OBVIOUS
  <2>6. Rank[ptr[t]] < Rank[ptr[u]]
    BY <2>1, <2>5, WaitsUpwards
  <2>7. Above(u) \subseteq Above(t) /\ u \in Above(t) /\ u \notin Above(u)
    BY <2>2, <2>6
  <2> HIDE DEF Above
  <2>8. /\ Cardinality(Above(u)) <= Cardinality(Above(t))
        /\ Cardinality(Above(u)) # Cardinality(Above(t))
    BY <2>3, <2>7, FS_Subset
  <2> QED
    BY <2>3, <2>4, <2>8
<1> QED
  BY <1>1, <1>2, <1>3, Inductive, PTL DEF Spec
=============================================================================
