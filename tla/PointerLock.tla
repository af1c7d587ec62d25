---------------------------- MODULE PointerLock ----------------------------
(***************************************************************************)
(* What SmartLock promises its callers: a lock per pointer, whatever the   *)
(* pointer points to.  A thread that constructs a SmartLock(data) asks for *)
(* the lock of &data, is granted it when no other thread has it, and gives *)
(* it back when the SmartLock goes out of scope.                           *)
(***************************************************************************)
CONSTANTS Threads,     \* the threads of the server
          Pointers,    \* addresses of the data that is locked
          NoPointer    \* the thread is not asking for a lock

VARIABLES held,        \* held[t]: pointers whose SmartLock is alive in t
          wanted       \* wanted[t]: the pointer t is waiting for

vars == <<held, wanted>>

Init == /\ held = [t \in Threads |-> {}]
        /\ wanted = [t \in Threads |-> NoPointer]

Request(t, p) == /\ wanted[t] = NoPointer
                 /\ p \notin held[t]
                 /\ wanted' = [wanted EXCEPT ![t] = p]
                 /\ UNCHANGED held

Grant(t) == /\ wanted[t] # NoPointer
            /\ \A u \in Threads : wanted[t] \notin held[u]
            /\ held' = [held EXCEPT ![t] = @ \union {wanted[t]}]
            /\ wanted' = [wanted EXCEPT ![t] = NoPointer]

Release(t, p) == /\ wanted[t] = NoPointer
                 /\ p \in held[t]
                 /\ held' = [held EXCEPT ![t] = @ \ {p}]
                 /\ UNCHANGED wanted

Next == \E t \in Threads : \/ Grant(t)
                           \/ \E p \in Pointers : Request(t, p) \/ Release(t, p)

Spec == Init /\ [][Next]_vars
=============================================================================
