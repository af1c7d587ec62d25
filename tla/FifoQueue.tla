----------------------------- MODULE FifoQueue -----------------------------
(***************************************************************************)
(* What SharedQueue promises: an unbounded first-in first-out queue whose  *)
(* pop waits for an item, and whose push tells the caller if a thread is   *)
(* inside pop.                                                             *)
(***************************************************************************)
EXTENDS Sequences

CONSTANTS Producers, Consumers, Items, NoItem

VARIABLES items,    \* the queue
          inPop,    \* threads inside pop
          result,   \* what the last pop of each thread has returned
          answer    \* what the last push of each thread has returned

vars == <<items, inPop, result, answer>>

Init == /\ items = <<>>
        /\ inPop = {}
        /\ result = [c \in Consumers |-> NoItem]
        /\ answer = [p \in Producers |-> FALSE]

Push(p, i) == /\ items' = Append(items, i)
              /\ answer' = [answer EXCEPT ![p] = (inPop # {})]
              /\ UNCHANGED <<inPop, result>>

BeginPop(c) == /\ c \notin inPop
               /\ inPop' = inPop \union {c}
               /\ result' = [result EXCEPT ![c] = NoItem]
               /\ UNCHANGED <<items, answer>>

EndPop(c) == /\ c \in inPop
             /\ items # <<>>
             /\ inPop' = inPop \ {c}
             /\ result' = [result EXCEPT ![c] = Head(items)]
             /\ items' = Tail(items)
             /\ UNCHANGED answer

Next == \/ \E p \in Producers, i \in Items : Push(p, i)
        \/ \E c \in Consumers : BeginPop(c) \/ EndPop(c)

Spec == Init /\ [][Next]_vars
=============================================================================
