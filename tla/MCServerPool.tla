--------------------------- MODULE MCServerPool ---------------------------
EXTENDS ServerPool

CONSTANTS h1, h2

\* the counter before the first tic(): the first age is 0, which is also what a
\* missing entry of a map reads as
MCFirstCounter == {-1}

\* the marked threads that have not died yet
Marked == {x \in Servers \X Threads : x[2] \in cancelled[x[1]] /\ pc[x[1]][x[2]] # "dead"}

\* How far the run follows a behaviour.  What marked threads do is explored with
\* one object and two connections, however many are marked; the rest with one
\* marked thread at a time, until it goes on.  The network does not fail after
\* the third connection.
Bound == /\ \/ servers <= 1 /\ (strayed = {} \/ connections <= 2)
            \/ strayed = {} /\ Cardinality(Marked) <= 1
         /\ main = "stop" => connections <= 2
=============================================================================
