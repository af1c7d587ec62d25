-------------------------- MODULE ServerPoolProofs --------------------------
(***************************************************************************)
(* Proofs about ServerPool, for any number of servers, threads, handles    *)
(* and connections.                                                        *)
(*                                                                         *)
(* The argument: of the threads of an object only the last one is not      *)
(* marked.  As long as the marked ones of an object do nothing but die,    *)
(* the last one alone changes the handle, the stream and the entries of    *)
(* that object in the books of the watchdog, whatever happens to other     *)
(* objects (OwnInv).  As long as this is so for all objects, the books     *)
(* agree with each other, a descriptor is passed on from place to place,   *)
(* and a stream has one writer.                                            *)
(***************************************************************************)
EXTENDS ServerPool, FiniteSetTheorems, SequenceTheorems, WellFoundedInduction, TLAPS

(***************************************************************************)
(* The least of some numbers                                               *)
(***************************************************************************)
\* A set of natural numbers that is not empty has a least element.
LEMMA Least ==
  ASSUME NEW T \in SUBSET Nat, T # {}
  PROVE  \E x \in T : \A y \in T : x <= y
<1> DEFINE R == {ss \in Nat \X Nat : ss[1] < ss[2]}
<1>1. IsWellFoundedOn(R, Nat)
  BY NatLessThanWellFounded DEF OpToRel
<1>2. \A x, y \in Nat : y < x => <<y, x>> \in R
  OBVIOUS
<1> HIDE DEF R
<1>3. PICK x \in T : \A y \in T : ~(<<y, x>> \in R)
  BY <1>1, WFMin
<1>4. ASSUME NEW y \in T
      PROVE  x <= y
  <2>1. x \in Nat /\ y \in Nat /\ ~(<<y, x>> \in R)
    BY <1>3
  <2>2. ~(y < x)
    BY <1>2, <2>1
  <2> QED
    BY <2>1, <2>2
<1> QED
  BY <1>4

\* Integers that are not below some number have a least one.
LEMMA MinIsIn ==
  ASSUME NEW least \in Int, NEW S \in SUBSET Int, S # {}, \A y \in S : least <= y
  PROVE  Min(S) \in S /\ \A y \in S : Min(S) <= y
<1> DEFINE T == {n \in Nat : least + n \in S}
<1>1. T \in SUBSET Nat
  OBVIOUS
<1>2. T # {}
  <2>1. PICK y \in S : TRUE
    OBVIOUS
  <2>2. y - least \in Nat /\ least + (y - least) = y
    BY <2>1
  <2> QED
    BY <2>1, <2>2
<1> HIDE DEF T
<1>3. PICK n \in T : \A m \in T : n <= m
  BY <1>1, <1>2, Least
<1> USE DEF T
<1>4. least + n \in S /\ n \in Nat
  BY <1>3
<1>5. ASSUME NEW y \in S
      PROVE  least + n <= y
  <2>1. y - least \in Nat /\ least + (y - least) = y
    OBVIOUS
  <2>2. n <= y - least
    BY <1>3, <2>1
  <2> QED
    BY <1>4, <2>1, <2>2
<1> QED
  BY <1>4, <1>5 DEF Min

-----------------------------------------------------------------------------
(* The invariants.                                                         *)

\* What the types need: who has not been started is in no book, and the ages
\* have a lower bound, so that there is a slowest thread.
StartedInv ==
  /\ \A s \in Servers : thread[s] = 0 =>
       /\ \A j \in Threads : pc[s][j] \in {"none", "dead"}
       /\ s \notin current \union previous
       /\ \A a \in DOMAIN threadOf : threadOf[a] # s
  /\ threadOf = [a \in DOMAIN threadOf |-> threadOf[a]]
  /\ \E least \in Int : least <= counter /\ \A a \in DOMAIN threadOf : least <= a

\* The last thread of s, which is the one that has not been replaced
Active(s) == pc[s][thread[s]]

\* The threads of an object but the last are marked, and those still to come
\* have done nothing; the last one lives as long as the process.
CountOf(s) ==
  /\ thread[s] # 0 <=> s <= servers
  /\ cancelled[s] = 1..(thread[s] - 1)
  /\ \A j \in Threads : j > thread[s] => pc[s][j] \in {"none", "dead"}
  /\ thread[s] # 0 /\ main # "crashed" => Active(s) \notin {"none", "dead"}
  /\ \A j \in Threads : pc[s][j] = "init" => popped[s][j] # Poison

CountInv ==
  /\ \A s \in Servers : CountOf(s)
  /\ main = "crashed" =>
       /\ strayed # {} /\ current \union previous = {} /\ DOMAIN threadOf = {}
       /\ \A s \in Servers, j \in Threads : pc[s][j] = "dead"

\* While a thread is at these places, its object has the handle.
Holding == Serving \union {"tic", "clean", "close"}

\* An object of which no marked thread has gone on: those threads are where
\* they were marked, or dead; the object is in the books of the watchdog, with
\* one age, while its last thread is busy, and has a handle while that thread
\* holds one; its stream goes to that handle.
OwnInv(s) ==
  /\ \A j \in Threads : j < thread[s] => pc[s][j] \in Serving \union {"dead"}
  /\ s \in current \union previous <=> Busy(s)
  /\ s \notin current \intersect previous
  /\ s \in DOMAIN ageOf <=> Busy(s)
  /\ \A a \in DOMAIN threadOf : threadOf[a] = s => s \in DOMAIN ageOf /\ a = ageOf[s]
  /\ handle[s] # 0 <=> thread[s] # 0 /\ Active(s) \in Holding
  /\ output[s] # {} => output[s] = {handle[s]} /\ handle[s] # 0
  /\ thread[s] # 0 /\ Active(s) \in {"print", "write"} => output[s] # {}
  /\ thread[s] # 0 /\ Active(s) \in {"tic", "read", "parse"} => output[s] = {}

\* The books of the watchdog agree: the ages are those of threadOf, and who was
\* there in the last round is older.
WatchInv ==
  /\ current \intersect previous = {}
  /\ \A s \in Servers : s \in current \union previous <=> Busy(s)
  /\ DOMAIN ageOf = current \union previous
  /\ DOMAIN threadOf = {ageOf[s] : s \in DOMAIN ageOf}
  /\ \A s \in DOMAIN ageOf : ageOf[s] <= counter /\ threadOf[ageOf[s]] = s
  /\ \A r \in previous, s \in current : ageOf[r] < ageOf[s]

\* Who has a handle to pass on, by the places of main and of the threads; the
\* standard input stays open, so that no connection gets its descriptor.
PlaceInv ==
  /\ Stdin \in open
  /\ accepted # Poison <=> main = "push"
  /\ \A s \in Servers, j \in Threads : popped[s][j] # Poison <=> pc[s][j] = "init"

\* What is in some place is open.
HeldIsOpen ==
  /\ accepted \in open \union {Poison}
  /\ \A k \in DOMAIN queue : queue[k] \in open \union {Poison}
  /\ \A s \in Servers : handle[s] \in open \union {0}
  /\ \A s \in Servers, j \in Threads : popped[s][j] \in open \union {Poison}

\* A connection that is open is in some place.
OpenIsHeld == \A h \in open \ {Stdin} :
  \/ accepted = h
  \/ \E k \in DOMAIN queue : queue[k] = h
  \/ \E s \in Servers : handle[s] = h
  \/ \E s \in Servers, j \in Threads : popped[s][j] = h

\* No handle is in two places.
HeldOnce ==
  /\ \A k \in DOMAIN queue : queue[k] # Poison =>
       /\ accepted # queue[k]
       /\ \A l \in DOMAIN queue : queue[l] = queue[k] => l = k
       /\ \A s \in Servers : handle[s] # queue[k]
       /\ \A s \in Servers, j \in Threads : popped[s][j] # queue[k]
  /\ \A s \in Servers : handle[s] # 0 =>
       /\ accepted # handle[s]
       /\ \A r \in Servers : handle[r] = handle[s] => r = s
       /\ \A r \in Servers, j \in Threads : popped[r][j] # handle[s]
  /\ \A s \in Servers, j \in Threads : popped[s][j] # Poison =>
       /\ accepted # popped[s][j]
       /\ \A r \in Servers, i \in Threads : popped[r][i] = popped[s][j] => r = s /\ i = j

\* A socket is shut down only to be closed next, and only the last thread of an
\* object has printed to its stream.
AloneInv ==
  /\ \A h \in cut : \E s \in Servers : handle[s] = h /\ thread[s] # 0 /\ Active(s) = "close"
  /\ \A s \in Servers : text[s] \subseteq {<<s, thread[s]>>}

-----------------------------------------------------------------------------
(* Types.                                                                  *)

Places == {"none", "start", "pop", "init", "tic", "read", "parse", "print", "write", "tac",
           "clean", "close", "dead", "done"}
Streams == {{}} \union {{h} : h \in Handles \union {Stdin}}
Texts == SUBSET (Servers \X Threads)

\* A thread that goes on leaves the others where they are.
LEMMA GoesTo ==
  ASSUME TypeOK, NEW s \in Servers, NEW j \in Threads, NEW from, NEW to \in Places,
         Goto(s, j, from, to)
  PROVE  /\ pc' \in [Servers -> [Threads -> Places]]
         /\ pc[s][j] = from
         /\ \A r \in Servers, i \in Threads :
              pc'[r][i] = IF r = s /\ i = j THEN to ELSE pc[r][i]
         /\ \A r \in Servers \ {s} : pc'[r] = pc[r]
         /\ strayed' \subseteq Servers /\ strayed \subseteq strayed'
         /\ j \notin cancelled[s] => strayed' = strayed
         /\ j \in cancelled[s] => s \in strayed'
BY DEF TypeOK, Goto, Places

\* What replacing the threads of S does
Replaced(S) ==
  /\ pc' \in [Servers -> [Threads -> Places]]
  /\ thread' \in [Servers -> 0..MaxThreads]
  /\ cancelled' \in [Servers -> SUBSET Threads]
  /\ handle' \in [Servers -> Handles \union {0}]
  /\ output' \in [Servers -> Streams]
  /\ text' \in [Servers -> Texts]
  /\ popped' = popped /\ strayed' = strayed
  /\ open' = open \ UNION {Closed(s) : s \in S}
  /\ cut' = (cut \union ({handle[s] : s \in S} \intersect Handles)) \intersect open'
  /\ \A s \in S : thread[s] < MaxThreads
  /\ \A s \in Servers :
       /\ thread'[s] = IF s \in S THEN thread[s] + 1 ELSE thread[s]
       /\ cancelled'[s] = IF s \in S THEN cancelled[s] \union {thread[s]} ELSE cancelled[s]
       /\ handle'[s] = IF s \in S THEN 0 ELSE handle[s]
       /\ output'[s] = IF s \in S THEN {} ELSE output[s]
       /\ text'[s] = IF s \in S THEN {} ELSE text[s]
  /\ \A s \in Servers, j \in Threads :
       pc'[s][j] = IF s \in S /\ j = thread[s] + 1 THEN "start" ELSE pc[s][j]

LEMMA Replaces ==
  ASSUME TypeOK, NEW S \in SUBSET Servers, \A s \in S : thread[s] # 0, Respawn(S)
  PROVE  Replaced(S)
<1>1. /\ thread \in [Servers -> 0..MaxThreads] /\ MaxThreads \in Nat
      /\ pc \in [Servers -> [Threads -> Places]]
      /\ cancelled \in [Servers -> SUBSET Threads]
      /\ handle \in [Servers -> Handles \union {0}]
      /\ output \in [Servers -> Streams] /\ text \in [Servers -> Texts]
  BY ConstantsAssumption DEF TypeOK, Places, Streams, Texts
<1>2. \A s \in S : thread[s] < MaxThreads /\ thread[s] \in Threads
  BY <1>1 DEF Respawn, Threads
<1>3. /\ thread' \in [Servers -> 0..MaxThreads]
      /\ \A s \in Servers : thread'[s] = IF s \in S THEN thread[s] + 1 ELSE thread[s]
  BY <1>1, <1>2 DEF Respawn
<1>4. /\ pc' \in [Servers -> [Threads -> Places]]
      /\ \A s \in Servers, j \in Threads :
           pc'[s][j] = IF s \in S /\ j = thread[s] + 1 THEN "start" ELSE pc[s][j]
  BY <1>1, <1>3 DEF Respawn, Places
<1>5. /\ cancelled' \in [Servers -> SUBSET Threads]
      /\ \A s \in Servers :
           cancelled'[s] = IF s \in S THEN cancelled[s] \union {thread[s]} ELSE cancelled[s]
  BY <1>1, <1>2 DEF Respawn
<1>6. /\ handle' \in [Servers -> Handles \union {0}]
      /\ \A s \in Servers : handle'[s] = IF s \in S THEN 0 ELSE handle[s]
  BY <1>1 DEF Respawn
<1>7. /\ output' \in [Servers -> Streams] /\ text' \in [Servers -> Texts]
      /\ \A s \in Servers : /\ output'[s] = IF s \in S THEN {} ELSE output[s]
                            /\ text'[s] = IF s \in S THEN {} ELSE text[s]
  BY <1>1 DEF Respawn, Streams, Texts
<1> QED
  BY <1>2, <1>3, <1>4, <1>5, <1>6, <1>7 DEF Respawn, Replaced

TypeInv == TypeOK /\ StartedInv

LEMMA InitTypes == Init => TypeInv
<1> SUFFICES ASSUME Init PROVE TypeInv
  OBVIOUS
<1>1. counter \in Int
  BY ConstantsAssumption DEF Init
<1>2. TypeOK
  BY <1>1, ConstantsAssumption DEF Init, TypeOK, Servers, Threads, Poison
<1>3. StartedInv
  <2>1. threadOf = [a \in DOMAIN threadOf |-> threadOf[a]] /\ DOMAIN threadOf = {}
    BY DEF Init
  <2>2. counter <= counter
    BY <1>1
  <2> QED
    BY <1>1, <2>1, <2>2 DEF Init, StartedInv
<1> QED
  BY <1>2, <1>3 DEF TypeInv

\* The slowest thread is one of those that have been started.
LEMMA Slowest ==
  ASSUME TypeInv, threadOf # <<>>
  PROVE  /\ Min(DOMAIN threadOf) \in DOMAIN threadOf
         /\ \A a \in DOMAIN threadOf : Min(DOMAIN threadOf) <= a
         /\ threadOf[Min(DOMAIN threadOf)] \in Servers
         /\ thread[threadOf[Min(DOMAIN threadOf)]] # 0
<1>1. DOMAIN threadOf # {}
  <2> SUFFICES ASSUME DOMAIN threadOf = {} PROVE FALSE
    OBVIOUS
  <2>1. threadOf = [a \in {} |-> threadOf[a]]
    BY DEF TypeInv, StartedInv
  <2> QED
    BY <2>1
<1>2. DOMAIN threadOf \in SUBSET Int
  BY DEF TypeInv, TypeOK
<1>3. PICK least \in Int : \A a \in DOMAIN threadOf : least <= a
  BY DEF TypeInv, StartedInv
<1>4. /\ Min(DOMAIN threadOf) \in DOMAIN threadOf
      /\ \A a \in DOMAIN threadOf : Min(DOMAIN threadOf) <= a
  BY <1>1, <1>2, <1>3, MinIsIn
<1> QED
  BY <1>4 DEF TypeInv, TypeOK, StartedInv

LEMMA MainTypes ==
  ASSUME TypeInv, Accept \/ NetworkFails \/ Push \/ Enlarge \/ PushPoison
  PROVE  TypeInv'
<1> USE DEF TypeInv, Poison, Stdin, objectVars, streamVars, threadVars, watchVars, socketVars, mainVars
<1>1. CASE Accept
  <2>1. TypeOK'
    BY <1>1 DEF Accept, TypeOK
  <2>2. StartedInv'
    BY <1>1 DEF Accept, StartedInv
  <2> QED
    BY <2>1, <2>2
<1>2. CASE NetworkFails
  <2>1. TypeOK'
    BY <1>2 DEF NetworkFails, TypeOK
  <2>2. StartedInv'
    BY <1>2 DEF NetworkFails, StartedInv
  <2> QED
    BY <2>1, <2>2
<1>3. CASE Push
  <2>1. queue' \in Seq(Handles \union {Poison})
    BY <1>3 DEF Push, TypeOK
  <2>2. TypeOK'
    BY <1>3, <2>1 DEF Push, TypeOK
  <2>3. StartedInv'
    BY <1>3 DEF Push, StartedInv
  <2> QED
    BY <2>2, <2>3
<1>4. CASE Enlarge
  <2>1. servers' \in 0..MAXTHREADS /\ servers' \in Servers /\ poisons \in 0..servers'
    BY <1>4, ConstantsAssumption DEF Enlarge, TypeOK, Servers
  <2>2. 1 \in Threads /\ 1 \in 0..MaxThreads
    BY ConstantsAssumption DEF Threads
  <2>3. pc' \in [Servers -> [Threads -> Places]] /\ thread' \in [Servers -> 0..MaxThreads]
    BY <1>4, <2>1, <2>2 DEF Enlarge, TypeOK, Places
  <2>4. TypeOK'
    BY <1>4, <2>1, <2>3 DEF Enlarge, TypeOK, Places
  <2>5. \A s \in Servers : thread'[s] = 0 => thread[s] = 0 /\ pc'[s] = pc[s]
    BY <1>4, <2>1 DEF Enlarge, TypeOK
  <2> QED
    BY <1>4, <2>4, <2>5 DEF Enlarge, StartedInv
<1>5. CASE PushPoison
  <2>1. queue' \in Seq(Handles \union {Poison})
    BY <1>5 DEF PushPoison, TypeOK
  <2>2. poisons' \in 0..servers
    BY <1>5, ConstantsAssumption DEF PushPoison, TypeOK
  <2>3. TypeOK'
    BY <1>5, <2>1, <2>2 DEF PushPoison, TypeOK
  <2>4. StartedInv'
    BY <1>5 DEF PushPoison, StartedInv
  <2> QED
    BY <2>3, <2>4
<1> QED
  BY <1>1, <1>2, <1>3, <1>4, <1>5

\* Replacing threads keeps the types, with books that forget.
LEMMA RespawnTypes ==
  ASSUME TypeInv, NEW S \in SUBSET Servers, \A s \in S : thread[s] # 0, Respawn(S),
         main' \in {"accept", main}, UNCHANGED <<accepted, servers, poisons>>,
         UNCHANGED <<queue, counter>>,
         current' \union previous' \subseteq current \union previous,
         NEW gone, threadOf' = Erase(threadOf, gone),
         NEW left, ageOf' = Erase(ageOf, left)
  PROVE  TypeInv'
<1>1. /\ DOMAIN threadOf' \subseteq DOMAIN threadOf /\ DOMAIN ageOf' \subseteq DOMAIN ageOf
      /\ \A a \in DOMAIN threadOf' : threadOf'[a] = threadOf[a]
      /\ \A s \in DOMAIN ageOf' : ageOf'[s] = ageOf[s]
      /\ threadOf' = [a \in DOMAIN threadOf' |-> threadOf'[a]]
  BY DEF Erase
<1>2. /\ pc' \in [Servers -> [Threads -> Places]] /\ thread' \in [Servers -> 0..MaxThreads]
      /\ cancelled' \in [Servers -> SUBSET Threads]
      /\ handle' \in [Servers -> Handles \union {0}]
      /\ output' \in [Servers -> Streams] /\ text' \in [Servers -> Texts]
      /\ popped' = popped /\ strayed' = strayed /\ open' \subseteq open /\ cut' \subseteq open'
      /\ \A s \in Servers : thread'[s] = IF s \in S THEN thread[s] + 1 ELSE thread[s]
      /\ \A s \in Servers \ S, j \in Threads : pc'[s][j] = pc[s][j]
  <2>1. Replaced(S)
    BY Replaces DEF TypeInv
  <2> QED
    BY <2>1 DEF Replaced
<1>3. TypeOK'
  BY <1>1, <1>2 DEF TypeInv, TypeOK, Places, Streams, Texts
<1>4. \A s \in Servers : thread'[s] = 0 => thread[s] = 0 /\ s \notin S
  BY <1>2 DEF TypeInv, TypeOK
<1>5. StartedInv'
  BY <1>1, <1>2, <1>4 DEF TypeInv, StartedInv
<1> QED
  BY <1>3, <1>5 DEF TypeInv

LEMMA RespawnSlowestTypes == ASSUME TypeInv, RespawnSlowest PROVE TypeInv'
<1>1. CASE threadOf = <<>> /\ UNCHANGED <<open, cut, objectVars, threadVars, current, previous, ageOf, threadOf>>
  <2>1. /\ main' = "accept" /\ UNCHANGED <<accepted, servers, poisons, queue, connections, counter>>
        /\ UNCHANGED <<open, cut, handle, output, text, thread, pc, popped, cancelled, strayed>>
        /\ UNCHANGED <<current, previous, ageOf, threadOf>>
    BY <1>1 DEF RespawnSlowest, objectVars, streamVars, threadVars
  <2>2. TypeOK'
    BY <2>1 DEF TypeInv, TypeOK
  <2>3. StartedInv'
    BY <2>1 DEF TypeInv, StartedInv
  <2> QED
    BY <2>2, <2>3 DEF TypeInv
<1>2. CASE threadOf # <<>>
  <2> DEFINE s == threadOf[Min(DOMAIN threadOf)]
  <2>1. s \in Servers /\ thread[s] # 0
    BY <1>2, Slowest
  <2> HIDE DEF s
  <2>2. /\ Respawn({s}) /\ main' = "accept" /\ UNCHANGED <<accepted, servers, poisons>>
        /\ UNCHANGED <<queue, counter>>
        /\ current' \union previous' \subseteq current \union previous
        /\ threadOf' = Erase(threadOf, {Entry(ageOf, s)})
        /\ ageOf' = Erase(ageOf, {s})
    BY <1>2 DEF RespawnSlowest, s
  <2> QED
    BY <2>1, <2>2, RespawnTypes
<1> QED
  BY <1>1, <1>2 DEF RespawnSlowest

LEMMA RoundTypes == ASSUME TypeInv, Round PROVE TypeInv'
<1>1. previous \in SUBSET Servers /\ \A s \in previous : thread[s] # 0
  BY DEF TypeInv, TypeOK, StartedInv
<1> QED
  BY <1>1, RespawnTypes DEF Round, mainVars


\* A thread that goes on has been started.
LEMMA GoesStarted ==
  ASSUME TypeInv, NEW s \in Servers, NEW j \in Threads,
         NEW from \in Places \ {"none", "dead"}, NEW to \in Places, Goto(s, j, from, to)
  PROVE  /\ thread[s] # 0
         /\ pc' \in [Servers -> [Threads -> Places]] /\ strayed' \subseteq Servers
         /\ \A r \in Servers : thread[r] = 0 => pc'[r] = pc[r]
<1>1. /\ pc' \in [Servers -> [Threads -> Places]] /\ strayed' \subseteq Servers
      /\ \A r \in Servers \ {s} : pc'[r] = pc[r]
  BY GoesTo DEF TypeInv
<1>2. thread[s] # 0
  BY DEF Goto, TypeInv, StartedInv
<1> QED
  BY <1>1, <1>2

\* A thread that goes on, and does not touch the books, keeps the types if what
\* it changes has its type.
LEMMA GoesTypes ==
  ASSUME TypeInv, NEW s \in Servers, NEW j \in Threads,
         NEW from \in Places \ {"none", "dead"}, NEW to \in Places, Goto(s, j, from, to),
         UNCHANGED mainVars, UNCHANGED watchVars, UNCHANGED <<thread, cancelled>>,
         open' \subseteq open, cut' \subseteq open', queue' \in Seq(Handles \union {Poison}),
         handle' \in [Servers -> Handles \union {0}],
         output' \in [Servers -> Streams], text' \in [Servers -> Texts],
         popped' \in [Servers -> [Threads -> Handles \union {Poison}]]
  PROVE  TypeInv'
<1>1. /\ pc' \in [Servers -> [Threads -> Places]] /\ strayed' \subseteq Servers
      /\ \A r \in Servers : thread[r] = 0 => pc'[r] = pc[r]
  BY GoesStarted
<1>2. UNCHANGED <<main, accepted, servers, poisons>>
  BY DEF mainVars
<1>3. UNCHANGED <<counter, current, previous, ageOf, threadOf>>
  BY DEF watchVars
<1>4. TypeOK'
  BY <1>1, <1>2, <1>3 DEF TypeInv, TypeOK, Places, Streams, Texts
<1>5. StartedInv'
  BY <1>1, <1>3 DEF TypeInv, StartedInv
<1> QED
  BY <1>4, <1>5 DEF TypeInv

\* What the objects hold has its type after a thread has closed all.
LEMMA Forgotten ==
  ASSUME TypeOK, NEW s \in Servers
  PROVE  /\ [handle EXCEPT ![s] = 0] \in [Servers -> Handles \union {0}]
         /\ [output EXCEPT ![s] = {}] \in [Servers -> Streams]
         /\ [text EXCEPT ![s] = {}] \in [Servers -> Texts]
<1>1. handle \in [Servers -> Handles \union {0}] /\ output \in [Servers -> Streams]
      /\ text \in [Servers -> Texts]
  BY DEF TypeOK, Streams, Texts
<1>2. {} \in Streams /\ {} \in Texts
  BY DEF Streams, Texts
<1> QED
  BY <1>1, <1>2

LEMMA RunTypes ==
  ASSUME TypeInv, NEW s \in Servers, NEW j \in Threads, Run(s, j) \/ Serve(s, j)
  PROVE  TypeInv'
<1> USE DEF Poison, Stdin
<1>1. /\ cut \subseteq open /\ queue \in Seq(Handles \union {0})
      /\ handle \in [Servers -> Handles \union {0}]
      /\ output \in [Servers -> Streams] /\ text \in [Servers -> Texts]
      /\ popped \in [Servers -> [Threads -> Handles \union {0}]]
  BY DEF TypeInv, TypeOK, Streams, Texts
<1>2. ASSUME NEW from \in Places \ {"none", "dead"}, NEW to \in Places, Goto(s, j, from, to),
             UNCHANGED <<mainVars, socketVars, objectVars, popped, cancelled, watchVars>>
      PROVE  TypeInv'
  BY <1>1, <1>2, GoesTypes DEF socketVars, objectVars, streamVars
<1>3. CASE CallPop(s, j) \/ Read(s, j) \/ ReadMore(s, j) \/ GiveUp(s, j) \/ Written(s, j)
           \/ Finish(s, j)
  BY <1>2, <1>3 DEF CallPop, Read, ReadMore, GiveUp, Written, Finish, Places
<1>4. CASE Pop(s, j)
  <2>1. queue' \in Seq(Handles \union {0}) /\ Head(queue) \in Handles \union {0}
    BY <1>1, <1>4 DEF Pop
  <2>2. popped' \in [Servers -> [Threads -> Handles \union {0}]]
    BY <1>1, <1>4, <2>1 DEF Pop
  <2>3. Goto(s, j, "pop", "done") \/ Goto(s, j, "pop", "init")
    BY <1>4 DEF Pop
  <2> QED
    BY <1>1, <1>4, <2>1, <2>2, <2>3, GoesTypes DEF Pop, objectVars, streamVars, Places
<1>5. CASE Adopt(s, j)
  <2>1. /\ handle' \in [Servers -> Handles \union {0}]
        /\ popped' \in [Servers -> [Threads -> Handles \union {0}]]
    BY <1>1, <1>5 DEF Adopt
  <2>2. output' \in [Servers -> Streams] /\ text' \in [Servers -> Texts]
    BY <1>5, Forgotten DEF Adopt, TypeInv
  <2> QED
    BY <1>1, <1>5, <2>1, <2>2, GoesTypes DEF Adopt, socketVars, Places
<1>6. CASE Tic(s, j)
  <2>1. /\ thread[s] # 0
        /\ pc' \in [Servers -> [Threads -> Places]] /\ strayed' \subseteq Servers
        /\ \A r \in Servers : thread[r] = 0 => pc'[r] = pc[r]
    BY <1>6, GoesStarted DEF Tic, Places
  <2>2. counter' \in Int /\ counter' = counter + 1 /\ counter \in Int
    BY <1>6 DEF Tic, TypeInv, TypeOK
  <2>3. /\ DOMAIN threadOf' = DOMAIN threadOf \union {counter'}
        /\ \A a \in DOMAIN threadOf' : threadOf'[a] = IF a = counter' THEN s ELSE threadOf[a]
        /\ threadOf' = [a \in DOMAIN threadOf' |-> threadOf'[a]]
        /\ DOMAIN ageOf' = DOMAIN ageOf \union {s}
        /\ \A r \in DOMAIN ageOf' : ageOf'[r] = IF r = s THEN counter' ELSE ageOf[r]
    BY <1>6 DEF Tic
  <2>4. /\ UNCHANGED <<main, accepted, servers, poisons, open, cut, queue>>
        /\ UNCHANGED <<handle, output, text, thread, popped, cancelled, previous>>
        /\ current' = current \union {s}
    BY <1>6 DEF Tic, mainVars, socketVars, objectVars, streamVars
  <2>5. TypeOK'
    BY <2>1, <2>2, <2>3, <2>4 DEF TypeInv, TypeOK, Places
  <2>6. PICK least \in Int : least <= counter /\ \A a \in DOMAIN threadOf : least <= a
    BY DEF TypeInv, StartedInv
  <2>7. least <= counter' /\ \A a \in DOMAIN threadOf' : least <= a
    BY <2>2, <2>3, <2>6
  <2>8. StartedInv'
    BY <2>1, <2>3, <2>4, <2>7 DEF TypeInv, StartedInv
  <2> QED
    BY <2>5, <2>8 DEF TypeInv
<1>7. CASE Tac(s, j)
  <2>1. /\ DOMAIN threadOf' \subseteq DOMAIN threadOf /\ DOMAIN ageOf' \subseteq DOMAIN ageOf
        /\ \A a \in DOMAIN threadOf' : threadOf'[a] = threadOf[a]
        /\ \A r \in DOMAIN ageOf' : ageOf'[r] = ageOf[r]
        /\ threadOf' = [a \in DOMAIN threadOf' |-> threadOf'[a]]
    BY <1>7 DEF Tac, Erase
  <2>2. /\ pc' \in [Servers -> [Threads -> Places]] /\ strayed' \subseteq Servers
        /\ \A r \in Servers : thread[r] = 0 => pc'[r] = pc[r]
    BY <1>7, GoesStarted DEF Tac, Places
  <2>3. /\ current' \union previous' \subseteq current \union previous
        /\ UNCHANGED <<main, accepted, servers, poisons, open, cut, queue>>
        /\ UNCHANGED <<handle, output, text, thread, popped, cancelled, counter>>
    BY <1>7 DEF Tac, mainVars, socketVars, objectVars, streamVars
  <2>4. TypeOK'
    BY <2>1, <2>2, <2>3 DEF TypeInv, TypeOK, Places
  <2>5. StartedInv'
    BY <2>1, <2>2, <2>3 DEF TypeInv, StartedInv
  <2> QED
    BY <2>4, <2>5 DEF TypeInv
<1>8. CASE OpenOutput(s, j)
  <2>1. {handle[s]} \in Streams /\ {} \in Texts
    BY <1>1 DEF Streams, Texts
  <2>2. output' \in [Servers -> Streams] /\ text' \in [Servers -> Texts]
    BY <1>1, <1>8, <2>1 DEF OpenOutput
  <2> QED
    BY <1>1, <1>8, <2>2, GoesTypes DEF OpenOutput, socketVars, Places
<1>9. CASE PrintPart(s, j) \/ PrintDangling(s, j)
  <2>1. \A r \in Servers : text[r] \union {<<s, j>>} \in Texts
    BY <1>1 DEF Texts
  <2>2. text' = text \/ \E r \in Servers : text' = [text EXCEPT ![r] = @ \union {<<s, j>>}]
    BY <1>9 DEF PrintPart, PrintDangling
  <2>3. text' \in [Servers -> Texts]
    BY <1>1, <2>1, <2>2
  <2>4. PICK to \in Places : Goto(s, j, "print", to)
    BY <1>9 DEF PrintPart, PrintDangling, Places
  <2>5. /\ UNCHANGED mainVars /\ UNCHANGED watchVars /\ UNCHANGED <<open, cut, queue>>
        /\ UNCHANGED <<handle, output, thread, popped, cancelled>>
    BY <1>9 DEF PrintPart, PrintDangling, socketVars
  <2> QED
    BY <1>1, <2>3, <2>4, <2>5, GoesTypes DEF Places
<1>10. CASE Crash(s, j)
  <2>1. /\ UNCHANGED <<accepted, servers, poisons, queue, counter>>
        /\ UNCHANGED <<handle, output, text, thread, popped, cancelled>>
        /\ main' = "crashed" /\ open' = {} /\ cut' = {} /\ strayed' \in {strayed, strayed \union {s}}
        /\ pc' = [r \in Servers |-> [i \in Threads |-> "dead"]]
        /\ current' = {} /\ previous' = {} /\ ageOf' = <<>> /\ threadOf' = <<>>
    BY <1>10 DEF Crash, objectVars, streamVars
  <2>2. pc' \in [Servers -> [Threads -> Places]] /\ strayed' \subseteq Servers
    BY <2>1 DEF Places, TypeInv, TypeOK
  <2>3. DOMAIN threadOf' = {} /\ DOMAIN ageOf' = {}
        /\ threadOf' = [a \in DOMAIN threadOf' |-> threadOf'[a]]
    BY <2>1
  <2>4. TypeOK'
    BY <2>1, <2>2, <2>3 DEF TypeInv, TypeOK, Places
  <2>5. counter' \in Int /\ counter' <= counter'
    BY <2>4 DEF TypeOK
  <2>6. StartedInv'
    BY <2>1, <2>3, <2>5 DEF StartedInv
  <2> QED
    BY <2>4, <2>6 DEF TypeInv
<1>11. CASE Shutdown(s, j)
  BY <1>1, <1>11, GoesTypes DEF Shutdown, objectVars, streamVars, Places
<1>12. CASE Close(s, j) \/ SkipClose(s, j)
  <2>1. /\ handle' \in [Servers -> Handles \union {0}]
        /\ output' \in [Servers -> Streams] /\ text' \in [Servers -> Texts]
    BY <1>1, <1>12, Forgotten DEF Close, SkipClose, TypeInv
  <2>2. open' \subseteq open /\ cut' \subseteq open' /\ queue' = queue
    BY <1>1, <1>12 DEF Close, SkipClose, socketVars
  <2> QED
    BY <1>1, <1>12, <2>1, <2>2, GoesTypes DEF Close, SkipClose, Places
<1> QED
  BY <1>3, <1>4, <1>5, <1>6, <1>7, <1>8, <1>9, <1>10, <1>11, <1>12 DEF Run, Serve

LEMMA DieTypes ==
  ASSUME TypeInv, NEW s \in Servers, NEW j \in Threads, Die(s, j)
  PROVE  TypeInv'
<1>1. /\ UNCHANGED <<main, accepted, servers, poisons, open, cut, queue>>
      /\ UNCHANGED <<handle, output, text, thread, popped, cancelled, strayed>>
      /\ UNCHANGED <<counter, current, previous, ageOf, threadOf>>
      /\ pc' = [pc EXCEPT ![s][j] = "dead"]
  BY DEF Die, mainVars, socketVars, objectVars, streamVars, watchVars
<1>2. /\ pc' \in [Servers -> [Threads -> Places]]
      /\ \A r \in Servers, i \in Threads : pc'[r][i] \in {pc[r][i], "dead"}
  BY <1>1 DEF TypeInv, TypeOK, Places
<1>3. TypeOK'
  BY <1>1, <1>2 DEF TypeInv, TypeOK, Places
<1>4. StartedInv'
  BY <1>1, <1>2 DEF TypeInv, StartedInv
<1> QED
  BY <1>3, <1>4 DEF TypeInv

LEMMA TypeStep == ASSUME TypeInv, [Next]_vars PROVE TypeInv'
<1>1. CASE UNCHANGED vars
  <2> USE DEF vars, objectVars, streamVars, threadVars, watchVars, socketVars, mainVars
  <2>1. TypeOK'
    BY <1>1 DEF TypeInv, TypeOK
  <2>2. StartedInv'
    BY <1>1 DEF TypeInv, StartedInv
  <2> QED
    BY <2>1, <2>2 DEF TypeInv
<1> QED
  BY <1>1, MainTypes, RespawnSlowestTypes, RoundTypes, RunTypes, DieTypes DEF Next, MainStep

\* Everything has its type, whatever the marked threads do.
THEOREM TypeCorrect == Spec => []TypeOK
<1>1. TypeInv /\ [Next]_vars => TypeInv'
  BY TypeStep
<1>2. TypeInv => TypeOK
  BY DEF TypeInv
<1> QED
  BY <1>1, <1>2, InitTypes, PTL DEF Spec

-----------------------------------------------------------------------------
(* Which threads there are.                                                *)

ControlInv == TypeInv /\ CountInv

LEMMA InitCount == Init => ControlInv
<1> SUFFICES ASSUME Init PROVE ControlInv
  OBVIOUS
<1>1. \A s \in Servers : s \in Nat /\ s > 0
  BY ConstantsAssumption DEF Servers
<1>2. CountInv
  BY <1>1 DEF Init, CountInv, CountOf, Threads
<1> QED
  BY <1>2, InitTypes DEF ControlInv

\* The numbers of threads
LEMMA Numbers ==
  ASSUME TypeInv
  PROVE  /\ 1 \in Threads
         /\ \A s \in Servers : /\ thread[s] \in Nat /\ s \in Nat
                               /\ thread[s] # 0 => thread[s] \in Threads
         /\ \A j \in Threads : j \in Nat /\ j > 0
BY ConstantsAssumption DEF TypeInv, TypeOK, Threads, Servers

\* A thread that is not marked, and has been started, is the last one.
LEMMA OnlyActive ==
  ASSUME ControlInv, NEW s \in Servers, NEW j \in Threads,
         j \notin cancelled[s], pc[s][j] \notin {"none", "dead"}
  PROVE  j = thread[s] /\ thread[s] # 0
<1>1. thread[s] \in Nat /\ j \in Nat /\ j > 0 /\ cancelled[s] = 1..(thread[s] - 1)
  BY Numbers DEF ControlInv, CountInv, CountOf
<1>2. ~(j > thread[s])
  BY DEF ControlInv, CountInv, CountOf
<1> QED
  BY <1>1, <1>2

\* What a thread that goes on does to the order of threads: nothing.
LEMMA GoesCount ==
  ASSUME ControlInv, NEW s \in Servers, NEW j \in Threads,
         NEW from \in Places \ {"none", "dead"}, NEW to \in Places \ {"none", "dead"},
         Goto(s, j, from, to), UNCHANGED <<main, servers, thread, cancelled>>,
         \A r \in Servers, i \in Threads : pc'[r][i] = "init" => popped'[r][i] # Poison
  PROVE  CountInv' /\ main # "crashed"
<1>1. /\ pc[s][j] = from
      /\ \A r \in Servers, i \in Threads :
           pc'[r][i] = IF r = s /\ i = j THEN to ELSE pc[r][i]
  BY GoesTo DEF ControlInv, TypeInv
<1>2. main # "crashed" /\ ~(j > thread[s])
  BY <1>1 DEF ControlInv, CountInv, CountOf
<1>3. \A r \in Servers : thread[r] # 0 => thread[r] \in Threads
  BY Numbers DEF ControlInv
<1>4. ASSUME NEW r \in Servers
      PROVE  CountOf(r)'
  BY <1>1, <1>2, <1>3 DEF ControlInv, CountInv, CountOf, Active
<1> QED
  BY <1>2, <1>4 DEF CountInv

LEMMA RunCount ==
  ASSUME ControlInv, NEW s \in Servers, NEW j \in Threads, Run(s, j) \/ Serve(s, j), ~Crash(s, j)
  PROVE  CountInv' /\ main # "crashed" /\ UNCHANGED <<main, thread, cancelled, servers>>
<1> USE DEF objectVars, mainVars
<1>1. popped \in [Servers -> [Threads -> Handles \union {Poison}]]
      /\ \A r \in Servers, i \in Threads : pc[r][i] = "init" => popped[r][i] # Poison
  BY DEF ControlInv, TypeInv, TypeOK, CountInv, CountOf
<1>2. ASSUME NEW from \in Places \ {"none", "dead"}, NEW to \in Places \ {"none", "dead", "init"},
             Goto(s, j, from, to), UNCHANGED <<main, servers, thread, cancelled>>,
             popped' = popped \/ popped' = [popped EXCEPT ![s][j] = Poison]
      PROVE  CountInv' /\ main # "crashed"
  <2>1. \A r \in Servers, i \in Threads :
          pc'[r][i] = IF r = s /\ i = j THEN to ELSE pc[r][i]
    BY <1>2, GoesTo DEF ControlInv, TypeInv
  <2>2. \A r \in Servers, i \in Threads : pc'[r][i] = "init" => popped'[r][i] # Poison
    BY <1>1, <1>2, <2>1
  <2> QED
    BY <1>2, <2>2, GoesCount
<1>3. CASE CallPop(s, j) \/ Read(s, j) \/ ReadMore(s, j) \/ GiveUp(s, j) \/ Written(s, j)
           \/ Finish(s, j)
  BY <1>2, <1>3 DEF CallPop, Read, ReadMore, GiveUp, Written, Finish, Places
<1>4. CASE Tic(s, j) \/ Tac(s, j) \/ OpenOutput(s, j) \/ PrintPart(s, j) \/ PrintDangling(s, j)
  BY <1>2, <1>4 DEF Tic, Tac, OpenOutput, PrintPart, PrintDangling, Places
<1>5. CASE Adopt(s, j) \/ Shutdown(s, j) \/ Close(s, j) \/ SkipClose(s, j)
  BY <1>2, <1>5 DEF Adopt, Shutdown, Close, SkipClose, Places
<1>6. CASE Pop(s, j)
  <2>1. UNCHANGED <<main, servers, thread, cancelled>>
    BY <1>6 DEF Pop
  <2>2. CASE Head(queue) = Poison
    BY <1>2, <1>6, <2>1, <2>2 DEF Pop, Places
  <2>3. CASE Head(queue) # Poison
    <3>1. Goto(s, j, "pop", "init") /\ popped' = [popped EXCEPT ![s][j] = Head(queue)]
      BY <1>6, <2>3 DEF Pop
    <3>2. \A r \in Servers, i \in Threads :
            /\ pc'[r][i] = IF r = s /\ i = j THEN "init" ELSE pc[r][i]
            /\ popped'[r][i] = IF r = s /\ i = j THEN Head(queue) ELSE popped[r][i]
      BY <1>1, <3>1, GoesTo DEF ControlInv, TypeInv, Places
    <3>3. \A r \in Servers, i \in Threads : pc'[r][i] = "init" => popped'[r][i] # Poison
      BY <1>1, <2>3, <3>2
    <3> QED
      BY <2>1, <3>1, <3>3, GoesCount DEF Places
  <2> QED
    BY <2>1, <2>2, <2>3
<1> QED
  BY <1>3, <1>4, <1>5, <1>6
     DEF Run, Serve, CallPop, Pop, Adopt, Tic, Tac, Read, ReadMore, OpenOutput, GiveUp, PrintPart,
         PrintDangling, Written, Finish, Shutdown, Close, SkipClose

\* After a crash no thread is left; that it happens only when a marked thread has
\* gone on is seen elsewhere (OwnInv).
LEMMA CrashCount ==
  ASSUME ControlInv, NEW s \in Servers, NEW j \in Threads, Crash(s, j), strayed' # {}
  PROVE  CountInv'
<1>1. /\ main' = "crashed" /\ pc' = [r \in Servers |-> [i \in Threads |-> "dead"]]
      /\ current' = {} /\ previous' = {} /\ DOMAIN threadOf' = {}
      /\ UNCHANGED <<servers, thread, cancelled>>
  BY DEF Crash, objectVars
<1>2. \A r \in Servers, i \in Threads : pc'[r][i] = "dead"
  BY <1>1
<1> QED
  BY <1>1, <1>2 DEF ControlInv, CountInv, CountOf

LEMMA DieCount ==
  ASSUME ControlInv, NEW s \in Servers, NEW j \in Threads, Die(s, j)
  PROVE  /\ CountInv' /\ UNCHANGED <<main, thread, cancelled, strayed>>
         /\ j < thread[s] /\ pc[s][j] # "init"
         /\ \A r \in Servers, i \in Threads :
              pc'[r][i] = IF r = s /\ i = j THEN "dead" ELSE pc[r][i]
         /\ \A r \in Servers \ {s} : pc'[r] = pc[r]
<1>1. /\ \A r \in Servers, i \in Threads :
           pc'[r][i] = IF r = s /\ i = j THEN "dead" ELSE pc[r][i]
      /\ \A r \in Servers \ {s} : pc'[r] = pc[r]
      /\ j \in cancelled[s] /\ pc[s][j] \notin {"init", "dead"}
      /\ UNCHANGED <<main, servers, thread, popped, cancelled, strayed, current, previous>>
  BY DEF Die, ControlInv, TypeInv, TypeOK, mainVars, objectVars, watchVars
<1>2. j < thread[s] /\ \A r \in Servers : thread[r] # 0 => thread[r] \in Threads
  BY <1>1, Numbers DEF ControlInv, CountInv, CountOf
<1>3. main # "crashed" /\ thread[s] \in Nat /\ j \in Nat
  BY <1>1, Numbers DEF ControlInv, CountInv, CountOf
<1>4. ASSUME NEW r \in Servers
      PROVE  CountOf(r)'
  BY <1>1, <1>2, <1>3 DEF ControlInv, CountInv, CountOf, Active
<1> QED
  BY <1>1, <1>2, <1>3, <1>4 DEF CountInv

LEMMA MainCount ==
  ASSUME ControlInv, Accept \/ NetworkFails \/ Push \/ PushPoison
  PROVE  CountInv' /\ UNCHANGED <<thread, handle, output, text, pc, popped, cancelled, strayed>>
<1>1. /\ UNCHANGED <<servers, thread, handle, output, text, pc, popped, cancelled, strayed>>
      /\ UNCHANGED <<current, previous>> /\ main' # "crashed" /\ main # "crashed"
  BY DEF Accept, NetworkFails, Push, PushPoison, objectVars, streamVars, threadVars, watchVars
<1> QED
  BY <1>1 DEF ControlInv, CountInv, CountOf, Active

\* A new object, of which nothing has been started yet
LEMMA Enlarges ==
  ASSUME ControlInv, Enlarge
  PROVE  \E n \in Servers :
           /\ n = servers + 1 /\ servers \in Nat /\ thread[n] = 0 /\ servers' = n
           /\ thread'[n] = 1 /\ 1 \in Threads
           /\ \A j \in Threads : pc'[n][j] = IF j = 1 THEN "start" ELSE pc[n][j]
           /\ \A s \in Servers \ {n} : thread'[s] = thread[s] /\ pc'[s] = pc[s]
           /\ Active(n)' = "start"
           /\ \A s \in Servers \ {n} : Active(s)' = Active(s)
           /\ UNCHANGED <<accepted, handle, output, text, popped, cancelled, strayed>>
           /\ UNCHANGED <<open, cut, queue, counter, current, previous, ageOf, threadOf>>
           /\ main = "enlarge" /\ main' = "accept"
<1>0. PICK n \in Servers : n = servers + 1 /\ servers \in Nat
  BY ConstantsAssumption DEF ControlInv, TypeInv, TypeOK, Enlarge, Servers
<1>1. thread[n] = 0 /\ 1 \in Threads
  BY <1>0, Numbers DEF ControlInv, CountInv, CountOf
<1>2. /\ servers' = n
      /\ \A s \in Servers : thread'[s] = IF s = n THEN 1 ELSE thread[s]
      /\ \A j \in Threads : pc'[n][j] = IF j = 1 THEN "start" ELSE pc[n][j]
      /\ \A s \in Servers \ {n} : pc'[s] = pc[s]
  BY <1>0, <1>1 DEF ControlInv, TypeInv, TypeOK, Enlarge
<1>3. /\ UNCHANGED <<accepted, handle, output, text, popped, cancelled, strayed>>
      /\ UNCHANGED <<open, cut, queue, counter, current, previous, ageOf, threadOf>>
      /\ main = "enlarge" /\ main' = "accept"
  BY DEF Enlarge, socketVars, streamVars, watchVars
<1>4. Active(n)' = "start" /\ \A s \in Servers \ {n} : Active(s)' = Active(s)
  BY <1>1, <1>2 DEF Active
<1> QED
  BY <1>0, <1>1, <1>2, <1>3, <1>4

LEMMA EnlargeCount == ASSUME ControlInv, Enlarge PROVE CountInv'
<1>1. PICK n \in Servers :
        /\ n = servers + 1 /\ servers \in Nat /\ thread[n] = 0 /\ servers' = n
        /\ thread'[n] = 1
        /\ \A j \in Threads : pc'[n][j] = IF j = 1 THEN "start" ELSE pc[n][j]
        /\ \A s \in Servers \ {n} : thread'[s] = thread[s] /\ pc'[s] = pc[s]
        /\ Active(n)' = "start"
        /\ \A s \in Servers \ {n} : Active(s)' = Active(s)
        /\ UNCHANGED <<popped, cancelled>> /\ main = "enlarge" /\ main' = "accept"
  BY Enlarges
<1>2. \A s \in Servers : s \in Nat /\ \A j \in Threads : j \in Nat /\ j > 0
  BY Numbers DEF ControlInv
<1>3. \A s \in Servers : s <= n <=> s <= servers \/ s = n
  <2>1. n = servers + 1 /\ servers \in Nat
    BY <1>1
  <2>2. ASSUME NEW s \in Servers PROVE s \in Nat
    BY <1>2
  <2> QED
    BY <2>1, <2>2
<1>4. CountOf(n)'
  <2>1. cancelled[n] = 1..(0 - 1) /\ 1..(0 - 1) = {} /\ 1..(1 - 1) = {}
    BY <1>1 DEF ControlInv, CountInv, CountOf
  <2>2. \A j \in Threads : pc[n][j] \in {"none", "dead"}
    BY <1>1, <1>2 DEF ControlInv, CountInv, CountOf
  <2>3. n <= n
    BY <1>2
  <2> QED
    BY <1>1, <2>1, <2>2, <2>3 DEF CountOf
<1>5. ASSUME NEW s \in Servers \ {n}
      PROVE  CountOf(s)'
  BY <1>1, <1>3 DEF ControlInv, CountInv, CountOf
<1> QED
  BY <1>1, <1>4, <1>5 DEF CountInv

\* The books forget S, and nothing else.
Forget(S) ==
  /\ counter' = counter
  /\ current' \union previous' \subseteq current \union previous
  /\ (current \union previous) \ S \subseteq current' \union previous'
  /\ \A s \in S \ (current \intersect previous) : s \notin current' \union previous'
  /\ DOMAIN ageOf' = DOMAIN ageOf \ S
  /\ \A r \in DOMAIN ageOf' : ageOf'[r] = ageOf[r]
  /\ DOMAIN threadOf' = DOMAIN threadOf \ {Entry(ageOf, s) : s \in S}
  /\ \A a \in DOMAIN threadOf' : threadOf'[a] = threadOf[a]

\* What a round of the watchdog, or main when it needs a thread, does to those
\* of S, who are in the books
Respawned(S) ==
  /\ Replaced(S) /\ Forget(S)
  /\ \A s \in S : thread[s] # 0 /\ (s \in previous \/ \E a \in DOMAIN threadOf : threadOf[a] = s)
  /\ UNCHANGED <<accepted, servers, queue>> /\ main' \in {main, "accept"}
  /\ main # main' => main = "enlarge"
  /\ current' \subseteq current
  /\ previous' \subseteq previous \/ (current' = {} /\ previous' = current)

LEMMA Respawns ==
  ASSUME TypeInv, RespawnSlowest \/ Round
  PROVE  \E S \in SUBSET Servers : Respawned(S)
<1>1. CASE Round
  <2>1. previous \in SUBSET Servers /\ \A s \in previous : thread[s] # 0
    BY DEF TypeInv, TypeOK, StartedInv
  <2>2. Replaced(previous)
    BY <1>1, <2>1, Replaces DEF Round, TypeInv
  <2>3. /\ previous' = current /\ current' = {} /\ counter' = counter
        /\ ageOf' = Erase(ageOf, previous)
        /\ threadOf' = Erase(threadOf, {Entry(ageOf, s) : s \in previous})
        /\ UNCHANGED <<main, accepted, servers, queue>>
    BY <1>1 DEF Round, mainVars
  <2>4. Forget(previous)
    BY <2>3 DEF Forget, Erase
  <2> QED
    BY <2>1, <2>2, <2>3, <2>4 DEF Respawned
<1>2. CASE RespawnSlowest
  <2>0. UNCHANGED <<accepted, servers, queue, counter>> /\ main = "enlarge" /\ main' = "accept"
    BY <1>2 DEF RespawnSlowest
  <2>1. CASE UNCHANGED <<open, cut, objectVars, threadVars, current, previous, ageOf, threadOf>>
    <3>1. /\ UNCHANGED <<open, cut, handle, output, text, thread, pc, popped, cancelled, strayed>>
          /\ UNCHANGED <<current, previous, ageOf, threadOf>>
      BY <2>1 DEF objectVars, streamVars, threadVars
    <3>2. Replaced({})
      BY <3>1 DEF Replaced, TypeInv, TypeOK, Places, Streams, Texts
    <3>3. Forget({})
      BY <2>0, <3>1 DEF Forget
    <3> QED
      BY <2>0, <3>1, <3>2, <3>3 DEF Respawned
  <2>2. CASE threadOf # <<>>
    <3>1. PICK s \in Servers : s = threadOf[Min(DOMAIN threadOf)]
      BY <2>2, Slowest
    <3>2. thread[s] # 0 /\ Min(DOMAIN threadOf) \in DOMAIN threadOf
      BY <2>2, <3>1, Slowest
    <3>3. CASE Respawn({s}) /\ previous' = previous \ {s} /\ current' = current \ {s}
               /\ threadOf' = Erase(threadOf, {Entry(ageOf, s)}) /\ ageOf' = Erase(ageOf, {s})
      <4>1. Replaced({s})
        BY <3>2, <3>3, Replaces DEF TypeInv
      <4>2. Forget({s})
        BY <2>0, <3>3 DEF Forget, Erase
      <4> QED
        BY <2>0, <3>1, <3>2, <3>3, <4>1, <4>2 DEF Respawned
    <3> QED
      BY <1>2, <2>1, <3>1, <3>3 DEF RespawnSlowest
  <2> QED
    BY <1>2, <2>1, <2>2 DEF RespawnSlowest
<1> QED
  BY <1>1, <1>2

LEMMA RespawnCount ==
  ASSUME ControlInv, NEW S \in SUBSET Servers, Respawned(S)
  PROVE  /\ CountInv'
         /\ \A s \in S : Active(s)' = "start"
         /\ \A s \in Servers \ S : pc'[s] = pc[s] /\ Active(s)' = Active(s)
<1>1. \A s \in Servers : /\ thread'[s] = IF s \in S THEN thread[s] + 1 ELSE thread[s]
                         /\ cancelled'[s] = IF s \in S THEN cancelled[s] \union {thread[s]}
                                                        ELSE cancelled[s]
                         /\ s \in S => thread[s] < MaxThreads /\ thread[s] # 0
  BY DEF Respawned, Replaced
<1>2. /\ \A s \in Servers, j \in Threads :
           pc'[s][j] = IF s \in S /\ j = thread[s] + 1 THEN "start" ELSE pc[s][j]
      /\ popped' = popped /\ strayed' = strayed
  BY DEF Respawned, Replaced
<1>3. \A s \in Servers : /\ thread[s] \in Nat /\ (thread[s] # 0 => thread[s] \in Threads)
                         /\ s \in S => thread[s] + 1 \in Threads
  <2>1. ASSUME NEW s \in S PROVE thread[s] + 1 \in Threads
    <3>1. thread[s] \in Nat /\ thread[s] < MaxThreads /\ MaxThreads \in Nat
      BY <1>1, Numbers, ConstantsAssumption DEF ControlInv
    <3> QED
      BY <3>1 DEF Threads
  <2> QED
    BY <2>1, Numbers DEF ControlInv
<1>4. \A s \in S : Active(s)' = "start"
  <2> SUFFICES ASSUME NEW s \in S PROVE Active(s)' = "start"
    OBVIOUS
  <2>1. thread'[s] = thread[s] + 1 /\ thread'[s] \in Threads
    BY <1>1, <1>3
  <2> QED
    BY <1>2, <2>1 DEF Active
<1>5. \A s \in Servers \ S : pc'[s] = pc[s] /\ Active(s)' = Active(s)
  <2> SUFFICES ASSUME NEW s \in Servers \ S PROVE pc'[s] = pc[s] /\ Active(s)' = Active(s)
    OBVIOUS
  <2>1. pc[s] \in [Threads -> Places] /\ pc'[s] \in [Threads -> Places]
    BY DEF ControlInv, TypeInv, TypeOK, Places, Respawned, Replaced
  <2>2. \A j \in Threads : pc'[s][j] = pc[s][j]
    BY <1>2
  <2>3. pc'[s] = pc[s]
    BY <2>1, <2>2
  <2> QED
    BY <1>1, <2>3 DEF Active
<1>6. main = "crashed" => S = {}
  <2>1. \A s \in S : s \in previous \/ \E a \in DOMAIN threadOf : threadOf[a] = s
    BY DEF Respawned
  <2> QED
    BY <2>1 DEF ControlInv, CountInv
<1>7. main' = "crashed" => main = "crashed"
  BY DEF Respawned
<1>8. ASSUME NEW s \in S PROVE CountOf(s)'
  <2>1. CountOf(s)
    BY DEF ControlInv, CountInv
  <2>2. cancelled'[s] = 1..(thread'[s] - 1)
    <3>1. thread[s] \in Nat /\ thread[s] # 0 /\ thread'[s] = thread[s] + 1
      BY <1>1, <1>3
    <3>2. cancelled'[s] = 1..(thread[s] - 1) \union {thread[s]}
      BY <1>1, <2>1 DEF CountOf
    <3>3. thread'[s] - 1 = thread[s] /\ 1..(thread[s] - 1) \union {thread[s]} = 1..thread[s]
      BY <3>1
    <3> QED
      BY <3>2, <3>3
  <2>3. /\ thread'[s] # 0 <=> s <= servers'
        /\ \A j \in Threads : j > thread'[s] => pc'[s][j] \in {"none", "dead"}
        /\ \A j \in Threads : pc'[s][j] = "init" => popped'[s][j] # Poison
    <3>1. thread'[s] = thread[s] + 1 /\ thread[s] \in Nat /\ thread[s] # 0 /\ servers' = servers
      BY <1>1, <1>3 DEF Respawned
    <3>2. \A j \in Threads : j \in Nat /\ pc'[s][j] = IF j = thread[s] + 1 THEN "start" ELSE pc[s][j]
      BY <1>2 DEF Threads
    <3> QED
      BY <1>2, <2>1, <3>1, <3>2 DEF CountOf
  <2> QED
    BY <1>4, <2>2, <2>3 DEF CountOf
<1>9. ASSUME NEW s \in Servers \ S PROVE CountOf(s)'
  <2>1. /\ CountOf(s) /\ pc'[s] = pc[s] /\ Active(s)' = Active(s) /\ popped' = popped
        /\ thread'[s] = thread[s] /\ cancelled'[s] = cancelled[s] /\ servers' = servers
        /\ main' # "crashed" => main # "crashed"
    BY <1>1, <1>2, <1>5 DEF ControlInv, CountInv, Respawned
  <2> QED
    BY <2>1 DEF CountOf
<1>10. main' = "crashed" =>
         /\ strayed' # {} /\ current' \union previous' = {} /\ DOMAIN threadOf' = {}
         /\ \A s \in Servers, j \in Threads : pc'[s][j] = "dead"
  <2>1. /\ current' \union previous' \subseteq current \union previous
        /\ DOMAIN threadOf' \subseteq DOMAIN threadOf
    BY DEF Respawned, Forget
  <2> QED
    BY <1>2, <1>6, <1>7, <2>1 DEF ControlInv, CountInv
<1> QED
  BY <1>4, <1>5, <1>8, <1>9, <1>10 DEF CountInv

-----------------------------------------------------------------------------
(* The objects of which no marked thread has gone on.                      *)

\* Other threads, and the books, leave s as it is.
SameObject(s) ==
  /\ thread'[s] = thread[s] /\ pc'[s] = pc[s]
  /\ handle'[s] = handle[s] /\ output'[s] = output[s]

SameBooks(s) ==
  /\ s \in current' \union previous' <=> s \in current \union previous
  /\ s \in current' \intersect previous' => s \in current \intersect previous
  /\ s \in DOMAIN ageOf' <=> s \in DOMAIN ageOf
  /\ s \in DOMAIN ageOf => ageOf'[s] = ageOf[s]
  /\ \A a \in DOMAIN threadOf' : threadOf'[a] = s => a \in DOMAIN threadOf /\ threadOf[a] = s

LEMMA OwnKept ==
  ASSUME NEW s \in Servers, OwnInv(s), SameObject(s), SameBooks(s)
  PROVE  OwnInv(s)'
BY DEF OwnInv, SameObject, SameBooks, Busy, Active

\* What replacing threads and forgetting those of S leaves of the books of s
LEMMA ForgetOthers ==
  ASSUME NEW S, NEW s, s \notin S, Forget(S),
         current' \subseteq current,
         previous' \subseteq previous \/ current' = {}
  PROVE  SameBooks(s)
BY DEF Forget, SameBooks

LEMMA RespawnOwn ==
  ASSUME ControlInv, NEW S \in SUBSET Servers, Respawned(S), NEW s \in Servers, OwnInv(s)
  PROVE  OwnInv(s)'
<1>1. CASE s \notin S
  <2>1. SameObject(s)
    BY <1>1, RespawnCount DEF SameObject, Respawned, Replaced
  <2>2. SameBooks(s)
    BY <1>1, ForgetOthers DEF Respawned
  <2> QED
    BY <2>1, <2>2, OwnKept
<1>2. CASE s \in S
  <2>1. /\ thread'[s] = thread[s] + 1 /\ handle'[s] = 0 /\ output'[s] = {}
        /\ \A j \in Threads : pc'[s][j] = IF j = thread[s] + 1 THEN "start" ELSE pc[s][j]
        /\ Active(s)' = "start" /\ thread[s] \in Nat /\ thread[s] # 0
    BY <1>2, RespawnCount, Numbers DEF Respawned, Replaced, ControlInv
  <2>2. Busy(s)
    BY <1>2 DEF Respawned, OwnInv
  <2>3. \A j \in Threads : j < thread'[s] => pc'[s][j] \in Serving \union {"dead"}
    <3>1. \A j \in Threads : j \in Nat /\ (j < thread[s] + 1 => j < thread[s] \/ j = thread[s])
      BY <2>1 DEF Threads
    <3> QED
      BY <2>1, <2>2, <3>1 DEF OwnInv, Busy
  <2>4. s \notin current' \union previous' /\ s \notin DOMAIN ageOf'
    BY <1>2 DEF Respawned, Forget, OwnInv
  <2>5. \A a \in DOMAIN threadOf' : threadOf'[a] # s
    <3> SUFFICES ASSUME NEW a \in DOMAIN threadOf', threadOf'[a] = s PROVE FALSE
      OBVIOUS
    <3>1. a \in DOMAIN threadOf /\ threadOf[a] = s /\ a # Entry(ageOf, s)
      BY <1>2 DEF Respawned, Forget
    <3>2. a = Entry(ageOf, s)
      BY <3>1 DEF OwnInv, Entry
    <3> QED
      BY <3>1, <3>2
  <2>6. ~Busy(s)'
    BY <2>1 DEF Busy, Active, Serving
  <2> QED
    BY <2>1, <2>3, <2>4, <2>5, <2>6 DEF OwnInv, Holding, Serving
<1> QED
  BY <1>1, <1>2

LEMMA MainOwn ==
  ASSUME ControlInv, Accept \/ NetworkFails \/ Push \/ PushPoison \/ Enlarge,
         NEW s \in Servers, main # "crashed" => OwnInv(s)
  PROVE  OwnInv(s)'
<1>1. main # "crashed" /\ UNCHANGED <<counter, current, previous, ageOf, threadOf>>
  BY DEF Accept, NetworkFails, Push, PushPoison, Enlarge, watchVars
<1>2. SameBooks(s)
  BY <1>1 DEF SameBooks
<1>3. CASE ~Enlarge
  <2>1. SameObject(s)
    BY <1>3, MainCount DEF SameObject
  <2> QED
    BY <1>1, <1>2, <2>1, OwnKept
<1>4. CASE Enlarge
  <2>1. PICK n \in Servers :
           /\ thread[n] = 0 /\ thread'[n] = 1 /\ Active(n)' = "start"
           /\ \A r \in Servers \ {n} : thread'[r] = thread[r] /\ pc'[r] = pc[r]
           /\ UNCHANGED <<handle, output>>
    BY <1>4, Enlarges
  <2>2. CASE s # n
    <3>1. SameObject(s)
      BY <2>1, <2>2 DEF SameObject
    <3> QED
      BY <1>1, <1>2, <3>1, OwnKept
  <2>3. CASE s = n
    <3>1. ~Busy(s) /\ ~Busy(s)'
      BY <2>1, <2>3 DEF Busy, Active, Serving
    <3>2. \A j \in Threads : ~(j < thread'[s])
      BY <2>1, <2>3 DEF Threads
    <3> QED
      BY <1>1, <2>1, <2>3, <3>1, <3>2 DEF OwnInv, Holding, Serving
  <2> QED
    BY <2>2, <2>3
<1> QED
  BY <1>3, <1>4

LEMMA DieOwn ==
  ASSUME ControlInv, NEW r \in Servers, NEW j \in Threads, Die(r, j), NEW s \in Servers, OwnInv(s)
  PROVE  OwnInv(s)'
<1>1. /\ UNCHANGED <<thread, handle, output, counter, current, previous, ageOf, threadOf>>
      /\ j < thread[r] /\ thread[r] \in Nat /\ j \in Nat
      /\ \A i \in Threads : pc'[r][i] = IF i = j THEN "dead" ELSE pc[r][i]
      /\ \A q \in Servers \ {r} : pc'[q] = pc[q]
  <2>1. UNCHANGED <<thread, handle, output, counter, current, previous, ageOf, threadOf>>
    BY DEF Die, objectVars, streamVars, watchVars
  <2>2. thread[r] \in Nat /\ j \in Nat
    BY Numbers DEF ControlInv
  <2> QED
    BY <2>1, <2>2, DieCount
<1>2. SameBooks(s)
  BY <1>1 DEF SameBooks
<1>3. CASE s # r
  BY <1>1, <1>2, <1>3, OwnKept DEF SameObject
<1>4. CASE s = r
  <2>1. thread[s] # 0 => Active(s)' = Active(s)
    BY <1>1, <1>4, Numbers DEF Active, ControlInv
  <2>2. Busy(s)' <=> Busy(s)
    BY <1>1, <2>1 DEF Busy, Active
  <2> QED
    BY <1>1, <1>4, <2>1, <2>2 DEF OwnInv
<1> QED
  BY <1>3, <1>4

\* A thread of another object goes on.
LEMMA OthersRun ==
  ASSUME ControlInv, NEW r \in Servers, NEW j \in Threads, Run(r, j) \/ Serve(r, j), ~Crash(r, j),
         NEW s \in Servers \ {r}, OwnInv(s)
  PROVE  OwnInv(s)'
<1> USE DEF objectVars, streamVars, socketVars, mainVars, watchVars
<1>1. thread' = thread /\ pc'[s] = pc[s]
  <2>1. UNCHANGED thread
    BY RunCount
  <2>2. \E from, to : Goto(r, j, from, to)
    BY DEF Run, Serve, CallPop, Pop, Adopt, Tic, Tac, Read, ReadMore, OpenOutput, GiveUp, PrintPart,
           PrintDangling, Written, Finish, Shutdown, Close, SkipClose
  <2> QED
    BY <2>1, <2>2 DEF Goto, ControlInv, TypeInv, TypeOK
<1>2. handle'[s] = handle[s] /\ output'[s] = output[s]
  <2>1. handle' = handle \/ \E x : handle' = [handle EXCEPT ![r] = x]
    BY DEF Run, Serve, CallPop, Pop, Adopt, Tic, Tac, Read, ReadMore, OpenOutput, GiveUp, PrintPart,
           PrintDangling, Written, Finish, Shutdown, Close, SkipClose
  <2>2. output' = output \/ \E x : output' = [output EXCEPT ![r] = x]
    BY DEF Run, Serve, CallPop, Pop, Adopt, Tic, Tac, Read, ReadMore, OpenOutput, GiveUp, PrintPart,
           PrintDangling, Written, Finish, Shutdown, Close, SkipClose
  <2>3. handle \in [Servers -> Handles \union {0}] /\ output \in [Servers -> Streams]
    BY DEF ControlInv, TypeInv, TypeOK, Streams
  <2> QED
    BY <2>1, <2>2, <2>3
<1>3. SameBooks(s)
  <2>1. CASE Tic(r, j)
    BY <2>1 DEF Tic, SameBooks
  <2>2. CASE Tac(r, j)
    BY <2>2 DEF Tac, Erase, SameBooks
  <2>3. CASE ~Tic(r, j) /\ ~Tac(r, j)
    <3>1. UNCHANGED <<counter, current, previous, ageOf, threadOf>>
      BY <2>3 DEF Run, Serve, CallPop, Pop, Adopt, Read, ReadMore, OpenOutput, GiveUp, PrintPart,
                  PrintDangling, Written, Finish, Shutdown, Close, SkipClose
    <3> QED
      BY <3>1 DEF SameBooks
  <2> QED
    BY <2>1, <2>2, <2>3
<1> QED
  BY <1>1, <1>2, <1>3, OwnKept DEF SameObject

\* The last thread of s goes from its place to another one.
Moves(s, j, from, to) ==
  /\ j = thread[s] /\ thread[s] # 0 /\ j \notin cancelled[s]
  /\ UNCHANGED <<main, accepted, servers, poisons, thread, cancelled, strayed>>
  /\ Active(s) = from /\ Active(s)' = to
  /\ \A i \in Threads \ {j} : pc'[s][i] = pc[s][i]
  /\ \A r \in Servers \ {s} : pc'[r] = pc[r]

\* What it does to its object, when it does not change its books
LEMMA OwnMoves ==
  ASSUME TypeInv, NEW s \in Servers, NEW j \in Threads, OwnInv(s),
         NEW from, NEW to, Moves(s, j, from, to),
         from \in Serving <=> to \in Serving, UNCHANGED watchVars,
         handle'[s] # 0 <=> to \in Holding,
         output'[s] # {} => output'[s] = {handle'[s]} /\ handle'[s] # 0,
         to \in {"print", "write"} => output'[s] # {},
         to \in {"tic", "read", "parse"} => output'[s] = {}
  PROVE  OwnInv(s)'
<1>1. Busy(s) <=> from \in Serving
  BY DEF Moves, Busy, Active
<1>2. Busy(s)' <=> to \in Serving
  BY DEF Moves, Busy, Active
<1>3. \A i \in Threads : i < thread'[s] => pc'[s][i] \in Serving \union {"dead"}
  BY Numbers DEF Moves, OwnInv
<1>4. UNCHANGED <<counter, current, previous, ageOf, threadOf>>
  BY DEF watchVars
<1> QED
  BY <1>1, <1>2, <1>3, <1>4 DEF OwnInv, Moves

\* The steps of a thread that is not marked, of an object of its own
LastRuns(s, j) ==
  \/ CallPop(s, j) /\ Moves(s, j, "start", "pop")
  \/ Pop(s, j) /\ \E to \in {"init", "done"} : Moves(s, j, "pop", to)
  \/ Adopt(s, j) /\ Moves(s, j, "init", "tic")
  \/ Tic(s, j) /\ Moves(s, j, "tic", "read")
  \/ Read(s, j) /\ Moves(s, j, "read", "parse")
  \/ ReadMore(s, j) /\ Moves(s, j, "parse", "read")
  \/ OpenOutput(s, j) /\ Moves(s, j, "parse", "print")
  \/ GiveUp(s, j) /\ Moves(s, j, "parse", "tac")
  \/ PrintPart(s, j) /\ \E to \in {"print", "write"} : Moves(s, j, "print", to)
  \/ Written(s, j) /\ Moves(s, j, "write", "print")
  \/ Finish(s, j) /\ Moves(s, j, "print", "tac")
  \/ Tac(s, j) /\ Moves(s, j, "tac", "clean")
  \/ Shutdown(s, j) /\ Moves(s, j, "clean", "close")
  \/ Close(s, j) /\ Moves(s, j, "close", "start")

LEMMA LastRun ==
  ASSUME ControlInv, NEW s \in Servers, NEW j \in Threads, s \notin strayed', OwnInv(s),
         Run(s, j) \/ Serve(s, j)
  PROVE  LastRuns(s, j)
<1> USE DEF mainVars, objectVars
<1>1. ASSUME NEW from \in Places \ {"none", "dead"}, NEW to \in Places, Goto(s, j, from, to),
             UNCHANGED mainVars, UNCHANGED <<thread, cancelled>>
      PROVE  Moves(s, j, from, to)
  <2>1. j \notin cancelled[s] /\ strayed' = strayed /\ pc[s][j] = from
    BY <1>1, GoesTo DEF ControlInv, TypeInv
  <2>2. j = thread[s] /\ thread[s] # 0
    BY <1>1, <2>1, OnlyActive
  <2>3. /\ \A i \in Threads : pc'[s][i] = IF i = j THEN to ELSE pc[s][i]
        /\ \A r \in Servers \ {s} : pc'[r] = pc[r]
    BY <1>1, GoesTo DEF ControlInv, TypeInv
  <2> QED
    BY <1>1, <2>1, <2>2, <2>3 DEF Moves, Active
<1>2. ASSUME Dangling(s, j), pc[s][j] = "print", j \notin cancelled[s] PROVE FALSE
  <2>1. j = thread[s] /\ thread[s] # 0
    BY <1>2, OnlyActive
  <2> QED
    BY <1>2, <2>1 DEF Dangling, OwnInv, Active
<1>3. ~Crash(s, j)
  <2> SUFFICES ASSUME Crash(s, j) PROVE FALSE
    OBVIOUS
  <2>1. j \notin cancelled[s]
    BY DEF Crash
  <2> QED
    BY <1>2, <2>1 DEF Crash
<1>4. ~PrintDangling(s, j)
  <2> SUFFICES ASSUME PrintDangling(s, j) PROVE FALSE
    OBVIOUS
  <2>1. j \notin cancelled[s] /\ pc[s][j] = "print"
    BY DEF PrintDangling, Goto
  <2> QED
    BY <1>2, <2>1 DEF PrintDangling
<1>5. ~SkipClose(s, j)
  <2> SUFFICES ASSUME SkipClose(s, j) PROVE FALSE
    OBVIOUS
  <2>1. Moves(s, j, "clean", "start") /\ handle[s] = 0
    BY <1>1 DEF SkipClose, Places
  <2> QED
    BY <2>1 DEF Moves, OwnInv, Holding
<1>6. CASE CallPop(s, j) \/ Adopt(s, j) \/ Tic(s, j) \/ Tac(s, j)
  BY <1>1, <1>6 DEF CallPop, Adopt, Tic, Tac, Places, LastRuns
<1>7. CASE Pop(s, j)
  <2>1. Goto(s, j, "pop", "init") \/ Goto(s, j, "pop", "done")
    BY <1>7 DEF Pop
  <2> QED
    BY <1>1, <1>7, <2>1 DEF Pop, Places, LastRuns
<1>8. CASE Read(s, j) \/ ReadMore(s, j) \/ OpenOutput(s, j) \/ GiveUp(s, j)
  BY <1>1, <1>8 DEF Read, ReadMore, OpenOutput, GiveUp, Places, LastRuns
<1>9. CASE Written(s, j) \/ Finish(s, j)
  BY <1>1, <1>9 DEF Written, Finish, Places, LastRuns
<1>11. CASE PrintPart(s, j)
  <2>1. Goto(s, j, "print", "print") \/ Goto(s, j, "print", "write")
    BY <1>11 DEF PrintPart
  <2> QED
    BY <1>1, <1>11, <2>1 DEF PrintPart, Places, LastRuns
<1>10. CASE Shutdown(s, j) \/ Close(s, j)
  BY <1>1, <1>10 DEF Shutdown, Close, Places, LastRuns
<1> QED
  BY <1>3, <1>4, <1>5, <1>6, <1>7, <1>8, <1>9, <1>10, <1>11 DEF Run, Serve

LEMMA LastOwn ==
  ASSUME ControlInv, NEW s \in Servers, NEW j \in Threads, OwnInv(s), LastRuns(s, j)
  PROVE  OwnInv(s)'
<1> USE DEF objectVars, streamVars
<1>1. /\ handle \in [Servers -> Handles \union {0}] /\ output \in [Servers -> Streams]
      /\ counter \in Int /\ TypeInv
  BY DEF ControlInv, TypeInv, TypeOK, Streams
<1>2. ASSUME NEW from, NEW to, Moves(s, j, from, to),
             from \in Serving <=> to \in Serving, from \in Holding <=> to \in Holding,
             UNCHANGED watchVars, UNCHANGED <<handle, output>>,
             to \in {"print", "write"} => from \in {"print", "write"},
             to \in {"tic", "read", "parse"} => from \in {"tic", "read", "parse"}
      PROVE  OwnInv(s)'
  <2>1. /\ handle'[s] # 0 <=> to \in Holding
        /\ output'[s] # {} => output'[s] = {handle'[s]} /\ handle'[s] # 0
        /\ to \in {"print", "write"} => output'[s] # {}
        /\ to \in {"tic", "read", "parse"} => output'[s] = {}
    BY <1>2 DEF OwnInv, Moves
  <2> QED
    BY <1>1, <1>2, <2>1, OwnMoves
<1>3. CASE CallPop(s, j) /\ Moves(s, j, "start", "pop")
  BY <1>2, <1>3 DEF CallPop, Holding, Serving
<1>4. CASE Pop(s, j) /\ \E to \in {"init", "done"} : Moves(s, j, "pop", to)
  BY <1>2, <1>4 DEF Pop, Holding, Serving
<1>5. CASE Adopt(s, j) /\ Moves(s, j, "init", "tic")
  <2>1. popped[s][j] # 0
    BY <1>5 DEF ControlInv, CountInv, CountOf, Moves, Active, Poison
  <2>2. handle'[s] # 0 /\ output'[s] = {}
    BY <1>1, <1>5, <2>1 DEF Adopt
  <2> QED
    BY <1>1, <1>5, <2>2, OwnMoves DEF Adopt, Holding, Serving
<1>6. CASE Read(s, j) /\ Moves(s, j, "read", "parse")
  BY <1>2, <1>6 DEF Read, Holding, Serving
<1>7. CASE ReadMore(s, j) /\ Moves(s, j, "parse", "read")
  BY <1>2, <1>7 DEF ReadMore, Holding, Serving
<1>8. CASE OpenOutput(s, j) /\ Moves(s, j, "parse", "print")
  <2>1. handle'[s] = handle[s] /\ output'[s] = {handle[s]} /\ handle[s] # 0
    BY <1>1, <1>8 DEF OpenOutput, OwnInv, Moves, Holding, Serving
  <2> QED
    BY <1>1, <1>8, <2>1, OwnMoves DEF OpenOutput, Holding, Serving
<1>9. CASE GiveUp(s, j) /\ Moves(s, j, "parse", "tac")
  BY <1>2, <1>9 DEF GiveUp, Holding, Serving
<1>10. CASE PrintPart(s, j) /\ \E to \in {"print", "write"} : Moves(s, j, "print", to)
  BY <1>2, <1>10 DEF PrintPart, Holding, Serving
<1>11. CASE Written(s, j) /\ Moves(s, j, "write", "print")
  BY <1>2, <1>11 DEF Written, Holding, Serving
<1>12. CASE Finish(s, j) /\ Moves(s, j, "print", "tac")
  BY <1>2, <1>12 DEF Finish, Holding, Serving
<1>13. CASE Shutdown(s, j) /\ Moves(s, j, "clean", "close")
  BY <1>2, <1>13 DEF Shutdown, Holding, Serving
<1>14. CASE Close(s, j) /\ Moves(s, j, "close", "start")
  <2>1. handle'[s] = 0 /\ output'[s] = {}
    BY <1>1, <1>14 DEF Close
  <2> QED
    BY <1>1, <1>14, <2>1, OwnMoves DEF Close, Holding, Serving
\* Only tic() and tac() change the books.
<1>15. CASE Tic(s, j) /\ Moves(s, j, "tic", "read")
  <2>1. ~Busy(s) /\ Busy(s)'
    BY <1>15 DEF Moves, Busy, Active, Serving
  <2>2. /\ s \in current' \union previous' /\ s \in DOMAIN ageOf' /\ ageOf'[s] = counter'
        /\ s \notin current' \intersect previous'
        /\ \A a \in DOMAIN threadOf' : threadOf'[a] = s => a = counter'
    BY <1>15, <2>1 DEF Tic, OwnInv
  <2>3. \A i \in Threads : i < thread'[s] => pc'[s][i] \in Serving \union {"dead"}
    BY <1>15, <1>1, Numbers DEF Moves, OwnInv
  <2>4. handle'[s] # 0 /\ output'[s] = {}
    BY <1>15 DEF Tic, Moves, OwnInv, Holding
  <2> QED
    BY <1>15, <2>1, <2>2, <2>3, <2>4 DEF Moves, OwnInv, Holding, Serving
<1>16. CASE Tac(s, j) /\ Moves(s, j, "tac", "clean")
  <2>1. Busy(s) /\ ~Busy(s)'
    BY <1>16 DEF Moves, Busy, Active, Serving
  <2>2. /\ s \notin current' \union previous' /\ s \notin DOMAIN ageOf'
        /\ \A a \in DOMAIN threadOf' : threadOf'[a] # s
    <3>1. Entry(ageOf, s) = ageOf[s]
      BY <2>1 DEF OwnInv, Entry
    <3> QED
      BY <1>16, <3>1 DEF Tac, Erase, OwnInv
  <2>3. \A i \in Threads : i < thread'[s] => pc'[s][i] \in Serving \union {"dead"}
    BY <1>16, <1>1, Numbers DEF Moves, OwnInv
  <2>4. handle'[s] # 0 /\ (output'[s] # {} => output'[s] = {handle'[s]})
    BY <1>16 DEF Tac, Moves, OwnInv, Holding, Serving
  <2> QED
    BY <1>16, <2>1, <2>2, <2>3, <2>4 DEF Moves, OwnInv, Holding, Serving
<1> QED
  BY <1>3, <1>4, <1>5, <1>6, <1>7, <1>8, <1>9, <1>10, <1>11, <1>12, <1>13, <1>14, <1>15, <1>16
     DEF LastRuns

\* Nothing else happens to the objects of which no marked thread has gone on.
ObjectInv == main # "crashed" => \A s \in Servers \ strayed : OwnInv(s)

LEMMA InitObject == Init => ObjectInv
<1> SUFFICES ASSUME Init PROVE ObjectInv
  OBVIOUS
<1>1. \A s \in Servers : thread[s] = 0 /\ ~Busy(s) /\ handle[s] = 0 /\ output[s] = {}
  BY DEF Init, Busy
<1>2. \A j \in Threads : ~(j < 0)
  BY DEF Threads
<1> QED
  BY <1>1, <1>2 DEF Init, ObjectInv, OwnInv

\* An object stays as it is.
LEMMA Stutters ==
  ASSUME UNCHANGED vars
  PROVE  /\ UNCHANGED <<main, accepted, servers, open, cut, queue, handle, output, text, thread>>
         /\ UNCHANGED <<pc, popped, cancelled, strayed, counter, current, previous, ageOf, threadOf>>
BY DEF vars, mainVars, socketVars, objectVars, streamVars, threadVars, watchVars

\* strayed only grows.
LEMMA StrayedGrows == ASSUME ControlInv, [Next]_vars PROVE strayed \subseteq strayed'
<1>1. CASE UNCHANGED vars
  BY <1>1, Stutters
<1>2. CASE Accept \/ NetworkFails \/ Push \/ PushPoison
  BY <1>2, MainCount
<1>3. CASE Enlarge
  BY <1>3, Enlarges
<1>4. CASE RespawnSlowest \/ Round
  BY <1>4, Respawns DEF Respawned, Replaced, ControlInv
<1>5. ASSUME NEW s \in Servers, NEW j \in Threads, Run(s, j) \/ Serve(s, j)
      PROVE  strayed \subseteq strayed'
  <2>1. CASE Crash(s, j)
    BY <2>1 DEF Crash
  <2>2. CASE ~Crash(s, j)
    <3>1. \E from, to : Goto(s, j, from, to)
      BY <1>5, <2>2 DEF Run, Serve, CallPop, Pop, Adopt, Tic, Tac, Read, ReadMore, OpenOutput,
                        GiveUp, PrintPart, PrintDangling, Written, Finish, Shutdown, Close, SkipClose
    <3> QED
      BY <3>1 DEF Goto
  <2> QED
    BY <2>1, <2>2
<1>6. ASSUME NEW s \in Servers, NEW j \in Threads, Die(s, j) PROVE strayed' = strayed
  BY <1>6, DieCount
<1> QED
  BY <1>1, <1>2, <1>3, <1>4, <1>5, <1>6 DEF Next, MainStep

\* The process does not come back.
LEMMA CrashStays ==
  ASSUME ControlInv, [Next]_vars, main' # "crashed" PROVE main # "crashed"
<1>1. CASE UNCHANGED vars
  BY <1>1, Stutters
<1>2. CASE Accept \/ NetworkFails \/ MainStep
  BY <1>2 DEF Accept, NetworkFails, MainStep, Push, Enlarge, RespawnSlowest, PushPoison
<1>3. CASE Round
  BY <1>3 DEF Round, mainVars
<1>4. ASSUME NEW s \in Servers, NEW j \in Threads, Run(s, j) \/ Serve(s, j) \/ Die(s, j)
      PROVE  main # "crashed"
  <2>1. ~Crash(s, j)
    BY DEF Crash
  <2> QED
    BY <1>4, <2>1, RunCount, DieCount
<1> QED
  BY <1>1, <1>2, <1>3, <1>4 DEF Next

LEMMA ControlStep == ASSUME ControlInv, ObjectInv, [Next]_vars PROVE ControlInv'
<1>1. TypeInv'
  BY TypeStep DEF ControlInv
<1>2. CASE UNCHANGED vars
  <2>1. CountInv'
    BY <1>2, Stutters DEF ControlInv, CountInv, CountOf, Active
  <2> QED
    BY <1>1, <2>1 DEF ControlInv
<1>3. CASE Accept \/ NetworkFails \/ Push \/ PushPoison \/ Enlarge
  BY <1>1, <1>3, MainCount, EnlargeCount DEF ControlInv
<1>4. CASE RespawnSlowest \/ Round
  BY <1>1, <1>4, Respawns, RespawnCount DEF ControlInv
<1>5. ASSUME NEW s \in Servers, NEW j \in Threads, Run(s, j) \/ Serve(s, j)
      PROVE  CountInv'
  <2>1. CASE Crash(s, j)
    <3>1. CASE s \in strayed
      BY <2>1, <3>1, CrashCount DEF Crash
    <3>2. CASE s \notin strayed
      <4>1. main # "crashed"
        BY <2>1 DEF Crash, ControlInv, CountInv
      <4>2. OwnInv(s)
        BY <3>2, <4>1 DEF ObjectInv
      <4>3. s \in strayed'
        <5> SUFFICES ASSUME s \notin strayed' PROVE FALSE
          OBVIOUS
        <5>1. LastRuns(s, j)
          BY <1>5, <4>2, LastRun
        <5>2. main' = main
          BY <5>1 DEF LastRuns, Moves
        <5> QED
          BY <2>1, <4>1, <5>2 DEF Crash
      <4> QED
        BY <2>1, <4>3, CrashCount
    <3> QED
      BY <3>1, <3>2
  <2> QED
    BY <1>5, <2>1, RunCount
<1>6. ASSUME NEW s \in Servers, NEW j \in Threads, Die(s, j) PROVE CountInv'
  BY <1>6, DieCount
<1> QED
  BY <1>1, <1>2, <1>3, <1>4, <1>5, <1>6 DEF Next, MainStep, ControlInv

LEMMA ObjectStep == ASSUME ControlInv, ObjectInv, [Next]_vars PROVE ObjectInv'
<1> SUFFICES ASSUME main' # "crashed", NEW s \in Servers, s \notin strayed' PROVE OwnInv(s)'
  BY DEF ObjectInv
<1>1. main # "crashed" /\ OwnInv(s)
  BY CrashStays, StrayedGrows DEF ObjectInv
<1>2. CASE UNCHANGED vars
  BY <1>1, <1>2, Stutters, OwnKept DEF SameObject, SameBooks
<1>3. CASE Accept \/ NetworkFails \/ Push \/ PushPoison \/ Enlarge
  BY <1>1, <1>3, MainOwn
<1>4. CASE RespawnSlowest \/ Round
  BY <1>1, <1>4, Respawns, RespawnOwn DEF ControlInv
<1>5. ASSUME NEW r \in Servers, NEW j \in Threads, Run(r, j) \/ Serve(r, j)
      PROVE  OwnInv(s)'
  <2>1. ~Crash(r, j)
    BY DEF Crash
  <2>2. CASE r # s
    BY <1>1, <1>5, <2>1, <2>2, OthersRun
  <2>3. CASE r = s
    BY <1>1, <1>5, <2>3, LastRun, LastOwn
  <2> QED
    BY <2>2, <2>3
<1>6. ASSUME NEW r \in Servers, NEW j \in Threads, Die(r, j) PROVE OwnInv(s)'
  BY <1>1, <1>6, DieOwn
<1> QED
  BY <1>2, <1>3, <1>4, <1>5, <1>6 DEF Next, MainStep

LEMMA ObjectsInductive == Spec => [](ControlInv /\ ObjectInv)
<1>1. Init => ControlInv /\ ObjectInv
  BY InitCount, InitObject
<1>2. ControlInv /\ ObjectInv /\ [Next]_vars => (ControlInv /\ ObjectInv)'
  BY ControlStep, ObjectStep
<1> QED
  BY <1>1, <1>2, PTL DEF Spec

\* From its tic() to its tac() a thread is watched, whatever the threads of
\* other objects do, as long as no marked thread of its own object goes on.
THEOREM BusyThreadsAreWatched == Spec => []BusyIsWatched
<1>1. ASSUME ControlInv, ObjectInv PROVE BusyIsWatched
  <2> SUFFICES ASSUME NEW s \in Servers \ strayed, Busy(s) PROVE s \in current \union previous
    BY DEF BusyIsWatched
  <2>1. main # "crashed"
    BY <1>1, Numbers DEF ControlInv, CountInv, Busy, Serving
  <2> QED
    BY <1>1, <2>1 DEF ObjectInv, OwnInv
<1>2. ControlInv /\ ObjectInv => BusyIsWatched
  BY <1>1
<1> QED
  BY <1>2, ObjectsInductive, PTL

-----------------------------------------------------------------------------
(* While no marked thread has gone on: the steps there are.                *)

OwnAll == main # "crashed" /\ \A s \in Servers : OwnInv(s)

LEMMA Steps ==
  ASSUME ControlInv, ObjectInv, [Next]_vars, strayed' = {}
  PROVE  /\ strayed = {} /\ OwnAll
         /\ \/ UNCHANGED vars
            \/ Accept \/ NetworkFails \/ Push \/ PushPoison \/ Enlarge
            \/ \E S \in SUBSET Servers : Respawned(S)
            \/ \E s \in Servers, j \in Threads : LastRuns(s, j) \/ Die(s, j)
<1>1. strayed = {}
  BY StrayedGrows
<1>2. OwnAll
  BY <1>1 DEF OwnAll, ObjectInv, ControlInv, CountInv
<1>3. ASSUME RespawnSlowest \/ Round PROVE \E S \in SUBSET Servers : Respawned(S)
  BY <1>3, Respawns DEF ControlInv
<1>4. ASSUME NEW s \in Servers, NEW j \in Threads, Run(s, j) \/ Serve(s, j) PROVE LastRuns(s, j)
  BY <1>2, <1>4, LastRun DEF OwnAll
<1> QED
  BY <1>1, <1>2, <1>3, <1>4 DEF Next, MainStep

-----------------------------------------------------------------------------
(* The books of the watchdog.                                              *)

LEMMA InitWatch == Init => WatchInv
<1> SUFFICES ASSUME Init PROVE WatchInv
  OBVIOUS
<1>1. \A s \in Servers : ~Busy(s)
  BY DEF Init, Busy
<1> QED
  BY <1>1 DEF Init, WatchInv

LEMMA WatchKept ==
  ASSUME WatchInv, UNCHANGED <<counter, current, previous, ageOf, threadOf>>,
         \A s \in Servers : Busy(s)' <=> Busy(s)
  PROVE  WatchInv'
BY DEF WatchInv

LEMMA MainWatch ==
  ASSUME ControlInv, WatchInv, Accept \/ NetworkFails \/ Push \/ PushPoison \/ Enlarge
  PROVE  WatchInv'
<1>1. UNCHANGED <<counter, current, previous, ageOf, threadOf>>
  BY DEF Accept, NetworkFails, Push, PushPoison, Enlarge, watchVars
<1>2. CASE Enlarge
  <2>1. PICK n \in Servers :
          /\ thread[n] = 0 /\ thread'[n] = 1 /\ Active(n)' = "start"
          /\ \A s \in Servers \ {n} : thread'[s] = thread[s] /\ Active(s)' = Active(s)
    BY <1>2, Enlarges
  <2>2. ~Busy(n) /\ ~Busy(n)' /\ \A s \in Servers \ {n} : Busy(s)' <=> Busy(s)
    BY <2>1 DEF Busy, Active, Serving
  <2>3. ASSUME NEW s \in Servers PROVE Busy(s)' <=> Busy(s)
    <3>1. CASE s = n
      BY <2>1, <3>1 DEF Busy, Active, Serving
    <3> QED
      BY <2>2, <3>1
  <2> QED
    BY <1>1, <2>3, WatchKept
<1>3. CASE ~Enlarge
  BY <1>1, <1>3, MainCount, WatchKept DEF Busy
<1> QED
  BY <1>2, <1>3

\* The books when the threads of S are replaced, or one of them is done: they
\* forget exactly S.
LEMMA Forgets ==
  ASSUME TypeOK, WatchInv, NEW S \in SUBSET (current \union previous), Forget(S),
         current' \intersect previous' = {},
         \A r \in previous', s \in current' : ageOf[r] < ageOf[s],
         \A s \in Servers : Busy(s)' <=> Busy(s) /\ s \notin S
  PROVE  WatchInv'
<1>1. {Entry(ageOf, s) : s \in S} = {ageOf[s] : s \in S}
  <2>1. \A s \in S : Entry(ageOf, s) = ageOf[s]
    BY DEF WatchInv, Entry
  <2> QED
    BY <2>1
<1>2. current' \union previous' = (current \union previous) \ S
  BY DEF Forget, WatchInv
<1>3. /\ DOMAIN ageOf' = (current \union previous) \ S
      /\ \A s \in DOMAIN ageOf' : ageOf'[s] = ageOf[s]
  BY DEF WatchInv, Forget
<1>4. /\ DOMAIN threadOf' = DOMAIN threadOf \ {ageOf[s] : s \in S}
      /\ \A a \in DOMAIN threadOf' : threadOf'[a] = threadOf[a]
  BY <1>1 DEF Forget
<1>5. \A s, r \in DOMAIN ageOf : ageOf[s] = ageOf[r] => s = r
  BY DEF WatchInv
<1>6. S \subseteq DOMAIN ageOf
  BY DEF WatchInv
<1>7. DOMAIN threadOf' = {ageOf'[s] : s \in DOMAIN ageOf'}
  <2>1. DOMAIN threadOf = {ageOf[s] : s \in DOMAIN ageOf}
        /\ DOMAIN ageOf = current \union previous
    BY DEF WatchInv
  <2>2. {ageOf'[s] : s \in DOMAIN ageOf'} = {ageOf[s] : s \in (current \union previous) \ S}
    BY <1>3
  <2>3. \A a : a \in DOMAIN threadOf' <=> /\ \E s \in DOMAIN ageOf : a = ageOf[s]
                                         /\ ~ \E s \in S : a = ageOf[s]
    BY <1>4, <2>1
  <2>4. \A a : a \in DOMAIN threadOf' <=> \E s \in DOMAIN ageOf \ S : a = ageOf[s]
    BY <1>5, <1>6, <2>3
  <2> QED
    BY ZenonT(30), <2>1, <2>2, <2>4
<1>8. \A s \in DOMAIN ageOf' : ageOf'[s] <= counter' /\ threadOf'[ageOf'[s]] = s
  <2>1. \A s \in DOMAIN ageOf' : s \in DOMAIN ageOf /\ ageOf'[s] \in DOMAIN threadOf'
    BY <1>3, <1>7 DEF WatchInv
  <2>2. counter' = counter
    BY DEF Forget
  <2> QED
    BY <1>3, <1>4, <2>1, <2>2 DEF WatchInv
<1>9. \A r \in previous', s \in current' : ageOf'[r] < ageOf'[s]
  BY <1>2, <1>3
<1>10. \A s \in Servers : s \in current' \union previous' <=> Busy(s)'
  BY <1>2 DEF WatchInv
<1> QED
  BY <1>2, <1>3, <1>7, <1>8, <1>9, <1>10 DEF WatchInv

LEMMA RespawnWatch ==
  ASSUME ControlInv, OwnAll, WatchInv, NEW S \in SUBSET Servers, Respawned(S)
  PROVE  WatchInv'
<1>1. \A s \in S : s \in current \union previous
  BY DEF Respawned, OwnAll, OwnInv
<1>2. \A s \in S : ~Busy(s)'
  BY RespawnCount DEF Busy, Active, Serving
<1>3. \A s \in Servers \ S : Busy(s)' <=> Busy(s)
  BY RespawnCount DEF Busy, Active, Respawned, Replaced
<1>4. \A s \in Servers : Busy(s)' <=> Busy(s) /\ s \notin S
  BY <1>2, <1>3
<1>5. /\ current' \intersect previous' = {}
      /\ \A r \in previous', s \in current' : ageOf[r] < ageOf[s]
  BY DEF Respawned, WatchInv
<1> QED
  BY <1>1, <1>4, <1>5, Forgets DEF Respawned, ControlInv, TypeInv

\* Who is busy after a step of the last thread of s
LEMMA MovesBusy ==
  ASSUME NEW s \in Servers, NEW j, NEW from, NEW to, Moves(s, j, from, to)
  PROVE  /\ Busy(s) <=> from \in Serving
         /\ Busy(s)' <=> to \in Serving
         /\ \A r \in Servers \ {s} : Busy(r)' <=> Busy(r)
BY DEF Moves, Busy, Active

LEMMA MovesWatch ==
  ASSUME WatchInv, NEW s \in Servers, NEW j, NEW from, NEW to, Moves(s, j, from, to),
         from \in Serving <=> to \in Serving, UNCHANGED watchVars
  PROVE  WatchInv'
<1>1. ASSUME NEW r \in Servers PROVE Busy(r)' <=> Busy(r)
  <2>1. CASE r # s
    BY <2>1, MovesBusy
  <2>2. CASE r = s
    BY <2>2 DEF Moves, Busy, Active
  <2> QED
    BY <2>1, <2>2
<1> QED
  BY <1>1, WatchKept DEF watchVars

LEMMA LastWatch ==
  ASSUME ControlInv, WatchInv, NEW s \in Servers, NEW j \in Threads, LastRuns(s, j)
  PROVE  WatchInv'
<1> USE DEF ControlInv, TypeInv
<1>1. CASE Tic(s, j) /\ Moves(s, j, "tic", "read")
  <2>1. ~Busy(s) /\ \A r \in Servers \ {s} : Busy(r)' <=> Busy(r)
    BY <1>1, MovesBusy DEF Serving
  <2>2. s \notin current \union previous
    BY <2>1 DEF WatchInv
  <2>3. counter' = counter + 1 /\ counter \in Int
    BY <1>1 DEF Tic, TypeOK
  <2>4. /\ current' = current \union {s} /\ previous' = previous
        /\ DOMAIN ageOf' = DOMAIN ageOf \union {s}
        /\ \A r \in DOMAIN ageOf' : ageOf'[r] = IF r = s THEN counter' ELSE ageOf[r]
        /\ DOMAIN threadOf' = DOMAIN threadOf \union {counter'}
        /\ \A a \in DOMAIN threadOf' : threadOf'[a] = IF a = counter' THEN s ELSE threadOf[a]
    BY <1>1 DEF Tic
  <2>5. \A r \in DOMAIN ageOf : ageOf[r] \in Int /\ ageOf[r] <= counter /\ r # s
    BY <2>2 DEF WatchInv, TypeOK
  <2>6. DOMAIN threadOf' = {ageOf'[r] : r \in DOMAIN ageOf'}
    <3>1. DOMAIN threadOf = {ageOf[r] : r \in DOMAIN ageOf}
      BY DEF WatchInv
    <3>2. \A r \in DOMAIN ageOf : ageOf'[r] = ageOf[r]
      BY <2>4, <2>5
    <3>3. ageOf'[s] = counter'
      BY <2>4
    <3> QED
      BY <2>4, <3>1, <3>2, <3>3
  <2>7. \A r \in DOMAIN ageOf' : ageOf'[r] <= counter' /\ threadOf'[ageOf'[r]] = r
    <3>1. \A r \in DOMAIN ageOf : ageOf[r] # counter'
      BY <2>3, <2>5
    <3>2. ASSUME NEW r \in DOMAIN ageOf
          PROVE  ageOf'[r] <= counter' /\ threadOf'[ageOf'[r]] = r
      <4>1. ageOf'[r] = ageOf[r] /\ ageOf[r] \in DOMAIN threadOf
        BY <2>4, <2>5 DEF WatchInv
      <4> QED
        BY <2>3, <2>4, <2>5, <3>1, <4>1 DEF WatchInv
    <3>3. ageOf'[s] = counter' /\ threadOf'[counter'] = s
      BY <2>4
    <3> QED
      BY <2>3, <2>4, <3>2, <3>3
  <2>8. \A r \in previous', q \in current' : ageOf'[r] < ageOf'[q]
    <3>1. \A r \in previous : r \in DOMAIN ageOf /\ ageOf'[r] = ageOf[r] /\ ageOf[r] < counter'
      BY <2>3, <2>4, <2>5 DEF WatchInv
    <3>2. \A q \in current : ageOf'[q] = ageOf[q]
      BY <2>2, <2>4 DEF WatchInv
    <3> QED
      BY <2>4, <3>1, <3>2 DEF WatchInv
  <2>9. ASSUME NEW r \in Servers PROVE r \in current' \union previous' <=> Busy(r)'
    <3>1. CASE r = s
      BY <1>1, <2>4, <3>1 DEF Moves, Busy, Active, Serving
    <3>2. CASE r # s
      BY <2>1, <2>4, <3>2 DEF WatchInv
    <3> QED
      BY <3>1, <3>2
  <2>10. current' \intersect previous' = {} /\ DOMAIN ageOf' = current' \union previous'
    BY <2>2, <2>4 DEF WatchInv
  <2> QED
    BY <2>6, <2>7, <2>8, <2>9, <2>10 DEF WatchInv
<1>2. CASE Tac(s, j) /\ Moves(s, j, "tac", "clean")
  <2>1. Busy(s) /\ s \in current \union previous
    BY <1>2, MovesBusy DEF WatchInv, Serving
  <2>2. ASSUME NEW r \in Servers PROVE Busy(r)' <=> Busy(r) /\ r \notin {s}
    <3>1. CASE r = s
      BY <1>2, <3>1 DEF Moves, Busy, Active, Serving
    <3>2. CASE r # s
      BY <1>2, <3>2, MovesBusy
    <3> QED
      BY <3>1, <3>2
  <2>3. /\ previous' = previous \ {s} /\ current' = current \ {s} /\ counter' = counter
        /\ threadOf' = Erase(threadOf, {Entry(ageOf, s)}) /\ ageOf' = Erase(ageOf, {s})
    BY <1>2 DEF Tac
  <2>4. Forget({s})
    BY <2>3 DEF Forget, Erase
  <2>5. /\ current' \intersect previous' = {}
        /\ \A r \in previous', q \in current' : ageOf[r] < ageOf[q]
    BY <2>3 DEF WatchInv
  <2> QED
    BY <2>1, <2>2, <2>4, <2>5, Forgets
<1>3. CASE Pop(s, j) /\ \E to \in {"init", "done"} : Moves(s, j, "pop", to)
  BY <1>3, MovesWatch DEF Pop, Serving
<1>4. CASE \/ CallPop(s, j) /\ Moves(s, j, "start", "pop")
           \/ Adopt(s, j) /\ Moves(s, j, "init", "tic")
           \/ Shutdown(s, j) /\ Moves(s, j, "clean", "close")
           \/ Close(s, j) /\ Moves(s, j, "close", "start")
  BY <1>4, MovesWatch DEF CallPop, Adopt, Shutdown, Close, Serving
<1>5. CASE \/ Read(s, j) /\ Moves(s, j, "read", "parse")
           \/ ReadMore(s, j) /\ Moves(s, j, "parse", "read")
           \/ OpenOutput(s, j) /\ Moves(s, j, "parse", "print")
           \/ GiveUp(s, j) /\ Moves(s, j, "parse", "tac")
  BY <1>5, MovesWatch DEF Read, ReadMore, OpenOutput, GiveUp, Serving
<1>6. CASE \/ PrintPart(s, j) /\ \E to \in {"print", "write"} : Moves(s, j, "print", to)
           \/ Written(s, j) /\ Moves(s, j, "write", "print")
           \/ Finish(s, j) /\ Moves(s, j, "print", "tac")
  BY <1>6, MovesWatch DEF PrintPart, Written, Finish, Serving
<1> QED
  BY <1>1, <1>2, <1>3, <1>4, <1>5, <1>6 DEF LastRuns

\* A marked thread that dies leaves the last one where it is.
LEMMA DieActive ==
  ASSUME ControlInv, NEW s \in Servers, NEW j \in Threads, Die(s, j)
  PROVE  /\ thread' = thread /\ \A r \in Servers : Busy(r)' <=> Busy(r)
         /\ \A r \in Servers : thread[r] # 0 => Active(r)' = Active(r)
<1>1. thread' = thread /\ j < thread[s]
      /\ \A r \in Servers, i \in Threads :
           pc'[r][i] = IF r = s /\ i = j THEN "dead" ELSE pc[r][i]
  BY DieCount
<1>2. \A r \in Servers : thread[r] # 0 => Active(r)' = Active(r)
  BY <1>1, Numbers DEF Active, ControlInv
<1> QED
  BY <1>1, <1>2 DEF Busy, Active

LEMMA WatchStep ==
  ASSUME ControlInv, ObjectInv, WatchInv, [Next]_vars, strayed' = {} PROVE WatchInv'
<1>1. CASE UNCHANGED vars
  BY <1>1, Stutters, WatchKept DEF Busy
<1>2. ASSUME NEW s \in Servers, NEW j \in Threads, Die(s, j) PROVE WatchInv'
  BY <1>2, DieActive, WatchKept DEF Die, watchVars
<1> QED
  BY <1>1, <1>2, Steps, MainWatch, RespawnWatch, LastWatch

-----------------------------------------------------------------------------
(* Where the descriptors are.                                              *)

HoldInv == PlaceInv /\ HeldIsOpen /\ OpenIsHeld /\ HeldOnce

LEMMA InitHold == Init => HoldInv
BY DEF Init, HoldInv, PlaceInv, HeldIsOpen, OpenIsHeld, HeldOnce

\* Main changes no handle of a thread or an object.
LEMMA MainPlaces ==
  ASSUME ControlInv, HoldInv, Accept \/ NetworkFails \/ Push \/ PushPoison \/ Enlarge
  PROVE  PlaceInv'
<1>1. CASE Enlarge
  <2>1. PICK n \in Servers :
          /\ thread[n] = 0
          /\ \A j \in Threads : pc'[n][j] = IF j = 1 THEN "start" ELSE pc[n][j]
          /\ \A s \in Servers \ {n} : pc'[s] = pc[s]
          /\ UNCHANGED <<open, accepted, popped>> /\ main = "enlarge" /\ main' = "accept"
    BY <1>1, Enlarges
  <2>2. \A j \in Threads : pc[n][j] # "init"
    BY <2>1 DEF ControlInv, TypeInv, StartedInv
  <2>3. \A j \in Threads : popped[n][j] # Poison <=> pc'[n][j] = "init"
    BY <2>1, <2>2 DEF HoldInv, PlaceInv
  <2> QED
    BY <2>1, <2>3 DEF HoldInv, PlaceInv
<1>2. CASE Accept
  <2>1. accepted' # Poison /\ open' = open \union {accepted'} /\ main' = "push"
    BY <1>2 DEF Accept, HoldInv, PlaceInv, Poison, Stdin
  <2> QED
    BY <1>2, <2>1, MainCount DEF HoldInv, PlaceInv
<1>3. CASE NetworkFails \/ Push \/ PushPoison
  <2>1. open' = open /\ (accepted' # Poison <=> main' = "push")
    BY <1>3 DEF NetworkFails, Push, PushPoison, HoldInv, PlaceInv, socketVars
  <2> QED
    BY <1>3, <2>1, MainCount DEF HoldInv, PlaceInv
<1> QED
  BY <1>1, <1>2, <1>3

LEMMA RespawnPlaces ==
  ASSUME ControlInv, HoldInv, NEW S \in SUBSET Servers, Respawned(S), Stdin \in open'
  PROVE  PlaceInv'
<1>1. /\ \A s \in Servers, j \in Threads :
           pc'[s][j] = IF s \in S /\ j = thread[s] + 1 THEN "start" ELSE pc[s][j]
      /\ popped' = popped /\ accepted' = accepted
      /\ main' = "push" <=> main = "push"
  BY DEF Respawned, Replaced
<1>2. \A s \in S, j \in Threads : j = thread[s] + 1 => pc[s][j] # "init"
  BY Numbers DEF ControlInv, CountInv, CountOf
<1>3. \A s \in Servers, j \in Threads : popped'[s][j] # Poison <=> pc'[s][j] = "init"
  BY <1>1, <1>2 DEF HoldInv, PlaceInv
<1> QED
  BY <1>1, <1>3 DEF HoldInv, PlaceInv

\* Only pop() and its end have to do with a place of the thread itself.
LEMMA MovesPlaces ==
  ASSUME ControlInv, HoldInv, NEW s \in Servers, NEW j \in Threads, NEW from, NEW to,
         Moves(s, j, from, to),
         \A r \in Servers, i \in Threads :
           popped'[r][i] = IF r = s /\ i = j THEN popped'[s][j] ELSE popped[r][i],
         popped'[s][j] # Poison <=> to = "init", Stdin \in open'
  PROVE  PlaceInv'
<1>1. \A r \in Servers, i \in Threads : pc'[r][i] = IF r = s /\ i = j THEN to ELSE pc[r][i]
  BY DEF Moves, Active
<1>2. \A r \in Servers, i \in Threads : popped'[r][i] # Poison <=> pc'[r][i] = "init"
  BY <1>1 DEF HoldInv, PlaceInv
<1> QED
  BY <1>2 DEF HoldInv, PlaceInv, Moves

LEMMA AcceptHold == ASSUME ControlInv, HoldInv, Accept PROVE HoldInv'
<1>1. PICK h \in Handles \ open : accepted' = h /\ open' = open \union {h}
  BY DEF Accept, HoldInv, PlaceInv
<1>2. UNCHANGED <<queue, handle, popped>> /\ accepted = Poison /\ h # Poison
  BY <1>1, ConstantsAssumption
     DEF Accept, objectVars, threadVars, HoldInv, PlaceInv, Poison
<1>3. HeldIsOpen'
  BY <1>1, <1>2 DEF HoldInv, HeldIsOpen
<1>4. OpenIsHeld'
  BY <1>1, <1>2 DEF HoldInv, OpenIsHeld, Poison, Stdin
<1>5. HeldOnce'
  BY <1>1, <1>2 DEF HoldInv, HeldIsOpen, HeldOnce, Poison
<1> QED
  BY <1>3, <1>4, <1>5, MainPlaces DEF HoldInv

LEMMA PushHold == ASSUME ControlInv, HoldInv, Push \/ PushPoison PROVE HoldInv'
<1>1. PICK n \in Nat : DOMAIN queue = 1..n /\ n = Len(queue)
  BY DEF ControlInv, TypeInv, TypeOK
<1>2. /\ DOMAIN queue' = 1..(n + 1) /\ \A k \in 1..n : queue'[k] = queue[k]
      /\ queue'[n + 1] = accepted
      /\ accepted' = Poison
      /\ UNCHANGED <<open, handle, popped>>
  <2>1. CASE Push
    BY <1>1, <2>1 DEF Push, objectVars, threadVars, ControlInv, TypeInv, TypeOK
  <2>2. CASE PushPoison
    <3>1. accepted = Poison
      BY <2>2 DEF PushPoison, HoldInv, PlaceInv
    <3> QED
      BY <1>1, <2>2, <3>1 DEF PushPoison, objectVars, threadVars, ControlInv, TypeInv, TypeOK
  <2> QED
    BY <2>1, <2>2
<1>3. HeldIsOpen'
  BY <1>1, <1>2 DEF HoldInv, HeldIsOpen
<1>4. OpenIsHeld'
  <2>1. \A h \in open : accepted = h => \E k \in DOMAIN queue' : queue'[k] = h
    BY <1>2
  <2>2. \A h : (\E k \in DOMAIN queue : queue[k] = h) => \E k \in DOMAIN queue' : queue'[k] = h
    BY <1>1, <1>2
  <2> QED
    BY <1>2, <2>1, <2>2 DEF HoldInv, OpenIsHeld
<1>5. HeldOnce'
  <2>1. ASSUME NEW k \in DOMAIN queue', queue'[k] # Poison
        PROVE  /\ accepted' # queue'[k]
               /\ \A l \in DOMAIN queue' : queue'[l] = queue'[k] => l = k
               /\ \A s \in Servers : handle'[s] # queue'[k]
               /\ \A s \in Servers, j \in Threads : popped'[s][j] # queue'[k]
    <3>1. CASE k = n + 1
      <4>1. \A l \in 1..n : queue[l] # accepted
        BY <1>1, <1>2, <2>1, <3>1 DEF HoldInv, HeldOnce
      <4>2. /\ \A s \in Servers : handle[s] # accepted
            /\ \A s \in Servers, j \in Threads : popped[s][j] # accepted
        BY <1>2, <2>1, <3>1 DEF HoldInv, HeldOnce, Poison
      <4> QED
        BY <1>2, <2>1, <3>1, <4>1, <4>2
    <3>2. CASE k \in 1..n
      BY <1>1, <1>2, <2>1, <3>2 DEF HoldInv, HeldOnce
    <3> QED
      BY <1>2, <3>1, <3>2
  <2>2. /\ \A s \in Servers : handle'[s] # 0 =>
             /\ accepted' # handle'[s]
             /\ \A r \in Servers : handle'[r] = handle'[s] => r = s
             /\ \A r \in Servers, j \in Threads : popped'[r][j] # handle'[s]
        /\ \A s \in Servers, j \in Threads : popped'[s][j] # Poison =>
             /\ accepted' # popped'[s][j]
             /\ \A r \in Servers, i \in Threads : popped'[r][i] = popped'[s][j] => r = s /\ i = j
    BY <1>2 DEF HoldInv, HeldOnce, Poison
  <2> QED
    BY <2>1, <2>2 DEF HeldOnce
<1> QED
  BY <1>3, <1>4, <1>5, MainPlaces DEF HoldInv

LEMMA PopHold ==
  ASSUME ControlInv, HoldInv, NEW s \in Servers, NEW j \in Threads, Pop(s, j),
         NEW to \in {"init", "done"}, Moves(s, j, "pop", to)
  PROVE  HoldInv'
<1> DEFINE h == Head(queue)
<1>1. PICK n \in Nat : DOMAIN queue = 1..n /\ n = Len(queue) /\ n > 0
  BY DEF ControlInv, TypeInv, TypeOK, Pop
<1>2. /\ DOMAIN queue' = 1..(n - 1) /\ \A k \in 1..(n - 1) : queue'[k] = queue[k + 1]
      /\ h = queue[1] /\ 1 \in DOMAIN queue
  BY <1>1 DEF Pop, ControlInv, TypeInv, TypeOK
<1>3. /\ \A r \in Servers, i \in Threads :
           popped'[r][i] = IF r = s /\ i = j THEN h ELSE popped[r][i]
      /\ UNCHANGED <<open, handle, accepted>>
  BY DEF Pop, ControlInv, TypeInv, TypeOK, objectVars, mainVars
<1>4. popped[s][j] = Poison
  BY DEF HoldInv, PlaceInv, Pop, Goto
<1> HIDE DEF h
<1>5. HeldIsOpen'
  BY SMTT(30), <1>1, <1>2, <1>3 DEF HoldInv, HeldIsOpen
<1>6. OpenIsHeld'
  <2> SUFFICES ASSUME NEW x \in open \ {Stdin}, accepted # x, \A r \in Servers : handle[r] # x
               PROVE  \/ \E k \in DOMAIN queue' : queue'[k] = x
                      \/ \E r \in Servers, i \in Threads : popped'[r][i] = x
    BY <1>3 DEF OpenIsHeld
  <2>1. x # Poison
    BY DEF Poison, Stdin
  <2>2. CASE \E k \in DOMAIN queue : queue[k] = x
    <3>1. PICK k \in DOMAIN queue : queue[k] = x
      BY <2>2
    <3>2. CASE k = 1
      BY <1>2, <1>3, <3>1, <3>2
    <3>3. CASE k # 1
      <4>1. k - 1 \in 1..(n - 1) /\ (k - 1) + 1 = k
        BY <1>1, <3>3
      <4> QED
        BY <1>2, <3>1, <4>1
    <3> QED
      BY <3>2, <3>3
  <2>3. CASE \E r \in Servers, i \in Threads : popped[r][i] = x
    BY <1>3, <1>4, <2>1, <2>3
  <2> QED
    BY <2>2, <2>3 DEF HoldInv, OpenIsHeld
<1>7. HeldOnce'
  <2>1. h # Poison => /\ accepted # h
                      /\ \A k \in 1..(n - 1) : queue'[k] # h
                      /\ \A r \in Servers : handle[r] # h
                      /\ \A r \in Servers, i \in Threads : popped[r][i] # h
    BY <1>1, <1>2 DEF HoldInv, HeldOnce
  <2>2. \A k \in DOMAIN queue' : queue'[k] # Poison =>
          /\ accepted' # queue'[k]
          /\ \A l \in DOMAIN queue' : queue'[l] = queue'[k] => l = k
          /\ \A r \in Servers : handle'[r] # queue'[k]
          /\ \A r \in Servers, i \in Threads : popped[r][i] # queue'[k]
    <3> SUFFICES ASSUME NEW k \in DOMAIN queue', queue'[k] # Poison
                 PROVE  /\ accepted # queue'[k]
                        /\ \A l \in DOMAIN queue' : queue'[l] = queue'[k] => l = k
                        /\ \A r \in Servers : handle[r] # queue'[k]
                        /\ \A r \in Servers, i \in Threads : popped[r][i] # queue'[k]
      BY <1>3
    <3>1. k \in 1..(n - 1) /\ k + 1 \in DOMAIN queue /\ queue'[k] = queue[k + 1]
      BY <1>1, <1>2
    <3>2. \A l \in DOMAIN queue : queue[l] = queue'[k] => l = k + 1
      BY <3>1 DEF HoldInv, HeldOnce
    <3>3. \A l \in DOMAIN queue' : l + 1 \in DOMAIN queue /\ queue'[l] = queue[l + 1]
      BY <1>1, <1>2
    <3>4. \A l \in DOMAIN queue' : queue'[l] = queue'[k] => l = k
      BY <1>2, <3>1, <3>2, <3>3
    <3> QED
      BY <3>1, <3>4 DEF HoldInv, HeldOnce
  <2>3. \A k \in DOMAIN queue' : queue'[k] # Poison =>
          \A r \in Servers, i \in Threads : popped'[r][i] # queue'[k]
    BY <1>2, <1>3, <2>1, <2>2
  <2>4. \A r \in Servers : handle'[r] # 0 =>
          /\ accepted' # handle'[r]
          /\ \A q \in Servers : handle'[q] = handle'[r] => q = r
          /\ \A q \in Servers, i \in Threads : popped'[q][i] # handle'[r]
    BY <1>3, <2>1 DEF HoldInv, HeldOnce, Poison
  <2>5. \A r \in Servers, i \in Threads : popped'[r][i] # Poison =>
          /\ accepted' # popped'[r][i]
          /\ \A q \in Servers, l \in Threads : popped'[q][l] = popped'[r][i] => q = r /\ l = i
    BY <1>3, <1>4, <2>1 DEF HoldInv, HeldOnce
  <2> QED
    BY <2>2, <2>3, <2>4, <2>5 DEF HeldOnce
<1>8. PlaceInv'
  <2>1. pc'[s][j] = to
    BY DEF Moves, Active
  <2>2. pc'[s][j] = IF Head(queue) = Poison THEN "done" ELSE "init"
    BY DEF Pop, Goto, ControlInv, TypeInv, TypeOK
  <2>3. popped'[s][j] # Poison <=> to = "init"
    BY <1>3, <2>1, <2>2 DEF h
  <2>4. Stdin \in open'
    BY <1>3 DEF HoldInv, PlaceInv
  <2> QED
    BY <1>3, <2>3, <2>4, MovesPlaces
<1> QED
  BY <1>5, <1>6, <1>7, <1>8 DEF HoldInv

LEMMA AdoptHold ==
  ASSUME ControlInv, HoldInv, NEW s \in Servers, NEW j \in Threads, OwnInv(s),
         Adopt(s, j), Moves(s, j, "init", "tic")
  PROVE  HoldInv'
<1> DEFINE h == popped[s][j]
<1>1. /\ \A r \in Servers, i \in Threads :
           popped'[r][i] = IF r = s /\ i = j THEN Poison ELSE popped[r][i]
      /\ \A r \in Servers : handle'[r] = IF r = s THEN h ELSE handle[r]
      /\ UNCHANGED <<open, accepted, queue>>
  BY DEF Adopt, ControlInv, TypeInv, TypeOK, mainVars, socketVars
<1>2. h # Poison
  BY DEF HoldInv, PlaceInv, Adopt, Goto
<1>3. handle[s] = 0
  BY DEF OwnInv, Moves, Holding, Serving
<1>4. /\ accepted # h
      /\ \A k \in DOMAIN queue : queue[k] # h
      /\ \A r \in Servers : handle[r] # h
      /\ \A r \in Servers, i \in Threads : popped[r][i] = h => r = s /\ i = j
  BY <1>2 DEF HoldInv, HeldOnce, Poison
<1> HIDE DEF h
<1>5. HeldIsOpen'
  <2>1. h \in open
    BY <1>2 DEF HoldInv, HeldIsOpen, h
  <2> QED
    BY <1>1, <2>1 DEF HoldInv, HeldIsOpen
<1>6. OpenIsHeld'
  <2> SUFFICES ASSUME NEW x \in open \ {Stdin}, accepted # x, \A k \in DOMAIN queue : queue[k] # x
               PROVE  \/ \E r \in Servers : handle'[r] = x
                      \/ \E r \in Servers, i \in Threads : popped'[r][i] = x
    BY <1>1 DEF OpenIsHeld
  <2>1. x # 0
    BY DEF Stdin
  <2>2. CASE \E r \in Servers : handle[r] = x
    BY <1>1, <1>3, <2>1, <2>2
  <2>3. CASE \E r \in Servers, i \in Threads : popped[r][i] = x
    <3>1. PICK r \in Servers, i \in Threads : popped[r][i] = x
      BY <2>3
    <3>2. CASE x = h
      BY <1>1, <3>2
    <3>3. CASE x # h
      BY <1>1, <3>1, <3>3 DEF h
    <3> QED
      BY <3>2, <3>3
  <2> QED
    BY <2>2, <2>3 DEF HoldInv, OpenIsHeld
<1>7. HeldOnce'
  <2>1. \A k \in DOMAIN queue' : queue'[k] # Poison =>
          /\ accepted' # queue'[k]
          /\ \A l \in DOMAIN queue' : queue'[l] = queue'[k] => l = k
          /\ \A r \in Servers : handle'[r] # queue'[k]
          /\ \A r \in Servers, i \in Threads : popped'[r][i] # queue'[k]
    BY <1>1, <1>4 DEF HoldInv, HeldOnce
  <2>2. \A r \in Servers : handle'[r] # 0 =>
          /\ accepted' # handle'[r]
          /\ \A q \in Servers : handle'[q] = handle'[r] => q = r
          /\ \A q \in Servers, i \in Threads : popped'[q][i] # handle'[r]
    BY <1>1, <1>2, <1>4 DEF HoldInv, HeldOnce, Poison
  <2>3. \A r \in Servers, i \in Threads : popped'[r][i] # Poison =>
          /\ accepted' # popped'[r][i]
          /\ \A q \in Servers, l \in Threads : popped'[q][l] = popped'[r][i] => q = r /\ l = i
    BY <1>1 DEF HoldInv, HeldOnce
  <2> QED
    BY <2>1, <2>2, <2>3 DEF HeldOnce
<1>8. PlaceInv'
  BY <1>1, MovesPlaces DEF HoldInv, PlaceInv
<1> QED
  BY <1>5, <1>6, <1>7, <1>8 DEF HoldInv


\* Sockets of objects are closed and their handles forgotten together.
LEMMA CloseHold ==
  ASSUME ControlInv, HoldInv, NEW S \in SUBSET Servers,
         UNCHANGED <<accepted, queue, popped>>,
         \A x : x \in open' <=> x \in open /\ ~ \E s \in S : handle[s] # 0 /\ handle[s] = x,
         \A s \in Servers : handle'[s] = IF s \in S THEN 0 ELSE handle[s]
  PROVE  HeldIsOpen' /\ OpenIsHeld' /\ HeldOnce' /\ Stdin \in open'
<1>1. Stdin \in open'
  BY DEF HoldInv, PlaceInv, Stdin
<1>2. HeldOnce'
  BY DEF HoldInv, HeldOnce, Poison
<1>3. OpenIsHeld'
  <2> SUFFICES ASSUME NEW x \in open \ {Stdin}, \A s \in S : handle[s] # x
               PROVE  \/ accepted = x
                      \/ \E k \in DOMAIN queue : queue[k] = x
                      \/ \E s \in Servers : handle'[s] = x
                      \/ \E s \in Servers, j \in Threads : popped[s][j] = x
    BY DEF OpenIsHeld, Stdin
  <2>1. \A s \in Servers : handle[s] = x => handle'[s] = x
    OBVIOUS
  <2> QED
    BY <2>1 DEF HoldInv, OpenIsHeld
<1>4. HeldIsOpen'
  <2>1. ASSUME NEW s \in S, handle[s] # 0
        PROVE  /\ accepted # handle[s]
               /\ \A k \in DOMAIN queue : queue[k] # handle[s]
               /\ \A r \in Servers : handle[r] = handle[s] => r = s
               /\ \A r \in Servers, j \in Threads : popped[r][j] # handle[s]
    BY <2>1 DEF HoldInv, HeldOnce, Poison
  <2>2. accepted' \in open' \union {Poison}
    BY <2>1 DEF HoldInv, HeldIsOpen
  <2>3. \A k \in DOMAIN queue' : queue'[k] \in open' \union {Poison}
    BY <2>1 DEF HoldInv, HeldIsOpen
  <2>4. \A s \in Servers : handle'[s] \in open' \union {0}
    BY <2>1 DEF HoldInv, HeldIsOpen
  <2>5. \A s \in Servers, j \in Threads : popped'[s][j] \in open' \union {Poison}
    BY <2>1 DEF HoldInv, HeldIsOpen
  <2> QED
    BY <2>2, <2>3, <2>4, <2>5 DEF HeldIsOpen
<1> QED
  BY <1>1, <1>2, <1>3, <1>4

LEMMA RespawnHold ==
  ASSUME ControlInv, OwnAll, HoldInv, NEW S \in SUBSET Servers, Respawned(S)
  PROVE  HoldInv'
<1>1. \A s \in S : Closed(s) = IF handle[s] = 0 THEN {} ELSE {handle[s]}
  BY DEF Closed, OwnAll, OwnInv
<1>2. \A x : x \in open' <=> x \in open /\ ~ \E s \in S : handle[s] # 0 /\ handle[s] = x
  <2>1. \A x : x \in UNION {Closed(s) : s \in S} <=> \E s \in S : x \in Closed(s)
    OBVIOUS
  <2> QED
    BY <1>1, <2>1 DEF Respawned, Replaced
<1>3. \A s \in Servers : handle'[s] = IF s \in S THEN 0 ELSE handle[s]
  BY DEF Respawned, Replaced
<1>4. UNCHANGED <<accepted, queue, popped>>
  BY DEF Respawned, Replaced
<1>5. HeldIsOpen' /\ OpenIsHeld' /\ HeldOnce' /\ Stdin \in open'
  BY <1>2, <1>3, <1>4, CloseHold
<1> QED
  BY <1>5, RespawnPlaces DEF HoldInv

\* The descriptors stay where they are.
LEMMA HoldKept ==
  ASSUME HoldInv, UNCHANGED <<open, accepted, queue, handle, popped>>
  PROVE  HeldIsOpen' /\ OpenIsHeld' /\ HeldOnce' /\ Stdin \in open'
BY DEF HoldInv, PlaceInv, HeldIsOpen, OpenIsHeld, HeldOnce

LEMMA LastHold ==
  ASSUME ControlInv, HoldInv, NEW s \in Servers, NEW j \in Threads, OwnInv(s), LastRuns(s, j)
  PROVE  HoldInv'
<1> USE DEF mainVars, socketVars, objectVars
<1>1. ASSUME NEW from, NEW to, Moves(s, j, from, to), from # "init", to # "init",
             UNCHANGED <<accepted, queue, popped>>,
             HeldIsOpen' /\ OpenIsHeld' /\ HeldOnce' /\ Stdin \in open'
      PROVE  HoldInv'
  <2>1. popped'[s][j] = Poison
    BY <1>1 DEF HoldInv, PlaceInv, Moves, Active
  <2> QED
    BY <1>1, <2>1, MovesPlaces DEF HoldInv
<1>2. ASSUME NEW from, NEW to, Moves(s, j, from, to), from # "init", to # "init",
             UNCHANGED <<open, accepted, queue, handle, popped>>
      PROVE  HoldInv'
  BY <1>1, <1>2, HoldKept
<1>3. CASE Pop(s, j) /\ \E to \in {"init", "done"} : Moves(s, j, "pop", to)
  BY <1>3, PopHold
<1>4. CASE Adopt(s, j) /\ Moves(s, j, "init", "tic")
  BY <1>4, AdoptHold
<1>5. CASE Close(s, j) /\ Moves(s, j, "close", "start")
  <2>1. handle[s] # 0 /\ (output[s] # {} => output[s] = {handle[s]})
    BY <1>5 DEF OwnInv, Moves, Holding
  <2>2. open' = open \ {handle[s]} /\ UNCHANGED <<accepted, queue, popped>>
    BY <1>5, <2>1 DEF Close
  <2>3. \A x : x \in open' <=> x \in open /\ ~ \E r \in {s} : handle[r] # 0 /\ handle[r] = x
    BY <2>1, <2>2
  <2>4. \A r \in Servers : handle'[r] = IF r \in {s} THEN 0 ELSE handle[r]
    BY <1>5 DEF Close, ControlInv, TypeInv, TypeOK
  <2>5. HeldIsOpen' /\ OpenIsHeld' /\ HeldOnce' /\ Stdin \in open'
    BY <2>2, <2>3, <2>4, CloseHold
  <2> QED
    BY <1>1, <1>5, <2>2, <2>5
<1>6. CASE \/ CallPop(s, j) /\ Moves(s, j, "start", "pop")
           \/ Tic(s, j) /\ Moves(s, j, "tic", "read")
           \/ Tac(s, j) /\ Moves(s, j, "tac", "clean")
           \/ Shutdown(s, j) /\ Moves(s, j, "clean", "close")
  BY <1>2, <1>6 DEF CallPop, Tic, Tac, Shutdown
<1>7. CASE \/ Read(s, j) /\ Moves(s, j, "read", "parse")
           \/ ReadMore(s, j) /\ Moves(s, j, "parse", "read")
           \/ OpenOutput(s, j) /\ Moves(s, j, "parse", "print")
           \/ GiveUp(s, j) /\ Moves(s, j, "parse", "tac")
  BY <1>2, <1>7 DEF Read, ReadMore, OpenOutput, GiveUp
<1>8. CASE \/ PrintPart(s, j) /\ \E to \in {"print", "write"} : Moves(s, j, "print", to)
           \/ Written(s, j) /\ Moves(s, j, "write", "print")
           \/ Finish(s, j) /\ Moves(s, j, "print", "tac")
  BY <1>2, <1>8 DEF PrintPart, Written, Finish
<1> QED
  BY <1>3, <1>4, <1>5, <1>6, <1>7, <1>8 DEF LastRuns

LEMMA DieHold ==
  ASSUME ControlInv, HoldInv, NEW s \in Servers, NEW j \in Threads, Die(s, j)
  PROVE  HoldInv'
<1>1. UNCHANGED <<main, open, accepted, queue, handle, popped>>
  BY DEF Die, mainVars, socketVars, objectVars
<1>2. /\ pc[s][j] # "init"
      /\ \A r \in Servers, i \in Threads :
           pc'[r][i] = IF r = s /\ i = j THEN "dead" ELSE pc[r][i]
  BY DieCount
<1>3. PlaceInv'
  BY <1>1, <1>2 DEF HoldInv, PlaceInv
<1> QED
  BY <1>1, <1>3, HoldKept DEF HoldInv

LEMMA HoldStep ==
  ASSUME ControlInv, ObjectInv, HoldInv, [Next]_vars, strayed' = {} PROVE HoldInv'
<1>1. CASE UNCHANGED vars
  <2>1. PlaceInv'
    BY <1>1, Stutters DEF HoldInv, PlaceInv
  <2> QED
    BY <1>1, <2>1, Stutters, HoldKept DEF HoldInv
<1>2. CASE NetworkFails \/ Enlarge
  <2>1. UNCHANGED <<open, accepted, queue, handle, popped>>
    BY <1>2, MainCount, Enlarges DEF NetworkFails, socketVars
  <2> QED
    BY <1>2, <2>1, HoldKept, MainPlaces DEF HoldInv
<1> QED
  BY <1>1, <1>2, Steps, AcceptHold, PushHold, RespawnHold, LastHold, DieHold DEF OwnAll

-----------------------------------------------------------------------------
(* Who is alone with a connection.                                         *)

LEMMA InitAlone == Init => AloneInv
BY DEF Init, AloneInv

LEMMA AloneKept ==
  ASSUME AloneInv, UNCHANGED <<cut, handle, thread, text>>,
         \A s \in Servers : thread[s] # 0 => Active(s)' = Active(s)
  PROVE  AloneInv'
BY DEF AloneInv

LEMMA MainAlone ==
  ASSUME ControlInv, AloneInv, Accept \/ NetworkFails \/ Push \/ PushPoison \/ Enlarge
  PROVE  AloneInv'
<1>1. CASE Enlarge
  <2>1. PICK n \in Servers :
          /\ thread[n] = 0 /\ thread'[n] = 1
          /\ \A s \in Servers \ {n} : thread'[s] = thread[s] /\ Active(s)' = Active(s)
          /\ UNCHANGED <<cut, handle, text>>
    BY <1>1, Enlarges
  <2>2. text[n] = {}
    <3>1. text[n] \in SUBSET (Servers \X Threads)
      BY DEF ControlInv, TypeInv, TypeOK
    <3>2. text[n] \subseteq {<<n, 0>>}
      BY <2>1 DEF AloneInv
    <3>3. 0 \notin Threads
      BY DEF Threads
    <3> QED
      BY <3>1, <3>2, <3>3
  <2> QED
    BY <2>1, <2>2 DEF AloneInv
<1>2. CASE ~Enlarge
  <2>1. UNCHANGED <<cut, handle, thread, text, pc>>
    BY <1>2, MainCount DEF Accept, NetworkFails, Push, PushPoison, socketVars
  <2> QED
    BY <2>1, AloneKept DEF Active
<1> QED
  BY <1>1, <1>2

LEMMA RespawnAlone ==
  ASSUME ControlInv, OwnAll, AloneInv, NEW S \in SUBSET Servers, Respawned(S)
  PROVE  AloneInv'
<1>1. \A s \in Servers : text'[s] \subseteq {<<s, thread'[s]>>}
  BY DEF Respawned, Replaced, AloneInv
<1>2. ASSUME NEW h \in cut'
      PROVE  \E s \in Servers : handle'[s] = h /\ thread'[s] # 0 /\ Active(s)' = "close"
  <2>1. \A s \in S : handle[s] = h => h = 0
    <3> SUFFICES ASSUME NEW s \in S, handle[s] = h, h # 0 PROVE FALSE
      OBVIOUS
    <3>1. h \in Closed(s)
      BY DEF Closed, OwnAll, OwnInv
    <3>2. h \in open' /\ open' = open \ UNION {Closed(r) : r \in S}
      BY <1>2 DEF Respawned, Replaced
    <3> QED
      BY <3>1, <3>2
  <2>2. h \in cut
    <3>1. h \in cut \/ (h \in Handles /\ \E s \in S : handle[s] = h)
      BY <1>2 DEF Respawned, Replaced
    <3> QED
      BY <2>1, <3>1, ConstantsAssumption
  <2>3. PICK s \in Servers : handle[s] = h /\ thread[s] # 0 /\ Active(s) = "close"
    BY <2>2 DEF AloneInv
  <2>4. s \notin S
    BY <2>3 DEF Respawned, OwnAll, OwnInv, Busy, Active, Serving
  <2> QED
    BY <2>3, <2>4, RespawnCount DEF Respawned, Replaced
<1> QED
  BY <1>1, <1>2 DEF AloneInv

\* A step of the last thread of s that leaves its handle: a socket that is shut
\* down then is one that was, or the one that the thread closes next.
LEMMA MovesAlone ==
  ASSUME AloneInv, NEW s \in Servers, NEW j, NEW from, NEW to, Moves(s, j, from, to),
         \A h \in cut' : (h \in cut /\ (from = "close" => h # handle[s]))
                        \/ (h = handle'[s] /\ to = "close"),
         \A r \in Servers \ {s} : handle'[r] = handle[r] /\ text'[r] = text[r],
         text'[s] \subseteq text[s] \union {<<s, j>>}
  PROVE  AloneInv'
<1>1. \A r \in Servers : text'[r] \subseteq {<<r, thread'[r]>>}
  BY DEF AloneInv, Moves
<1>2. ASSUME NEW h \in cut'
      PROVE  \E r \in Servers : handle'[r] = h /\ thread'[r] # 0 /\ Active(r)' = "close"
  <2>1. CASE h = handle'[s] /\ to = "close"
    BY <2>1 DEF Moves
  <2>2. CASE h \in cut /\ (from = "close" => h # handle[s])
    <3>1. PICK r \in Servers : handle[r] = h /\ thread[r] # 0 /\ Active(r) = "close"
      BY <2>2 DEF AloneInv
    <3>2. r # s
      BY <2>2, <3>1 DEF Moves
    <3> QED
      BY <3>1, <3>2 DEF Moves, Active
  <2> QED
    BY <1>2, <2>1, <2>2
<1> QED
  BY <1>1, <1>2 DEF AloneInv

LEMMA LastAlone ==
  ASSUME ControlInv, AloneInv, NEW s \in Servers, NEW j \in Threads, OwnInv(s), LastRuns(s, j)
  PROVE  AloneInv'
<1> USE DEF socketVars, objectVars, streamVars
<1>1. /\ handle \in [Servers -> Handles \union {0}]
      /\ text \in [Servers -> Texts]
  BY DEF ControlInv, TypeInv, TypeOK, Texts
<1>2. ASSUME NEW from, NEW to, Moves(s, j, from, to), from # "close", UNCHANGED <<cut, handle, text>>
      PROVE  AloneInv'
  BY <1>2, MovesAlone
<1>3. CASE \/ CallPop(s, j) /\ Moves(s, j, "start", "pop")
           \/ Tic(s, j) /\ Moves(s, j, "tic", "read")
           \/ Tac(s, j) /\ Moves(s, j, "tac", "clean")
  BY <1>2, <1>3 DEF CallPop, Tic, Tac
<1>4. CASE Pop(s, j) /\ \E to \in {"init", "done"} : Moves(s, j, "pop", to)
  BY <1>2, <1>4 DEF Pop
<1>5. CASE \/ Read(s, j) /\ Moves(s, j, "read", "parse")
           \/ ReadMore(s, j) /\ Moves(s, j, "parse", "read")
           \/ GiveUp(s, j) /\ Moves(s, j, "parse", "tac")
           \/ Written(s, j) /\ Moves(s, j, "write", "print")
           \/ Finish(s, j) /\ Moves(s, j, "print", "tac")
  BY <1>2, <1>5 DEF Read, ReadMore, GiveUp, Written, Finish
<1>6. CASE Adopt(s, j) /\ Moves(s, j, "init", "tic")
  <2>1. /\ cut' = cut /\ text'[s] = {}
        /\ \A r \in Servers \ {s} : handle'[r] = handle[r] /\ text'[r] = text[r]
    BY <1>1, <1>6 DEF Adopt
  <2> QED
    BY <1>6, <2>1, MovesAlone
<1>7. CASE OpenOutput(s, j) /\ Moves(s, j, "parse", "print")
  <2>1. /\ cut' = cut /\ text'[s] = {} /\ handle' = handle
        /\ \A r \in Servers \ {s} : text'[r] = text[r]
    BY <1>1, <1>7 DEF OpenOutput
  <2> QED
    BY <1>7, <2>1, MovesAlone
<1>8. CASE PrintPart(s, j) /\ \E to \in {"print", "write"} : Moves(s, j, "print", to)
  <2>1. /\ cut' = cut /\ text'[s] = text[s] \union {<<s, j>>} /\ handle' = handle
        /\ \A r \in Servers \ {s} : text'[r] = text[r]
    BY <1>1, <1>8 DEF PrintPart
  <2> QED
    BY <1>8, <2>1, MovesAlone
<1>9. CASE Shutdown(s, j) /\ Moves(s, j, "clean", "close")
  <2>1. cut' = cut \union ({handle[s]} \intersect open) /\ UNCHANGED <<handle, text>>
    BY <1>9 DEF Shutdown
  <2> QED
    BY <1>9, <2>1, MovesAlone
<1>10. CASE Close(s, j) /\ Moves(s, j, "close", "start")
  <2>1. output[s] # {} => output[s] = {handle[s]}
    BY DEF OwnInv
  <2>2. /\ cut' = cut \ {handle[s]} /\ text'[s] = {}
        /\ \A r \in Servers \ {s} : handle'[r] = handle[r] /\ text'[r] = text[r]
    BY <1>1, <1>10, <2>1 DEF Close
  <2> QED
    BY <1>10, <2>2, MovesAlone
<1> QED
  BY <1>3, <1>4, <1>5, <1>6, <1>7, <1>8, <1>9, <1>10 DEF LastRuns

LEMMA AloneStep ==
  ASSUME ControlInv, ObjectInv, AloneInv, [Next]_vars, strayed' = {} PROVE AloneInv'
<1>1. CASE UNCHANGED vars
  BY <1>1, Stutters, AloneKept DEF Active
<1>2. ASSUME NEW s \in Servers, NEW j \in Threads, Die(s, j) PROVE AloneInv'
  <2>1. UNCHANGED <<cut, handle, thread, text>>
    BY <1>2 DEF Die, socketVars, objectVars, streamVars
  <2> QED
    BY <1>2, <2>1, DieActive, AloneKept
<1> QED
  BY <1>1, <1>2, Steps, MainAlone, RespawnAlone, LastAlone DEF OwnAll

-----------------------------------------------------------------------------
(* The results, while no marked thread has gone on.                        *)

QuietInv == strayed = {} => WatchInv /\ HoldInv /\ AloneInv

LEMMA Inductive == Spec => [](ControlInv /\ ObjectInv /\ QuietInv)
<1>1. Init => ControlInv /\ ObjectInv /\ QuietInv
  BY InitCount, InitObject, InitWatch, InitHold, InitAlone DEF QuietInv
<1>2. ASSUME ControlInv, ObjectInv, QuietInv, [Next]_vars PROVE QuietInv'
  <2> SUFFICES ASSUME strayed' = {} PROVE (WatchInv /\ HoldInv /\ AloneInv)'
    BY DEF QuietInv
  <2>1. WatchInv /\ HoldInv /\ AloneInv
    BY <1>2, Steps DEF QuietInv
  <2> QED
    BY <1>2, <2>1, WatchStep, HoldStep, AloneStep
<1>3. ControlInv /\ ObjectInv /\ QuietInv /\ [Next]_vars => (ControlInv /\ ObjectInv /\ QuietInv)'
  BY <1>2, ControlStep, ObjectStep
<1> QED
  BY <1>1, <1>3, PTL DEF Spec

\* When main needs a thread, the one it replaces has a request, and no other one
\* has had its request for longer: as long as no marked thread has gone on.
THEOREM SlowestIsReplaced == Spec => []OldestIsSlowest
<1>1. ASSUME ControlInv, WatchInv PROVE SlowestIsPicked
  <2> SUFFICES ASSUME threadOf # <<>>
               PROVE  LET s == threadOf[Min(DOMAIN threadOf)]
                      IN  Busy(s) /\ \A r \in previous : s \in previous
    BY DEF SlowestIsPicked
  <2>1. PICK m \in DOMAIN threadOf : m = Min(DOMAIN threadOf) /\ \A a \in DOMAIN threadOf : m <= a
    BY <1>1, Slowest DEF ControlInv
  <2>2. PICK s \in DOMAIN ageOf : m = ageOf[s]
    BY <1>1, <2>1 DEF WatchInv
  <2>3. s = threadOf[m] /\ s \in current \union previous /\ s \in Servers
    BY <1>1, <2>2 DEF WatchInv, ControlInv, TypeInv, TypeOK
  <2>4. ASSUME NEW r \in previous PROVE s \in previous
    <3>1. r \in DOMAIN ageOf /\ ageOf[r] \in DOMAIN threadOf /\ ageOf[r] \in Int /\ m \in Int
      BY <1>1, <2>1 DEF WatchInv, ControlInv, TypeInv, TypeOK
    <3>2. m <= ageOf[r]
      BY <2>1, <3>1
    <3>3. s \in current => ageOf[r] < ageOf[s]
      BY <1>1 DEF WatchInv
    <3> QED
      BY <2>2, <2>3, <3>1, <3>2, <3>3
  <2> QED
    BY <1>1, <2>1, <2>3, <2>4 DEF WatchInv
<1>2. ControlInv /\ QuietInv => OldestIsSlowest
  BY <1>1 DEF QuietInv, OldestIsSlowest
<1> QED
  BY <1>2, Inductive, PTL

\* While a thread is busy, its connection is open and not shut down, its stream
\* goes there, and nobody else has printed to it: as long as no marked thread
\* has gone on.
THEOREM ServedByOneThread == Spec => []ServedAlone
<1>1. ASSUME ControlInv, OwnAll, HoldInv, AloneInv, NEW s \in Servers, Busy(s)
      PROVE  /\ handle[s] \in open \ cut
             /\ output[s] \subseteq {handle[s]}
             /\ text[s] \subseteq {<<s, thread[s]>>}
  <2>1. handle[s] # 0 /\ output[s] \subseteq {handle[s]}
    BY <1>1 DEF OwnAll, OwnInv, Busy, Active, Holding
  <2>2. handle[s] \in open
    BY <1>1, <2>1 DEF HoldInv, HeldIsOpen
  <2>3. handle[s] \notin cut
    <3> SUFFICES ASSUME handle[s] \in cut PROVE FALSE
      OBVIOUS
    <3>1. PICK r \in Servers : handle[r] = handle[s] /\ Active(r) = "close"
      BY <1>1 DEF AloneInv
    <3>2. r = s
      BY <1>1, <2>1, <3>1 DEF HoldInv, HeldOnce
    <3> QED
      BY <1>1, <3>1, <3>2 DEF Busy, Active, Serving
  <2> QED
    BY <1>1, <2>1, <2>2, <2>3 DEF AloneInv
<1>2. ASSUME ControlInv, ObjectInv, QuietInv PROVE ServedAlone
  <2> SUFFICES ASSUME strayed = {}, NEW s \in Servers, Busy(s)
               PROVE  /\ handle[s] \in open \ cut
                      /\ output[s] \subseteq {handle[s]}
                      /\ text[s] \subseteq {<<s, thread[s]>>}
    BY DEF ServedAlone
  <2>1. OwnAll
    BY <1>2 DEF OwnAll, ObjectInv, ControlInv, CountInv
  <2> QED
    BY <1>1, <1>2, <2>1 DEF QuietInv
<1>3. ControlInv /\ ObjectInv /\ QuietInv => ServedAlone
  BY <1>2
<1> QED
  BY <1>3, Inductive, PTL

LEMMA OnlyOne == ASSUME NEW A, NEW t, \A x : x \in A <=> x = t
                 PROVE  A = {t}
OBVIOUS

\* The places of a handle, as a set of one element or none
LEMMA OnePlace ==
  ASSUME ControlInv, HoldInv, NEW h \in Handles
  PROVE  Cardinality(Holders(h)) = IF h \in open THEN 1 ELSE 0
<1>1. h # 0 /\ h # Poison
  BY ConstantsAssumption DEF Poison
<1>2. \A x : x \in Holders(h) <=>
        \/ x = <<"main">> /\ accepted = h
        \/ \E k \in DOMAIN queue : x = <<"queue", k>> /\ queue[k] = h
        \/ \E s \in Servers : x = <<"object", s>> /\ handle[s] = h
        \/ \E s \in Servers, j \in Threads : x = <<"thread", <<s, j>>>> /\ popped[s][j] = h
  <2>1. \A x : x \in {<<"main">> : z \in {y \in {1} : accepted = h}} <=> x = <<"main">> /\ accepted = h
    OBVIOUS
  <2>2. \A x : x \in {<<"queue", k>> : k \in {k \in DOMAIN queue : queue[k] = h}} <=>
               \E k \in DOMAIN queue : x = <<"queue", k>> /\ queue[k] = h
    OBVIOUS
  <2>3. \A x : x \in {<<"object", s>> : s \in {s \in Servers : handle[s] = h}} <=>
               \E s \in Servers : x = <<"object", s>> /\ handle[s] = h
    OBVIOUS
  <2>4. \A x : x \in {<<"thread", y>> : y \in {y \in Servers \X Threads : popped[y[1]][y[2]] = h}} <=>
               \E s \in Servers, j \in Threads : x = <<"thread", <<s, j>>>> /\ popped[s][j] = h
    OBVIOUS
  <2> QED
    BY <2>1, <2>2, <2>3, <2>4 DEF Holders
<1>3. CASE h \notin open
  <2>1. Holders(h) = {}
    BY <1>1, <1>2, <1>3 DEF HoldInv, HeldIsOpen
  <2> QED
    BY <1>3, <2>1, FS_EmptySet
<1>4. CASE h \in open
  <2>1. \E x : Holders(h) = {x}
    <3>1. CASE accepted = h
      <4>1. /\ \A k \in DOMAIN queue : queue[k] # h
            /\ \A s \in Servers : handle[s] # h
            /\ \A s \in Servers, j \in Threads : popped[s][j] # h
        BY <1>1, <3>1 DEF HoldInv, HeldOnce
      <4>2. \A x : x \in Holders(h) <=> x = <<"main">>
        BY <1>2, <3>1, <4>1
      <4>3. Holders(h) = {<<"main">>}
        BY <4>2, OnlyOne
      <4> QED
        BY <4>3
    <3>2. ASSUME NEW k \in DOMAIN queue, queue[k] = h PROVE \E x : Holders(h) = {x}
      <4>1. /\ accepted # h /\ \A l \in DOMAIN queue : queue[l] = h => l = k
            /\ \A s \in Servers : handle[s] # h
            /\ \A s \in Servers, j \in Threads : popped[s][j] # h
        BY <1>1, <3>2 DEF HoldInv, HeldOnce
      <4>2. \A x : x \in Holders(h) <=> x = <<"queue", k>>
        BY <1>2, <3>2, <4>1
      <4>3. Holders(h) = {<<"queue", k>>}
        BY <4>2, OnlyOne
      <4> QED
        BY <4>3
    <3>3. ASSUME NEW s \in Servers, handle[s] = h PROVE \E x : Holders(h) = {x}
      <4>1. /\ accepted # h /\ \A l \in DOMAIN queue : queue[l] # h
            /\ \A r \in Servers : handle[r] = h => r = s
            /\ \A r \in Servers, j \in Threads : popped[r][j] # h
        BY <1>1, <3>3 DEF HoldInv, HeldOnce
      <4>2. \A x : x \in Holders(h) <=> x = <<"object", s>>
        BY <1>2, <3>3, <4>1
      <4>3. Holders(h) = {<<"object", s>>}
        BY <4>2, OnlyOne
      <4> QED
        BY <4>3
    <3>4. ASSUME NEW s \in Servers, NEW j \in Threads, popped[s][j] = h
          PROVE  \E x : Holders(h) = {x}
      <4>1. /\ accepted # h /\ \A l \in DOMAIN queue : queue[l] # h
            /\ \A r \in Servers : handle[r] # h
            /\ \A r \in Servers, i \in Threads : popped[r][i] = h => r = s /\ i = j
        BY <1>1, <3>4 DEF HoldInv, HeldOnce
      <4>2. \A x : x \in Holders(h) <=> x = <<"thread", <<s, j>>>>
        BY <1>2, <3>4, <4>1
      <4>3. Holders(h) = {<<"thread", <<s, j>>>>}
        BY <4>2, OnlyOne
      <4> QED
        BY <4>3
    <3> QED
      BY <1>1, <1>4, <3>1, <3>2, <3>3, <3>4 DEF HoldInv, OpenIsHeld, Stdin
  <2> QED
    BY <1>4, <2>1, FS_Singleton
<1> QED
  BY <1>3, <1>4

\* Every open connection is in exactly one place, and no place has a closed one,
\* whatever the watchdog replaces and whoever dies: as long as no marked thread
\* has gone on.
THEOREM ConnectionsHaveOneHolder == Spec => []OneHolder
<1>1. ControlInv /\ QuietInv => OneHolder
  BY OnePlace DEF QuietInv, OneHolder
<1> QED
  BY <1>1, Inductive, PTL
=============================================================================
