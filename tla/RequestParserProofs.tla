------------------------ MODULE RequestParserProofs ------------------------
(***************************************************************************)
(* Proofs about RequestParser, for any size of the buffer and any cut of   *)
(* the request by read().  For all requests whose first line can be told   *)
(* from its words (Readable): nothing is written outside the buffer, no    *)
(* file name that is accepted leads up from the directory of the server,   *)
(* and no request is refused for another reason than that.  For those of a *)
(* client that keeps to the protocol (WellFormed): the server never waits  *)
(* for a byte that does not come, and user code gets the parts that were   *)
(* sent.                                                                   *)
(*                                                                         *)
(* The types: a pointer is never ahead of the automaton, and set when the  *)
(* automaton is about to use it, so that a text that is decoded has an end *)
(* in front of i; and what it is decoded to is not longer.  The names: up  *)
(* to where the automaton is, no "../" has passed (NameInv), and the bytes *)
(* of the first line are those that the client sent (LineInv).  The parts: *)
(* the wire has a plan, encoded texts are decoded to what they were, and   *)
(* each step of the automaton keeps to the plan (PlannedInv).              *)
(***************************************************************************)
EXTENDS RequestInvariants, SequenceTheorems, WellFoundedInduction, TLAPS

(***************************************************************************)
(* Lists of lists, made one, and the least of some numbers                 *)
(***************************************************************************)

\* A set of natural numbers that is not empty has a least element.
LEMMA Least ==
  ASSUME NEW T \in SUBSET Nat, T # {}
  PROVE  \E x \in T : \A y \in T : x <= y
<1> DEFINE R == {ss \in Nat \X Nat : ss[1] < ss[2]}
<1>1. IsWellFoundedOn(R, Nat)
  BY NatLessThanWellFounded DEF OpToRel
<1>2. \A x, y \in Nat : y < x => <<y, x>> \in R
  OBVIOUS
<1> HIDE DEF R
<1>3. PICK x \in T : \A y \in T : ~(<<y, x>> \in R)
  BY <1>1, WFMin
<1>4. ASSUME NEW y \in T
      PROVE  x <= y
  <2>1. x \in Nat /\ y \in Nat /\ ~(<<y, x>> \in R)
    BY <1>3
  <2>2. ~(y < x)
    BY <1>2, <2>1
  <2> QED
    BY <2>1, <2>2
<1> QED
  BY <1>4

\* A set that has 0, and with every number the next one, has N.
LEMMA UpTo ==
  ASSUME NEW N \in Nat, NEW G, 0 \in G, \A n \in 1..N : n - 1 \in G => n \in G
  PROVE  N \in G
<1> DEFINE T == {n \in 0..N : n \notin G}
<1> SUFFICES ASSUME T # {} PROVE FALSE
  OBVIOUS
<1>1. T \in SUBSET Nat
  OBVIOUS
<1> HIDE DEF T
<1>2. PICK n \in T : \A y \in T : n <= y
  BY <1>1, Least
<1> USE DEF T
<1>3. n \in 1..N /\ n - 1 \in 0..N
  BY <1>2
<1>4. n - 1 \in G
  BY <1>2, <1>3
<1> QED
  BY <1>2, <1>3, <1>4

Joined(seqs, f, j) == IF j = 1 THEN seqs[j] ELSE f[j - 1] \o seqs[j]

\* f flattens the first n sequences.
Partial(seqs, f, n) == f = [j \in 1..n |-> Joined(seqs, f, j)]

\* What flattens n - 1 sequences can be extended to the next one, so that the

\* recursive definition of FlattenSeq has a solution.
LEMMA PartialExtends ==
  ASSUME NEW seqs, NEW n \in Nat \ {0}, NEW f, Partial(seqs, f, n - 1)
  PROVE  \E g : Partial(seqs, g, n)
<1> DEFINE g == [j \in 1..n |-> IF j < n THEN f[j] ELSE Joined(seqs, f, n)]
<1>1. \A j \in 1..n : g[j] = IF j < n THEN f[j] ELSE Joined(seqs, f, n)
  OBVIOUS
<1>2. g = [j \in 1..n |-> g[j]]
  OBVIOUS
<1> HIDE DEF g
<1>3. ASSUME NEW j \in 1..n
      PROVE  g[j] = Joined(seqs, g, j)
  <2>1. CASE j = 1
    <3>1. Joined(seqs, g, j) = seqs[1] /\ Joined(seqs, f, j) = seqs[1]
      BY <2>1 DEF Joined
    <3>2. j < n => f[j] = Joined(seqs, f, j)
      BY DEF Partial
    <3> QED
      BY <1>1, <2>1, <3>1, <3>2
  <2>2. CASE j # 1
    <3>1. j - 1 \in 1..n /\ j - 1 < n
      BY <2>2
    <3>2. g[j - 1] = f[j - 1]
      BY <1>1, <3>1
    <3>3. Joined(seqs, g, j) = Joined(seqs, f, j)
      BY <3>2 DEF Joined
    <3>4. j < n => f[j] = Joined(seqs, f, j)
      BY DEF Partial
    <3> QED
      BY <1>1, <3>3, <3>4
  <2> QED
    BY <2>1, <2>2
<1>4. g = [j \in 1..n |-> Joined(seqs, g, j)]
  BY <1>2, <1>3
<1> QED
  BY <1>4 DEF Partial

\* A function on 1..n is a list of n elements.
LEMMA FunctionIsSeq ==
  ASSUME NEW S, NEW n \in Nat, NEW f \in [1..n -> S]
  PROVE  f \in Seq(S) /\ Len(f) = n
BY SeqDef, LenProperties

\* f[n] is what the first n of the sequences make, flattened.
Flattens(f, S, seqs) ==
  /\ f \in [0..Len(seqs) -> Seq(S)] /\ f[0] = <<>>
  /\ \A n \in 1..Len(seqs) : f[n] = f[n - 1] \o seqs[n]

LEMMA FlattenUnfolds ==
  ASSUME NEW S, NEW seqs \in Seq(Seq(S))
  PROVE  \E f : Flattens(f, S, seqs) /\ FlattenSeq(seqs) = f[Len(seqs)]
<1> DEFINE N == Len(seqs)
<1>1. N \in Nat /\ \A n \in 1..N : seqs[n] \in Seq(S)
  BY ElementOfSeq, LenProperties
<1>2. \E f : Partial(seqs, f, N)
  <2> DEFINE G == {n \in Nat : \E f : Partial(seqs, f, n)}
  <2>1. 0 \in G
    <3>1. Partial(seqs, <<>>, 0)
      BY DEF Partial
    <3> QED
      BY <3>1
  <2>2. ASSUME NEW n \in 1..N, n - 1 \in G
        PROVE  n \in G
    <3>1. PICK f : Partial(seqs, f, n - 1)
      BY <2>2
    <3> QED
      BY <1>1, <3>1, PartialExtends
  <2> HIDE DEF G
  <2>3. N \in G
    BY <1>1, <2>1, <2>2, UpTo
  <2> QED
    BY <2>3 DEF G
<1>3. CASE N = 0
  <2>1. seqs = <<>>
    BY <1>3, EmptySeq
  <2>2. FlattenSeq(seqs) = <<>>
    BY <1>3, <2>1 DEF FlattenSeq
  <2> DEFINE f == [n \in 0..0 |-> <<>>]
  <2>3. Flattens(f, S, seqs)
    BY <1>3, EmptySeq DEF Flattens
  <2> QED
    BY <1>3, <2>2, <2>3
<1>4. CASE N # 0
  <2> DEFINE flatten == CHOOSE f : f = [j \in 1..N |-> Joined(seqs, f, j)]
             f == [n \in 0..N |-> IF n = 0 THEN <<>> ELSE flatten[n]]
  <2>1. FlattenSeq(seqs) = flatten[N]
    BY <1>4 DEF FlattenSeq, Joined
  <2>2. flatten = [j \in 1..N |-> Joined(seqs, flatten, j)]
    BY <1>2 DEF Partial
  <2> HIDE DEF flatten
  <2>3. ASSUME NEW n \in 1..N
        PROVE  f[n] = f[n - 1] \o seqs[n]
    <3>0. flatten[n] = Joined(seqs, flatten, n)
      BY <2>2
    <3>1. flatten[n] = Joined(seqs, flatten, n) /\ f[n] = flatten[n]
      BY <1>1, <3>0
    <3>2. CASE n = 1
      <4>1. f[n] = seqs[n] /\ f[n - 1] = <<>>
        BY <1>1, <3>1, <3>2 DEF Joined
      <4>2. <<>> \o seqs[n] = seqs[n]
        BY <1>1, ConcatEmptySeq
      <4> QED
        BY <4>1, <4>2
    <3>3. CASE n # 1
      <4>1. n - 1 \in 1..N /\ n - 1 # 0
        BY <1>1, <3>3
      <4>2. f[n - 1] = flatten[n - 1]
        BY <1>1, <4>1
      <4>3. Joined(seqs, flatten, n) = flatten[n - 1] \o seqs[n]
        BY <3>3 DEF Joined
      <4> QED
        BY <3>1, <4>2, <4>3
    <3> QED
      BY <3>2, <3>3
  <2>4. f[0] = <<>> /\ FlattenSeq(seqs) = f[N]
    BY <1>1, <1>4, <2>1
  <2>5. DOMAIN f = 0..N /\ f = [n \in 0..N |-> f[n]]
    OBVIOUS
  <2> HIDE DEF f
  <2>6. ASSUME NEW m \in 0..N
        PROVE  f[m] \in Seq(S)
    <3> DEFINE G == {n \in Nat : n \in 0..N => f[n] \in Seq(S)}
    <3>1. 0 \in G
      BY <2>4, EmptySeq
    <3>2. ASSUME NEW n \in 1..m, n - 1 \in G
          PROVE  n \in G
      <4>1. n \in 1..N /\ n - 1 \in 0..N
        BY <1>1
      <4>2. f[n - 1] \in Seq(S) /\ seqs[n] \in Seq(S)
        BY <1>1, <3>2, <4>1
      <4>3. f[n] \in Seq(S)
        BY <2>3, <4>1, <4>2, ConcatProperties
      <4> QED
        BY <1>1, <4>1, <4>3
    <3> HIDE DEF G
    <3>3. m \in G
      BY <1>1, <3>1, <3>2, UpTo
    <3> QED
      BY <1>1, <3>3 DEF G
  <2>7. Flattens(f, S, seqs)
    BY <2>3, <2>4, <2>5, <2>6 DEF Flattens
  <2> QED
    BY <2>4, <2>7
<1> QED
  BY <1>3, <1>4

\* Flattening a sequence of sequences gives a sequence of their elements.
LEMMA Flattened ==
  ASSUME NEW S, NEW seqs \in Seq(Seq(S))
  PROVE  FlattenSeq(seqs) \in Seq(S)
<1>1. PICK f : Flattens(f, S, seqs) /\ FlattenSeq(seqs) = f[Len(seqs)]
  BY FlattenUnfolds
<1>2. Len(seqs) \in 0..Len(seqs)
  BY LenProperties
<1> QED
  BY <1>1, <1>2 DEF Flattens

\* Integers that are not below some number have a least one.
LEMMA MinIsIn ==
  ASSUME NEW least \in Int, NEW S \in SUBSET Int, S # {}, \A y \in S : least <= y
  PROVE  Min(S) \in S /\ \A y \in S : Min(S) <= y
<1> DEFINE T == {n \in Nat : least + n \in S}
<1>1. T \in SUBSET Nat
  OBVIOUS
<1>2. T # {}
  <2>1. PICK y \in S : TRUE
    OBVIOUS
  <2>2. y - least \in Nat /\ least + (y - least) = y
    BY <2>1
  <2> QED
    BY <2>1, <2>2
<1> HIDE DEF T
<1>3. PICK n \in T : \A m \in T : n <= m
  BY <1>1, <1>2, Least
<1> USE DEF T
<1>4. least + n \in S /\ n \in Nat
  BY <1>3
<1>5. ASSUME NEW y \in S
      PROVE  least + n <= y
  <2>1. y - least \in Nat /\ least + (y - least) = y
    OBVIOUS
  <2>2. n <= y - least
    BY <1>3, <2>1
  <2> QED
    BY <1>4, <2>1, <2>2
<1> QED
  BY <1>4, <1>5 DEF Min

(***************************************************************************)
(* The conversions of texts                                                *)
(***************************************************************************)
\* What a decoder makes of the bytes from k on, if it makes f[j] of those from
\* a later j on; it takes a plus for space.
Step(text, space, f, k) ==
  IF k > Len(text) THEN <<>>
  ELSE IF text[k] = Percent
       THEN IF IsEscape(text, k) THEN <<ByteAt(text, k)>> \o f[k + 3] ELSE <<>>
  ELSE <<IF text[k] = Plus THEN space ELSE text[k]>> \o f[k + 1]

\* f[k] is what the bytes from k on are decoded to.
Solves(f, text, space, m) ==
  f = [k \in m..Len(text) + 1 |-> Step(text, space, f, k)]

Decodes(f, text, space) ==
  /\ f \in [1..Len(text) + 1 -> Seq(Byte255)]
  /\ \A k \in 1..Len(text) + 1 : /\ f[k] = Step(text, space, f, k)
                                 /\ Len(f[k]) <= Len(text) + 1 - k

LEMMA SolutionExists ==
  ASSUME NEW text \in Seq(Byte255), NEW space
  PROVE  \E f : Solves(f, text, space, 1)
<1> DEFINE N == Len(text)
           G == {n \in Nat : \E f : Solves(f, text, space, N + 1 - n)}
<1>1. N \in Nat
  BY LenProperties
<1>2. 0 \in G
  <2> DEFINE f == [k \in N + 1..N + 1 |-> <<>>]
  <2>1. f = [k \in N + 1..N + 1 |-> Step(text, space, f, k)]
    <3>1. ASSUME NEW k \in N + 1..N + 1
          PROVE  Step(text, space, f, k) = <<>>
      BY <1>1 DEF Step
    <3> HIDE DEF f
    <3>2. [k \in N + 1..N + 1 |-> <<>>] = [k \in N + 1..N + 1 |-> Step(text, space, f, k)]
      BY <3>1
    <3> QED
      BY <3>2 DEF f
  <2> HIDE DEF f
  <2>2. N + 1 - 0 = N + 1
    BY <1>1
  <2> QED
    BY <2>1, <2>2 DEF Solves
<1>3. ASSUME NEW n \in 1..N, n - 1 \in G
      PROVE  n \in G
  <2> DEFINE m == N + 1 - n
  <2>1. m \in 1..N /\ N + 1 - (n - 1) = m + 1
    BY <1>1
  <2> HIDE DEF m
  <2>2. PICK f : Solves(f, text, space, m + 1)
    BY <1>3, <2>1
  <2>3. f = [k \in m + 1..N + 1 |-> Step(text, space, f, k)]
    BY <2>2 DEF Solves
  <2> DEFINE g == [k \in m..N + 1 |-> IF k > m THEN f[k] ELSE Step(text, space, f, m)]
  <2>4. ASSUME NEW k \in m..N + 1
        PROVE  Step(text, space, g, k) = Step(text, space, f, k)
    <3>1. \A j \in m + 1..N + 1 : g[j] = f[j]
      BY <2>1
    <3> HIDE DEF g
    <3>2. k <= N => g[k + 1] = f[k + 1]
      BY <1>1, <2>1, <3>1
    <3>3. k + 2 <= N => g[k + 3] = f[k + 3]
      BY <1>1, <2>1, <3>1
    <3>4. CASE k > N
      BY <3>4 DEF Step
    <3>5. CASE k <= N /\ text[k] = Percent /\ IsEscape(text, k)
      BY <3>3, <3>5, <2>1, <1>1 DEF Step, IsEscape
    <3>6. CASE k <= N /\ text[k] = Percent /\ ~IsEscape(text, k)
      BY <3>6, <2>1, <1>1 DEF Step
    <3>7. CASE k <= N /\ text[k] # Percent
      BY <3>2, <3>7, <2>1, <1>1 DEF Step
    <3> QED
      BY <3>4, <3>5, <3>6, <3>7, <2>1, <1>1
  <2>5. ASSUME NEW k \in m..N + 1
        PROVE  g[k] = Step(text, space, f, k)
    <3>1. CASE k > m
      <4>1. k \in m + 1..N + 1
        BY <2>1, <3>1
      <4> QED
        BY <2>3, <3>1, <4>1
    <3>2. CASE ~(k > m)
      <4>1. k = m
        BY <2>1, <3>2
      <4> QED
        BY <3>2, <4>1
    <3> QED
      BY <3>1, <3>2
  <2>6. g = [k \in m..N + 1 |-> g[k]]
    OBVIOUS
  <2> HIDE DEF g
  <2>7. Solves(g, text, space, m)
    BY <2>4, <2>5, <2>6 DEF Solves
  <2> QED
    BY <1>1, <2>7 DEF m
<1> HIDE DEF G
<1>4. N \in G
  BY <1>1, <1>2, <1>3, UpTo
<1>5. N + 1 - N = 1
  BY <1>1
<1> QED
  BY <1>4, <1>5 DEF G

LEMMA ByteOfDigits ==
  ASSUME NEW text \in Seq(Byte255), NEW k \in 1..Len(text), IsEscape(text, k)
  PROVE  ByteAt(text, k) \in Byte255
<1>1. \A c \in HexDigits : HexValue(c) \in 0..15
  BY DEF HexDigits, Digits, HexValue
<1>2. text[k + 1] \in HexDigits /\ text[k + 2] \in HexDigits
  BY DEF IsEscape
<1> DEFINE a == HexValue(text[k + 1])
           b == HexValue(text[k + 2])
<1>3. a \in 0..15 /\ b \in 0..15
  BY <1>1, <1>2
<1>4. ByteAt(text, k) = 16 * a + b
  BY DEF ByteAt
<1> HIDE DEF a, b
<1> QED
  BY <1>3, <1>4 DEF Byte255

LEMMA SolutionType ==
  ASSUME NEW text \in Seq(Byte255), NEW space \in Byte255,
         NEW f, Solves(f, text, space, 1)
  PROVE  Decodes(f, text, space)
<1> DEFINE N == Len(text)
           Typed(k) == f[k] \in Seq(Byte255) /\ Len(f[k]) <= N + 1 - k
           G == {n \in Nat : \A k \in N + 1 - n..N + 1 : Typed(k)}
<1>1. N \in Nat /\ \A k \in 1..N : text[k] \in Byte255
  BY LenProperties, ElementOfSeq
<1>2. f = [k \in 1..N + 1 |-> Step(text, space, f, k)]
  BY DEF Solves
<1>3. \A k \in 1..N + 1 : f[k] = Step(text, space, f, k)
  BY <1>2
<1>4. 0 \in G
  <2>1. ASSUME NEW k \in N + 1 - 0..N + 1
        PROVE  Typed(k)
    <3>1. k = N + 1 /\ k \in 1..N + 1
      BY <1>1
    <3>2. f[k] = <<>>
      <4>1. f[k] = Step(text, space, f, k) /\ k > Len(text)
        BY <1>1, <1>3, <3>1
      <4> QED
        BY <4>1 DEF Step
    <3> QED
      BY <1>1, <3>1, <3>2, EmptySeq
  <2> HIDE DEF Typed
  <2> QED
    BY <2>1
<1>5. ASSUME NEW n \in 1..N, n - 1 \in G
      PROVE  n \in G
  <2> DEFINE m == N + 1 - n
  <2>1. m \in 1..N /\ N + 1 - (n - 1) = m + 1
    BY <1>1
  <2>2. \A k \in m + 1..N + 1 : Typed(k)
    BY <1>5, <2>1
  <2>3. f[m] = Step(text, space, f, m)
    BY <1>1, <1>3, <2>1
  <2>4. \A j \in m + 1..N + 1 : j \in Nat /\ f[j] \in Seq(Byte255) /\ Len(f[j]) \in Nat /\ Len(f[j]) <= N + 1 - j
    BY <1>1, <2>1, <2>2, LenProperties
  <2> HIDE DEF m
  <2>5. ASSUME NEW b \in Byte255, NEW j \in m + 1..N + 1
        PROVE  <<b>> \o f[j] \in Seq(Byte255) /\ Len(<<b>> \o f[j]) <= N + 1 - m
    <3>1. <<b>> \in Seq(Byte255) /\ Len(<<b>>) = 1
      OBVIOUS
    <3>2. <<b>> \o f[j] \in Seq(Byte255) /\ Len(<<b>> \o f[j]) = 1 + Len(f[j])
      BY <2>4, <3>1, ConcatProperties
    <3> QED
      BY <1>1, <2>1, <2>4, <3>2
  <2>6. Typed(m)
    <3>1. CASE text[m] = Percent /\ IsEscape(text, m)
      <4>1. ByteAt(text, m) \in Byte255
        BY <2>1, <3>1, ByteOfDigits
      <4>2. m + 3 \in m + 1..N + 1
        BY <1>1, <2>1, <3>1 DEF IsEscape
      <4>3. f[m] = <<ByteAt(text, m)>> \o f[m + 3]
        BY <1>1, <2>1, <2>3, <3>1 DEF Step
      <4> QED
        BY <2>5, <4>1, <4>2, <4>3
    <3>2. CASE text[m] = Percent /\ ~IsEscape(text, m)
      <4>1. f[m] = <<>>
        BY <1>1, <2>1, <2>3, <3>2 DEF Step
      <4> QED
        BY <1>1, <2>1, <4>1, EmptySeq
    <3>3. CASE text[m] # Percent
      <4> DEFINE b == IF text[m] = Plus THEN space ELSE text[m]
      <4>1. b \in Byte255 /\ m + 1 \in m + 1..N + 1
        BY <1>1, <2>1
      <4>2. f[m] = <<b>> \o f[m + 1]
        BY <1>1, <2>1, <2>3, <3>3 DEF Step
      <4> HIDE DEF b
      <4> QED
        BY <2>5, <4>1, <4>2
    <3> QED
      BY <3>1, <3>2, <3>3
  <2>7. \A k \in m..N + 1 : k = m \/ k \in m + 1..N + 1
    BY <2>1
  <2> HIDE DEF Typed
  <2>8. \A k \in m..N + 1 : Typed(k)
    BY <2>2, <2>6, <2>7
  <2> QED
    BY <2>8 DEF m
<1> HIDE DEF G
<1>6. N \in G
  BY <1>1, <1>4, <1>5, UpTo
<1>7. \A k \in 1..N + 1 : Typed(k)
  <2>1. N + 1 - N = 1
    BY <1>1
  <2> QED
    BY <1>6, <2>1 DEF G
<1>8. f \in [1..N + 1 -> Seq(Byte255)]
  BY <1>2, <1>7
<1> QED
  BY <1>3, <1>7, <1>8 DEF Decodes

LEMMA DecodeUnfolds ==
  ASSUME NEW text \in Seq(Byte255)
  PROVE  \E f : Decodes(f, text, Space) /\ decodeUriComponent(text) = f[1]
<1> DEFINE f == CHOOSE f : f = [k \in 1..Len(text) + 1 |-> Step(text, Space, f, k)]
<1>1. Solves(f, text, Space, 1)
  BY SolutionExists DEF Solves
<1>2. decodeUriComponent(text) = f[1]
  BY DEF decodeUriComponent, Step
<1> HIDE DEF f
<1>3. Space \in Byte255
  BY DEF Space, Byte255
<1> QED
  BY <1>1, <1>2, <1>3, SolutionType

LEMMA DecodeType ==
  ASSUME NEW text \in Seq(Byte255)
  PROVE  /\ decodeUriComponent(text) \in Seq(Byte255)
         /\ Len(decodeUriComponent(text)) <= Len(text)
<1>1. PICK f : Decodes(f, text, Space) /\ decodeUriComponent(text) = f[1]
  BY DecodeUnfolds
<1>2. Len(text) \in Nat /\ 1 \in 1..Len(text) + 1
  BY LenProperties
<1>3. f[1] \in Seq(Byte255) /\ Len(f[1]) <= Len(text) + 1 - 1
  BY <1>1, <1>2 DEF Decodes
<1> QED
  BY <1>1, <1>2, <1>3

\* The number that a text starts with
LEMMA NumberType ==
  ASSUME NEW text, Len(text) \in Nat
  PROVE  Number(text) \in Nat
<1> DEFINE N == Len(text)
           A == {k \in 1..N + 1 : k > N \/ text[k] # Space}
           first == Min(A)
           B == {k \in first..N + 1 : k > N \/ text[k] \notin Digits}
           stop == Min(B)
           Sum(f, k) == IF k < first THEN 0 ELSE 10 * f[k - 1] + text[k] - 48
           value == CHOOSE f : f = [k \in first - 1..stop - 1 |-> Sum(f, k)]
<1>1. N + 1 \in A /\ A \in SUBSET (1..N + 1)
  OBVIOUS
<1>2. first \in 1..N + 1
  <2> HIDE DEF A
  <2>1. \A y \in A : 1 <= y
    BY <1>1
  <2>2. A \in SUBSET Int /\ A # {} /\ 1 \in Int
    BY <1>1
  <2>3. first \in A
    BY <2>1, <2>2, MinIsIn
  <2> QED
    BY <1>1, <2>3
<1> HIDE DEF first
<1>3. N + 1 \in B /\ B \in SUBSET (first..N + 1)
  BY <1>2
<1>4. stop \in first..N + 1 /\ \A k \in first..stop - 1 : text[k] \in Digits
  <2>1. \A y \in B : first <= y
    BY <1>2, <1>3
  <2>2. B \in SUBSET Int /\ B # {} /\ first \in Int
    BY <1>2, <1>3
  <2> HIDE DEF B
  <2>3. stop \in B /\ \A y \in B : stop <= y
    BY <2>1, <2>2, MinIsIn
  <2> USE DEF B
  <2>4. stop \in first..N + 1
    BY <1>3, <2>3
  <2> HIDE DEF stop
  <2>5. ASSUME NEW k \in first..stop - 1
        PROVE  text[k] \in Digits
    <3>1. k \in first..N + 1 /\ ~(stop <= k)
      BY <1>2, <2>4
    <3>2. k \notin B
      BY <2>3, <3>1
    <3> QED
      BY <3>1, <3>2
  <2> QED
    BY <2>4, <2>5
<1> HIDE DEF stop
<1>5. \E f : f = [k \in first - 1..stop - 1 |-> Sum(f, k)]
  <2> DEFINE G == {n \in Nat : \E f : f = [k \in first - 1..first - 1 + n |-> Sum(f, k)]}
             d == stop - first
  <2>1. d \in Nat /\ first - 1 + d = stop - 1
    BY <1>2, <1>4
  <2>2. 0 \in G
    <3> DEFINE f == [k \in first - 1..first - 1 + 0 |-> 0]
    <3>1. \A k \in first - 1..first - 1 + 0 : k < first
      BY <1>2
    <3> SUFFICES f = [k \in first - 1..first - 1 + 0 |-> Sum(f, k)]
      OBVIOUS
    <3> HIDE DEF f
    <3>2. \A k \in first - 1..first - 1 + 0 : Sum(f, k) = 0
      BY <3>1
    <3>3. [k \in first - 1..first - 1 + 0 |-> 0] = [k \in first - 1..first - 1 + 0 |-> Sum(f, k)]
      BY <3>2
    <3> QED
      BY <3>3 DEF f
  <2>3. ASSUME NEW n \in 1..d, n - 1 \in G
        PROVE  n \in G
    <3> DEFINE m == first - 1 + n
    <3>1. m \in Int /\ first - 1 + (n - 1) = m - 1 /\ m >= first
      BY <1>2, <2>1
    <3>2. PICK f : f = [k \in first - 1..m - 1 |-> Sum(f, k)]
      BY <2>3, <3>1
    <3> HIDE DEF m
    <3> DEFINE g == [k \in first - 1..m |-> IF k < m THEN f[k] ELSE Sum(f, m)]
    <3>3. ASSUME NEW k \in first - 1..m
          PROVE  g[k] = Sum(f, k)
      <4>1. CASE k < m
        <5>1. k \in first - 1..m - 1
          BY <1>2, <3>1, <4>1
        <5> HIDE DEF Sum
        <5>2. f[k] = Sum(f, k)
          BY <3>2, <5>1
        <5> QED
          BY <4>1, <5>2
      <4>2. CASE ~(k < m)
        <5>1. k = m
          BY <1>2, <3>1, <4>2
        <5> QED
          BY <4>2, <5>1
      <4> QED
        BY <4>1, <4>2
    <3>4. ASSUME NEW k \in first - 1..m
          PROVE  Sum(g, k) = Sum(f, k)
      <4>1. CASE k < first
        BY <4>1
      <4>2. CASE ~(k < first)
        <5>1. k - 1 \in first - 1..m /\ k - 1 < m
          BY <1>2, <3>1, <4>2
        <5>2. g[k - 1] = f[k - 1]
          BY <5>1
        <5> HIDE DEF g
        <5> QED
          BY <5>2
      <4> QED
        BY <4>1, <4>2
    <3>5. g = [k \in first - 1..m |-> g[k]]
      OBVIOUS
    <3> HIDE DEF g, Sum
    <3>6. g = [k \in first - 1..m |-> Sum(g, k)]
      BY <3>3, <3>4, <3>5
    <3> QED
      BY <2>1, <3>6 DEF m
  <2> HIDE DEF G
  <2>4. d \in G
    BY <2>1, <2>2, <2>3, UpTo
  <2> QED
    BY <2>1, <2>4 DEF G
<1>6. \A k \in first - 1..stop - 1 : value[k] = Sum(value, k)
  <2> HIDE DEF Sum
  <2>1. value = [k \in first - 1..stop - 1 |-> Sum(value, k)]
    BY <1>5
  <2> HIDE DEF value
  <2> QED
    BY <2>1
<1> HIDE DEF value
<1>7. value[stop - 1] \in Nat
  <2> DEFINE d == stop - first
             G == {n \in Nat : n \in 0..d => value[first - 1 + n] \in Nat}
  <2>1. d \in Nat /\ first - 1 + d = stop - 1
    BY <1>2, <1>4
  <2>2. 0 \in G
    <3>1. first - 1 + 0 = first - 1 /\ first - 1 \in first - 1..stop - 1 /\ first - 1 < first
      BY <1>2, <1>4
    <3> QED
      BY <1>6, <3>1
  <2>3. ASSUME NEW n \in 1..d, n - 1 \in G
        PROVE  n \in G
    <3> DEFINE k == first - 1 + n
    <3>1. k \in first..stop - 1 /\ first - 1 + (n - 1) = k - 1 /\ ~(k < first) /\ k \in first - 1..stop - 1
      BY <1>2, <1>4
    <3>2. value[k - 1] \in Nat
      BY <2>1, <2>3, <3>1
    <3>3. value[k] = 10 * value[k - 1] + text[k] - 48
      BY <1>6, <3>1
    <3>4. text[k] \in 48..57
      BY <1>4, <3>1 DEF Digits
    <3> DEFINE u == value[k - 1]
               w == text[k]
    <3>5. value[k] = 10 * u + w - 48 /\ u \in Nat /\ w \in 48..57
      BY <3>2, <3>3, <3>4
    <3> HIDE DEF k, u, w
    <3>6. 10 * u + w - 48 \in Nat
      BY <3>5
    <3>7. value[k] \in Nat
      BY <3>5, <3>6
    <3> QED
      BY <3>7 DEF k
  <2> HIDE DEF G
  <2>4. d \in G
    BY <2>1, <2>2, <2>3, UpTo
  <2>5. d \in 0..d
    BY <2>1
  <2> QED
    BY <2>1, <2>4, <2>5 DEF G
<1>8. Number(text) = value[stop - 1]
  BY DEF Number, value, stop, first
<1> QED
  BY <1>7, <1>8

(***************************************************************************)
(* The buffer                                                              *)
(***************************************************************************)
\* buf with t in the place of the bytes behind p
Spliced(buf, N, p, t) ==
  [k \in 1..N |-> IF p < k /\ k <= p + Len(t) THEN t[k - p] ELSE buf[k]]

\* Bytes in the middle of the buffer are replaced by as many others.
LEMMA Splice ==
  ASSUME NEW S, NEW N \in Nat, NEW buf \in [1..N -> S],
         NEW p \in 0..N, NEW t \in Seq(S), p + Len(t) <= N
  PROVE  SubSeq(buf, 1, p) \o t \o SubSeq(buf, p + Len(t) + 1, Len(buf))
           = Spliced(buf, N, p, t)
<1> DEFINE n == Len(t)
           a == SubSeq(buf, 1, p)
           c == SubSeq(buf, p + n + 1, N)
<1>1. n \in Nat /\ p \in Nat
  BY LenProperties
<1>2. buf \in Seq(S) /\ Len(buf) = N
  BY FunctionIsSeq
<1>3. a \in Seq(S) /\ Len(a) = p /\ \A k \in 1..p : a[k] = buf[k]
  <2>1. 1 \in 1..Len(buf) + 1 /\ p \in 1 - 1..Len(buf)
    BY <1>2
  <2>2. a \in Seq(S) /\ Len(a) = p - 1 + 1 /\ \A k \in 1..p - 1 + 1 : a[k] = buf[1 + k - 1]
    <3>1. \A k \in 1..p : k \in 1..Len(buf) /\ buf[k] \in S
      BY <1>2
    <3>2. a = [k \in 1..p |-> buf[1 + k - 1]]
      BY <1>1 DEF SubSeq
    <3>3. a = [k \in 1..p |-> buf[k]]
      BY <3>2, <1>1
    <3>4. a \in [1..p -> S]
      BY <3>1, <3>3
    <3> HIDE DEF a
    <3>5. a \in Seq(S) /\ Len(a) = p
      BY <1>1, <3>4, FunctionIsSeq
    <3> QED
      BY <1>1, <3>3, <3>5
  <2> HIDE DEF a
  <2> QED
    BY <1>1, <2>2
<1>4. /\ c \in Seq(S) /\ Len(c) = N - (p + n)
      /\ \A k \in 1..N - (p + n) : c[k] = buf[p + n + k]
  <2> DEFINE m == N - (p + n)
  <2>1. m \in Nat /\ 1 + N - (p + n + 1) = m
    BY <1>1
  <2>2. c = [k \in 1..m |-> buf[(p + n + 1) + k - 1]]
    BY <1>1, <2>1 DEF SubSeq
  <2>3. \A k \in 1..m : (p + n + 1) + k - 1 = p + n + k /\ p + n + k \in 1..N
    BY <1>1, <2>1
  <2>4. c = [k \in 1..m |-> buf[p + n + k]]
    BY <2>2, <2>3
  <2> HIDE DEF c
  <2>5. c \in [1..m -> S]
    BY <2>3, <2>4
  <2>6. c \in Seq(S) /\ Len(c) = m
    BY <2>1, <2>5, FunctionIsSeq
  <2> QED
    BY <2>4, <2>6
<1>5. SubSeq(buf, p + Len(t) + 1, Len(buf)) = c
  BY <1>2
<1> HIDE DEF a, c
<1>6. /\ a \o t \in Seq(S) /\ Len(a \o t) = p + n
      /\ \A k \in 1..p + n : (a \o t)[k] = IF k <= p THEN a[k] ELSE t[k - p]
  BY <1>3, ConcatProperties
<1> DEFINE b == a \o t
<1>7. /\ b \o c \in Seq(S) /\ Len(b \o c) = (p + n) + (N - (p + n))
      /\ \A k \in 1..(p + n) + (N - (p + n)) :
            (b \o c)[k] = IF k <= p + n THEN b[k] ELSE c[k - (p + n)]
  <2> DEFINE m == N - (p + n)
  <2>1. b \in Seq(S) /\ Len(b) = p + n /\ c \in Seq(S) /\ Len(c) = m
    BY <1>4, <1>6
  <2> HIDE DEF b, m
  <2>2. /\ b \o c \in Seq(S) /\ Len(b \o c) = (p + n) + m
        /\ \A k \in 1..(p + n) + m : (b \o c)[k] = IF k <= p + n THEN b[k] ELSE c[k - (p + n)]
    BY <2>1, ConcatProperties
  <2> QED
    BY <2>2 DEF m
<1> DEFINE r == [k \in 1..N |-> IF p < k /\ k <= p + n THEN t[k - p] ELSE buf[k]]
<1>8. (p + n) + (N - (p + n)) = N
  BY <1>1
<1>9. ASSUME NEW k \in 1..N
      PROVE  (b \o c)[k] = r[k]
  <2>1. CASE k <= p
    <3>1. (b \o c)[k] = b[k] /\ b[k] = a[k] /\ a[k] = buf[k]
      <4>1. k \in 1..p /\ k <= p + n /\ k \in 1..p + n
        BY <1>1, <2>1
      <4> HIDE DEF b
      <4>2. (b \o c)[k] = b[k]
        BY <1>7, <1>8, <4>1
      <4> QED
        BY <1>3, <1>6, <4>1, <4>2, <2>1 DEF b
    <3> QED
      BY <1>1, <2>1, <3>1
  <2>2. CASE p < k /\ k <= p + n
    <3>1. (b \o c)[k] = b[k] /\ b[k] = t[k - p]
      <4>1. k \in 1..p + n /\ ~(k <= p)
        BY <1>1, <2>2
      <4>2. b[k] = t[k - p]
        BY <1>6, <4>1
      <4> HIDE DEF b
      <4>3. (b \o c)[k] = b[k]
        BY <1>7, <1>8, <2>2
      <4> QED
        BY <4>2, <4>3
    <3> QED
      BY <2>2, <3>1
  <2>3. CASE k > p + n
    <3>1. ~(k <= p + n) /\ k - (p + n) \in 1..N - (p + n) /\ p + n + (k - (p + n)) = k
      BY <1>1, <2>3
    <3> HIDE DEF b
    <3>2. (b \o c)[k] = c[k - (p + n)]
      BY <1>7, <1>8, <3>1
    <3>3. (b \o c)[k] = buf[k]
      BY <1>4, <3>1, <3>2
    <3> QED
      BY <3>1, <3>3
  <2>4. k <= p \/ (p < k /\ k <= p + n) \/ k > p + n
    BY <1>1
  <2> QED
    BY <2>1, <2>2, <2>3, <2>4
<1>10. b \o c \in [1..N -> S]
  <2> HIDE DEF b
  <2> QED
    BY <1>7, <1>8, LenProperties
<1>11. b \o c = [k \in 1..N |-> (b \o c)[k]]
  <2> HIDE DEF b
  <2> QED
    BY <1>10
<1>12. b \o c = r
  <2> HIDE DEF b, r
  <2>1. r = [k \in 1..N |-> r[k]]
    BY DEF r
  <2> QED
    BY <1>9, <1>11, <2>1
<1> QED
  BY <1>5, <1>12 DEF a, Spliced

\* The text at p ends before z.
Ends(buf, p, z) == p <= z /\ buf[z] = 0 /\ \A k \in p..z - 1 : buf[k] # 0

LEMMA EndExists ==
  ASSUME NEW N \in Nat, NEW buf \in [1..N -> Byte255],
         NEW p \in 1..N, NEW e \in p..N, buf[e] = 0
  PROVE  \E z \in p..e : Ends(buf, p, z)
<1> DEFINE T == {n \in Nat : p + n \in p..e /\ buf[p + n] = 0}
<1>1. e - p \in T
  OBVIOUS
<1> HIDE DEF T
<1>2. T \in SUBSET Nat /\ T # {}
  BY <1>1 DEF T
<1>3. PICK n \in T : \A m \in T : n <= m
  BY <1>2, Least
<1>4. p + n \in p..e /\ buf[p + n] = 0 /\ n \in Nat
  BY <1>3 DEF T
<1>5. ASSUME NEW k \in p..(p + n) - 1
      PROVE  buf[k] # 0
  <2>1. k - p \in Nat /\ k - p < n /\ p + (k - p) = k /\ k \in p..e
    BY <1>4
  <2>2. k - p \notin T
    BY <1>3, <1>4, <2>1
  <2> QED
    BY <2>1, <2>2 DEF T
<1> QED
  BY <1>4, <1>5 DEF Ends

LEMMA EndIs ==
  ASSUME NEW N \in Nat, NEW buf \in [1..N -> Byte255],
         NEW p \in 1..N, NEW z \in 1..N, Ends(buf, p, z)
  PROVE  SelectInSubSeq(buf, p, Len(buf), LAMBDA b : b = 0) = z
<1> DEFINE I == {k \in p..N : buf[k] = 0}
<1>1. Len(buf) = N
  BY FunctionIsSeq
<1>2. z \in I /\ \A k \in I : z <= k
  BY DEF Ends
<1>3. SelectInSubSeq(buf, p, Len(buf), LAMBDA b : b = 0) = Min(I)
  BY <1>1, <1>2 DEF SelectInSubSeq
<1>4. I \in SUBSET Int /\ I # {} /\ z \in Int
  BY <1>2
<1> DEFINE m == Min(I)
<1> HIDE DEF I
<1>5. m \in I /\ \A k \in I : m <= k
  BY <1>2, <1>4, MinIsIn
<1> HIDE DEF m
<1>6. m <= z /\ z <= m /\ m \in Int
  BY <1>2, <1>4, <1>5
<1> QED
  BY <1>3, <1>4, <1>6 DEF m

LEMMA TextIs ==
  ASSUME NEW N \in Nat, NEW buf \in [1..N -> Byte255],
         NEW p \in 1..N, NEW z \in 1..N, Ends(buf, p, z)
  PROVE  /\ TextIn(buf, p) = [k \in 1..z - p |-> buf[p + k - 1]]
         /\ TextIn(buf, p) \in Seq(Byte255) /\ Len(TextIn(buf, p)) = z - p
<1> DEFINE t == [k \in 1..z - p |-> buf[p + k - 1]]
<1>1. TextIn(buf, p) = SubSeq(buf, p, z - 1)
  BY EndIs DEF TextIn
<1>2. z - p \in Nat /\ 1 + (z - 1) - p = z - p
  BY DEF Ends
<1>3. SubSeq(buf, p, z - 1) = t
  BY <1>2 DEF SubSeq
<1>4. \A k \in 1..z - p : p + k - 1 \in 1..N
  BY <1>2
<1>5. t \in [1..z - p -> Byte255]
  BY <1>4
<1> HIDE DEF t
<1>6. t \in Seq(Byte255) /\ Len(t) = z - p
  BY <1>2, <1>5, FunctionIsSeq
<1> QED
  BY <1>1, <1>3, <1>6 DEF t

\* Wherever a text starts, even at NULL
LEMMA TextHasLength ==
  ASSUME NEW N \in Nat, NEW buf \in [1..N -> Byte255], NEW p \in Nat
  PROVE  Len(TextIn(buf, p)) \in Nat
<1> DEFINE z == SelectInSubSeq(buf, p, Len(buf), LAMBDA b : b = 0)
           I == {k \in p..N : buf[k] = 0}
<1>1. z = IF I # {} THEN Min(I) ELSE 0
  BY FunctionIsSeq DEF SelectInSubSeq
<1>2. z \in Int
  <2>1. CASE I # {}
    <3>1. I \in SUBSET Int /\ p \in Int /\ \A y \in I : p <= y
      OBVIOUS
    <3> HIDE DEF I, z
    <3>2. Min(I) \in I
      BY <2>1, <3>1, MinIsIn
    <3> QED
      BY <1>1, <2>1, <3>1, <3>2
  <2>2. CASE I = {}
    BY <1>1, <2>2
  <2> QED
    BY <2>1, <2>2
<1> DEFINE n == 1 + (z - 1) - p
           t == [k \in 1..n |-> buf[p + k - 1]]
<1>3. TextIn(buf, p) = SubSeq(buf, p, z - 1)
  BY DEF TextIn
<1> HIDE DEF z
<1>4. SubSeq(buf, p, z - 1) = t
  BY <1>2 DEF SubSeq
<1>5. n \in Int
  BY <1>2
<1> HIDE DEF n
<1>6. \E m \in Nat : 1..n = 1..m
  <2>1. CASE n >= 0
    BY <1>5, <2>1
  <2>2. CASE n < 0
    <3>1. 1..n = 1..0
      BY <1>5, <2>2
    <3> QED
      BY <3>1
  <2> QED
    BY <1>5, <2>1, <2>2
<1>7. PICK m \in Nat : 1..n = 1..m
  BY <1>6
<1>8. t \in [1..m -> {buf[p + k - 1] : k \in 1..n}]
  BY <1>7
<1> HIDE DEF t
<1>9. Len(t) = m
  BY <1>8, FunctionIsSeq
<1> QED
  BY <1>3, <1>4, <1>9

\* A text is replaced by what it is decoded to, which is not longer.
LEMMA DecodedIs ==
  ASSUME NEW N \in Nat, NEW buf \in [1..N -> Byte255],
         NEW p \in 1..N, NEW z \in 1..N, Ends(buf, p, z),
         NEW d, d = decodeUriComponent(TextIn(buf, p))
  PROVE  /\ d \in Seq(Byte255) /\ Len(d) \in Nat /\ p + Len(d) <= z
         /\ Decoded(buf, p) =
              [k \in 1..N |-> IF p <= k /\ k < p + Len(d) THEN d[k - p + 1]
                              ELSE IF k = p + Len(d) THEN 0 ELSE buf[k]]
<1> DEFINE n == Len(d)
           t == d \o <<0>>
<1>1. TextIn(buf, p) \in Seq(Byte255) /\ Len(TextIn(buf, p)) = z - p
  BY TextIs
<1>2. d \in Seq(Byte255) /\ n \in Nat /\ n <= z - p
  BY <1>1, DecodeType, LenProperties
<1>3. t \in Seq(Byte255) /\ Len(t) = n + 1 /\ \A k \in 1..n + 1 : t[k] = IF k <= n THEN d[k] ELSE 0
  <2>1. <<0>> \in Seq(Byte255) /\ Len(<<0>>) = 1 /\ <<0>>[1] = 0
    BY DEF Byte255
  <2>2. /\ t \in Seq(Byte255) /\ Len(t) = n + 1
        /\ \A k \in 1..n + 1 : t[k] = IF k <= n THEN d[k] ELSE <<0>>[k - n]
    BY <1>2, <2>1, ConcatProperties
  <2>3. \A k \in 1..n + 1 : ~(k <= n) => k - n = 1
    BY <1>2
  <2> QED
    BY <2>1, <2>2, <2>3
<1> DEFINE q == p - 1
<1>4. q \in 0..N /\ q + Len(t) <= N /\ q + Len(t) + 1 = p + Len(t)
  BY <1>2, <1>3
<1>5. Decoded(buf, p) = SubSeq(buf, 1, q) \o t \o SubSeq(buf, p + Len(t), Len(buf))
  BY DEF Decoded
<1> HIDE DEF t
<1>6. SubSeq(buf, 1, q) \o t \o SubSeq(buf, q + Len(t) + 1, Len(buf))
        = Spliced(buf, N, q, t)
  <2>1. t \in Seq(Byte255) /\ q \in 0..N /\ q + Len(t) <= N
    BY <1>3, <1>4
  <2> HIDE DEF q, n
  <2> QED
    BY <2>1, Splice
<1>7. ASSUME NEW k \in 1..N
      PROVE  (IF q < k /\ k <= q + Len(t) THEN t[k - q] ELSE buf[k])
               = IF p <= k /\ k < p + n THEN d[k - p + 1]
                 ELSE IF k = p + n THEN 0 ELSE buf[k]
  <2>1. CASE p <= k /\ k < p + n
    <3>1. q < k /\ k <= q + Len(t) /\ k - q = k - p + 1 /\ k - q \in 1..n + 1 /\ k - q <= n
      BY <1>2, <1>3, <2>1
    <3> QED
      BY <1>3, <2>1, <3>1
  <2>2. CASE k = p + n
    <3>1. q < k /\ k <= q + Len(t) /\ k - q = n + 1 /\ k - q \in 1..n + 1 /\ ~(k - q <= n)
      BY <1>2, <1>3, <2>2
    <3>2. t[k - q] = 0
      BY <1>3, <3>1
    <3>3. ~(k < p + n)
      BY <1>2, <2>2
    <3> QED
      BY <2>2, <3>1, <3>2, <3>3
  <2>3. CASE k < p \/ k > p + n
    <3>1. ~(q < k /\ k <= q + Len(t)) /\ ~(p <= k /\ k < p + n) /\ k # p + n
      BY <1>2, <1>3, <2>3
    <3> QED
      BY <3>1
  <2> QED
    BY <1>2, <2>1, <2>2, <2>3
<1> HIDE DEF n, q
<1>8. Decoded(buf, p) = [k \in 1..N |-> IF p <= k /\ k < p + n THEN d[k - p + 1]
                              ELSE IF k = p + n THEN 0 ELSE buf[k]]
  BY <1>4, <1>5, <1>6, <1>7 DEF Spliced
<1>9. p + n <= z
  BY <1>2
<1> QED
  BY <1>2, <1>8, <1>9 DEF n

\* The end of a pair in the body: its name, then its value is decoded in place.

\* Nothing behind the end is written.
LEMMA DecodedType ==
  ASSUME NEW N \in Nat, NEW buf \in [1..N -> Byte255],
         NEW p \in 1..N, NEW e \in p..N, buf[e] = 0
  PROVE  /\ Decoded(buf, p) \in [1..N -> Byte255]
         /\ Decoded(buf, p)[e] = 0
         /\ \A k \in 1..N : k < p \/ k > e => Decoded(buf, p)[k] = buf[k]
<1>1. PICK z \in p..e : Ends(buf, p, z)
  BY EndExists
<1> DEFINE d == decodeUriComponent(TextIn(buf, p))
<1>2. z \in 1..N
  OBVIOUS
<1>3. /\ d \in Seq(Byte255) /\ Len(d) \in Nat /\ p + Len(d) <= z
      /\ Decoded(buf, p) =
              [k \in 1..N |-> IF p <= k /\ k < p + Len(d) THEN d[k - p + 1]
                              ELSE IF k = p + Len(d) THEN 0 ELSE buf[k]]
  BY <1>1, <1>2, DecodedIs
<1> HIDE DEF d
<1>4. ASSUME NEW k \in 1..N
      PROVE  (IF p <= k /\ k < p + Len(d) THEN d[k - p + 1]
              ELSE IF k = p + Len(d) THEN 0 ELSE buf[k]) \in Byte255
  <2>1. CASE p <= k /\ k < p + Len(d)
    <3>1. k - p + 1 \in 1..Len(d)
      BY <1>3, <2>1
    <3>2. d[k - p + 1] \in Byte255
      BY <1>3, <3>1, ElementOfSeq
    <3> QED
      BY <2>1, <3>2
  <2>2. CASE ~(p <= k /\ k < p + Len(d))
    BY <2>2 DEF Byte255
  <2> QED
    BY <2>1, <2>2
<1>5. Decoded(buf, p) \in [1..N -> Byte255]
  BY <1>3, <1>4
<1>6. ASSUME NEW k \in 1..N, k < p \/ k > z
      PROVE  Decoded(buf, p)[k] = buf[k]
  BY <1>3, <1>6
<1>7. Decoded(buf, p)[e] = 0
  <2>1. CASE e = p + Len(d)
    BY <1>3, <2>1
  <2>2. CASE e # p + Len(d)
    <3>1. ~(e < p + Len(d)) /\ e \in 1..N
      BY <1>3
    <3> QED
      BY <1>3, <2>2, <3>1
  <2> QED
    BY <2>1, <2>2
<1> QED
  BY <1>5, <1>6, <1>7

(***************************************************************************)
(* What is sent                                                            *)
(***************************************************************************)
LEMMA PercentEncodedType ==
  ASSUME NEW text \in Seq(Byte255), NEW safe
  PROVE  PercentEncoded(text, safe) \in Seq(Byte255)
<1> DEFINE N == Len(text)
           Enc(k) == IF text[k] \in safe THEN <<text[k]>>
                     ELSE <<Percent, HexTab(text[k] \div 16), HexTab(text[k] % 16)>>
           f == [k \in 1..N |-> Enc(k)]
<1>1. N \in Nat /\ DOMAIN text = 1..N /\ \A k \in 1..N : text[k] \in Byte255
  BY LenProperties, ElementOfSeq
<1>2. ASSUME NEW k \in 1..N
      PROVE  Enc(k) \in Seq(Byte255)
  <2> DEFINE b == text[k]
  <2>1. b \in 0..255
    BY <1>1 DEF Byte255
  <2> HIDE DEF b
  <2>2. b \div 16 \in 0..15 /\ b % 16 \in 0..15
    BY <2>1
  <2>3. \A n \in 0..15 : HexTab(n) \in Byte255
    BY DEF HexTab, Byte255
  <2>4. HexTab(b \div 16) \in Byte255 /\ HexTab(b % 16) \in Byte255
    BY <2>2, <2>3
  <2>5. Percent \in Byte255 /\ b \in Byte255
    BY <2>1 DEF Percent, Byte255
  <2>6. <<b>> \in Seq(Byte255) /\ <<Percent, HexTab(b \div 16), HexTab(b % 16)>> \in Seq(Byte255)
    BY <2>4, <2>5
  <2> QED
    BY <2>6 DEF b
<1>3. f \in [1..N -> Seq(Byte255)]
  BY <1>2
<1>4. PercentEncoded(text, safe) = FlattenSeq(f)
  BY <1>1 DEF PercentEncoded
<1> HIDE DEF f
<1>5. f \in Seq(Seq(Byte255))
  BY <1>1, <1>3, FunctionIsSeq
<1> QED
  BY <1>4, <1>5, Flattened

LEMMA EscapedType ==
  ASSUME NEW text \in Seq(Byte255)
  PROVE  Escaped(text) \in Seq(Byte255)
BY PercentEncodedType DEF Escaped, JsEscape, JsEncodeURIComponent

LEMMA FormEncodedType ==
  ASSUME NEW text \in Seq(Byte255)
  PROVE  FormEncoded(text) \in Seq(Byte255)
<1> DEFINE t == PercentEncoded(text, (Letters \cup Digits \cup {42, 45, 46, 95}) \cup {Space})
<1>1. t \in Seq(Byte255)
  BY PercentEncodedType
<1>2. FormEncoded(text) = [k \in 1..Len(t) |-> IF t[k] = Space THEN Plus ELSE t[k]]
  BY DEF FormEncoded, ReplaceAll
<1> HIDE DEF t
<1>3. Len(t) \in Nat /\ \A k \in 1..Len(t) : t[k] \in Byte255
  BY <1>1, LenProperties, ElementOfSeq
<1>4. FormEncoded(text) \in [1..Len(t) -> Byte255]
  <2>1. Plus \in Byte255
    BY DEF Plus, Byte255
  <2> QED
    BY <1>2, <1>3, <2>1
<1> QED
  BY <1>3, <1>4, FunctionIsSeq

\* What a client keeps to in any case
LEMMA FormIs ==
  ASSUME NEW r, Readable(r)
  PROVE  /\ r.eol \in {<<NewLine>>, <<Return, NewLine>>}
         /\ r.method \in TextWithout(Eol)
         /\ r.file # <<>> => r.method \in TextWithout(Eol \cup {Space})
         /\ r.file \in TextWithout(Eol \cup {Space, Question})
         /\ r.version \in TextWithout(Eol)
         /\ r.params \in Lists /\ r.fields \in Lists /\ r.body \in Lists
<1>1. r.method \in TextWithout(IF r.file = <<>> THEN Eol ELSE Eol \cup {Space})
  BY DEF Readable
<1>2. r.method \in TextWithout(Eol)
  <2>1. (1..255) \ (Eol \cup {Space}) \subseteq (1..255) \ Eol
    OBVIOUS
  <2>2. TextWithout(Eol \cup {Space}) \subseteq TextWithout(Eol)
    BY <2>1, SeqMonotonic DEF TextWithout
  <2> QED
    BY <1>1, <2>2
<1>3. r.file # <<>> => r.method \in TextWithout(Eol \cup {Space})
  BY <1>1
<1>4. /\ r.eol \in {<<NewLine>>, <<Return, NewLine>>}
      /\ r.file \in TextWithout(Eol \cup {Space, Question}) /\ r.version \in TextWithout(Eol)
      /\ r.params \in Lists /\ r.fields \in Lists /\ r.body \in Lists
  BY DEF Readable
<1> QED
  BY <1>2, <1>3, <1>4, Zenon

LEMMA ByteTexts ==
  /\ Seq(1..255) \subseteq Seq(Byte255)
  /\ \A bytes : TextWithout(bytes) \subseteq Seq(Byte255)
<1>1. 1..255 \subseteq Byte255 /\ \A bytes : (1..255) \ bytes \subseteq Byte255
  BY DEF Byte255
<1>2. Seq(1..255) \subseteq Seq(Byte255)
  BY <1>1, SeqMonotonic
<1>3. ASSUME NEW bytes
      PROVE  TextWithout(bytes) \subseteq Seq(Byte255)
  <2> DEFINE T == (1..255) \ bytes
  <2>1. T \subseteq Byte255 /\ TextWithout(bytes) = Seq(T)
    BY <1>1 DEF TextWithout
  <2> HIDE DEF T
  <2> QED
    BY <2>1, SeqMonotonic
<1> QED
  BY <1>2, <1>3

LEMMA ParamsType ==
  ASSUME NEW list \in Lists
  PROVE  Pairs(list, And, Escaped) \in Seq(Byte255)
<1> DEFINE N == Len(list)
           P(k) == (IF k > 1 THEN <<And>> ELSE <<>>)
                   \o Escaped(list[k][1])
                   \o (IF Len(list[k]) = 2 THEN <<Equal>> \o Escaped(list[k][2]) ELSE <<>>)
           f == [k \in 1..N |-> P(k)]
<1>1. N \in Nat /\ DOMAIN list = 1..N /\ \A k \in 1..N : list[k] \in Seq(Seq(1..255)) /\ Len(list[k]) \in {1, 2}
  BY LenProperties, ElementOfSeq DEF Lists
<1>2. ASSUME NEW k \in 1..N
      PROVE  P(k) \in Seq(Byte255)
  <2>1. list[k][1] \in Seq(Byte255) /\ (Len(list[k]) = 2 => list[k][2] \in Seq(Byte255))
    BY <1>1, ByteTexts, ElementOfSeq
  <2>2. <<And>> \in Seq(Byte255) /\ <<Equal>> \in Seq(Byte255) /\ <<>> \in Seq(Byte255)
    BY EmptySeq DEF And, Equal, Byte255
  <2>3. Escaped(list[k][1]) \in Seq(Byte255)
        /\ (Len(list[k]) = 2 => Escaped(list[k][2]) \in Seq(Byte255))
    BY <2>1, EscapedType
  <2>4. (IF k > 1 THEN <<And>> ELSE <<>>) \o Escaped(list[k][1]) \in Seq(Byte255)
    BY <2>2, <2>3, ConcatProperties
  <2>5. (IF Len(list[k]) = 2 THEN <<Equal>> \o Escaped(list[k][2]) ELSE <<>>) \in Seq(Byte255)
    BY <2>2, <2>3, ConcatProperties
  <2> QED
    BY <2>4, <2>5, ConcatProperties
<1>3. f \in [1..N -> Seq(Byte255)]
  BY <1>2
<1>4. Pairs(list, And, Escaped) = FlattenSeq(f)
  BY <1>1 DEF Pairs
<1> HIDE DEF f
<1>5. f \in Seq(Seq(Byte255))
  BY <1>1, <1>3, FunctionIsSeq
<1> QED
  BY <1>4, <1>5, Flattened

LEMMA BodyType ==
  ASSUME NEW list \in Lists
  PROVE  Pairs(list, And, FormEncoded) \in Seq(Byte255)
<1> DEFINE N == Len(list)
           P(k) == (IF k > 1 THEN <<And>> ELSE <<>>)
                   \o FormEncoded(list[k][1])
                   \o (IF Len(list[k]) = 2 THEN <<Equal>> \o FormEncoded(list[k][2]) ELSE <<>>)
           f == [k \in 1..N |-> P(k)]
<1>1. N \in Nat /\ DOMAIN list = 1..N /\ \A k \in 1..N : list[k] \in Seq(Seq(1..255)) /\ Len(list[k]) \in {1, 2}
  BY LenProperties, ElementOfSeq DEF Lists
<1>2. ASSUME NEW k \in 1..N
      PROVE  P(k) \in Seq(Byte255)
  <2>1. list[k][1] \in Seq(Byte255) /\ (Len(list[k]) = 2 => list[k][2] \in Seq(Byte255))
    BY <1>1, ByteTexts, ElementOfSeq
  <2>2. <<And>> \in Seq(Byte255) /\ <<Equal>> \in Seq(Byte255) /\ <<>> \in Seq(Byte255)
    BY EmptySeq DEF And, Equal, Byte255
  <2>3. FormEncoded(list[k][1]) \in Seq(Byte255)
        /\ (Len(list[k]) = 2 => FormEncoded(list[k][2]) \in Seq(Byte255))
    BY <2>1, FormEncodedType
  <2>4. (IF k > 1 THEN <<And>> ELSE <<>>) \o FormEncoded(list[k][1]) \in Seq(Byte255)
    BY <2>2, <2>3, ConcatProperties
  <2>5. (IF Len(list[k]) = 2 THEN <<Equal>> \o FormEncoded(list[k][2]) ELSE <<>>) \in Seq(Byte255)
    BY <2>2, <2>3, ConcatProperties
  <2> QED
    BY <2>4, <2>5, ConcatProperties
<1>3. f \in [1..N -> Seq(Byte255)]
  BY <1>2
<1>4. Pairs(list, And, FormEncoded) = FlattenSeq(f)
  BY <1>1 DEF Pairs
<1> HIDE DEF f
<1>5. f \in Seq(Seq(Byte255))
  BY <1>1, <1>3, FunctionIsSeq
<1> QED
  BY <1>4, <1>5, Flattened

LEMMA FieldsType ==
  ASSUME NEW list \in Lists, NEW eol \in Seq(Byte255)
  PROVE  FlattenSeq([k \in DOMAIN list |->
            list[k][1] \o (IF Len(list[k]) = 2 THEN <<Colon>> \o list[k][2] ELSE <<>>) \o eol])
           \in Seq(Byte255)
<1> DEFINE N == Len(list)
           P(k) == list[k][1] \o (IF Len(list[k]) = 2 THEN <<Colon>> \o list[k][2] ELSE <<>>) \o eol
           f == [k \in 1..N |-> P(k)]
<1>1. N \in Nat /\ DOMAIN list = 1..N /\ \A k \in 1..N : list[k] \in Seq(Seq(1..255)) /\ Len(list[k]) \in {1, 2}
  BY LenProperties, ElementOfSeq DEF Lists
<1>2. ASSUME NEW k \in 1..N
      PROVE  P(k) \in Seq(Byte255)
  <2>1. list[k][1] \in Seq(Byte255) /\ (Len(list[k]) = 2 => list[k][2] \in Seq(Byte255))
    BY <1>1, ByteTexts, ElementOfSeq
  <2>2. <<Colon>> \in Seq(Byte255) /\ <<>> \in Seq(Byte255)
    BY EmptySeq DEF Colon, Byte255
  <2>3. (IF Len(list[k]) = 2 THEN <<Colon>> \o list[k][2] ELSE <<>>) \in Seq(Byte255)
    BY <2>1, <2>2, ConcatProperties
  <2>4. list[k][1] \o (IF Len(list[k]) = 2 THEN <<Colon>> \o list[k][2] ELSE <<>>) \in Seq(Byte255)
    BY <2>1, <2>3, ConcatProperties
  <2> QED
    BY <2>4, ConcatProperties
<1>3. f \in [1..N -> Seq(Byte255)]
  BY <1>2
<1>4. f \in Seq(Seq(Byte255))
  <2> HIDE DEF f
  <2> QED
    BY <1>1, <1>3, FunctionIsSeq
<1> QED
  BY <1>1, <1>4, Flattened

\* The wire is the method, a file behind a space, if any, and a rest that
\* starts with a byte that is not of a file.
Rest(r, rest) ==
  /\ rest \in Seq(Byte255) /\ rest # <<>> /\ rest[1] \in Eol \cup {Space, Question}
  /\ Wire(r) = r.method \o ((IF r.file = <<>> THEN <<>> ELSE <<Space>> \o r.file) \o rest)

LEMMA WireIs ==
  ASSUME NEW r, Readable(r)
  PROVE  Wire(r) \in Seq(Byte255) /\ \E rest : Rest(r, rest)
<1> DEFINE query   == IF r.params = <<>> THEN <<>>
                      ELSE <<Question>> \o Pairs(r.params, And, Escaped)
           version == IF r.version = <<>> THEN <<>> ELSE <<Space>> \o r.version
           lines == FlattenSeq([k \in DOMAIN r.fields |->
                r.fields[k][1] \o (IF Len(r.fields[k]) = 2 THEN <<Colon>> \o r.fields[k][2] ELSE <<>>) \o r.eol])
           tail == IF r.version = <<>> THEN <<>> ELSE lines \o r.eol
           space == IF r.file = <<>> THEN <<>> ELSE <<Space>>
           body == Pairs(r.body, And, FormEncoded)
           B == Seq(Byte255)
<1>1. <<>> \in B /\ <<Space>> \in B /\ <<Question>> \in B
  BY EmptySeq DEF Space, Question, Byte255
<1>2. r.method \in B /\ r.file \in B /\ r.version \in B
  BY ByteTexts, FormIs
<1>3. r.eol \in B /\ r.eol # <<>> /\ r.eol[1] \in Eol
  <2>1. <<NewLine>> \in B /\ <<Return, NewLine>> \in B
    BY DEF NewLine, Return, Byte255
  <2>2. <<NewLine>>[1] \in Eol /\ <<Return, NewLine>>[1] \in Eol
        /\ <<NewLine>> # <<>> /\ <<Return, NewLine>> # <<>>
    BY DEF Eol
  <2>3. r.eol \in {<<NewLine>>, <<Return, NewLine>>}
    BY FormIs
  <2>4. CASE r.eol = <<NewLine>>
    BY <2>1, <2>2, <2>4
  <2>5. CASE r.eol = <<Return, NewLine>>
    BY <2>1, <2>2, <2>5
  <2> QED
    BY <2>3, <2>4, <2>5
<1>4. query \in B
  BY <1>1, FormIs, ParamsType, ConcatProperties
<1>5. version \in B
  BY <1>1, <1>2, ConcatProperties
<1>6. lines \in B
  BY <1>3, FieldsType, FormIs
<1>7. tail \in B
  <2> HIDE DEF lines
  <2> QED
    BY <1>1, <1>3, <1>6, ConcatProperties
<1>8. space \in B
  BY <1>1
<1>9. body \in B
  BY BodyType, FormIs
<1>10. Wire(r) = r.method \o space \o r.file \o query \o version \o r.eol \o tail \o body
  BY DEF Wire, Header
<1> DEFINE rest == query \o (version \o (r.eol \o (tail \o body)))
<1>11. query # <<>> => query[1] = Question
  <2>1. ASSUME r.params # <<>>
        PROVE  query[1] = Question
    <3> DEFINE p == Pairs(r.params, And, Escaped)
    <3>1. p \in B
      BY FormIs, ParamsType
    <3> HIDE DEF p
    <3>2. (<<Question>> \o p)[1] = Question
      BY <1>1, <3>1, ConcatProperties
    <3> QED
      BY <2>1, <3>2 DEF p
  <2> QED
    BY <2>1
<1>12. version # <<>> => version[1] = Space
  <2>1. (<<Space>> \o r.version)[1] = Space
    BY <1>1, <1>2, ConcatProperties
  <2> QED
    BY <2>1
<1>13. space \o r.file = IF r.file = <<>> THEN <<>> ELSE <<Space>> \o r.file
  BY <1>1, ConcatEmptySeq
<1> HIDE DEF query, version, tail, space, body, B
<1>14. /\ tail \o body \in B /\ r.eol \o (tail \o body) \in B
       /\ version \o (r.eol \o (tail \o body)) \in B /\ rest \in B
  BY <1>3, <1>4, <1>5, <1>7, <1>9, ConcatProperties DEF B
<1>15. Wire(r) = r.method \o ((space \o r.file) \o rest)
  <2> DEFINE m == r.method
             w == r.file
             e == r.eol
  <2>1. /\ \A x, y \in B : x \o y \in B
        /\ \A x, y, z \in B : x \o y \o z = x \o (y \o z)
    BY ConcatProperties, ConcatAssociative DEF B
  <2>2. m \in B /\ w \in B /\ e \in B /\ space \in B /\ query \in B /\ version \in B
        /\ tail \in B /\ body \in B
    BY <1>2, <1>3, <1>4, <1>5, <1>7, <1>8, <1>9 DEF B
  <2>3. Wire(r) = m \o space \o w \o query \o version \o e \o tail \o body
    BY <1>10
  <2> HIDE DEF m, w, e
  <2> DEFINE a1 == m \o space
             a2 == a1 \o w
             a3 == a2 \o query
             a4 == a3 \o version
             a5 == a4 \o e
  <2>4. a1 \in B /\ a2 \in B /\ a3 \in B /\ a4 \in B /\ a5 \in B
    <3>1. a1 \in B
      BY <2>1, <2>2
    <3> HIDE DEF a1
    <3>2. a2 \in B
      BY <2>1, <2>2, <3>1
    <3> HIDE DEF a2
    <3>3. a3 \in B
      BY <2>1, <2>2, <3>2
    <3> HIDE DEF a3
    <3>4. a4 \in B
      BY <2>1, <2>2, <3>3
    <3> HIDE DEF a4
    <3> QED
      BY <2>1, <2>2, <3>1, <3>2, <3>3, <3>4
  <2>5. Wire(r) = a5 \o tail \o body
    BY <2>3
  <2> DEFINE b1 == tail \o body
             b2 == e \o b1
             b3 == version \o b2
  <2>6. b1 \in B /\ b2 \in B /\ b3 \in B
    BY <1>14 DEF e
  <2>7. a5 = a4 \o e /\ a4 = a3 \o version /\ a3 = a2 \o query /\ a2 = a1 \o w /\ a1 = m \o space
        /\ b2 = e \o b1 /\ b3 = version \o b2
    OBVIOUS
  <2>8. rest = query \o b3
    BY DEF e
  <2> HIDE DEF a1, a2, a3, a4, a5, b2, b3, rest
  <2>9. Wire(r) = a5 \o b1
    <3>1. a5 \in B /\ tail \in B /\ body \in B
      BY <2>2, <2>4
    <3>2. (a5 \o tail) \o body = a5 \o (tail \o body)
      BY <3>1, ConcatAssociative DEF B
    <3> QED
      BY <2>5, <3>2
  <2> HIDE DEF b1
  <2>10. a5 \o b1 = a4 \o b2
    <3>1. a4 \in B /\ e \in B /\ b1 \in B
      BY <2>2, <2>4, <2>6
    <3>2. (a4 \o e) \o b1 = a4 \o (e \o b1)
      BY <3>1, ConcatAssociative DEF B
    <3> QED
      BY <2>5, <2>7, <2>8, <3>2
  <2>11. a4 \o b2 = a3 \o b3
    <3>1. a3 \in B /\ version \in B /\ b2 \in B
      BY <2>2, <2>4, <2>6
    <3>2. (a3 \o version) \o b2 = a3 \o (version \o b2)
      BY <3>1, ConcatAssociative DEF B
    <3> QED
      BY <2>5, <2>7, <2>8, <3>2
  <2>12. a3 \o b3 = a2 \o rest
    <3>1. a2 \in B /\ query \in B /\ b3 \in B
      BY <2>2, <2>4, <2>6
    <3>2. (a2 \o query) \o b3 = a2 \o (query \o b3)
      BY <3>1, ConcatAssociative DEF B
    <3> QED
      BY <2>5, <2>7, <2>8, <3>2
  <2>13. a2 = m \o (space \o w)
    <3>1. m \in B /\ space \in B /\ w \in B
      BY <2>2
    <3>2. (m \o space) \o w = m \o (space \o w)
      BY <3>1, ConcatAssociative DEF B
    <3> QED
      BY <2>5, <2>7, <2>8, <3>2
  <2> DEFINE sw == space \o w
  <2>14. sw \in B /\ rest \in B /\ a2 = m \o sw
    BY <1>14, <2>1, <2>2, <2>13
  <2> HIDE DEF sw
  <2>15. a2 \o rest = m \o (sw \o rest)
    <3>1. m \in B /\ sw \in B /\ rest \in B
      BY <2>2, <2>14
    <3>2. (m \o sw) \o rest = m \o (sw \o rest)
      BY <3>1, ConcatAssociative DEF B
    <3> QED
      BY <2>14, <3>2
  <2> QED
    BY <2>9, <2>10, <2>11, <2>12, <2>15 DEF sw, m, w
<1>16. rest # <<>> /\ rest[1] \in Eol \cup {Space, Question}
  <2> DEFINE x == version \o (r.eol \o (tail \o body))
             y == r.eol \o (tail \o body)
  <2>1. y # <<>> /\ y[1] \in Eol
    <3>1. 1 \in 1..Len(r.eol) /\ Len(r.eol) \in Nat
      BY <1>3, EmptySeq, LenProperties DEF B
    <3>2. Len(tail \o body) \in Nat
      BY <1>14, LenProperties DEF B
    <3> DEFINE e == r.eol
               b == tail \o body
    <3>3. e \in Seq(Byte255) /\ b \in Seq(Byte255) /\ 1 \in 1..Len(e) /\ Len(e) \in Nat /\ Len(b) \in Nat
      BY <1>3, <1>14, <3>1, <3>2 DEF B
    <3> HIDE DEF e, b
    <3>4. Len(e \o b) = Len(e) + Len(b) /\ (e \o b)[1] = e[1]
      BY <3>3, ConcatProperties
    <3>5. y = e \o b /\ e[1] \in Eol
      BY <1>3 DEF e, b
    <3> HIDE DEF y
    <3>6. Len(y) # 0
      BY <3>3, <3>4, <3>5
    <3> QED
      BY <3>4, <3>5, <3>6, EmptySeq
  <2> HIDE DEF y
  <2>2. y \in B /\ x = version \o y /\ x \in B /\ rest = query \o x
    BY <1>14 DEF y
  <2> HIDE DEF x, rest
  <2>3. x # <<>> /\ x[1] \in Eol \cup {Space}
    <3>1. CASE version = <<>>
      BY <2>1, <2>2, <3>1, ConcatEmptySeq DEF B
    <3>2. CASE version # <<>>
      <4>1. Len(version) \in Nat \ {0} /\ Len(y) \in Nat
        BY <1>5, <2>2, <3>2, LenProperties, EmptySeq DEF B
      <4>2. Len(x) = Len(version) + Len(y) /\ x[1] = version[1]
        BY <1>5, <2>2, <4>1, ConcatProperties DEF B
      <4> QED
        BY <1>12, <3>2, <4>1, <4>2, EmptySeq
    <3> QED
      BY <3>1, <3>2
  <2>4. CASE query = <<>>
    BY <2>2, <2>3, <2>4, ConcatEmptySeq DEF B
  <2>5. CASE query # <<>>
    <3>1. Len(query) \in Nat \ {0} /\ Len(x) \in Nat
      BY <1>4, <2>2, <2>5, LenProperties, EmptySeq DEF B
    <3>2. Len(rest) = Len(query) + Len(x) /\ rest[1] = query[1]
      BY <1>4, <2>2, <3>1, ConcatProperties DEF B
    <3> QED
      BY <1>11, <2>5, <3>1, <3>2, EmptySeq
  <2> QED
    BY <2>4, <2>5
<1> HIDE DEF rest
<1>17. Wire(r) \in B
  <2>1. (space \o r.file) \o rest \in B
    BY <1>2, <1>8, <1>14, ConcatProperties DEF B
  <2> QED
    BY <1>2, <1>15, <2>1, ConcatProperties DEF B
<1>18. Rest(r, rest)
  BY <1>13, <1>14, <1>15, <1>16 DEF Rest, B
<1> QED
  BY <1>17, <1>18 DEF B

Sizes == /\ BufferSize \in Nat /\ Positions = 1..BufferSize + 1
         /\ length \in Nat /\ i \in Nat \ {0} /\ length <= BufferSize /\ i <= length + 1
         /\ i \in Positions

LEMMA SizesHold ==
  ASSUME TypeInv
  PROVE  Sizes
<1>1. BufferSize \in Nat
  BY ConstantsAssumption
<1>2. length \in 0..BufferSize /\ i \in 1..length + 1
  BY DEF TypeInv, TypeOK
<1> QED
  BY <1>1, <1>2 DEF Sizes, Positions

LEMMA BodyIsNat ==
  ASSUME TypeInv
  PROVE  Body \in Nat
<1> DEFINE found == FieldsNamed(ContentLength)
<1>1. CASE found = {}
  BY <1>1 DEF Body
<1>2. CASE found # {}
  <2>1. found \in SUBSET (1..Len(fields)) /\ Len(fields) \in Nat
    BY LenProperties DEF FieldsNamed, TypeInv, TypeOK
  <2> HIDE DEF found
  <2>2. found \in SUBSET Int /\ found # {} /\ 1 \in Int /\ \A y \in found : 1 <= y
    BY <1>2, <2>1
  <2>3. Min(found) \in 1..Len(fields)
    <3>1. Min(found) \in found
      BY <2>2, MinIsIn
    <3> QED
      BY <2>1, <3>1
  <2>4. fields[Min(found)] \in Positions \X (Positions \cup {NULL})
    BY <2>3, ElementOfSeq DEF TypeInv, TypeOK
  <2>5. fields[Min(found)][2] \in Nat
    BY <2>4, SizesHold DEF Sizes, NULL
  <2>6. buffer \in [1..BufferSize + 1 -> Byte255] /\ BufferSize + 1 \in Nat
    <3>1. buffer \in [Positions -> 0..255]
      BY DEF TypeInv, TypeOK
    <3> QED
      BY <3>1, SizesHold DEF Sizes, Byte255
  <2>7. Len(Text(fields[Min(found)][2])) \in Nat
    BY <2>5, <2>6, TextHasLength DEF Text
  <2>8. Number(Text(fields[Min(found)][2])) \in Nat
    BY <2>7, NumberType
  <2> QED
    BY <1>2, <2>8 DEF Body, found
<1> QED
  BY <1>1, <1>2

LEMMA EndHeaderType ==
  ASSUME TypeInv, EndHeader
  PROVE  /\ \/ phase' = "body" /\ state' = 0
            \/ phase' = "answer" /\ state' = state
         /\ responseSize' \in Nat /\ i' = i /\ syntaxError' = syntaxError
<1>1. Body \in Nat /\ responseSize \in Nat
  BY BodyIsNat DEF TypeInv, TypeOK
<1> QED
  BY <1>1 DEF EndHeader

\* A zero is written where the automaton is.
LEMMA TerminateType ==
  ASSUME TypeInv, Terminate
  PROVE  /\ buffer' \in [Positions -> 0..255] /\ buffer'[i] = 0
         /\ \A k \in Positions : k # i => buffer'[k] = buffer[k]
<1>1. buffer \in [Positions -> 0..255]
  BY DEF TypeInv, TypeOK
<1>2. i \in Positions /\ 0 \in 0..255
  BY SizesHold DEF Sizes
<1> QED
  BY <1>1, <1>2 DEF Terminate

LEMMA EndPairType ==
  ASSUME TypeInv, EndPair, phase = "body", state = 2
  PROVE  /\ buffer' \in [Positions -> 0..255]
         /\ \A k \in Positions : (k < lastName /\ k < lastValue) \/ k > i => buffer'[k] = buffer[k]
         /\ params' \in Seq(Positions \X (Positions \cup {NULL}))
<1> DEFINE N == BufferSize + 1
           b == [buffer EXCEPT ![i] = 0]
           c == Decoded(b, lastName)
<1>1. N \in Nat /\ Positions = 1..N /\ i \in 1..N
  BY SizesHold DEF Sizes
<1>2. lastName \in 1..N /\ i \in lastName..N /\ lastValue \in 1..N /\ i \in lastValue..N
  <2>1. {fileName, lastName, lastValue} \subseteq Positions \cup {NULL}
    BY DEF TypeInv, TypeOK
  <2>2. lastName <= i /\ lastValue <= i /\ lastName # NULL /\ lastValue # NULL
    BY DEF TypeInv, PointersSet
  <2>3. lastName \in Positions /\ lastValue \in Positions
    BY <2>1, <2>2
  <2> QED
    BY <1>1, <2>2, <2>3
<1>3. buffer \in [1..N -> Byte255]
  BY <1>1 DEF TypeInv, TypeOK, Byte255
<1>4. b \in [1..N -> Byte255] /\ b[i] = 0 /\ \A k \in 1..N : k # i => b[k] = buffer[k]
  BY <1>1, <1>3 DEF Byte255
<1> HIDE DEF b, N
<1>5. /\ c \in [1..N -> Byte255] /\ c[i] = 0
      /\ \A k \in 1..N : k < lastName \/ k > i => c[k] = b[k]
  BY <1>1, <1>2, <1>4, DecodedType
<1> HIDE DEF c
<1>6. /\ Decoded(c, lastValue) \in [1..N -> Byte255]
      /\ \A k \in 1..N : k < lastValue \/ k > i => Decoded(c, lastValue)[k] = c[k]
  BY <1>1, <1>2, <1>5, DecodedType
<1>7. buffer' = Decoded(c, lastValue) /\ params' = Append(params, <<lastName, lastValue>>)
  BY DEF EndPair, b, c
<1>8. buffer' \in [Positions -> 0..255]
  BY <1>1, <1>6, <1>7 DEF Byte255
<1>9. ASSUME NEW k \in Positions, (k < lastName /\ k < lastValue) \/ k > i
      PROVE  buffer'[k] = buffer[k]
  <2>1. k \in 1..N /\ k # i
    BY <1>1, <1>2, <1>9
  <2>2. buffer'[k] = c[k]
    BY <1>6, <1>7, <1>9, <2>1
  <2>3. c[k] = b[k]
    BY <1>5, <1>9, <2>1
  <2> QED
    BY <1>4, <2>1, <2>2, <2>3
<1>10. params' \in Seq(Positions \X (Positions \cup {NULL}))
  <2>1. <<lastName, lastValue>> \in Positions \X (Positions \cup {NULL})
    BY <1>1, <1>2
  <2>2. params \in Seq(Positions \X (Positions \cup {NULL}))
    BY DEF TypeInv, TypeOK
  <2> QED
    BY <1>7, <2>1, <2>2, AppendProperties
<1> QED
  BY <1>8, <1>9, <1>10

\* read() puts the next bytes of the request behind the others.
LEMMA ReceiveIs ==
  ASSUME TypeInv, Receive
  PROVE  \E n \in Nat \ {0} :
           /\ length' = length + n /\ length + n <= BufferSize /\ length + n <= Len(wire)
           /\ buffer' = [k \in Positions |-> IF length < k /\ k <= length + n THEN wire[k] ELSE buffer[k]]
           /\ buffer' \in [Positions -> 0..255]
<1> DEFINE M == Min({BufferSize, Len(wire)})
           W == Len(wire)
           N == BufferSize + 1
<1>1. Sizes /\ W \in Nat /\ wire \in Seq(Byte255) /\ length <= W /\ buffer \in [1..N -> Byte255] /\ N \in Nat
  <2>1. wire \in Seq(0..255) /\ buffer \in [Positions -> 0..255] /\ length <= Len(wire)
    BY DEF TypeInv, TypeOK
  <2>2. Sizes
    BY SizesHold
  <2> QED
    BY <2>1, <2>2, LenProperties DEF Sizes, Byte255
<1>2. M \in Nat /\ M <= BufferSize /\ M <= W
  <2> DEFINE S == {BufferSize, W}
  <2>1. S \in SUBSET Int /\ S # {} /\ 0 \in Int /\ \A y \in S : 0 <= y
    BY <1>1 DEF Sizes
  <2>2. Min(S) \in S /\ \A y \in S : Min(S) <= y
    <3> HIDE DEF S
    <3> QED
      BY <2>1, MinIsIn
  <2> QED
    BY <1>1, <2>2 DEF Sizes
<1>3. PICK n \in 1..M - length :
        /\ buffer' = SubSeq(buffer, 1, length) \o SubSeq(wire, length + 1, length + n)
                     \o SubSeq(buffer, length + n + 1, Len(buffer))
        /\ length' = length + n
  BY DEF Receive
<1> HIDE DEF M
<1>4. n \in Nat \ {0} /\ length + n <= BufferSize /\ length + n <= W /\ length \in Nat
  BY <1>1, <1>2 DEF Sizes
<1> DEFINE t == SubSeq(wire, length + 1, length + n)
<1>5. /\ t \in Seq(Byte255) /\ Len(t) = n /\ \A k \in 1..n : t[k] = wire[length + k]
  <2>1. 1 + (length + n) - (length + 1) = n
    BY <1>4
  <2>2. t = [k \in 1..n |-> wire[(length + 1) + k - 1]]
    BY <1>4, <2>1 DEF SubSeq
  <2>3. \A k \in 1..n : (length + 1) + k - 1 = length + k /\ length + k \in 1..W
    BY <1>1, <1>4
  <2>4. t = [k \in 1..n |-> wire[length + k]]
    BY <2>2, <2>3
  <2>5. \A k \in 1..n : wire[length + k] \in Byte255
    BY <1>1, <2>3, ElementOfSeq
  <2> HIDE DEF t
  <2>6. t \in [1..n -> Byte255]
    BY <2>4, <2>5
  <2> QED
    BY <1>4, <2>4, <2>6, FunctionIsSeq
<1>6. buffer' = Spliced(buffer, N, length, t)
  <2> HIDE DEF t
  <2>1. length \in 0..N /\ length + Len(t) <= N /\ Len(t) = n
    BY <1>1, <1>4, <1>5 DEF Sizes
  <2>2. buffer' = SubSeq(buffer, 1, length) \o t \o SubSeq(buffer, length + Len(t) + 1, Len(buffer))
    BY <1>3, <2>1 DEF t
  <2> HIDE DEF N
  <2> QED
    BY <1>1, <1>5, <2>1, <2>2, Splice
<1> HIDE DEF t
<1>7. ASSUME NEW k \in 1..N
      PROVE  (IF length < k /\ k <= length + Len(t) THEN t[k - length] ELSE buffer[k])
               = (IF length < k /\ k <= length + n THEN wire[k] ELSE buffer[k])
  <2>1. CASE length < k /\ k <= length + n
    <3>1. k - length \in 1..n /\ length + (k - length) = k
      BY <1>4, <2>1
    <3> QED
      BY <1>5, <2>1, <3>1
  <2>2. CASE ~(length < k /\ k <= length + n)
    BY <1>5, <2>2
  <2> QED
    BY <2>1, <2>2
<1>8. buffer' = [k \in Positions |-> IF length < k /\ k <= length + n THEN wire[k] ELSE buffer[k]]
  BY <1>1, <1>6, <1>7 DEF Spliced, Sizes
<1>9. ASSUME NEW k \in Positions
      PROVE  (IF length < k /\ k <= length + n THEN wire[k] ELSE buffer[k]) \in 0..255
  <2>1. CASE length < k /\ k <= length + n
    <3>1. k \in 1..W
      BY <1>1, <1>4, <2>1 DEF Sizes
    <3> QED
      BY <1>1, <2>1, <3>1, ElementOfSeq DEF Byte255
  <2>2. CASE ~(length < k /\ k <= length + n)
    BY <1>1, <2>2 DEF Sizes, Byte255
  <2> QED
    BY <2>1, <2>2
<1> QED
  BY <1>3, <1>4, <1>8, <1>9

Outcomes == {"none", "dropped", "bad request", "new session", "dispatched"}
PairLists == Seq(Positions \X (Positions \cup {NULL}))

\* A step of the automaton keeps the types: the bytes are read one by one, and

\* a pointer is left alone or set to where the automaton is.
LEMMA StepKeepsTypes ==
  ASSUME TypeInv, UNCHANGED <<client, length>>,
         buffer' \in [Positions -> 0..255],
         phase' \in {"header", "body", "answer", "done"}, state' \in 0..12,
         i' = i \/ i' = i + 1, i' = i \/ i <= length,
         syntaxError' \in BOOLEAN,
         fileName' \in {fileName, i, i'}, lastName' \in {lastName, i, i'},
         lastValue' \in {lastValue, i, i'},
         params' \in PairLists, fields' \in PairLists,
         responseSize' \in Nat, outcome' \in Outcomes, PointersSet'
  PROVE  TypeInv'
<1>1. Sizes
  BY SizesHold
<1>2. i' \in Positions /\ i' \in 1..length + 1 /\ i <= i' /\ i' \in Int
  BY <1>1 DEF Sizes
<1>3. /\ {fileName, lastName, lastValue} \subseteq Positions \cup {NULL}
      /\ fileName <= i /\ lastName <= i /\ lastValue <= i
      /\ request \in Requests /\ wire \in Seq(0..255) /\ length \in 0..BufferSize
      /\ wire = Wire(request) /\ length <= Len(wire)
  BY DEF TypeInv, TypeOK
<1>4. fileName \in Int /\ lastName \in Int /\ lastValue \in Int
  BY <1>1, <1>3 DEF Sizes, NULL
<1>5. /\ fileName' \in Positions \cup {NULL} /\ lastName' \in Positions \cup {NULL}
      /\ lastValue' \in Positions \cup {NULL}
  BY <1>1, <1>2, <1>3 DEF Sizes
<1>6. fileName' <= i' /\ lastName' <= i' /\ lastValue' <= i'
  BY <1>1, <1>2, <1>3, <1>4 DEF Sizes
<1>7. request' = request /\ wire' = wire /\ length' = length
  BY DEF client
<1>8. TypeOK'
  <2>1. request' \in Requests /\ wire' \in Seq(0..255)
    BY <1>3, <1>7
  <2>2. length' \in 0..BufferSize /\ i' \in 1..length' + 1
    BY <1>2, <1>3, <1>7
  <2>3. {fileName', lastName', lastValue'} \subseteq Positions \cup {NULL}
    BY <1>5
  <2> QED
    BY <2>1, <2>2, <2>3 DEF TypeOK, PairLists, Outcomes
<1>9. wire' = Wire(request') /\ length' <= Len(wire')
  BY <1>3, <1>7
<1> QED
  BY <1>6, <1>8, <1>9 DEF TypeInv

\* A pair that the automaton keeps
LEMMA KeptPair ==
  ASSUME TypeInv, NEW list \in PairLists, lastName # NULL,
         NEW v, v = NULL \/ v = lastValue
  PROVE  Append(list, <<lastName, v>>) \in PairLists
<1>1. lastName \in Positions /\ lastValue \in Positions \cup {NULL}
  BY DEF TypeInv, TypeOK
<1>2. <<lastName, v>> \in Positions \X (Positions \cup {NULL})
  BY <1>1
<1> QED
  BY <1>2, AppendProperties DEF PairLists

\* What the steps of the automaton have in common
LEMMA Types ==
  ASSUME TypeInv
  PROVE  /\ buffer \in [Positions -> 0..255]
         /\ phase \in {"header", "body", "answer", "done"} /\ state \in 0..12
         /\ syntaxError \in BOOLEAN /\ params \in PairLists /\ fields \in PairLists
         /\ responseSize \in Nat /\ outcome \in Outcomes
BY DEF TypeInv, TypeOK, PairLists, Outcomes

LEMMA HeaderKeepsTypes ==
  ASSUME TypeInv,
         \/ ReadMethod \/ SkipSpace \/ ReadFileName \/ ReadParamName \/ ReadParamValue
         \/ ReadVersion \/ SkipEol \/ ReadFieldStart \/ ReadFieldName \/ ReadFieldValue
  PROVE  TypeInv'
<1>1. Sizes /\ PointersSet
  BY SizesHold DEF TypeInv
<1>2. Terminate => buffer' \in [Positions -> 0..255]
  BY TerminateType
<1>3. EndHeader => /\ \/ phase' = "body" /\ state' = 0
                      \/ phase' = "answer" /\ state' = state
                   /\ responseSize' \in Nat /\ i' = i /\ syntaxError' = syntaxError
  BY EndHeaderType
<1>4. \A next :
        Go(next) => state' = next /\ i' = i + 1 /\ phase' = phase
                    /\ responseSize' = responseSize /\ syntaxError' = syntaxError
  BY DEF Go
<1>5. Fail => syntaxError' = TRUE /\ phase' = "answer" /\ state' = state /\ i' = i
              /\ responseSize' = responseSize
  BY DEF Fail
<1>6. /\ buffer \in [Positions -> 0..255]
      /\ phase \in {"header", "body", "answer", "done"} /\ state \in 0..12
      /\ syntaxError \in BOOLEAN /\ params \in PairLists /\ fields \in PairLists
      /\ responseSize \in Nat /\ outcome \in Outcomes
  BY Types
<1>7. i # NULL /\ i + 1 # NULL
  BY <1>1 DEF Sizes, NULL
<1>a. ASSUME ReadMethod PROVE TypeInv'
  <2>1. phase = "header" /\ i <= length /\ state = 0
    BY <1>a DEF ReadMethod, At
  <2>2. UNCHANGED <<client, length, pointers, lists, outcome>>
    BY <1>a DEF ReadMethod
  <2>3. \/ Terminate /\ Go(1)
        \/ Fail /\ UNCHANGED buffer
        \/ Go(0) /\ UNCHANGED buffer
    BY <1>a DEF ReadMethod
  <2>4. PointersSet'
    BY <1>1, <1>4, <1>5, <2>1, <2>2, <2>3 DEF PointersSet, pointers
  <2>5. /\ buffer' \in [Positions -> 0..255]
        /\ phase' \in {"header", "answer"}
        /\ state' \in 0..12
        /\ (i' = i \/ i' = i + 1)
        /\ syntaxError' \in BOOLEAN
        /\ responseSize' \in Nat
    <3>1. buffer' \in [Positions -> 0..255]
      BY <1>2, <1>4, <1>5, <1>6, <2>1, <2>3
    <3>2. phase' \in {"header", "answer"}
      BY <1>2, <1>4, <1>5, <1>6, <2>1, <2>3
    <3>3. state' \in 0..12
      BY <1>2, <1>4, <1>5, <1>6, <2>1, <2>3
    <3>4. i' = i \/ i' = i + 1
      BY <1>2, <1>4, <1>5, <1>6, <2>1, <2>3
    <3>5. syntaxError' \in BOOLEAN
      BY <1>2, <1>4, <1>5, <1>6, <2>1, <2>3
    <3>6. responseSize' \in Nat
      BY <1>2, <1>4, <1>5, <1>6, <2>1, <2>3
    <3> QED
      BY <3>1, <3>2, <3>3, <3>4, <3>5, <3>6
  <2> QED
    BY <1>6, <2>1, <2>2, <2>4, <2>5, StepKeepsTypes DEF pointers, lists
<1>b. ASSUME SkipSpace PROVE TypeInv'
  <2>1. phase = "header" /\ i <= length /\ state = 1
    BY <1>b DEF SkipSpace, At
  <2>2. UNCHANGED <<client, buffer, length, lastName, lastValue, lists, outcome>>
    BY <1>b DEF SkipSpace
  <2>3. \/ Go(1) /\ UNCHANGED fileName
        \/ Fail /\ UNCHANGED fileName
        \/ Go(2) /\ fileName' = i
    BY <1>b DEF SkipSpace
  <2>4. PointersSet'
    BY <1>1, <1>4, <1>5, <2>1, <2>2, <2>3 DEF PointersSet
  <2>5. /\ phase' \in {"header", "answer"}
        /\ state' \in 0..12
        /\ fileName' \in {fileName, i}
        /\ (i' = i \/ i' = i + 1)
        /\ syntaxError' \in BOOLEAN
        /\ responseSize' \in Nat
    <3>1. phase' \in {"header", "answer"}
      BY <1>4, <1>5, <1>6, <2>1, <2>3
    <3>2. state' \in 0..12
      BY <1>4, <1>5, <1>6, <2>1, <2>3
    <3>3. fileName' \in {fileName, i}
      BY <1>4, <1>5, <1>6, <2>1, <2>3
    <3>4. i' = i \/ i' = i + 1
      BY <1>4, <1>5, <1>6, <2>1, <2>3
    <3>5. syntaxError' \in BOOLEAN
      BY <1>4, <1>5, <1>6, <2>1, <2>3
    <3>6. responseSize' \in Nat
      BY <1>4, <1>5, <1>6, <2>1, <2>3
    <3> QED
      BY <3>1, <3>2, <3>3, <3>4, <3>5, <3>6
  <2> QED
    BY <1>6, <2>1, <2>2, <2>4, <2>5, StepKeepsTypes DEF lists
<1>c. ASSUME ReadFileName PROVE TypeInv'
  <2>1. phase = "header" /\ i <= length /\ state \in {2, 11, 12}
    BY <1>c DEF ReadFileName, At
  <2>2. UNCHANGED <<client, length, fileName, lastValue, lists, outcome>>
    BY <1>c DEF ReadFileName
  <2>3. \/ Terminate /\ Go(3) /\ lastName' = i + 1
        \/ Terminate /\ Go(5) /\ UNCHANGED lastName
        \/ Terminate /\ EndHeader /\ UNCHANGED lastName
        \/ Go(AfterDot) /\ UNCHANGED <<buffer, lastName>>
        \/ Fail /\ UNCHANGED <<buffer, lastName>>
        \/ Go(2) /\ UNCHANGED <<buffer, lastName>>
    BY <1>c DEF ReadFileName
  <2>4. AfterDot \in {11, 12}
    BY DEF AfterDot
  <2>5. PointersSet'
    BY <1>1, <1>3, <1>4, <1>5, <1>7, <2>1, <2>2, <2>3, <2>4 DEF PointersSet
  <2>6. /\ buffer' \in [Positions -> 0..255]
        /\ phase' \in {"header", "body", "answer"}
        /\ state' \in 0..12
        /\ (i' = i \/ i' = i + 1)
        /\ syntaxError' \in BOOLEAN
        /\ responseSize' \in Nat
        /\ lastName' \in {lastName, i'}
    <3>1. buffer' \in [Positions -> 0..255]
      BY <1>2, <1>3, <1>4, <1>5, <1>6, <2>1, <2>3, <2>4
    <3>2. phase' \in {"header", "body", "answer"}
      BY <1>2, <1>3, <1>4, <1>5, <1>6, <2>1, <2>3, <2>4
    <3>3. state' \in 0..12
      BY <1>2, <1>3, <1>4, <1>5, <1>6, <2>1, <2>3, <2>4
    <3>4. i' = i \/ i' = i + 1
      BY <1>2, <1>3, <1>4, <1>5, <1>6, <2>1, <2>3, <2>4
    <3>5. syntaxError' \in BOOLEAN
      BY <1>2, <1>3, <1>4, <1>5, <1>6, <2>1, <2>3, <2>4
    <3>6. responseSize' \in Nat
      BY <1>2, <1>3, <1>4, <1>5, <1>6, <2>1, <2>3, <2>4
    <3>7. lastName' \in {lastName, i'}
      BY <1>2, <1>3, <1>4, <1>5, <1>6, <2>1, <2>3, <2>4
    <3> QED
      BY <3>1, <3>2, <3>3, <3>4, <3>5, <3>6, <3>7
  <2> QED
    BY <1>6, <2>1, <2>2, <2>5, <2>6, StepKeepsTypes DEF lists
<1>d. ASSUME ReadParamName PROVE TypeInv'
  <2>1. phase = "header" /\ i <= length /\ state = 3 /\ lastName # NULL
    BY <1>1, <1>d DEF ReadParamName, At, PointersSet
  <2>2. UNCHANGED <<client, length, fileName, lastName, fields, outcome>>
    BY <1>d DEF ReadParamName
  <2>3. \/ Terminate /\ Go(4) /\ lastValue' = i + 1 /\ UNCHANGED params
        \/ /\ Terminate /\ EndHeader
           /\ params' = Append(params, <<lastName, NULL>>) /\ UNCHANGED lastValue
        \/ Go(3) /\ UNCHANGED <<buffer, lastValue, params>>
    BY <1>d DEF ReadParamName
  <2>4. PointersSet'
    BY <1>1, <1>3, <1>4, <1>7, <2>1, <2>2, <2>3 DEF PointersSet
  <2>5. /\ buffer' \in [Positions -> 0..255]
        /\ phase' \in {"header", "body", "answer"}
        /\ state' \in 0..12
        /\ (i' = i \/ i' = i + 1)
        /\ syntaxError' \in BOOLEAN
        /\ responseSize' \in Nat
        /\ lastValue' \in {lastValue, i'}
    <3>1. buffer' \in [Positions -> 0..255]
      BY <1>2, <1>3, <1>4, <1>6, <2>1, <2>3
    <3>2. phase' \in {"header", "body", "answer"}
      BY <1>2, <1>3, <1>4, <1>6, <2>1, <2>3
    <3>3. state' \in 0..12
      BY <1>2, <1>3, <1>4, <1>6, <2>1, <2>3
    <3>4. i' = i \/ i' = i + 1
      BY <1>2, <1>3, <1>4, <1>6, <2>1, <2>3
    <3>5. syntaxError' \in BOOLEAN
      BY <1>2, <1>3, <1>4, <1>6, <2>1, <2>3
    <3>6. responseSize' \in Nat
      BY <1>2, <1>3, <1>4, <1>6, <2>1, <2>3
    <3>7. lastValue' \in {lastValue, i'}
      BY <1>2, <1>3, <1>4, <1>6, <2>1, <2>3
    <3> QED
      BY <3>1, <3>2, <3>3, <3>4, <3>5, <3>6, <3>7
  <2>6. params' \in PairLists
    BY <1>6, <2>1, <2>3, KeptPair
  <2> QED
    BY <1>6, <2>1, <2>2, <2>4, <2>5, <2>6, StepKeepsTypes
<1>e. ASSUME ReadParamValue PROVE TypeInv'
  <2>1. phase = "header" /\ i <= length /\ state = 4 /\ lastName # NULL /\ lastValue # NULL
    BY <1>1, <1>e DEF ReadParamValue, At, PointersSet
  <2>2. UNCHANGED <<client, length, fileName, lastValue, fields, outcome>>
    BY <1>e DEF ReadParamValue
  <2>3. \/ /\ Terminate /\ params' = Append(params, <<lastName, lastValue>>)
           /\ \/ Go(3) /\ lastName' = i + 1
              \/ Go(5) /\ UNCHANGED lastName
              \/ EndHeader /\ UNCHANGED lastName
        \/ Go(4) /\ UNCHANGED <<buffer, lastName, params>>
    BY <1>e DEF ReadParamValue
  <2>4. PointersSet'
    BY <1>1, <1>3, <1>4, <1>7, <2>1, <2>2, <2>3 DEF PointersSet
  <2>5. /\ buffer' \in [Positions -> 0..255]
        /\ phase' \in {"header", "body", "answer"}
        /\ state' \in 0..12
        /\ (i' = i \/ i' = i + 1)
        /\ syntaxError' \in BOOLEAN
        /\ responseSize' \in Nat
        /\ lastName' \in {lastName, i'}
    <3>1. buffer' \in [Positions -> 0..255]
      BY <1>2, <1>3, <1>4, <1>6, <2>1, <2>3
    <3>2. phase' \in {"header", "body", "answer"}
      BY <1>2, <1>3, <1>4, <1>6, <2>1, <2>3
    <3>3. state' \in 0..12
      BY <1>2, <1>3, <1>4, <1>6, <2>1, <2>3
    <3>4. i' = i \/ i' = i + 1
      BY <1>2, <1>3, <1>4, <1>6, <2>1, <2>3
    <3>5. syntaxError' \in BOOLEAN
      BY <1>2, <1>3, <1>4, <1>6, <2>1, <2>3
    <3>6. responseSize' \in Nat
      BY <1>2, <1>3, <1>4, <1>6, <2>1, <2>3
    <3>7. lastName' \in {lastName, i'}
      BY <1>2, <1>3, <1>4, <1>6, <2>1, <2>3
    <3> QED
      BY <3>1, <3>2, <3>3, <3>4, <3>5, <3>6, <3>7
  <2>6. params' \in PairLists
    BY <1>6, <2>1, <2>3, KeptPair
  <2> QED
    BY <1>6, <2>1, <2>2, <2>4, <2>5, <2>6, StepKeepsTypes
<1>f. ASSUME ReadVersion PROVE TypeInv'
  <2>1. phase = "header" /\ i <= length /\ state = 5
    BY <1>f DEF ReadVersion, At
  <2>2. UNCHANGED <<client, buffer, length, pointers, lists, outcome>>
    BY <1>f DEF ReadVersion
  <2>3. Go(5) \/ Go(6) \/ Go(7)
    BY <1>f DEF ReadVersion
  <2>4. PointersSet'
    BY <1>1, <1>4, <2>1, <2>2, <2>3 DEF PointersSet, pointers
  <2>5. /\ phase' = "header"
        /\ state' \in 0..12
        /\ (i' = i \/ i' = i + 1)
        /\ syntaxError' \in BOOLEAN
        /\ responseSize' \in Nat
    <3>1. phase' = "header"
      BY <1>4, <1>6, <2>1, <2>3
    <3>2. state' \in 0..12
      BY <1>4, <1>6, <2>1, <2>3
    <3>3. i' = i \/ i' = i + 1
      BY <1>4, <1>6, <2>1, <2>3
    <3>4. syntaxError' \in BOOLEAN
      BY <1>4, <1>6, <2>1, <2>3
    <3>5. responseSize' \in Nat
      BY <1>4, <1>6, <2>1, <2>3
    <3> QED
      BY <3>1, <3>2, <3>3, <3>4, <3>5
  <2> QED
    BY <1>6, <2>1, <2>2, <2>4, <2>5, StepKeepsTypes DEF pointers, lists
<1>g. ASSUME SkipEol PROVE TypeInv'
  <2>1. phase = "header" /\ i <= length /\ state \in {6, 7}
    BY <1>g DEF SkipEol, At
  <2>2. UNCHANGED <<client, buffer, length, phase, syntaxError, fileName, lastValue, lists, responseSize, outcome>>
    BY <1>g DEF SkipEol
  <2>3. (i' = i \/ i' = i + 1) /\ lastName' = i' /\ state' = 8
    BY <1>g DEF SkipEol
  <2>4. i' # NULL
    BY <1>7, <2>3
  <2>5. PointersSet'
    BY <2>1, <2>2, <2>3, <2>4 DEF PointersSet
  <2> QED
    BY <1>6, <2>1, <2>2, <2>3, <2>4, <2>5, StepKeepsTypes DEF lists
<1>h. ASSUME ReadFieldStart PROVE TypeInv'
  <2>1. phase = "header" /\ i <= length /\ state = 8
    BY <1>h DEF ReadFieldStart, At
  <2>2. UNCHANGED <<client, buffer, length, pointers, lists, outcome>>
    BY <1>h DEF ReadFieldStart
  <2>3. EndHeader \/ Go(9)
    BY <1>h DEF ReadFieldStart
  <2>4. PointersSet'
    BY <1>1, <1>3, <1>4, <2>1, <2>2, <2>3 DEF PointersSet, pointers
  <2>5. /\ phase' \in {"header", "body", "answer"}
        /\ state' \in 0..12
        /\ (i' = i \/ i' = i + 1)
        /\ syntaxError' \in BOOLEAN
        /\ responseSize' \in Nat
    <3>1. phase' \in {"header", "body", "answer"}
      BY <1>3, <1>4, <1>6, <2>1, <2>3
    <3>2. state' \in 0..12
      BY <1>3, <1>4, <1>6, <2>1, <2>3
    <3>3. i' = i \/ i' = i + 1
      BY <1>3, <1>4, <1>6, <2>1, <2>3
    <3>4. syntaxError' \in BOOLEAN
      BY <1>3, <1>4, <1>6, <2>1, <2>3
    <3>5. responseSize' \in Nat
      BY <1>3, <1>4, <1>6, <2>1, <2>3
    <3> QED
      BY <3>1, <3>2, <3>3, <3>4, <3>5
  <2> QED
    BY <1>6, <2>1, <2>2, <2>4, <2>5, StepKeepsTypes DEF pointers, lists
<1>i. ASSUME ReadFieldName PROVE TypeInv'
  <2>1. phase = "header" /\ i <= length /\ state = 9 /\ lastName # NULL
    BY <1>1, <1>i DEF ReadFieldName, At, PointersSet
  <2>2. UNCHANGED <<client, length, fileName, lastName, params, outcome>>
    BY <1>i DEF ReadFieldName
  <2>3. \/ Terminate /\ Go(10) /\ lastValue' = i + 1 /\ UNCHANGED fields
        \/ /\ Terminate /\ (Go(6) \/ Go(7))
           /\ fields' = Append(fields, <<lastName, NULL>>) /\ UNCHANGED lastValue
        \/ Go(9) /\ UNCHANGED <<buffer, lastValue, fields>>
    BY <1>i DEF ReadFieldName
  <2>4. PointersSet'
    BY <1>1, <1>4, <1>7, <2>1, <2>2, <2>3 DEF PointersSet
  <2>5. /\ buffer' \in [Positions -> 0..255]
        /\ phase' = "header"
        /\ state' \in 0..12
        /\ (i' = i \/ i' = i + 1)
        /\ syntaxError' \in BOOLEAN
        /\ responseSize' \in Nat
        /\ lastValue' \in {lastValue, i'}
    <3>1. buffer' \in [Positions -> 0..255]
      BY <1>2, <1>4, <1>6, <2>1, <2>3
    <3>2. phase' = "header"
      BY <1>2, <1>4, <1>6, <2>1, <2>3
    <3>3. state' \in 0..12
      BY <1>2, <1>4, <1>6, <2>1, <2>3
    <3>4. i' = i \/ i' = i + 1
      BY <1>2, <1>4, <1>6, <2>1, <2>3
    <3>5. syntaxError' \in BOOLEAN
      BY <1>2, <1>4, <1>6, <2>1, <2>3
    <3>6. responseSize' \in Nat
      BY <1>2, <1>4, <1>6, <2>1, <2>3
    <3>7. lastValue' \in {lastValue, i'}
      BY <1>2, <1>4, <1>6, <2>1, <2>3
    <3> QED
      BY <3>1, <3>2, <3>3, <3>4, <3>5, <3>6, <3>7
  <2>6. fields' \in PairLists
    BY <1>6, <2>1, <2>3, KeptPair
  <2> QED
    BY <1>6, <2>1, <2>2, <2>4, <2>5, <2>6, StepKeepsTypes
<1>j. ASSUME ReadFieldValue PROVE TypeInv'
  <2>1. phase = "header" /\ i <= length /\ state = 10 /\ lastName # NULL
    BY <1>1, <1>j DEF ReadFieldValue, At, PointersSet
  <2>2. UNCHANGED <<client, length, pointers, params, outcome>>
    BY <1>j DEF ReadFieldValue
  <2>3. \/ /\ Terminate /\ (Go(6) \/ Go(7))
           /\ fields' = Append(fields, <<lastName, lastValue>>)
        \/ Go(10) /\ UNCHANGED <<buffer, fields>>
    BY <1>j DEF ReadFieldValue
  <2>4. PointersSet'
    BY <1>1, <1>4, <2>1, <2>2, <2>3 DEF PointersSet, pointers
  <2>5. /\ buffer' \in [Positions -> 0..255]
        /\ phase' = "header"
        /\ state' \in 0..12
        /\ (i' = i \/ i' = i + 1)
        /\ syntaxError' \in BOOLEAN
        /\ responseSize' \in Nat
    <3>1. buffer' \in [Positions -> 0..255]
      BY <1>2, <1>4, <1>6, <2>1, <2>3
    <3>2. phase' = "header"
      BY <1>2, <1>4, <1>6, <2>1, <2>3
    <3>3. state' \in 0..12
      BY <1>2, <1>4, <1>6, <2>1, <2>3
    <3>4. i' = i \/ i' = i + 1
      BY <1>2, <1>4, <1>6, <2>1, <2>3
    <3>5. syntaxError' \in BOOLEAN
      BY <1>2, <1>4, <1>6, <2>1, <2>3
    <3>6. responseSize' \in Nat
      BY <1>2, <1>4, <1>6, <2>1, <2>3
    <3> QED
      BY <3>1, <3>2, <3>3, <3>4, <3>5, <3>6
  <2>6. fields' \in PairLists
    BY <1>6, <2>1, <2>3, KeptPair
  <2> QED
    BY <1>6, <2>1, <2>2, <2>4, <2>5, <2>6, StepKeepsTypes DEF pointers
<1> QED
  BY <1>a, <1>b, <1>c, <1>d, <1>e, <1>f, <1>g, <1>h, <1>i, <1>j

LEMMA BodyKeepsTypes ==
  ASSUME TypeInv, SkipBeforeBody \/ ReadBodyName \/ ReadBodyValue \/ EndBody
  PROVE  TypeInv'
<1>1. Sizes /\ PointersSet
  BY SizesHold DEF TypeInv
<1>2. Terminate => buffer' \in [Positions -> 0..255]
  BY TerminateType
<1>3. phase = "body" /\ state = 2 /\ EndPair =>
        buffer' \in [Positions -> 0..255] /\ params' \in PairLists
  BY EndPairType DEF PairLists
<1>4. /\ buffer \in [Positions -> 0..255]
      /\ phase \in {"header", "body", "answer", "done"} /\ state \in 0..12
      /\ syntaxError \in BOOLEAN /\ params \in PairLists /\ fields \in PairLists
      /\ responseSize \in Nat /\ outcome \in Outcomes
  BY Types
<1>5. responseSize # 0 => responseSize - 1 \in Nat
  BY <1>4
<1>6. i # NULL /\ i + 1 # NULL
  BY <1>1 DEF Sizes, NULL
<1>a. ASSUME SkipBeforeBody PROVE TypeInv'
  <2>1. phase = "body" /\ i <= length /\ responseSize # 0 /\ state = 0 /\ i' = i + 1
    BY <1>a DEF SkipBeforeBody, InBody
  <2>2. UNCHANGED <<client, buffer, length, phase, syntaxError, fileName, lastValue, lists, outcome>>
    BY <1>a DEF SkipBeforeBody
  <2>3. \/ UNCHANGED <<lastName, responseSize, state>>
        \/ lastName' = i /\ responseSize' = responseSize - 1 /\ state' = 1
    BY <1>a DEF SkipBeforeBody
  <2>4. PointersSet'
    BY <1>1, <1>6, <2>1, <2>2, <2>3 DEF PointersSet
  <2>5. responseSize' \in Nat /\ lastName' \in {lastName, i} /\ state' \in 0..12
    BY <1>4, <1>5, <2>1, <2>3
  <2> QED
    BY <1>4, <2>1, <2>2, <2>4, <2>5, StepKeepsTypes DEF lists
<1>b. ASSUME ReadBodyName PROVE TypeInv'
  <2>1. /\ phase = "body" /\ i <= length /\ responseSize # 0 /\ state = 1 /\ i' = i + 1
        /\ responseSize' = responseSize - 1
    BY <1>b DEF ReadBodyName, InBody
  <2>2. UNCHANGED <<client, length, phase, syntaxError, fileName, lastName, lists, outcome>>
    BY <1>b DEF ReadBodyName
  <2>3. \/ Terminate /\ lastValue' = i + 1 /\ state' = 2
        \/ UNCHANGED <<buffer, lastValue, state>>
    BY <1>b DEF ReadBodyName
  <2>4. PointersSet'
    BY <1>1, <1>6, <2>1, <2>2, <2>3 DEF PointersSet
  <2>5. buffer' \in [Positions -> 0..255]
    BY <1>2, <1>4, <2>3
  <2>6. responseSize' \in Nat /\ lastValue' \in {lastValue, i'} /\ state' \in 0..12
    BY <1>4, <1>5, <2>1, <2>3
  <2> QED
    BY <1>4, <2>1, <2>2, <2>4, <2>5, <2>6, StepKeepsTypes DEF lists
<1>c. ASSUME ReadBodyValue PROVE TypeInv'
  <2>1. /\ phase = "body" /\ i <= length /\ responseSize # 0 /\ state = 2 /\ i' = i + 1
        /\ responseSize' = responseSize - 1
    BY <1>c DEF ReadBodyValue, InBody
  <2>2. UNCHANGED <<client, length, phase, syntaxError, fileName, lastValue, fields, outcome>>
    BY <1>c DEF ReadBodyValue
  <2>3. \/ EndPair /\ lastName' = i + 1 /\ state' = 1
        \/ UNCHANGED <<buffer, params, lastName, state>>
    BY <1>c DEF ReadBodyValue
  <2>4. PointersSet'
    BY <1>1, <1>6, <2>1, <2>2, <2>3 DEF PointersSet
  <2>5. buffer' \in [Positions -> 0..255] /\ params' \in PairLists
    BY <1>3, <1>4, <2>1, <2>3
  <2>6. responseSize' \in Nat /\ lastName' \in {lastName, i'} /\ state' \in 0..12
    BY <1>4, <1>5, <2>1, <2>3
  <2> QED
    BY <1>4, <2>1, <2>2, <2>4, <2>5, <2>6, StepKeepsTypes
<1>d. ASSUME EndBody PROVE TypeInv'
  <2>1. phase = "body" /\ phase' = "answer"
    BY <1>d DEF EndBody
  <2>2. UNCHANGED <<client, length, state, i, syntaxError, pointers, fields, responseSize, outcome>>
    BY <1>d DEF EndBody
  <2>3. (state = 2 /\ EndPair) \/ UNCHANGED <<buffer, params>>
    BY <1>d DEF EndBody
  <2>4. PointersSet'
    BY <2>1 DEF PointersSet
  <2>5. buffer' \in [Positions -> 0..255] /\ params' \in PairLists
    BY <1>3, <1>4, <2>1, <2>3
  <2> QED
    BY <1>4, <2>1, <2>2, <2>4, <2>5, StepKeepsTypes DEF pointers
<1> QED
  BY <1>a, <1>b, <1>c, <1>d

LEMMA OthersKeepTypes ==
  ASSUME TypeInv, BufferFull \/ Answer \/ Receive \/ Disconnect \/ UNCHANGED vars
  PROVE  TypeInv'
<1>1. Sizes /\ PointersSet
  BY SizesHold DEF TypeInv
<1>2. /\ buffer \in [Positions -> 0..255]
      /\ phase \in {"header", "body", "answer", "done"} /\ state \in 0..12
      /\ syntaxError \in BOOLEAN /\ params \in PairLists /\ fields \in PairLists
      /\ responseSize \in Nat /\ outcome \in Outcomes
  BY Types
<1>a. ASSUME BufferFull PROVE TypeInv'
  <2>1. phase' = "answer"
    BY <1>a DEF BufferFull
  <2>2. UNCHANGED <<client, buffer, length, state, i, syntaxError, pointers, lists, responseSize, outcome>>
    BY <1>a DEF BufferFull
  <2>3. PointersSet'
    BY <2>1 DEF PointersSet
  <2> QED
    BY <1>2, <2>1, <2>2, <2>3, StepKeepsTypes DEF pointers, lists
<1>b. ASSUME Answer PROVE TypeInv'
  <2>1. phase' = "done" /\ outcome' \in Outcomes
    BY <1>b DEF Answer, Outcomes
  <2>2. UNCHANGED <<client, buffer, length, state, i, syntaxError, pointers, lists, responseSize>>
    BY <1>b DEF Answer
  <2>3. PointersSet'
    BY <2>1 DEF PointersSet
  <2> QED
    BY <1>2, <2>1, <2>2, <2>3, StepKeepsTypes DEF pointers, lists
<1>c. ASSUME Disconnect PROVE TypeInv'
  <2>1. phase' \in {"answer", "done"} /\ outcome' \in Outcomes
    BY <1>2, <1>c DEF Disconnect, Outcomes
  <2>2. UNCHANGED <<client, buffer, length, state, i, syntaxError, pointers, lists, responseSize>>
    BY <1>c DEF Disconnect
  <2>3. PointersSet'
    BY <2>1 DEF PointersSet
  <2> QED
    BY <1>2, <2>1, <2>2, <2>3, StepKeepsTypes DEF pointers, lists
<1>d. ASSUME Receive PROVE TypeInv'
  <2>1. PICK n \in Nat \ {0} :
           /\ length' = length + n /\ length + n <= BufferSize /\ length + n <= Len(wire)
           /\ buffer' \in [Positions -> 0..255]
    BY <1>d, ReceiveIs
  <2>2. UNCHANGED <<client, phase, state, i, syntaxError, pointers, lists, responseSize, outcome>>
    BY <1>d DEF Receive
  <2>3. length' \in 0..BufferSize /\ i' \in 1..length' + 1
    BY <1>1, <2>1, <2>2 DEF Sizes
  <2>4. request' = request /\ wire' = wire
    BY <2>2 DEF client
  <2>5. PointersSet'
    BY <1>1, <2>2 DEF PointersSet, pointers
  <2>6. TypeOK
    BY DEF TypeInv
  <2>7. TypeOK'
    <3>1. request' \in Requests /\ wire' \in Seq(0..255)
      BY <2>4, <2>6 DEF TypeOK
    <3>2. {fileName', lastName', lastValue'} \subseteq Positions \cup {NULL}
      BY <2>2, <2>6 DEF TypeOK, pointers
    <3>3. /\ phase' \in {"header", "body", "answer", "done"} /\ state' \in 0..12
          /\ syntaxError' \in BOOLEAN
      BY <1>2, <2>2
    <3>4. /\ params' \in PairLists /\ fields' \in PairLists /\ responseSize' \in Nat
          /\ outcome' \in Outcomes
      BY <1>2, <2>2 DEF lists
    <3> QED
      BY <2>1, <2>3, <3>1, <3>2, <3>3, <3>4 DEF TypeOK, PairLists, Outcomes
  <2>8. wire' = Wire(request') /\ length' <= Len(wire')
    BY <2>1, <2>4 DEF TypeInv
  <2>9. fileName' <= i' /\ lastName' <= i' /\ lastValue' <= i'
    BY <2>2 DEF TypeInv, pointers
  <2> QED
    BY <2>5, <2>7, <2>8, <2>9 DEF TypeInv
<1>e. ASSUME UNCHANGED vars PROVE TypeInv'
  <2>1. UNCHANGED <<client, buffer, length, phase, state, i, syntaxError, pointers, lists, responseSize, outcome>>
    BY <1>e DEF vars, client, pointers, lists
  <2>2. PointersSet'
    BY <1>1, <2>1 DEF PointersSet, pointers
  <2> QED
    BY <1>2, <2>1, <2>2, StepKeepsTypes DEF pointers, lists
<1> QED
  BY <1>a, <1>b, <1>c, <1>d, <1>e

LEMMA TypeInit == Init => TypeInv
<1> SUFFICES ASSUME Init PROVE TypeInv
  OBVIOUS
<1>1. BufferSize \in Nat /\ StaleByte \in 0..255
  BY ConstantsAssumption
<1>2. request \in Requests /\ wire = Wire(request) /\ Readable(request)
  BY ConstantsAssumption DEF Init
<1>3. wire \in Seq(0..255) /\ Len(wire) \in Nat
  BY <1>2, WireIs, LenProperties DEF Byte255
<1>4. buffer \in [Positions -> 0..255]
  BY <1>1 DEF Init, Positions
<1>5. length = 0 /\ i = 1 /\ state = 0 /\ phase = "header"
  BY DEF Init
<1>6. fileName = NULL /\ lastName = NULL /\ lastValue = NULL /\ params = <<>> /\ fields = <<>>
  BY DEF Init
<1>7. syntaxError = FALSE /\ responseSize = 0 /\ outcome = "none"
  BY DEF Init
<1>8. TypeOK
  <2>1. length \in 0..BufferSize /\ i \in 1..length + 1 /\ state \in 0..12
    BY <1>1, <1>5
  <2>2. params \in PairLists /\ fields \in PairLists
    BY <1>6 DEF PairLists
  <2>3. {fileName, lastName, lastValue} \subseteq Positions \cup {NULL}
    BY <1>6
  <2>4. syntaxError \in BOOLEAN
    BY <1>7
  <2> QED
    BY <1>2, <1>3, <1>4, <1>5, <1>7, <2>1, <2>2, <2>3, <2>4 DEF TypeOK, PairLists
<1>9. PointersSet
  BY <1>5 DEF PointersSet
<1>10. length <= Len(wire) /\ fileName <= i /\ lastName <= i /\ lastValue <= i
  BY <1>3, <1>5, <1>6 DEF NULL
<1> QED
  BY <1>2, <1>8, <1>9, <1>10 DEF TypeInv

LEMMA TypeStep == TypeInv /\ [Next]_vars => TypeInv'
<1> SUFFICES ASSUME TypeInv, [Next]_vars PROVE TypeInv'
  OBVIOUS
<1>1. \/ \/ ReadMethod \/ SkipSpace \/ ReadFileName \/ ReadParamName \/ ReadParamValue
         \/ ReadVersion \/ SkipEol \/ ReadFieldStart \/ ReadFieldName \/ ReadFieldValue
      \/ SkipBeforeBody \/ ReadBodyName \/ ReadBodyValue \/ EndBody
      \/ BufferFull \/ Answer \/ Receive \/ Disconnect \/ UNCHANGED vars
  BY DEF Next, Parse
<1> QED
  BY <1>1, HeaderKeepsTypes, BodyKeepsTypes, OthersKeepTypes

\* Whatever is sent, and however read() cuts it: nothing is written, or kept as

\* the place of a text, outside the buffer, of any size.
THEOREM TypeCorrect == Spec => []TypeOK
<1>1. TypeInv => TypeOK
  BY DEF TypeInv
<1> QED
  BY <1>1, TypeInit, TypeStep, PTL DEF Spec

(***************************************************************************)
(* The names of files                                                      *)
(***************************************************************************)
LEMMA NamePosition ==
  ASSUME TypeInv, fileName # NULL
  PROVE  fileName \in Positions /\ fileName \in Nat /\ fileName >= 1 /\ fileName <= i
<1>1. fileName \in Positions /\ fileName <= i
  BY DEF TypeInv, TypeOK
<1> QED
  BY <1>1, SizesHold DEF Sizes

\* What is written behind the end of the name does not change it.
LEMMA EndedKept ==
  ASSUME TypeInv, NEW z \in Positions, Ended(z), fileName' = fileName,
         \A k \in Positions : k <= z => buffer'[k] = buffer[k]
  PROVE  Ended(z)'
<1>1. Sizes /\ fileName \in Nat /\ fileName >= 1 /\ z \in Nat /\ z <= BufferSize + 1
  BY NamePosition, SizesHold DEF Ended, Sizes
<1>2. NoneUp(buffer', fileName, z)
  <2>1. ASSUME NEW k \in fileName + 1..z - 3
        PROVE  ~(buffer'[k] = Dot /\ buffer'[k + 1] = Dot /\ buffer'[k + 2] = Slash)
    <3>1. /\ k \in Positions /\ k + 1 \in Positions /\ k + 2 \in Positions
          /\ k <= z /\ k + 1 <= z /\ k + 2 <= z
      BY <1>1 DEF Sizes
    <3>2. buffer'[k] = buffer[k] /\ buffer'[k + 1] = buffer[k + 1] /\ buffer'[k + 2] = buffer[k + 2]
      BY <3>1
    <3> QED
      BY <3>2 DEF Ended, NoneUp
  <2> QED
    BY <2>1 DEF NoneUp
<1>3. z <= z
  BY <1>1
<1>4. buffer'[z] = 0 /\ fileName' <= z /\ fileName' # NULL
  BY <1>3 DEF Ended
<1> QED
  BY <1>2, <1>4 DEF Ended

LEMMA NoBody ==
  ASSUME fields = <<>>
  PROVE  Body = 0
<1>1. FieldsNamed(ContentLength) = {}
  BY DEF FieldsNamed
<1> QED
  BY <1>1 DEF Body

\* The phases of NameInv, to be shown one by one
LEMMA NameCases ==
  ASSUME phase' = "header" \/ phase' = "body" \/ phase' = "answer",
         outcome' = "none",
         phase' = "header" /\ state' \in {0, 1, 2, 3, 4, 11, 12} => fields' = <<>>,
         InName' =>
           /\ fileName' # NULL /\ fileName' < i'
           /\ NoneUp(buffer', fileName', i')
           /\ state' = 2 => i' - 1 = fileName' \/ buffer'[i' - 1] # Dot
           /\ state' = 11 => i' - 2 = fileName' \/ buffer'[i' - 2] # Dot
           /\ state' \in {11, 12} => i' - 1 > fileName',
         phase' = "header" /\ state' \in 3..10 => \E z \in Positions : Ended(z)' /\ z < i',
         phase' = "body" =>
           \E z \in Positions : /\ Ended(z)'
                                /\ responseSize' # 0 => z < i'
                                /\ state' # 0 => z < lastName'
                                /\ state' = 2 => z < lastValue',
         phase' = "answer" => \/ syntaxError' \/ length' = BufferSize
                              \/ \E z \in Positions : Ended(z)'
  PROVE  NameInv'
<1>1. ~Accepted'
  BY DEF Accepted
<1> QED
  BY <1>1 DEF NameInv, InName

LEMMA BehindName ==
  ASSUME TypeInv, NameInv, phase = "header", state \in 3..10,
         UNCHANGED <<fileName, length, outcome>>,
         buffer' = buffer \/ Terminate,
         i' = i \/ i' = i + 1,
         \/ phase' = "header" /\ state' \in 3..10
         \/ phase' = "body" /\ state' = 0
         \/ phase' = "answer",
         phase' = "header" /\ state' \in {3, 4} => state \in {3, 4} /\ fields' = fields
  PROVE  NameInv'
<1>1. PICK z \in Positions : Ended(z) /\ z < i
  BY DEF NameInv
<1>2. Sizes
  BY SizesHold
<1>3. Ended(z)'
  <2>1. ASSUME NEW k \in Positions, k <= z
        PROVE  buffer'[k] = buffer[k]
    <3>1. k # i
      BY <1>1, <1>2, <2>1 DEF Sizes
    <3> QED
      BY <2>1, <3>1, TerminateType
  <2> QED
    BY <1>1, <2>1, EndedKept
<1>4. z < i'
  BY <1>1, <1>2 DEF Sizes
<1>5. outcome' = "none"
  BY DEF NameInv
<1>6. phase' = "header" /\ state' \in {0, 1, 2, 3, 4, 11, 12} => fields' = <<>>
  <2> SUFFICES ASSUME phase' = "header", state' \in {0, 1, 2, 3, 4, 11, 12}
               PROVE  fields' = <<>>
    OBVIOUS
  <2>1. state' \in {3, 4}
    OBVIOUS
  <2> QED
    BY <2>1 DEF NameInv
<1>7. ~InName'
  BY DEF InName
<1>8. phase' = "body" => state' = 0
  OBVIOUS
<1> QED
  BY <1>3, <1>4, <1>5, <1>6, <1>7, <1>8, NameCases

LEMMA BehindNameSteps ==
  ASSUME TypeInv, NameInv,
         \/ ReadParamName \/ ReadParamValue \/ ReadVersion \/ SkipEol
         \/ ReadFieldStart \/ ReadFieldName \/ ReadFieldValue
  PROVE  NameInv'
<1>1. EndHeader => /\ \/ phase' = "body" /\ state' = 0
                      \/ phase' = "answer"
                   /\ i' = i
  BY DEF EndHeader
<1>2. \A next : Go(next) => state' = next /\ i' = i + 1 /\ phase' = phase
  BY DEF Go
<1>a. ASSUME ReadParamName \/ ReadParamValue PROVE NameInv'
  <2>1. phase = "header" /\ state \in {3, 4}
    BY <1>a DEF ReadParamName, ReadParamValue, At
  <2>2. UNCHANGED <<fileName, length, outcome>> /\ fields' = fields
    BY <1>a DEF ReadParamName, ReadParamValue
  <2>3. buffer' = buffer \/ Terminate
    BY <1>a DEF ReadParamName, ReadParamValue
  <2>4. EndHeader \/ Go(3) \/ Go(4) \/ Go(5)
    BY <1>a DEF ReadParamName, ReadParamValue
  <2>5. state \in 3..10
    BY <2>1
  <2>6. i' = i \/ i' = i + 1
    BY <1>1, <1>2, <2>4
  <2>7. \/ phase' = "header" /\ state' \in 3..10
        \/ phase' = "body" /\ state' = 0
        \/ phase' = "answer"
    BY <1>1, <1>2, <2>1, <2>4
  <2> QED
    BY <2>1, <2>2, <2>3, <2>5, <2>6, <2>7, BehindName
<1>b. ASSUME ReadVersion \/ SkipEol \/ ReadFieldStart PROVE NameInv'
  <2>1. phase = "header" /\ state \in 3..10
    BY <1>b DEF ReadVersion, SkipEol, ReadFieldStart, At
  <2>2. UNCHANGED <<fileName, length, outcome>> /\ buffer' = buffer
    BY <1>b DEF ReadVersion, SkipEol, ReadFieldStart, pointers
  <2>3. \/ EndHeader \/ Go(5) \/ Go(6) \/ Go(7) \/ Go(9)
        \/ (i' = i \/ i' = i + 1) /\ state' = 8 /\ phase' = phase
    BY <1>b DEF ReadVersion, SkipEol, ReadFieldStart
  <2>4. i' = i \/ i' = i + 1
    BY <1>1, <1>2, <2>3
  <2>5. \/ phase' = "header" /\ state' \in 5..9
        \/ phase' = "body" /\ state' = 0
        \/ phase' = "answer"
    BY <1>1, <1>2, <2>1, <2>3
  <2>6. /\ \/ phase' = "header" /\ state' \in 3..10
           \/ phase' = "body" /\ state' = 0
           \/ phase' = "answer"
        /\ ~(phase' = "header" /\ state' \in {3, 4})
    BY <2>5
  <2> QED
    BY <2>1, <2>2, <2>4, <2>6, BehindName
<1>c. ASSUME ReadFieldName \/ ReadFieldValue PROVE NameInv'
  <2>1. phase = "header" /\ state \in 3..10
    BY <1>c DEF ReadFieldName, ReadFieldValue, At
  <2>2. UNCHANGED <<fileName, length, outcome>>
    BY <1>c DEF ReadFieldName, ReadFieldValue, pointers
  <2>3. buffer' = buffer \/ Terminate
    BY <1>c DEF ReadFieldName, ReadFieldValue
  <2>4. Go(6) \/ Go(7) \/ Go(9) \/ Go(10)
    BY <1>c DEF ReadFieldName, ReadFieldValue
  <2>5. i' = i + 1 /\ phase' = "header" /\ state' \in 6..10
    BY <1>2, <2>1, <2>4
  <2>6. state' \in 3..10 /\ ~(state' \in {3, 4})
    BY <2>5
  <2> QED
    BY <2>1, <2>2, <2>3, <2>5, <2>6, BehindName
<1> QED
  BY <1>a, <1>b, <1>c

LEMMA BeforeNameSteps ==
  ASSUME TypeInv, NameInv, ReadMethod \/ SkipSpace
  PROVE  NameInv'
<1>1. Sizes
  BY SizesHold
<1>2. phase = "header" /\ state \in {0, 1} /\ UNCHANGED <<length, lists, outcome>>
  BY DEF ReadMethod, SkipSpace, At
<1>3. fields' = <<>> /\ outcome' = "none"
  BY <1>2 DEF NameInv, lists
<1>4. \/ Fail
      \/ Go(0) \/ Go(1)
      \/ Go(2) /\ fileName' = i
  BY DEF ReadMethod, SkipSpace
<1>5. CASE Fail
  <2>1. syntaxError' /\ phase' = "answer"
    BY <1>5 DEF Fail
  <2> QED
    BY <1>3, <2>1, NameCases DEF InName
<1>6. CASE Go(0) \/ Go(1)
  <2>1. phase' = "header" /\ state' \in {0, 1}
    BY <1>2, <1>6 DEF Go
  <2>2. ~InName' /\ state' \notin 3..10
    BY <2>1 DEF InName
  <2> QED
    BY <1>3, <2>1, <2>2, NameCases
<1>7. CASE Go(2) /\ fileName' = i
  <2>1. phase' = "header" /\ state' = 2 /\ i' = i + 1 /\ fileName' = i
    BY <1>2, <1>7 DEF Go
  <2>2. fileName' # NULL /\ fileName' < i' /\ i' - 1 = fileName'
    BY <1>1, <2>1 DEF Sizes, NULL
  <2>3. NoneUp(buffer', fileName', i')
    BY <1>1, <2>1 DEF NoneUp, Sizes
  <2>4. state' # 11 /\ state' \notin {11, 12} /\ state' \notin 3..10
    BY <2>1
  <2> QED
    BY <1>3, <2>1, <2>2, <2>3, <2>4, NameCases
<1> QED
  BY <1>4, <1>5, <1>6, <1>7

LEMMA InNameSteps ==
  ASSUME TypeInv, NameInv, ReadFileName
  PROVE  NameInv'
<1>1. Sizes
  BY SizesHold
<1>2. /\ phase = "header" /\ state \in {2, 11, 12} /\ i <= length
      /\ UNCHANGED <<length, fileName, lists, outcome>>
  BY DEF ReadFileName, At
<1>3. fields = <<>> /\ fields' = <<>> /\ outcome' = "none"
  BY <1>2 DEF NameInv, lists
<1>4. /\ fileName # NULL /\ fileName < i
      /\ NoneUp(buffer, fileName, i)
      /\ state = 2 => i - 1 = fileName \/ buffer[i - 1] # Dot
      /\ state = 11 => i - 2 = fileName \/ buffer[i - 2] # Dot
      /\ state \in {11, 12} => i - 1 > fileName
  BY <1>2 DEF NameInv, InName
<1>5. fileName \in Nat /\ fileName >= 1
  BY <1>4, NamePosition
<1>6. CASE Terminate /\ (Go(3) \/ Go(5) \/ EndHeader)
  <2>1. buffer'[i] = 0 /\ \A k \in Positions : k # i => buffer'[k] = buffer[k]
    BY <1>6, TerminateType
  <2>2. NoneUp(buffer', fileName, i)
    <3>1. ASSUME NEW k \in fileName + 1..i - 3
          PROVE  ~(buffer'[k] = Dot /\ buffer'[k + 1] = Dot /\ buffer'[k + 2] = Slash)
      <4>1. /\ k \in Positions /\ k + 1 \in Positions /\ k + 2 \in Positions
            /\ k # i /\ k + 1 # i /\ k + 2 # i
        BY <1>1, <1>5 DEF Sizes
      <4>2. buffer'[k] = buffer[k] /\ buffer'[k + 1] = buffer[k + 1] /\ buffer'[k + 2] = buffer[k + 2]
        BY <2>1, <4>1
      <4> QED
        BY <1>4, <4>2 DEF NoneUp
    <3> QED
      BY <3>1 DEF NoneUp
  <2>3. i \in Positions /\ fileName <= i
    BY <1>1, <1>4, <1>5 DEF Sizes
  <2>4. PICK z \in Positions : z = i
    BY <2>3
  <2>5. Ended(z)'
    BY <1>2, <1>4, <2>1, <2>2, <2>3, <2>4 DEF Ended
  <2>6. CASE Go(3) \/ Go(5)
    <3>1. phase' = "header" /\ state' \in {3, 5} /\ i' = i + 1
      BY <1>2, <2>6 DEF Go
    <3>2. z < i' /\ ~InName'
      BY <1>1, <2>4, <3>1 DEF Sizes, InName
    <3> QED
      BY <1>3, <2>5, <3>1, <3>2, NameCases
  <2>7. CASE EndHeader
    <3>1. \/ phase' = "body" /\ state' = 0 /\ responseSize' = 0
          \/ phase' = "answer"
      BY <1>3, <2>7, NoBody DEF EndHeader
    <3>2. ~InName'
      BY <3>1 DEF InName
    <3> QED
      BY <1>3, <2>5, <3>1, <3>2, NameCases
  <2> QED
    BY <1>6, <2>6, <2>7
<1>7. CASE Fail
  <2>1. syntaxError' /\ phase' = "answer"
    BY <1>7 DEF Fail
  <2> QED
    BY <1>3, <2>1, NameCases DEF InName
<1>8. ASSUME buffer' = buffer, NEW next \in {2, 11, 12}, Go(next),
             next = 11 => Byte = Dot /\ state = 2,
             next = 12 => Byte = Dot /\ state # 2,
             next = 2 => Byte # Dot /\ ~(Byte = Slash /\ state = 12)
      PROVE  NameInv'
  <2>1. phase' = "header" /\ state' = next /\ i' = i + 1 /\ fileName' = fileName
    BY <1>2, <1>8 DEF Go
  <2>2. fileName' # NULL /\ fileName' < i' /\ fileName' < i
    BY <1>1, <1>4, <1>5, <2>1 DEF Sizes
  <2>3. NoneUp(buffer', fileName', i')
    <3>1. ASSUME NEW k \in fileName + 1..(i + 1) - 3,
                 buffer[k] = Dot, buffer[k + 1] = Dot, buffer[k + 2] = Slash
          PROVE  FALSE
      <4>1. CASE k + 2 = i
        <5>1. k = i - 2 /\ k + 1 = i - 1 /\ buffer[i] = Slash /\ i - 2 > fileName /\ i - 1 # fileName
          BY <1>1, <1>5, <3>1, <4>1 DEF Sizes
        <5>2. buffer[i - 1] = Dot /\ buffer[i - 2] = Dot
          BY <3>1, <5>1
        <5>3. state = 12
          BY <1>2, <1>4, <5>1, <5>2
        <5>4. Byte = Slash /\ Slash # Dot
          BY <5>1 DEF Byte, Slash, Dot
        <5> QED
          BY <1>8, <5>3, <5>4
      <4>2. CASE k + 2 # i
        <5>1. k \in fileName + 1..i - 3
          BY <1>1, <1>5, <4>2 DEF Sizes
        <5> QED
          BY <1>4, <3>1, <5>1 DEF NoneUp
      <4> QED
        BY <4>1, <4>2
    <3> QED
      BY <1>8, <2>1, <3>1 DEF NoneUp
  <2>4. i' - 1 = i /\ i' - 2 = i - 1
    BY <1>1, <2>1 DEF Sizes
  <2>5. state' = 2 => buffer'[i' - 1] # Dot
    BY <1>8, <2>1, <2>4 DEF Byte
  <2>6. state' = 11 => i' - 2 = fileName' \/ buffer'[i' - 2] # Dot
    BY <1>4, <1>8, <2>1, <2>4
  <2>7. state' \in {11, 12} => i' - 1 > fileName'
    BY <1>1, <1>5, <2>2, <2>1, <2>4 DEF Sizes
  <2>8. state' \notin 3..10
    BY <2>1
  <2> QED
    BY <1>3, <2>1, <2>2, <2>3, <2>5, <2>6, <2>7, <2>8, NameCases
<1>9. \/ Terminate /\ (Go(3) \/ Go(5) \/ EndHeader)
      \/ Fail
      \/ buffer' = buffer /\ Byte = Dot /\ Go(AfterDot)
      \/ buffer' = buffer /\ Byte # Dot /\ ~(Byte = Slash /\ state = 12) /\ Go(2)
  BY DEF ReadFileName
<1>10. CASE buffer' = buffer /\ Byte = Dot /\ Go(AfterDot)
  <2>1. CASE state = 2
    <3>1. Go(11)
      BY <1>10, <2>1 DEF AfterDot
    <3> QED
      BY <1>8, <1>10, <2>1, <3>1
  <2>2. CASE state # 2
    <3>1. Go(12)
      BY <1>10, <2>2 DEF AfterDot
    <3> QED
      BY <1>8, <1>10, <2>2, <3>1
  <2> QED
    BY <2>1, <2>2
<1>11. CASE buffer' = buffer /\ Byte # Dot /\ ~(Byte = Slash /\ state = 12) /\ Go(2)
  BY <1>8, <1>11
<1> QED
  BY <1>6, <1>7, <1>9, <1>10, <1>11

LEMMA BodyNameSteps ==
  ASSUME TypeInv, NameInv, SkipBeforeBody \/ ReadBodyName \/ ReadBodyValue \/ EndBody
  PROVE  NameInv'
<1>1. Sizes
  BY SizesHold
<1>2. phase = "body" /\ UNCHANGED <<length, fileName, outcome>> /\ outcome' = "none"
  BY DEF SkipBeforeBody, ReadBodyName, ReadBodyValue, EndBody, InBody, NameInv, pointers
<1>3. PICK z \in Positions : /\ Ended(z)
                             /\ responseSize # 0 => z < i
                             /\ state # 0 => z < lastName
                             /\ state = 2 => z < lastValue
  BY <1>2 DEF NameInv
<1>4. z \in Int /\ i \in Int
  BY <1>1 DEF Sizes
<1>5. ASSUME \A k \in Positions : k <= z => buffer'[k] = buffer[k]
      PROVE  Ended(z)'
  BY <1>2, <1>3, <1>5, EndedKept
<1>6. EndPair /\ state = 2 => \A k \in Positions : k <= z => buffer'[k] = buffer[k]
  <2> SUFFICES ASSUME EndPair, state = 2, NEW k \in Positions, k <= z
               PROVE  buffer'[k] = buffer[k]
    OBVIOUS
  <2>0. {fileName, lastName, lastValue} \subseteq Positions \cup {NULL}
    BY DEF TypeInv, TypeOK
  <2>1. lastName \in Int /\ lastValue \in Int
    BY <1>1, <2>0 DEF Sizes, NULL
  <2>2. k < lastName /\ k < lastValue
    BY <1>1, <1>3, <1>4, <2>1 DEF Sizes
  <2> QED
    BY <1>2, <2>2, EndPairType
<1>7. Terminate /\ z < i => \A k \in Positions : k <= z => buffer'[k] = buffer[k]
  <2> SUFFICES ASSUME Terminate, z < i, NEW k \in Positions, k <= z
               PROVE  buffer'[k] = buffer[k]
    OBVIOUS
  <2>1. k # i
    BY <1>1, <1>4 DEF Sizes
  <2> QED
    BY <2>1, TerminateType
<1>a. ASSUME SkipBeforeBody PROVE NameInv'
  <2>1. phase' = "body" /\ i' = i + 1 /\ responseSize # 0 /\ buffer' = buffer /\ state = 0
    BY <1>2, <1>a DEF SkipBeforeBody, InBody
  <2>2. \/ state' = 0
        \/ lastName' = i /\ state' = 1
    BY <1>a, <2>1 DEF SkipBeforeBody
  <2>3. z < i' /\ z < i
    BY <1>3, <1>4, <2>1
  <2>4. state' # 0 => z < lastName'
    BY <2>2, <2>3
  <2>5. Ended(z)' /\ state' # 2 /\ ~InName'
    BY <1>5, <2>1, <2>2 DEF InName
  <2> QED
    BY <1>2, <2>1, <2>3, <2>4, <2>5, NameCases
<1>b. ASSUME ReadBodyName PROVE NameInv'
  <2>1. /\ phase' = "body" /\ i' = i + 1 /\ responseSize # 0 /\ state = 1 /\ lastName' = lastName
    BY <1>2, <1>b DEF ReadBodyName, InBody
  <2>2. \/ Terminate /\ lastValue' = i + 1 /\ state' = 2
        \/ buffer' = buffer /\ state' = 1
    BY <1>b, <2>1 DEF ReadBodyName
  <2>3. z < i' /\ z < i /\ z < i + 1
    BY <1>3, <1>4, <2>1
  <2>4. state' = 2 => z < lastValue'
    BY <2>2, <2>3
  <2>5. Ended(z)'
    BY <1>5, <1>7, <2>2, <2>3
  <2>6. z < lastName' /\ ~InName'
    BY <1>3, <2>1 DEF InName
  <2> QED
    BY <1>2, <2>1, <2>3, <2>4, <2>5, <2>6, NameCases
<1>c. ASSUME ReadBodyValue PROVE NameInv'
  <2>1. /\ phase' = "body" /\ i' = i + 1 /\ responseSize # 0 /\ state = 2 /\ lastValue' = lastValue
    BY <1>2, <1>c DEF ReadBodyValue, InBody
  <2>2. \/ EndPair /\ lastName' = i + 1 /\ state' = 1
        \/ buffer' = buffer /\ state' = 2 /\ lastName' = lastName
    BY <1>c, <2>1 DEF ReadBodyValue
  <2>3. z < i' /\ z < i /\ z < i + 1
    BY <1>3, <1>4, <2>1
  <2>4. z < lastName' /\ z < lastValue'
    BY <1>3, <2>1, <2>2, <2>3
  <2>5. Ended(z)'
    BY <1>5, <1>6, <2>1, <2>2
  <2>6. ~InName'
    BY <2>1 DEF InName
  <2> QED
    BY <1>2, <2>1, <2>3, <2>4, <2>5, <2>6, NameCases
<1>d. ASSUME EndBody PROVE NameInv'
  <2>1. phase' = "answer"
    BY <1>d DEF EndBody
  <2>2. (EndPair /\ state = 2) \/ buffer' = buffer
    BY <1>d DEF EndBody
  <2>3. Ended(z)' /\ ~InName'
    BY <1>5, <1>6, <2>1, <2>2 DEF InName
  <2> QED
    BY <1>2, <2>1, <2>3, NameCases
<1> QED
  BY <1>a, <1>b, <1>c, <1>d

\* A step that leaves the buffer and the automaton alone keeps the end of the name.
LEMMA SameEnd ==
  ASSUME UNCHANGED <<buffer, pointers>>, NEW z, Ended(z)
  PROVE  Ended(z)'
BY DEF Ended, pointers

LEMMA OtherNameSteps ==
  ASSUME TypeInv, NameInv, BufferFull \/ Answer \/ Disconnect \/ UNCHANGED vars
  PROVE  NameInv'
<1>a. ASSUME BufferFull PROVE NameInv'
  <2>1. phase' = "answer" /\ length' = BufferSize /\ outcome' = outcome /\ phase # "done"
    BY <1>a DEF BufferFull
  <2>2. outcome' = "none" /\ ~InName'
    BY <2>1 DEF NameInv, InName
  <2> QED
    BY <2>1, <2>2, NameCases
<1>b. ASSUME Answer PROVE NameInv'
  <2>1. phase = "answer" /\ phase' = "done" /\ UNCHANGED <<buffer, length, pointers>>
    BY <1>b DEF Answer
  <2>2. outcome' \in {"dropped", "bad request"} \/ ~(length = BufferSize \/ syntaxError)
    BY <1>b DEF Answer
  <2>3. Accepted' => \E z \in Positions : Ended(z)
    BY <2>1, <2>2 DEF Accepted, NameInv
  <2>4. Accepted' => \E z \in Positions : Ended(z)'
    BY <2>1, <2>3, SameEnd
  <2> QED
    BY <2>1, <2>4 DEF NameInv, InName
<1>c. ASSUME Disconnect PROVE NameInv'
  <2>1. UNCHANGED <<buffer, length, pointers>> /\ phase \in {"header", "body"}
    BY <1>c DEF Disconnect, Reading
  <2>2. CASE phase' = "done" /\ outcome' = "dropped"
    <3>1. ~Accepted' /\ ~InName'
      BY <2>2 DEF Accepted, InName
    <3> QED
      BY <2>2, <3>1 DEF NameInv
  <2>3. CASE phase = "body" /\ phase' = "answer" /\ outcome' = outcome
    <3>1. PICK z \in Positions : Ended(z)
      BY <2>3 DEF NameInv
    <3>2. Ended(z)'
      BY <2>1, <3>1, SameEnd
    <3>3. outcome' = "none" /\ ~InName'
      BY <2>3 DEF NameInv, InName
    <3> QED
      BY <2>3, <3>2, <3>3, NameCases
  <2> QED
    BY <1>c, <2>2, <2>3 DEF Disconnect
<1>d. ASSUME UNCHANGED vars PROVE NameInv'
  <2>1. /\ buffer' = buffer /\ length' = length /\ phase' = phase /\ state' = state /\ i' = i
        /\ syntaxError' = syntaxError /\ fileName' = fileName /\ lastName' = lastName
        /\ lastValue' = lastValue /\ fields' = fields /\ responseSize' = responseSize
        /\ outcome' = outcome
    BY <1>d DEF vars
  <2>2. \A z \in Positions : Ended(z)' <=> Ended(z)
    BY <2>1 DEF Ended
  <2>3. (Accepted' <=> Accepted) /\ (InName' <=> InName)
    BY <2>1 DEF Accepted, InName
  <2> QED
    BY <2>1, <2>2, <2>3 DEF NameInv
<1> QED
  BY <1>a, <1>b, <1>c, <1>d

LEMMA ReceiveName ==
  ASSUME TypeInv, NameInv, Receive
  PROVE  NameInv'
<1>1. Sizes
  BY SizesHold
<1>2. PICK n \in Nat \ {0} :
         buffer' = [k \in Positions |-> IF length < k /\ k <= length + n THEN wire[k] ELSE buffer[k]]
  BY ReceiveIs
<1>3. \A k \in Positions : k <= length => buffer'[k] = buffer[k]
  BY <1>1, <1>2 DEF Sizes
<1>4. /\ phase' = phase /\ state' = state /\ i' = i /\ fileName' = fileName
      /\ lastName' = lastName /\ lastValue' = lastValue /\ fields' = fields
      /\ responseSize' = responseSize /\ outcome' = outcome
      /\ i > length
      /\ \/ phase = "header"
         \/ phase = "body" /\ responseSize # 0
  BY DEF Receive, Reading, pointers, lists
<1>5. i = length + 1 /\ outcome = "none"
  BY <1>1, <1>4 DEF Sizes, NameInv
<1>6. ASSUME NEW z \in Positions, Ended(z), z < i
      PROVE  Ended(z)'
  <2>1. ASSUME NEW k \in Positions, k <= z
        PROVE  buffer'[k] = buffer[k]
    <3>1. k <= length
      BY <1>1, <1>5, <1>6, <2>1 DEF Sizes
    <3> QED
      BY <1>3, <3>1
  <2> QED
    BY <1>4, <1>6, <2>1, EndedKept
<1>7. InName' =>
           /\ fileName' # NULL /\ fileName' < i'
           /\ NoneUp(buffer', fileName', i')
           /\ state' = 2 => i' - 1 = fileName' \/ buffer'[i' - 1] # Dot
           /\ state' = 11 => i' - 2 = fileName' \/ buffer'[i' - 2] # Dot
           /\ state' \in {11, 12} => i' - 1 > fileName'
  <2> SUFFICES ASSUME InName
               PROVE  /\ fileName # NULL /\ fileName < i
                      /\ NoneUp(buffer', fileName, i)
                      /\ state = 2 => i - 1 = fileName \/ buffer'[i - 1] # Dot
                      /\ state = 11 => i - 2 = fileName \/ buffer'[i - 2] # Dot
                      /\ state \in {11, 12} => i - 1 > fileName
    BY <1>4 DEF InName
  <2>1. /\ fileName # NULL /\ fileName < i
        /\ NoneUp(buffer, fileName, i)
        /\ state = 2 => i - 1 = fileName \/ buffer[i - 1] # Dot
        /\ state = 11 => i - 2 = fileName \/ buffer[i - 2] # Dot
        /\ state \in {11, 12} => i - 1 > fileName
    BY DEF NameInv
  <2>2. fileName \in Nat /\ fileName >= 1
    BY <2>1, NamePosition
  <2>3. i - 1 \in Positions /\ i - 1 <= length
    BY <1>1, <1>5, <2>1, <2>2 DEF Sizes
  <2>4. buffer'[i - 1] = buffer[i - 1]
    BY <1>3, <2>3
  <2>5. state = 11 => buffer'[i - 2] = buffer[i - 2]
    <3>1. state = 11 => i - 2 \in Positions /\ i - 2 <= length
      BY <1>1, <1>5, <2>1, <2>2 DEF Sizes
    <3> QED
      BY <1>3, <3>1
  <2>6. NoneUp(buffer', fileName, i)
    <3>1. ASSUME NEW k \in fileName + 1..i - 3
          PROVE  ~(buffer'[k] = Dot /\ buffer'[k + 1] = Dot /\ buffer'[k + 2] = Slash)
      <4>1. /\ k \in Positions /\ k + 1 \in Positions /\ k + 2 \in Positions
            /\ k <= length /\ k + 1 <= length /\ k + 2 <= length
        BY <1>1, <1>5, <2>2 DEF Sizes
      <4>2. buffer'[k] = buffer[k] /\ buffer'[k + 1] = buffer[k + 1] /\ buffer'[k + 2] = buffer[k + 2]
        BY <1>3, <4>1
      <4> QED
        BY <2>1, <4>2 DEF NoneUp
    <3> QED
      BY <3>1 DEF NoneUp
  <2> QED
    BY <2>1, <2>4, <2>5, <2>6
<1>8. phase' = "header" /\ state' \in 3..10 => \E z \in Positions : Ended(z)' /\ z < i'
  BY <1>4, <1>6 DEF NameInv
<1>9. ASSUME phase' = "body"
      PROVE  \E z \in Positions : /\ Ended(z)'
                                  /\ responseSize' # 0 => z < i'
                                  /\ state' # 0 => z < lastName'
                                  /\ state' = 2 => z < lastValue'
  <2>1. phase = "body"
    BY <1>4, <1>9
  <2>2. PICK z \in Positions : /\ Ended(z)
                               /\ responseSize # 0 => z < i
                               /\ state # 0 => z < lastName
                               /\ state = 2 => z < lastValue
    BY <2>1 DEF NameInv
  <2>3. z < i
    BY <1>4, <2>1, <2>2
  <2>4. Ended(z)'
    BY <1>6, <2>2, <2>3
  <2>5. /\ responseSize' # 0 => z < i'
        /\ state' # 0 => z < lastName'
        /\ state' = 2 => z < lastValue'
    BY <1>4, <2>2
  <2> QED
    BY <2>4, <2>5
<1>10. phase' = "header" /\ state' \in {0, 1, 2, 3, 4, 11, 12} => fields' = <<>>
  BY <1>4 DEF NameInv
<1>11. phase' # "answer" /\ outcome' = "none" /\ (phase' = "header" \/ phase' = "body")
  BY <1>4, <1>5
<1> QED
  BY <1>7, <1>8, <1>9, <1>10, <1>11, NameCases

LEMMA NameInit == Init => NameInv
<1> SUFFICES ASSUME Init PROVE NameInv
  OBVIOUS
<1>1. phase = "header" /\ state = 0 /\ fields = <<>> /\ outcome = "none"
  BY DEF Init
<1> QED
  BY <1>1 DEF NameInv, InName, Accepted

LEMMA NameStep == TypeInv /\ NameInv /\ [Next]_vars => NameInv'
<1> SUFFICES ASSUME TypeInv, NameInv, [Next]_vars PROVE NameInv'
  OBVIOUS
<1>1. \/ ReadMethod \/ SkipSpace \/ ReadFileName
      \/ \/ ReadParamName \/ ReadParamValue \/ ReadVersion \/ SkipEol
         \/ ReadFieldStart \/ ReadFieldName \/ ReadFieldValue
      \/ SkipBeforeBody \/ ReadBodyName \/ ReadBodyValue \/ EndBody
      \/ BufferFull \/ Answer \/ Receive \/ Disconnect \/ UNCHANGED vars
  BY DEF Next, Parse
<1> QED
  BY <1>1, BeforeNameSteps, InNameSteps, BehindNameSteps, BodyNameSteps, OtherNameSteps, ReceiveName

\* The three bytes of a way up
LEMMA TripleIs ==
  ASSUME NEW name \in Seq(Byte255), NEW k \in 1..Len(name) - 2
  PROVE  SubSeq(name, k, k + 2) = <<Dot, Dot, Slash>>
           <=> name[k] = Dot /\ name[k + 1] = Dot /\ name[k + 2] = Slash
<1>1. Len(name) \in Nat
  BY LenProperties
<1>2. SubSeq(name, k, k + 2) = [j \in 1..3 |-> name[k + j - 1]]
  <2>1. 1 + (k + 2) - k = 3
    OBVIOUS
  <2> QED
    BY <2>1 DEF SubSeq
<1> DEFINE s == SubSeq(name, k, k + 2)
<1>3. s[1] = name[k] /\ s[2] = name[k + 1] /\ s[3] = name[k + 2]
  <2>1. k + 1 - 1 = k /\ k + 2 - 1 = k + 1 /\ k + 3 - 1 = k + 2
    BY <1>1
  <2> QED
    BY <1>2, <2>1
<1>4. s = [j \in 1..3 |-> s[j]]
  BY <1>2
<1> HIDE DEF s
<1>5. s = <<Dot, Dot, Slash>> <=> s[1] = Dot /\ s[2] = Dot /\ s[3] = Slash
  <2> DEFINE u == <<Dot, Dot, Slash>>
  <2>1. u = [j \in 1..3 |-> u[j]] /\ u[1] = Dot /\ u[2] = Dot /\ u[3] = Slash
    OBVIOUS
  <2> HIDE DEF u
  <2>2. s = u <=> s[1] = u[1] /\ s[2] = u[2] /\ s[3] = u[3]
    <3>1. ASSUME s[1] = u[1], s[2] = u[2], s[3] = u[3]
          PROVE  s = u
      <4>1. \A j \in 1..3 : s[j] = u[j]
        BY <3>1
      <4> QED
        BY <1>4, <2>1, <4>1
    <3> QED
      BY <3>1
  <2> QED
    BY <2>1, <2>2 DEF u
<1> QED
  BY <1>3, <1>5 DEF s

\* The name that is found in the buffer has no way up.
LEMMA AcceptedName ==
  ASSUME TypeInv, NameInv, Accepted
  PROVE  ~GoesUp(Text(fileName))
<1> DEFINE N == BufferSize + 1
<1>1. PICK z \in Positions : Ended(z)
  BY DEF NameInv
<1>2. fileName \in 1..N /\ z \in fileName..N /\ buffer[z] = 0 /\ NoneUp(buffer, fileName, z)
      /\ buffer \in [1..N -> Byte255] /\ N \in Nat
  <2>1. Sizes /\ buffer \in [Positions -> 0..255]
    BY SizesHold, Types
  <2>2. fileName \in Positions
    BY <1>1, NamePosition DEF Ended
  <2> QED
    BY <1>1, <2>1, <2>2 DEF Ended, Sizes, Byte255
<1> HIDE DEF N
<1>3. PICK e \in fileName..z : Ends(buffer, fileName, e)
  BY <1>2, EndExists
<1> DEFINE t == Text(fileName)
<1>4. /\ t = [k \in 1..e - fileName |-> buffer[fileName + k - 1]]
      /\ t \in Seq(Byte255) /\ Len(t) = e - fileName
  <2>1. e \in 1..N
    BY <1>2
  <2> QED
    BY <1>2, <1>3, <2>1, TextIs DEF Text
<1>5. ASSUME NEW k \in 2..Len(t) - 2, SubSeq(t, k, k + 2) = <<Dot, Dot, Slash>>
      PROVE  FALSE
  <2> DEFINE j == fileName + k - 1
  <2>1. k \in 1..Len(t) - 2 /\ k \in 1..e - fileName /\ k + 1 \in 1..e - fileName /\ k + 2 \in 1..e - fileName
    BY <1>2, <1>4
  <2>2. t[k] = Dot /\ t[k + 1] = Dot /\ t[k + 2] = Slash
    <3> HIDE DEF t
    <3> QED
      BY <1>4, <1>5, <2>1, TripleIs
  <2>3. j \in fileName + 1..z - 3 /\ fileName + (k + 1) - 1 = j + 1 /\ fileName + (k + 2) - 1 = j + 2
    BY <1>2, <1>4
  <2> HIDE DEF t
  <2>4. t[k] = buffer[j] /\ t[k + 1] = buffer[j + 1] /\ t[k + 2] = buffer[j + 2]
    BY <1>4, <2>1, <2>3
  <2> QED
    BY <1>2, <2>2, <2>3, <2>4 DEF NoneUp
<1> QED
  BY <1>5 DEF GoesUp

LEMMA Behind ==
  ASSUME NEW S, NEW a \in Seq(S), NEW b \in Seq(S)
  PROVE  /\ a \o b \in Seq(S) /\ Len(a \o b) = Len(a) + Len(b)
         /\ \A k \in 1..Len(a) : (a \o b)[k] = a[k]
         /\ \A k \in 1..Len(b) : (a \o b)[Len(a) + k] = b[k]
<1>1. Len(a) \in Nat /\ Len(b) \in Nat
  BY LenProperties
<1>2. a \o b \in Seq(S) /\ Len(a \o b) = Len(a) + Len(b)
  BY ConcatProperties
<1>3. \A k \in 1..Len(a) + Len(b) : (a \o b)[k] = IF k <= Len(a) THEN a[k] ELSE b[k - Len(a)]
  BY ConcatProperties
<1>4. ASSUME NEW k \in 1..Len(a)
      PROVE  (a \o b)[k] = a[k]
  <2>1. k \in 1..Len(a) + Len(b) /\ k <= Len(a)
    BY <1>1
  <2> QED
    BY <1>3, <2>1
<1>5. ASSUME NEW k \in 1..Len(b)
      PROVE  (a \o b)[Len(a) + k] = b[k]
  <2>1. /\ Len(a) + k \in 1..Len(a) + Len(b) /\ ~(Len(a) + k <= Len(a))
        /\ (Len(a) + k) - Len(a) = k
    BY <1>1
  <2> QED
    BY <1>3, <2>1
<1> QED
  BY <1>2, <1>4, <1>5

LEMMA JoinedIs ==
  ASSUME NEW S, NEW x \in Seq(S), NEW y \in Seq(S), NEW t, t = x \o y
  PROVE  /\ t \in Seq(S) /\ Len(t) = Len(x) + Len(y)
         /\ \A k \in 1..Len(x) : t[k] = x[k]
         /\ \A k \in 1..Len(y) : t[Len(x) + k] = y[k]
BY Behind

LEMMA FirstLineIs ==
  ASSUME TypeInv, request.file # <<>>
  PROVE  FirstLine
<1> DEFINE a == request.method
           f == request.file
           m == MethodSize
           n == FileSize
           s == <<Space>> \o f
<1>1. Readable(request) /\ wire = Wire(request)
  BY ConstantsAssumption DEF TypeInv, TypeOK
<1>2. PICK rest : Rest(request, rest)
  BY <1>1, WireIs
<1>3. a \in Seq((1..255) \ (Eol \cup {Space})) /\ f \in Seq((1..255) \ (Eol \cup {Space, Question}))
  BY <1>1, FormIs DEF TextWithout
<1>4. a \in Seq(Byte255) /\ f \in Seq(Byte255) /\ <<Space>> \in Seq(Byte255) /\ Len(<<Space>>) = 1
  <2>1. a \in Seq(Byte255) /\ f \in Seq(Byte255)
    BY <1>1, ByteTexts, FormIs
  <2>2. <<Space>> \in Seq(Byte255)
    BY DEF Space, Byte255
  <2> QED
    BY <2>1, <2>2
<1>5. rest \in Seq(Byte255) /\ Len(rest) \in Nat \ {0} /\ rest[1] \in Eol \cup {Space, Question}
  BY <1>2, LenProperties, EmptySeq DEF Rest
<1>6. wire = a \o (s \o rest)
  BY <1>1, <1>2 DEF Rest
<1>7. m \in Nat /\ n \in Nat \ {0} /\ Len(a) = m /\ Len(f) = n
  BY <1>4, LenProperties, EmptySeq DEF MethodSize, FileSize
<1>8. \A k \in 1..m : a[k] \notin Eol \cup {Space}
  BY <1>3, <1>7, ElementOfSeq
<1>9. \A k \in 1..n : f[k] \notin Eol \cup {Space, Question}
  BY <1>3, <1>7, ElementOfSeq
<1> HIDE DEF a, f, m, n
<1>10. s \in Seq(Byte255) /\ Len(s) = 1 + n /\ s[1] = Space /\ \A k \in 1..n : s[1 + k] = f[k]
  <2> DEFINE o == <<Space>>
  <2>1. o \in Seq(Byte255) /\ Len(o) = 1 /\ o[1] = Space /\ s = o \o f
    BY <1>4
  <2> HIDE DEF o, s
  <2>2. /\ s \in Seq(Byte255) /\ Len(s) = Len(o) + Len(f)
        /\ \A k \in 1..Len(o) : s[k] = o[k]
        /\ \A k \in 1..Len(f) : s[Len(o) + k] = f[k]
    <3>1. o \in Seq(Byte255) /\ f \in Seq(Byte255) /\ s = o \o f
      BY <1>4, <2>1
    <3>2. s \in Seq(Byte255) /\ Len(s) = Len(o) + Len(f)
      BY <3>1, JoinedIs
    <3>3. \A k \in 1..Len(o) : s[k] = o[k]
      BY <3>1, JoinedIs
    <3>4. \A k \in 1..Len(f) : s[Len(o) + k] = f[k]
      BY <3>1, JoinedIs
    <3> QED
      BY <3>2, <3>3, <3>4
  <2>3. 1 \in 1..Len(o)
    BY <2>1
  <2> QED
    BY <1>7, <2>1, <2>2, <2>3
<1> HIDE DEF s
<1> DEFINE t == s \o rest
<1>11. /\ t \in Seq(Byte255)
       /\ \A k \in 1..1 + n : t[k] = s[k]
       /\ \A k \in 1..Len(rest) : t[1 + n + k] = rest[k]
       /\ Len(t) = 1 + n + Len(rest)
  <2>1. t = s \o rest
    OBVIOUS
  <2> HIDE DEF t
  <2>2. /\ t \in Seq(Byte255) /\ Len(t) = Len(s) + Len(rest)
        /\ \A k \in 1..Len(s) : t[k] = s[k]
        /\ \A k \in 1..Len(rest) : t[Len(s) + k] = rest[k]
    <3>1. s \in Seq(Byte255) /\ rest \in Seq(Byte255)
      BY <1>5, <1>10
    <3> QED
      BY <2>1, <3>1, Behind
  <2> QED
    BY <1>10, <2>2
<1>12. wire = a \o t
  BY <1>6
<1> HIDE DEF t
<1>13. /\ \A k \in 1..Len(a) : wire[k] = a[k]
       /\ \A k \in 1..Len(t) : wire[Len(a) + k] = t[k]
  <2>1. a \in Seq(Byte255) /\ t \in Seq(Byte255)
    BY <1>4, <1>11
  <2> QED
    BY <1>12, <2>1, Behind
<1>14. \A k \in 1..m : wire[k] = a[k]
  BY <1>7, <1>13
<1>15. \A k \in 1..1 + n + Len(rest) : wire[m + k] = t[k]
  BY <1>7, <1>11, <1>13
<1>16. wire[m + 1] = Space
  <2>1. 1 \in 1..1 + n + Len(rest) /\ 1 \in 1..1 + n
    BY <1>5, <1>7
  <2>2. t[1] = s[1]
    BY <1>11, <2>1
  <2>3. wire[m + 1] = t[1]
    BY <1>15, <2>1
  <2> QED
    BY <1>10, <2>2, <2>3
<1>17. ASSUME NEW k \in 1..n
       PROVE  wire[m + 1 + k] = f[k]
  <2>1. 1 + k \in 1..1 + n + Len(rest) /\ 1 + k \in 1..1 + n /\ m + (1 + k) = m + 1 + k
    BY <1>5, <1>7
  <2>2. wire[m + (1 + k)] = t[1 + k] /\ t[1 + k] = s[1 + k]
    BY <1>11, <1>15, <2>1
  <2> QED
    BY <1>10, <2>1, <2>2
<1>18. wire[m + 2 + n] = rest[1]
  <2>1. 1 \in 1..Len(rest) /\ 1 + n + 1 \in 1..1 + n + Len(rest) /\ m + (1 + n + 1) = m + 2 + n
    BY <1>5, <1>7
  <2>2. wire[m + (1 + n + 1)] = t[1 + n + 1] /\ t[1 + n + 1] = rest[1]
    BY <1>11, <1>15, <2>1
  <2> QED
    BY <2>1, <2>2
<1> QED
  BY <1>4, <1>5, <1>7, <1>8, <1>9, <1>14, <1>16, <1>17, <1>18 DEF FirstLine, a, f, m, n

\* A step that reads a byte of the header leaves those behind it alone.
LEMMA UnreadStep ==
  ASSUME TypeInv, UnreadIsSent, UNCHANGED <<client, length>>,
         \/ phase' # "header"
         \/ phase = "header" /\ buffer' = buffer /\ (i' = i \/ i' = i + 1)
         \/ phase = "header" /\ Terminate /\ i' = i + 1
  PROVE  UnreadIsSent'
<1>1. Sizes
  BY SizesHold
<1>2. wire' = wire /\ length' = length
  BY DEF client
<1>3. CASE phase' # "header"
  BY <1>3 DEF UnreadIsSent
<1>4. CASE phase = "header" /\ buffer' = buffer /\ (i' = i \/ i' = i + 1)
  <2>1. \A k \in i'..length' : k \in i..length
    BY <1>1, <1>2, <1>4 DEF Sizes
  <2>2. \A k \in i'..length' : buffer'[k] = wire'[k]
    BY <1>2, <1>4, <2>1 DEF UnreadIsSent
  <2> QED
    BY <2>2 DEF UnreadIsSent
<1>5. CASE phase = "header" /\ Terminate /\ i' = i + 1
  <2>1. \A k \in i'..length' : k \in i..length /\ k \in Positions /\ k # i
    BY <1>1, <1>2, <1>5 DEF Sizes
  <2>2. \A k \in i'..length' : buffer'[k] = wire'[k]
    BY <1>2, <1>5, <2>1, TerminateType DEF UnreadIsSent
  <2> QED
    BY <2>2 DEF UnreadIsSent
<1> QED
  BY <1>3, <1>4, <1>5

\* The cases of LineInv, to be shown one by one
LEMMA LineCases ==
  ASSUME NEW m, NEW n, NEW f, m = MethodSize', n = FileSize', f = request'.file,
         phase' = "header" /\ state' = 0 => i' <= m + 1,
         phase' = "header" /\ state' = 1 => i' = m + 2,
         phase' = "header" /\ state' \in {2, 11, 12} => NameSent(m, n, f)',
         syntaxError' => GoesUp(f),
         outcome' = "bad request" => length' = BufferSize \/ GoesUp(f)
  PROVE  LineInv'
BY Zenon DEF LineInv

\* A step that leaves the name, or is behind it
LEMMA LineLeft ==
  ASSUME LineInv, UNCHANGED <<client, length, syntaxError, outcome>>,
         phase' # "header" \/ state' \in 3..10
  PROVE  LineInv'
<1>1. /\ request' = request /\ length' = length /\ syntaxError' = syntaxError
      /\ outcome' = outcome
  BY DEF client
<1> SUFFICES ASSUME request.file # <<>>
             PROVE  LineInv'
  BY <1>1 DEF LineInv
<1>2. PICK m, n, f : m = MethodSize' /\ n = FileSize' /\ f = request'.file
  OBVIOUS
<1>3. syntaxError => GoesUp(f)
  BY <1>1, <1>2 DEF LineInv
<1>4. outcome = "bad request" => length = BufferSize \/ GoesUp(f)
  BY <1>1, <1>2 DEF LineInv
<1>5. syntaxError' => GoesUp(f)
  BY <1>1, <1>3
<1>6. outcome' = "bad request" => length' = BufferSize \/ GoesUp(f)
  BY <1>1, <1>4
<1>7. phase' = "header" => state' \notin {0, 1, 2, 11, 12}
  OBVIOUS
<1> QED
  BY <1>2, <1>5, <1>6, <1>7, LineCases

LEMMA LineUnread ==
  ASSUME TypeInv, UnreadIsSent, phase = "header", i <= length, request.file # <<>>
  PROVE  FirstLine /\ Sizes /\ Byte = wire[i]
<1>1. Sizes
  BY SizesHold
<1>2. i \in i..length
  BY <1>1 DEF Sizes
<1> QED
  BY <1>1, <1>2, FirstLineIs DEF UnreadIsSent, Byte

\* The line does not change: its sizes, before and after a step.
LEMMA LineFixed ==
  ASSUME TypeInv, LineInv, UNCHANGED <<client, length, outcome>>, request.file # <<>>
  PROVE  \E m \in Nat, n \in Nat \ {0}, f \in Seq(Byte255) :
           /\ m = MethodSize /\ n = FileSize /\ f = request.file
           /\ m = MethodSize' /\ n = FileSize' /\ f = request'.file
           /\ n = Len(f)
           /\ syntaxError => GoesUp(f)
           /\ outcome' = "bad request" => length' = BufferSize \/ GoesUp(f)
<1>1. request' = request /\ length' = length /\ outcome' = outcome
  BY DEF client
<1>2. FirstLine
  BY FirstLineIs
<1>3. PICK m, n, f : m = MethodSize /\ n = FileSize /\ f = request.file
  OBVIOUS
<1>4. m \in Nat /\ n \in Nat \ {0} /\ f \in Seq(Byte255) /\ n = Len(f)
  BY <1>2, <1>3 DEF FirstLine, FileSize
<1>5. m = MethodSize' /\ n = FileSize' /\ f = request'.file
  BY <1>1, <1>3 DEF MethodSize, FileSize
<1>6. syntaxError => GoesUp(f)
  BY <1>3 DEF LineInv
<1>7. outcome = "bad request" => length = BufferSize \/ GoesUp(f)
  BY <1>3 DEF LineInv
<1>8. outcome' = "bad request" => length' = BufferSize \/ GoesUp(f)
  BY <1>1, <1>7
<1> QED
  BY <1>3, <1>4, <1>5, <1>6, <1>8

LEMMA MethodLine ==
  ASSUME TypeInv, UnreadIsSent, LineInv, ReadMethod
  PROVE  LineInv'
<1>1. /\ phase = "header" /\ state = 0 /\ i <= length
      /\ UNCHANGED <<client, length, pointers, outcome>>
  BY DEF ReadMethod, At
<1> SUFFICES ASSUME request.file # <<>>
             PROVE  LineInv'
  BY <1>1 DEF LineInv, client
<1>2. FirstLine /\ Sizes /\ Byte = wire[i]
  BY <1>1, LineUnread
<1>3. PICK m \in Nat, n \in Nat \ {0}, f \in Seq(Byte255) :
           /\ m = MethodSize /\ n = FileSize /\ f = request.file
           /\ m = MethodSize' /\ n = FileSize' /\ f = request'.file
           /\ n = Len(f)
           /\ syntaxError => GoesUp(f)
           /\ outcome' = "bad request" => length' = BufferSize \/ GoesUp(f)
  BY <1>1, LineFixed
<1>4. i <= m + 1 /\ i \in Nat \ {0}
  BY <1>1, <1>2, <1>3 DEF LineInv, Sizes
<1>5. CASE i = m + 1
  <2>1. Byte = Space /\ Space \notin Eol
    <3>1. wire[m + 1] = Space
      BY <1>2, <1>3 DEF FirstLine
    <3> QED
      BY <1>2, <1>5, <3>1 DEF Space, Eol, NewLine, Return
  <2>2. Go(1)
    BY <2>1 DEF ReadMethod
  <2>3. state' = 1 /\ i' = i + 1 /\ syntaxError' = syntaxError
    BY <2>2 DEF Go
  <2>4. i' = m + 2
    BY <1>4, <1>5, <2>3
  <2>5. syntaxError' => GoesUp(f)
    BY <1>3, <2>3
  <2>6. state' # 0 /\ state' \notin {2, 11, 12}
    BY <2>3
  <2> QED
    BY <1>3, <2>4, <2>5, <2>6, LineCases
<1>6. CASE i # m + 1
  <2>1. i \in 1..m
    BY <1>4, <1>6
  <2>2. Byte \notin Eol \cup {Space}
    BY <1>2, <1>3, <2>1 DEF FirstLine
  <2>3. Go(0)
    BY <2>2 DEF ReadMethod
  <2>4. state' = 0 /\ i' = i + 1 /\ syntaxError' = syntaxError
    BY <2>3 DEF Go
  <2>5. i' <= m + 1
    BY <2>1, <2>4
  <2>6. syntaxError' => GoesUp(f)
    BY <1>3, <2>4
  <2>7. state' # 1 /\ state' \notin {2, 11, 12}
    BY <2>4
  <2> QED
    BY <1>3, <2>5, <2>6, <2>7, LineCases
<1> QED
  BY <1>5, <1>6

LEMMA SpaceLine ==
  ASSUME TypeInv, UnreadIsSent, LineInv, SkipSpace
  PROVE  LineInv'
<1>1. /\ phase = "header" /\ state = 1 /\ i <= length
      /\ UNCHANGED <<client, length, buffer, outcome>>
  BY DEF SkipSpace, At
<1> SUFFICES ASSUME request.file # <<>>
             PROVE  LineInv'
  BY <1>1 DEF LineInv, client
<1>2. FirstLine /\ Sizes /\ Byte = wire[i]
  BY <1>1, LineUnread
<1>3. PICK m \in Nat, n \in Nat \ {0}, f \in Seq(Byte255) :
           /\ m = MethodSize /\ n = FileSize /\ f = request.file
           /\ m = MethodSize' /\ n = FileSize' /\ f = request'.file
           /\ n = Len(f)
           /\ syntaxError => GoesUp(f)
           /\ outcome' = "bad request" => length' = BufferSize \/ GoesUp(f)
  BY <1>1, LineFixed
<1>4. i = m + 2
  BY <1>1, <1>3 DEF LineInv
<1>5. Byte = f[1] /\ Byte \notin Eol \cup {Space, Question}
  <2>1. 1 \in 1..n /\ m + 1 + 1 = i
    BY <1>4
  <2> QED
    BY <1>2, <1>3, <2>1 DEF FirstLine
<1>6. Go(2) /\ fileName' = i
  BY <1>5 DEF SkipSpace
<1>7. state' = 2 /\ i' = i + 1 /\ syntaxError' = syntaxError
  BY <1>6 DEF Go
<1>8. fileName' = m + 2 /\ i' <= m + 2 + n
  BY <1>4, <1>6, <1>7
<1>9. ASSUME NEW k \in m + 2..i' - 1
      PROVE  buffer'[k] = f[k - m - 1]
  <2>1. k = i /\ k - m - 1 = 1
    BY <1>4, <1>7, <1>9
  <2> QED
    BY <1>1, <1>5, <2>1 DEF Byte
<1>10. syntaxError' => GoesUp(f)
  BY <1>3, <1>7
<1>11. state' # 0 /\ state' # 1 /\ state' \notin {11, 12} /\ state' # 12
  BY <1>7
<1>12. NameSent(m, n, f)'
  BY <1>8, <1>9, <1>11 DEF NameSent
<1> QED
  BY <1>3, <1>10, <1>11, <1>12, LineCases

LEMMA NameLine ==
  ASSUME TypeInv, NameInv, UnreadIsSent, LineInv, ReadFileName
  PROVE  LineInv'
<1>1. /\ phase = "header" /\ state \in {2, 11, 12} /\ i <= length
      /\ UNCHANGED <<client, length, fileName, outcome>>
  BY DEF ReadFileName, At
<1> SUFFICES ASSUME request.file # <<>>
             PROVE  LineInv'
  BY <1>1 DEF LineInv, client
<1>2. FirstLine /\ Sizes /\ Byte = wire[i]
  BY <1>1, LineUnread
<1>3. PICK m \in Nat, n \in Nat \ {0}, f \in Seq(Byte255) :
           /\ m = MethodSize /\ n = FileSize /\ f = request.file
           /\ m = MethodSize' /\ n = FileSize' /\ f = request'.file
           /\ n = Len(f)
           /\ syntaxError => GoesUp(f)
           /\ outcome' = "bad request" => length' = BufferSize \/ GoesUp(f)
  BY <1>1, LineFixed
<1>4. /\ fileName = m + 2 /\ i <= m + 2 + n
      /\ \A k \in m + 2..i - 1 : buffer[k] = f[k - m - 1]
      /\ state \in {11, 12} => buffer[i - 1] = Dot
      /\ state = 12 => buffer[i - 2] = Dot /\ i - 2 > fileName
  <2>1. NameSent(MethodSize, FileSize, request.file)
    BY <1>1 DEF LineInv
  <2>2. NameSent(m, n, f)
    BY <1>3, <2>1
  <2> QED
    BY <2>2 DEF NameSent
<1>5. i \in Nat \ {0}
  BY <1>2 DEF Sizes
<1>6. fileName < i /\ (state \in {11, 12} => i - 1 > fileName)
  BY <1>1 DEF NameInv, InName
<1>7. CASE i = m + 2 + n
  <2>1. Byte \in Eol \cup {Space, Question}
    BY <1>2, <1>3, <1>7 DEF FirstLine
  <2>2. Byte # Dot /\ Byte # Slash
    BY <2>1 DEF Eol, NewLine, Return, Space, Question, Dot, Slash
  <2>3. Go(3) \/ Go(5) \/ EndHeader
    BY <2>1, <2>2 DEF ReadFileName
  <2>4. \/ phase' = "body" \/ phase' = "answer"
        \/ state' \in 3..10
    BY <2>3 DEF Go, EndHeader
  <2>5. syntaxError' = syntaxError
    BY <2>3 DEF Go, EndHeader
  <2> QED
    BY <1>1, <2>4, <2>5, LineLeft
<1>8. CASE i # m + 2 + n
  <2>1. i - m - 1 \in 1..n /\ m + 1 + (i - m - 1) = i /\ i <= m + 1 + n
    BY <1>4, <1>5, <1>6, <1>8
  <2>2. Byte = f[i - m - 1] /\ Byte \notin Eol \cup {Space, Question}
    <3>1. ASSUME NEW k \in 1..n
          PROVE  wire[m + 1 + k] = f[k] /\ f[k] \notin Eol \cup {Space, Question}
      BY <1>2, <1>3, <3>1 DEF FirstLine
    <3>2. PICK k \in 1..n : k = i - m - 1 /\ m + 1 + k = i
      BY <2>1
    <3>3. wire[i] = f[k] /\ f[k] \notin Eol \cup {Space, Question}
      BY <3>1, <3>2
    <3> QED
      BY <1>2, <3>2, <3>3
  <2>3. \/ Fail /\ Byte = Slash /\ state = 12
        \/ buffer' = buffer /\ Byte = Dot /\ Go(AfterDot)
        \/ buffer' = buffer /\ Go(2)
    BY <2>2 DEF ReadFileName
  <2>4. CASE Fail /\ Byte = Slash /\ state = 12
    <3> DEFINE k == i - m - 3
    <3>0. i - 2 > m + 2
      BY <1>4, <2>4
    <3>1. k \in 2..n - 2 /\ k \in 1..n - 2 /\ k + 1 = i - m - 2 /\ k + 2 = i - m - 1
      BY <1>5, <2>1, <3>0
    <3>2. f[k + 2] = Slash
      BY <2>2, <2>4, <3>1
    <3>3. i - 1 \in m + 2..i - 1 /\ i - 2 \in m + 2..i - 1
          /\ (i - 1) - m - 1 = k + 1 /\ (i - 2) - m - 1 = k
      BY <1>5, <3>0
    <3> HIDE DEF k
    <3>4. f[k + 1] = Dot /\ f[k] = Dot
      <4>1. buffer[i - 1] = f[k + 1] /\ buffer[i - 2] = f[k]
        BY <1>4, <3>3
      <4>2. buffer[i - 1] = Dot /\ buffer[i - 2] = Dot
        BY <1>4, <2>4
      <4> QED
        BY <4>1, <4>2
    <3>5. SubSeq(f, k, k + 2) = <<Dot, Dot, Slash>>
      BY <1>3, <3>1, <3>2, <3>4, TripleIs
    <3>6. GoesUp(f)
      BY <1>3, <3>1, <3>5 DEF GoesUp
    <3>7. phase' # "header"
      BY <2>4 DEF Fail
    <3> QED
      BY <1>3, <3>6, <3>7, LineCases
  <2>5. ASSUME buffer' = buffer, NEW next \in {2, 11, 12}, Go(next),
               next \in {11, 12} => Byte = Dot, next = 12 => state \in {11, 12}
        PROVE  LineInv'
    <3>1. state' = next /\ i' = i + 1 /\ syntaxError' = syntaxError
      BY <2>5 DEF Go
    <3>2. fileName' = m + 2 /\ i' <= m + 2 + n /\ i' - 1 = i /\ i' - 2 = i - 1
      <4>1. fileName' = m + 2
        BY <1>1, <1>4
      <4> QED
        BY <1>5, <2>1, <3>1, <4>1
    <3>3. ASSUME NEW k \in m + 2..i' - 1
          PROVE  buffer'[k] = f[k - m - 1]
      <4>1. CASE k = i
        BY <2>2, <2>5, <4>1 DEF Byte
      <4>2. CASE k # i
        <5>1. k \in m + 2..i - 1
          BY <1>5, <3>2, <3>3, <4>2
        <5> QED
          BY <1>4, <2>5, <5>1
      <4> QED
        BY <4>1, <4>2
    <3>4. state' \in {11, 12} => buffer'[i' - 1] = Dot
      BY <2>5, <3>1, <3>2 DEF Byte
    <3>5. state' = 12 => buffer'[i' - 2] = Dot /\ i' - 2 > fileName'
      <4> SUFFICES ASSUME state' = 12
                   PROVE  buffer'[i' - 2] = Dot /\ i' - 2 > fileName'
        OBVIOUS
      <4>1. state \in {11, 12}
        BY <2>5, <3>1
      <4>2. buffer[i - 1] = Dot /\ i - 1 > fileName /\ fileName' = fileName
        BY <1>1, <1>4, <1>6, <4>1
      <4> QED
        BY <2>5, <3>2, <4>2
    <3>6. state' # 0 /\ state' # 1
      BY <3>1
    <3>7. syntaxError' => GoesUp(f)
      BY <1>3, <3>1
    <3>8. NameSent(m, n, f)'
      BY <3>2, <3>3, <3>4, <3>5 DEF NameSent
    <3> QED
      BY <1>3, <3>6, <3>7, <3>8, LineCases
  <2>6. CASE buffer' = buffer /\ Byte = Dot /\ Go(AfterDot)
    <3>1. CASE state = 2
      <4>1. Go(11)
        BY <2>6, <3>1 DEF AfterDot
      <4> QED
        BY <2>5, <2>6, <4>1
    <3>2. CASE state # 2
      <4>1. Go(12) /\ state \in {11, 12}
        BY <1>1, <2>6, <3>2 DEF AfterDot
      <4> QED
        BY <2>5, <2>6, <4>1
    <3> QED
      BY <3>1, <3>2
  <2>7. CASE buffer' = buffer /\ Go(2)
    BY <2>5, <2>7
  <2> QED
    BY <2>3, <2>4, <2>6, <2>7
<1> QED
  BY <1>7, <1>8

\* The other steps are behind the name, or outside the header.
LEMMA OtherLines ==
  ASSUME TypeInv, NameInv, LineInv,
         \/ ReadParamName \/ ReadParamValue \/ ReadVersion \/ SkipEol
         \/ ReadFieldStart \/ ReadFieldName \/ ReadFieldValue
         \/ SkipBeforeBody \/ ReadBodyName \/ ReadBodyValue \/ EndBody
         \/ BufferFull \/ Disconnect
  PROVE  LineInv'
<1>1. EndHeader => (phase' = "body" \/ phase' = "answer") /\ syntaxError' = syntaxError
  BY DEF EndHeader
<1>2. \A next \in 3..10 : Go(next) => state' \in 3..10 /\ syntaxError' = syntaxError
  BY DEF Go
<1>3. CASE \/ ReadParamName \/ ReadParamValue \/ ReadVersion \/ SkipEol
           \/ ReadFieldStart \/ ReadFieldName \/ ReadFieldValue
  <2>1. UNCHANGED <<client, length, outcome>>
    BY <1>3 DEF ReadParamName, ReadParamValue, ReadVersion, SkipEol, ReadFieldStart,
                ReadFieldName, ReadFieldValue
  <2>2. \/ EndHeader
        \/ \E next \in 3..10 : Go(next)
        \/ state' = 8 /\ syntaxError' = syntaxError
    <3>1. ReadParamName => EndHeader \/ Go(3) \/ Go(4)
      BY DEF ReadParamName
    <3>2. ReadParamValue => EndHeader \/ Go(3) \/ Go(4) \/ Go(5)
      BY DEF ReadParamValue
    <3>3. ReadVersion => Go(5) \/ Go(6) \/ Go(7)
      BY DEF ReadVersion
    <3>4. SkipEol => state' = 8 /\ syntaxError' = syntaxError
      BY DEF SkipEol
    <3>5. ReadFieldStart => EndHeader \/ Go(9)
      BY DEF ReadFieldStart
    <3>6. ReadFieldName => Go(6) \/ Go(7) \/ Go(9) \/ Go(10)
      BY DEF ReadFieldName
    <3>7. ReadFieldValue => Go(6) \/ Go(7) \/ Go(10)
      BY DEF ReadFieldValue
    <3>8. {3, 4, 5, 6, 7, 9, 10} \subseteq 3..10
      OBVIOUS
    <3> QED
      BY <1>3, <3>1, <3>2, <3>3, <3>4, <3>5, <3>6, <3>7, <3>8
  <2>3. (phase' # "header" \/ state' \in 3..10) /\ syntaxError' = syntaxError
    BY <1>1, <1>2, <2>2
  <2> QED
    BY <2>1, <2>3, LineLeft
<1>4. CASE \/ SkipBeforeBody \/ ReadBodyName \/ ReadBodyValue \/ EndBody
           \/ BufferFull
  <2>1. UNCHANGED <<client, length, syntaxError, outcome>>
    BY <1>4 DEF SkipBeforeBody, ReadBodyName, ReadBodyValue, EndBody, BufferFull
  <2>2. phase' # "header"
    BY <1>4 DEF SkipBeforeBody, ReadBodyName, ReadBodyValue, EndBody, BufferFull, InBody
  <2> QED
    BY <2>1, <2>2, LineLeft
<1>5. CASE Disconnect
  <2>1. UNCHANGED <<client, length, syntaxError>>
    BY <1>5 DEF Disconnect
  <2>2. phase' # "header" /\ (outcome' = "dropped" \/ outcome' = outcome)
    BY <1>5 DEF Disconnect
  <2>3. CASE outcome' = outcome
    BY <2>1, <2>2, <2>3, LineLeft
  <2>4. CASE outcome' = "dropped"
    <3>1. request' = request
      BY <2>1 DEF client
    <3> SUFFICES ASSUME request.file # <<>>
                 PROVE  LineInv'
      BY <3>1 DEF LineInv
    <3>2. syntaxError' => GoesUp(request'.file)
      BY <2>1, <3>1 DEF LineInv
    <3>3. outcome' # "bad request"
      BY <2>4
    <3> QED
      BY <2>2, <3>2, <3>3, LineCases
  <2> QED
    BY <2>2, <2>3, <2>4
<1> QED
  BY <1>3, <1>4, <1>5

\* A request is refused for one of three things.
LEMMA AnswerLine ==
  ASSUME TypeInv, NameInv, LineInv, Answer
  PROVE  LineInv'
<1>1. phase = "answer" /\ phase' = "done" /\ UNCHANGED <<client, length, syntaxError>>
  BY DEF Answer
<1>2. request' = request /\ length' = length /\ syntaxError' = syntaxError
  BY <1>1 DEF client
<1> SUFFICES ASSUME request.file # <<>>
             PROVE  LineInv'
  BY <1>2 DEF LineInv
<1>3. syntaxError => GoesUp(request.file)
  BY DEF LineInv
<1>4. syntaxError' => GoesUp(request'.file)
  BY <1>2, <1>3
<1>5. outcome' = "bad request" => length = BufferSize \/ syntaxError \/ fileName = NULL
  BY DEF Answer
<1>6. \/ syntaxError \/ length = BufferSize
      \/ fileName # NULL
  BY <1>1 DEF NameInv, Ended
<1>7. outcome' = "bad request" => length' = BufferSize \/ GoesUp(request'.file)
  BY <1>2, <1>3, <1>5, <1>6
<1>8. phase' # "header"
  BY <1>1
<1> QED
  BY <1>4, <1>7, <1>8, LineCases

LEMMA ReceiveLine ==
  ASSUME TypeInv, NameInv, UnreadIsSent, LineInv, Receive
  PROVE  UnreadIsSent' /\ LineInv'
<1>1. Sizes
  BY SizesHold
<1>2. PICK d \in Nat \ {0} :
        /\ length' = length + d
        /\ buffer' = [k \in Positions |-> IF length < k /\ k <= length + d THEN wire[k] ELSE buffer[k]]
        /\ length + d <= BufferSize
  BY ReceiveIs
<1>3. /\ UNCHANGED <<client, phase, state, i, syntaxError, fileName, outcome>>
      /\ i > length /\ length < BufferSize
      /\ phase = "header" \/ phase = "body"
  BY DEF Receive, Reading, pointers
<1>4. i = length + 1 /\ outcome' = "none" /\ wire' = wire /\ request' = request
  <2>1. i = length + 1 /\ wire' = wire /\ request' = request
    BY <1>1, <1>3 DEF Sizes, client
  <2>2. outcome = "none"
    BY <1>3 DEF NameInv
  <2> QED
    BY <1>3, <2>1, <2>2
<1>5. \A k \in Positions : k <= length => buffer'[k] = buffer[k]
  BY <1>1, <1>2 DEF Sizes
<1>6. UnreadIsSent'
  <2>1. ASSUME NEW k \in i'..length'
        PROVE  buffer'[k] = wire'[k]
    <3>1. k \in Positions /\ length < k /\ k <= length + d
      BY <1>1, <1>2, <1>3, <1>4 DEF Sizes
    <3> QED
      BY <1>2, <1>4, <3>1
  <2> QED
    BY <2>1 DEF UnreadIsSent
<1>7. LineInv'
  <2> SUFFICES ASSUME request.file # <<>>
               PROVE  LineInv'
    BY <1>4 DEF LineInv
  <2>1. FirstLine
    BY FirstLineIs
  <2>2. PICK m, n, f : m = MethodSize /\ n = FileSize /\ f = request.file
    OBVIOUS
  <2>3. m \in Nat /\ n \in Nat \ {0}
    BY <2>1, <2>2 DEF FirstLine
  <2>4. m = MethodSize' /\ n = FileSize' /\ f = request'.file
    BY <1>4, <2>2 DEF MethodSize, FileSize
  <2>5. syntaxError' => GoesUp(f)
    <3>1. syntaxError => GoesUp(f)
      BY <2>2 DEF LineInv
    <3> QED
      BY <1>3, <3>1
  <2>6. outcome' # "bad request"
    BY <1>4
  <2>7. phase' = "header" /\ state' = 0 => i' <= m + 1
    BY <1>3, <2>2 DEF LineInv
  <2>8. phase' = "header" /\ state' = 1 => i' = m + 2
    BY <1>3, <2>2 DEF LineInv
  <2>9. ASSUME phase' = "header" /\ state' \in {2, 11, 12}
        PROVE  NameSent(m, n, f)'
    <3>1. NameSent(m, n, f)
      BY <1>3, <2>2, <2>9 DEF LineInv
    <3>2. /\ fileName = m + 2 /\ i <= m + 2 + n
          /\ \A k \in m + 2..i - 1 : buffer[k] = f[k - m - 1]
          /\ state \in {11, 12} => buffer[i - 1] = Dot
          /\ state = 12 => buffer[i - 2] = Dot /\ i - 2 > fileName
      BY <3>1 DEF NameSent
    <3>3. fileName < i /\ (state \in {11, 12} => i - 1 > fileName) /\ fileName = m + 2
      BY <1>3, <2>9, <3>2 DEF NameInv, InName
    <3>4. ASSUME NEW k \in m + 2..i - 1
          PROVE  buffer'[k] = buffer[k]
      <4>1. k \in Positions /\ k <= length
        BY <1>1, <1>4, <2>3 DEF Sizes
      <4> QED
        BY <1>5, <4>1
    <3>5. ASSUME state \in {11, 12}
          PROVE  buffer'[i - 1] = Dot
      <4>1. i - 1 \in m + 2..i - 1
        BY <1>1, <2>3, <3>3 DEF Sizes
      <4> QED
        BY <3>2, <3>4, <3>5, <4>1
    <3>6. ASSUME state = 12
          PROVE  buffer'[i - 2] = Dot /\ i - 2 > fileName
      <4>1. i - 2 \in m + 2..i - 1
        BY <1>1, <2>3, <3>2, <3>3, <3>6 DEF Sizes
      <4> QED
        BY <3>2, <3>4, <3>6, <4>1
    <3>7. \A k \in m + 2..i' - 1 : buffer'[k] = f[k - m - 1]
      BY <1>3, <3>2, <3>4
    <3>8. fileName' = m + 2 /\ i' <= m + 2 + n
      BY <1>3, <3>2
    <3> QED
      BY <1>3, <3>5, <3>6, <3>7, <3>8 DEF NameSent
  <2>10. outcome' = "bad request" => length' = BufferSize \/ GoesUp(f)
    BY <2>6
  <2> QED
    BY <2>4, <2>5, <2>7, <2>8, <2>9, <2>10, LineCases
<1> QED
  BY <1>6, <1>7

LEMMA UnreadSteps ==
  ASSUME TypeInv, UnreadIsSent, Parse \/ Disconnect
  PROVE  UnreadIsSent'
<1>1. \A next : Go(next) => i' = i + 1
  BY DEF Go
<1>2. EndHeader => phase' # "header"
  BY DEF EndHeader
<1>3. Fail => phase' # "header"
  BY DEF Fail
<1>4. CASE \/ ReadMethod \/ SkipSpace \/ ReadFileName \/ ReadParamName \/ ReadParamValue
           \/ ReadVersion \/ SkipEol \/ ReadFieldStart \/ ReadFieldName \/ ReadFieldValue
  <2>1. phase = "header" /\ UNCHANGED <<client, length>>
    BY <1>4 DEF ReadMethod, SkipSpace, ReadFileName, ReadParamName, ReadParamValue, ReadVersion,
                SkipEol, ReadFieldStart, ReadFieldName, ReadFieldValue, At
  <2>2. \/ EndHeader \/ Fail
        \/ Terminate /\ \E next \in 0..12 : Go(next)
        \/ buffer' = buffer /\ \E next \in 0..12 : Go(next)
        \/ buffer' = buffer /\ (i' = i \/ i' = i + 1)
    <3>1. ReadMethod => Fail \/ (Terminate /\ Go(1)) \/ (buffer' = buffer /\ Go(0))
      BY DEF ReadMethod
    <3>2. SkipSpace => Fail \/ (buffer' = buffer /\ (Go(1) \/ Go(2)))
      BY DEF SkipSpace
    <3>3. ReadFileName => \/ EndHeader \/ Fail
                          \/ Terminate /\ (Go(3) \/ Go(5))
                          \/ buffer' = buffer /\ (Go(2) \/ Go(11) \/ Go(12))
      BY DEF ReadFileName, AfterDot
    <3>4. ReadParamName => EndHeader \/ (Terminate /\ Go(4)) \/ (buffer' = buffer /\ Go(3))
      BY DEF ReadParamName
    <3>5. ReadParamValue => \/ EndHeader
                            \/ Terminate /\ (Go(3) \/ Go(5))
                            \/ buffer' = buffer /\ Go(4)
      BY DEF ReadParamValue
    <3>6. ReadVersion => buffer' = buffer /\ (Go(5) \/ Go(6) \/ Go(7))
      BY DEF ReadVersion
    <3>7. SkipEol => buffer' = buffer /\ (i' = i \/ i' = i + 1)
      BY DEF SkipEol
    <3>8. ReadFieldStart => EndHeader \/ (buffer' = buffer /\ Go(9))
      BY DEF ReadFieldStart
    <3>9. ReadFieldName => \/ Terminate /\ (Go(10) \/ Go(6) \/ Go(7))
                           \/ buffer' = buffer /\ Go(9)
      BY DEF ReadFieldName
    <3>10. ReadFieldValue => \/ Terminate /\ (Go(6) \/ Go(7))
                             \/ buffer' = buffer /\ Go(10)
      BY DEF ReadFieldValue
    <3> DEFINE Went == \E next \in 0..12 : Go(next)
    <3>11. /\ Go(0) => Went
           /\ Go(1) => Went
           /\ Go(2) => Went
           /\ Go(3) => Went
           /\ Go(4) => Went
           /\ Go(5) => Went
           /\ Go(6) => Went
           /\ Go(7) => Went
           /\ Go(9) => Went
           /\ Go(10) => Went
           /\ Go(11) => Went
           /\ Go(12) => Went
      OBVIOUS
    <3> HIDE DEF Went
    <3>12. \/ EndHeader \/ Fail
           \/ Terminate /\ Went
           \/ buffer' = buffer /\ Went
           \/ buffer' = buffer /\ (i' = i \/ i' = i + 1)
      BY <1>4, <3>1, <3>2, <3>3, <3>4, <3>5, <3>6, <3>7, <3>8, <3>9, <3>10, <3>11
    <3> QED
      BY <3>12 DEF Went
  <2>3. \/ phase' # "header"
        \/ buffer' = buffer /\ (i' = i \/ i' = i + 1)
        \/ Terminate /\ i' = i + 1
    BY <1>1, <1>2, <1>3, <2>2
  <2> QED
    BY <2>1, <2>3, UnreadStep
<1>5. CASE SkipBeforeBody \/ ReadBodyName \/ ReadBodyValue \/ EndBody \/ BufferFull \/ Answer \/ Disconnect
  <2>1. phase' # "header" /\ UNCHANGED <<client, length>>
    BY <1>5 DEF SkipBeforeBody, ReadBodyName, ReadBodyValue, EndBody, BufferFull, Answer,
                Disconnect, InBody
  <2> QED
    BY <2>1, UnreadStep
<1> QED
  BY <1>4, <1>5 DEF Parse

LEMMA SentInit == Init => SentInv
<1> SUFFICES ASSUME Init PROVE SentInv
  OBVIOUS
<1>1. TypeInv /\ NameInv
  BY TypeInit, NameInit
<1>2. phase = "header" /\ state = 0 /\ i = 1 /\ length = 0 /\ syntaxError = FALSE /\ outcome = "none"
  BY DEF Init
<1>3. UnreadIsSent
  BY <1>2 DEF UnreadIsSent
<1>4. LineInv
  <2> SUFFICES ASSUME request.file # <<>>
               PROVE  LineInv
    BY DEF LineInv
  <2>1. MethodSize \in Nat
    BY <1>1, FirstLineIs DEF FirstLine
  <2>2. i <= MethodSize + 1
    BY <1>2, <2>1
  <2> QED
    BY <1>2, <2>2 DEF LineInv
<1> QED
  BY <1>1, <1>3, <1>4 DEF SentInv

LEMMA SentStep == TypeInv /\ SentInv /\ [Next]_vars => SentInv'
<1> SUFFICES ASSUME TypeInv, SentInv, [Next]_vars PROVE SentInv'
  OBVIOUS
<1>1. NameInv /\ UnreadIsSent /\ LineInv
  BY DEF SentInv
<1>2. NameInv'
  BY <1>1, NameStep
<1>3. CASE Receive
  BY <1>1, <1>2, <1>3, ReceiveLine DEF SentInv
<1>4. CASE Parse \/ Disconnect
  <2>1. UnreadIsSent'
    BY <1>1, <1>4, UnreadSteps
  <2>2. \/ ReadMethod \/ SkipSpace \/ ReadFileName \/ Answer
        \/ ReadParamName \/ ReadParamValue \/ ReadVersion \/ SkipEol
        \/ ReadFieldStart \/ ReadFieldName \/ ReadFieldValue
        \/ SkipBeforeBody \/ ReadBodyName \/ ReadBodyValue \/ EndBody
        \/ BufferFull \/ Disconnect
    BY <1>4 DEF Parse
  <2>3. LineInv'
    BY <1>1, <2>2, MethodLine, SpaceLine, NameLine, AnswerLine, OtherLines
  <2> QED
    BY <1>2, <2>1, <2>3 DEF SentInv
<1>5. CASE UNCHANGED vars
  <2>1. /\ request' = request /\ wire' = wire /\ buffer' = buffer /\ length' = length
        /\ phase' = phase /\ state' = state /\ i' = i /\ syntaxError' = syntaxError
        /\ fileName' = fileName /\ outcome' = outcome
    BY <1>5 DEF vars
  <2>2. UnreadIsSent'
    BY <1>1, <2>1 DEF UnreadIsSent
  <2>3. MethodSize' = MethodSize /\ FileSize' = FileSize
    BY <2>1 DEF MethodSize, FileSize
  <2>4. \A m, n, f : NameSent(m, n, f)' <=> NameSent(m, n, f)
    BY <2>1 DEF NameSent
  <2>5. LineInv'
    BY <1>1, <2>1, <2>3, <2>4 DEF LineInv
  <2> QED
    BY <1>2, <2>2, <2>5 DEF SentInv
<1> QED
  BY <1>3, <1>4, <1>5 DEF Next

\* A file name that is accepted never leads up from the directory of the

\* server, and no request is refused but one with such a name, one without a
\* name, and one that fills the buffer; for all requests and any cut of read().
THEOREM OnlyUpwardRefused == Spec => []OnlyUpwardPathsRefused
<1>1. TypeInv /\ SentInv => OnlyUpwardPathsRefused
  <2> SUFFICES ASSUME TypeInv, SentInv PROVE OnlyUpwardPathsRefused
    OBVIOUS
  <2>1. NameInv /\ LineInv
    BY DEF SentInv
  <2>2. Accepted => ~GoesUp(Text(fileName))
    BY <2>1, AcceptedName
  <2>3. ASSUME outcome = "bad request"
        PROVE  \/ Len(wire) >= BufferSize
               \/ GoesUp(request.file) \/ request.file = <<>>
    <3>1. request.file # <<>> => length = BufferSize \/ GoesUp(request.file)
      BY <2>1, <2>3 DEF LineInv
    <3>2. length = BufferSize => Len(wire) >= BufferSize
      BY SizesHold DEF Sizes, TypeInv
    <3> QED
      BY <3>1, <3>2
  <2> QED
    BY <2>2, <2>3 DEF OnlyUpwardPathsRefused
<1> QED
  BY <1>1, TypeInit, TypeStep, SentInit, SentStep, PTL DEF Spec

\* ... and if it keeps to the protocol
LEMMA WordsAre ==
  ASSUME NEW r, WellFormed(r)
  PROVE  /\ Readable(r)
         /\ r.eol \in {<<NewLine>>, <<Return, NewLine>>}
         /\ r.method \in TextWithout(Eol)
         /\ r.file # <<>> => r.method \in TextWithout(Eol \cup {Space})
         /\ r.file \in TextWithout(Eol \cup {Space, Question})
         /\ r.version \in TextWithout(Eol)
         /\ r.params \in Lists /\ r.fields \in Lists /\ r.body \in Lists
BY FormIs DEF WellFormed

LEMMA FlattenPlaces ==
  ASSUME NEW S, NEW seqs \in Seq(Seq(S))
  PROVE  \E g : Places(g, seqs, FlattenSeq(seqs))
<1> DEFINE N == Len(seqs)
           w == FlattenSeq(seqs)
<1>1. N \in Nat /\ \A k \in 1..N : seqs[k] \in Seq(S) /\ Len(seqs[k]) \in Nat
  BY ElementOfSeq, LenProperties
<1>2. PICK f : Flattens(f, S, seqs) /\ w = f[N]
  BY FlattenUnfolds
<1>3. /\ \A k \in 0..N : f[k] \in Seq(S) /\ Len(f[k]) \in Nat
      /\ f[0] = <<>> /\ \A k \in 1..N : f[k] = f[k - 1] \o seqs[k]
  BY <1>2, LenProperties DEF Flattens
<1> DEFINE g == [k \in 0..N |-> Len(f[k])]
<1> HIDE DEF w, N
<1>4. ASSUME NEW k \in 1..N
      PROVE  /\ Len(f[k]) = Len(f[k - 1]) + Len(seqs[k])
             /\ \A j \in 1..Len(f[k - 1]) : f[k][j] = f[k - 1][j]
             /\ \A j \in 1..Len(seqs[k]) : f[k][Len(f[k - 1]) + j] = seqs[k][j]
  <2> DEFINE a == f[k - 1]
             b == seqs[k]
  <2>1. k - 1 \in 0..N
    BY <1>1
  <2>2. a \in Seq(S) /\ b \in Seq(S) /\ f[k] = a \o b
    BY <1>1, <1>3, <2>1
  <2> HIDE DEF a, b
  <2>3. /\ Len(a \o b) = Len(a) + Len(b)
        /\ \A j \in 1..Len(a) : (a \o b)[j] = a[j]
        /\ \A j \in 1..Len(b) : (a \o b)[Len(a) + j] = b[j]
    BY <2>2, Behind
  <2> QED
    BY <2>2, <2>3 DEF a, b
<1>5. \A k \in 0..N : f[k] \in Seq(S) /\ Len(f[k]) \in Nat
  BY <1>3
\* From k on, what is in f[k] stays.
<1> DEFINE Stay(n) == \A k \in 0..N : k <= n => /\ Len(f[k]) <= Len(f[n])
                                               /\ \A j \in 1..Len(f[k]) : f[n][j] = f[k][j]
           T == {n \in 0..N : Stay(n)}
<1>6. 0 \in T
  <2>1. ASSUME NEW k \in 0..N, k <= 0
        PROVE  k = 0
    BY <2>1
  <2> QED
    BY <1>1, <1>5, <2>1
<1>7. ASSUME NEW n \in 1..N, n - 1 \in T
      PROVE  n \in T
  <2>1. Stay(n - 1) /\ n - 1 \in 0..N /\ n \in 0..N
    BY <1>1, <1>7
  <2>2. ASSUME NEW k \in 0..N, k <= n
        PROVE  Len(f[k]) <= Len(f[n]) /\ \A j \in 1..Len(f[k]) : f[n][j] = f[k][j]
    <3>1. CASE k = n
      BY <1>5, <2>1, <3>1
    <3>2. CASE k # n
      <4>1. k <= n - 1
        BY <1>1, <2>2, <3>2
      <4>2. Len(f[k]) <= Len(f[n - 1]) /\ \A j \in 1..Len(f[k]) : f[n - 1][j] = f[k][j]
        BY <2>1, <4>1
      <4>3. Len(f[k]) \in Nat /\ Len(f[n - 1]) \in Nat /\ Len(seqs[n]) \in Nat
        BY <1>1, <1>5, <2>1
      <4>4. Len(f[n]) = Len(f[n - 1]) + Len(seqs[n])
        BY <1>4
      <4>5. ASSUME NEW j \in 1..Len(f[k])
            PROVE  f[n][j] = f[k][j]
        <5>1. j \in 1..Len(f[n - 1])
          BY <4>2, <4>3
        <5>2. f[n][j] = f[n - 1][j]
          BY <1>4, <5>1
        <5> QED
          BY <4>2, <5>2
      <4>6. Len(f[k]) <= Len(f[n])
        <5> DEFINE x == Len(f[n - 1])
                   y == Len(seqs[n])
                   z == Len(f[k])
        <5>1. z \in Nat /\ x \in Nat /\ y \in Nat /\ z <= x /\ Len(f[n]) = x + y
          BY <4>2, <4>3, <4>4
        <5> HIDE DEF x, y, z
        <5>2. z <= Len(f[n])
          BY <5>1
        <5> QED
          BY <5>2 DEF z
      <4> QED
        BY <4>5, <4>6
    <3> QED
      BY <3>1, <3>2
  <2> QED
    BY <2>1, <2>2
<1>8. N \in T
  <2> HIDE DEF T
  <2> QED
    BY <1>1, <1>6, <1>7, UpTo
<1>9. Stay(N)
  BY <1>8
<1>10. ASSUME NEW k \in 1..N
       PROVE  /\ g[k] = g[k - 1] + Len(seqs[k]) /\ g[k] <= Len(w)
              /\ \A j \in 1..Len(seqs[k]) : w[g[k - 1] + j] = seqs[k][j]
  <2>1. k \in 0..N /\ k - 1 \in 0..N /\ k <= N
    BY <1>1
  <2>2. g[k] = Len(f[k]) /\ g[k - 1] = Len(f[k - 1])
    BY <2>1
  <2>3. Len(f[k]) <= Len(w) /\ \A j \in 1..Len(f[k]) : w[j] = f[k][j]
    BY <1>2, <1>9, <2>1
  <2>4. ASSUME NEW j \in 1..Len(seqs[k])
        PROVE  w[g[k - 1] + j] = seqs[k][j]
    <3> DEFINE x == Len(f[k - 1])
               y == Len(seqs[k])
               z == Len(f[k])
    <3>1. x \in Nat /\ y \in Nat /\ z = x + y /\ j \in 1..y
      BY <1>1, <1>4, <1>5, <2>1
    <3> HIDE DEF x, y, z
    <3>2. x + j \in 1..z
      BY <3>1
    <3>3. Len(f[k - 1]) + j \in 1..Len(f[k])
      BY <3>2 DEF x, z
    <3> QED
      BY <1>4, <2>2, <2>3, <3>3
  <2> QED
    BY <1>4, <2>2, <2>3, <2>4
<1>11. g \in [0..N -> Nat] /\ g[0] = 0 /\ g[N] = Len(w)
  <2>1. 0 \in 0..N /\ N \in 0..N
    BY <1>1
  <2>2. Len(f[0]) = 0
    BY <1>3, EmptySeq
  <2> QED
    BY <1>2, <1>5, <2>1, <2>2
<1> HIDE DEF g
<1>12. Places(g, seqs, w)
  <2>1. Len(seqs) = N
    BY DEF N
  <2> HIDE DEF N, w
  <2> QED
    BY <1>10, <1>11, <2>1, Zenon DEF Places
<1> QED
  BY <1>12 DEF w

LEMMA HexTabs ==
  ASSUME NEW n \in 0..15
  PROVE  /\ HexTab(n) \in Digits \cup (65..70) /\ HexTab(n) \in HexDigits
         /\ HexValue(HexTab(n)) = n
BY DEF HexTab, HexValue, HexDigits, Digits

LEMMA PercentCodes ==
  ASSUME NEW text \in Seq(Byte255), NEW safe
  PROVE  \E seqs \in Seq(Seq(Byte255)) :
           /\ PercentEncoded(text, safe) = FlattenSeq(seqs) /\ Len(seqs) = Len(text)
           /\ \A k \in 1..Len(text) : seqs[k] = Code(text[k], safe)
<1> DEFINE N == Len(text)
           f == [k \in 1..N |-> Code(text[k], safe)]
<1>1. N \in Nat /\ DOMAIN text = 1..N /\ \A k \in 1..N : text[k] \in Byte255
  BY LenProperties, ElementOfSeq
<1>2. ASSUME NEW b \in Byte255
      PROVE  Code(b, safe) \in Seq(Byte255)
  <2>1. b \div 16 \in 0..15 /\ b % 16 \in 0..15
    BY DEF Byte255
  <2>2. \A n \in 0..15 : HexTab(n) \in Byte255
    BY DEF HexTab, Byte255
  <2>3. Percent \in Byte255
    BY DEF Percent, Byte255
  <2>4. <<b>> \in Seq(Byte255) /\ <<Percent, HexTab(b \div 16), HexTab(b % 16)>> \in Seq(Byte255)
    BY <2>1, <2>2, <2>3
  <2> QED
    BY <2>4 DEF Code
<1>3. f \in [1..N -> Seq(Byte255)]
  BY <1>1, <1>2
<1>4. PercentEncoded(text, safe) = FlattenSeq(f)
  BY <1>1 DEF PercentEncoded, Code
<1>5. \A k \in 1..N : f[k] = Code(text[k], safe)
  OBVIOUS
<1> HIDE DEF f
<1>6. f \in Seq(Seq(Byte255)) /\ Len(f) = N
  BY <1>1, <1>3, FunctionIsSeq
<1> QED
  BY <1>4, <1>5, <1>6

LEMMA PercentEncodes ==
  ASSUME NEW text \in Seq(Byte255), NEW safe, NEW space,
         Percent \notin safe,
         \A k \in 1..Len(text) : text[k] = Plus /\ Plus \in safe => space = Plus
  PROVE  \E g : Encodes(g, PercentEncoded(text, safe), text, space)
<1> DEFINE N == Len(text)
           w == PercentEncoded(text, safe)
<1>1. N \in Nat /\ \A k \in 1..N : text[k] \in Byte255
  BY LenProperties, ElementOfSeq
<1>2. PICK seqs \in Seq(Seq(Byte255)) :
         /\ w = FlattenSeq(seqs) /\ Len(seqs) = N
         /\ \A k \in 1..N : seqs[k] = Code(text[k], safe)
  BY PercentCodes
<1>3. PICK g : Places(g, seqs, w)
  BY <1>2, FlattenPlaces
<1> HIDE DEF w, N
<1>4. /\ g \in [0..N -> Nat] /\ g[0] = 0 /\ g[N] = Len(w)
      /\ \A k \in 1..N : /\ g[k] = g[k - 1] + Len(seqs[k]) /\ g[k] <= Len(w)
                         /\ \A j \in 1..Len(seqs[k]) : w[g[k - 1] + j] = seqs[k][j]
  BY <1>2, <1>3 DEF Places
<1>5. w \in Seq(Byte255) /\ Len(w) \in Nat
  BY PercentEncodedType, LenProperties DEF w
<1>6. ASSUME NEW k \in 1..N
      PROVE  Coded(w, g[k - 1], g[k], text[k], space)
  <2> DEFINE c == text[k]
             p == g[k - 1]
             q == g[k]
  <2>1. c \in Byte255 /\ p \in Nat /\ q \in Nat
    BY <1>1, <1>4
  <2>2. c = Plus /\ Plus \in safe => space = Plus
    BY DEF N
  <2>3. q = p + Len(seqs[k]) /\ \A j \in 1..Len(seqs[k]) : w[p + j] = seqs[k][j]
    BY <1>4
  <2>4. q <= Len(w) /\ seqs[k] = Code(c, safe)
    BY <1>2, <1>4
  <2> HIDE DEF c, p, q
  <2>5. CASE c \in safe
    <3>1. seqs[k] = <<c>>
      BY <2>4, <2>5 DEF Code
    <3>2. q = p + 1 /\ w[p + 1] = c
      BY <2>3, <3>1
    <3>3. c # Percent
      BY <2>5
    <3>4. (IF w[q] = Plus THEN space ELSE w[q]) = c
      BY <2>2, <2>5, <3>2
    <3> QED
      BY <3>2, <3>3, <3>4 DEF Coded, c, p, q
  <2>6. CASE c \notin safe
    <3> DEFINE x == HexTab(c \div 16)
               y == HexTab(c % 16)
    <3>1. c \div 16 \in 0..15 /\ c % 16 \in 0..15 /\ c = 16 * (c \div 16) + (c % 16)
      BY <2>1 DEF Byte255
    <3>2. x \in HexDigits /\ y \in HexDigits /\ 16 * HexValue(x) + HexValue(y) = c
      BY <3>1, HexTabs
    <3>3. seqs[k] = <<Percent, x, y>>
      BY <2>4, <2>6 DEF Code
    <3> HIDE DEF x, y
    <3>4. q = p + 3 /\ w[p + 1] = Percent /\ w[p + 2] = x /\ w[p + 3] = y
      BY <2>3, <3>3
    <3>5. (p + 1) + 1 = p + 2 /\ (p + 1) + 2 = p + 3
      BY <2>1
    <3>6. IsEscape(w, p + 1)
      BY <2>4, <3>2, <3>4, <3>5 DEF IsEscape
    <3>7. ByteAt(w, p + 1) = c
      BY <3>2, <3>4, <3>5 DEF ByteAt
    <3> QED
      BY <3>4, <3>6, <3>7 DEF Coded, c, p, q
  <2> QED
    BY <2>5, <2>6
<1>7. Encodes(g, w, text, space)
  BY <1>4, <1>6 DEF Encodes, N
<1> QED
  BY <1>7 DEF w

LEMMA RoundTrip ==
  ASSUME NEW text \in Seq(Byte255), NEW w \in Seq(Byte255), NEW space,
         NEW g, Encodes(g, w, text, space),
         NEW f, Decodes(f, w, space)
  PROVE  f[1] = text
<1> DEFINE N == Len(text)
           M == Len(w)
           Solved(n) == /\ Len(f[g[N - n] + 1]) = n
                        /\ \A j \in 1..n : f[g[N - n] + 1][j] = text[N - n + j]
           T == {n \in 0..N : Solved(n)}
<1>1. N \in Nat /\ M \in Nat /\ \A k \in 1..N : text[k] \in Byte255
  BY LenProperties, ElementOfSeq
<1>2. /\ g \in [0..N -> Nat] /\ g[0] = 0 /\ g[N] = M
      /\ \A k \in 1..N : g[k] <= M /\ Coded(w, g[k - 1], g[k], text[k], space)
  BY DEF Encodes
<1>3. \A k \in 1..M + 1 : f[k] \in Seq(Byte255) /\ f[k] = Step(w, space, f, k)
  BY DEF Decodes
<1>4. 0 \in T
  <2>1. N - 0 = N /\ g[N] + 1 = M + 1 /\ M + 1 \in 1..M + 1 /\ M + 1 > M /\ 0 \in 0..N
    BY <1>1, <1>2
  <2>2. f[M + 1] = <<>>
    BY <1>3, <2>1 DEF Step
  <2>3. Len(f[g[N - 0] + 1]) = 0
    BY <2>1, <2>2
  <2> QED
    BY <2>1, <2>3
<1>5. ASSUME NEW n \in 1..N, n - 1 \in T
      PROVE  n \in T
  <2> DEFINE k == N + 1 - n
             p == g[k - 1]
             q == g[k]
             s == f[q + 1]
             c == text[k]
  <2>1. k \in 1..N /\ k - 1 \in 0..N /\ N - n = k - 1 /\ N - (n - 1) = k /\ n \in 0..N
    BY <1>1
  <2>2. Len(s) = n - 1 /\ \A j \in 1..n - 1 : s[j] = text[k + j]
    BY <1>5, <2>1
  <2>3. p \in Nat /\ q \in Nat /\ q <= M /\ Coded(w, p, q, c, space) /\ c \in Byte255
    BY <1>1, <1>2, <2>1
  <2>4. s \in Seq(Byte255)
    <3>1. q + 1 \in 1..M + 1
      BY <1>1, <2>3
    <3> QED
      BY <1>3, <3>1
  <2> HIDE DEF p, q, s, c
  <2>5. p < q
    BY <2>3 DEF Coded
  <2>6. p + 1 \in 1..M + 1 /\ ~(p + 1 > M) /\ f[p + 1] = Step(w, space, f, p + 1)
    <3>1. p + 1 \in 1..M + 1 /\ ~(p + 1 > M)
      BY <1>1, <2>3, <2>5
    <3> QED
      BY <1>3, <3>1
  <2>7. f[p + 1] = <<c>> \o s
    <3>1. CASE q = p + 1 /\ w[q] # Percent /\ (IF w[q] = Plus THEN space ELSE w[q]) = c
      <4>1. p + 1 + 1 = q + 1 /\ w[p + 1] = w[q]
        BY <2>3, <3>1
      <4>2. f[p + 1] = <<IF w[p + 1] = Plus THEN space ELSE w[p + 1]>> \o f[p + 1 + 1]
        BY <2>6, <3>1, <4>1 DEF Step
      <4> QED
        BY <3>1, <4>1, <4>2 DEF s
    <3>2. CASE /\ q = p + 3 /\ w[p + 1] = Percent
               /\ IsEscape(w, p + 1) /\ ByteAt(w, p + 1) = c
      <4>1. p + 1 + 3 = q + 1
        BY <2>3, <3>2
      <4>2. f[p + 1] = <<ByteAt(w, p + 1)>> \o f[p + 1 + 3]
        BY <2>6, <3>2 DEF Step
      <4> QED
        BY <3>2, <4>1, <4>2 DEF s
    <3> QED
      BY <2>3, <3>1, <3>2 DEF Coded
  <2> DEFINE o == <<c>>
             t == o \o s
  <2>8. o \in Seq(Byte255) /\ Len(o) = 1 /\ o[1] = c /\ t = o \o s
    BY <2>3
  <2> HIDE DEF o, t
  <2>9. /\ Len(t) = Len(o) + Len(s)
        /\ \A j \in 1..Len(o) : t[j] = o[j]
        /\ \A j \in 1..Len(s) : t[Len(o) + j] = s[j]
    <3>1. o \in Seq(Byte255) /\ s \in Seq(Byte255)
      BY <2>4, <2>8
    <3>2. /\ Len(o \o s) = Len(o) + Len(s)
          /\ \A j \in 1..Len(o) : (o \o s)[j] = o[j]
          /\ \A j \in 1..Len(s) : (o \o s)[Len(o) + j] = s[j]
      BY <3>1, Behind
    <3> QED
      BY <2>8, <3>2
  <2>10. Len(t) = n
    BY <2>2, <2>8, <2>9
  <2>11. ASSUME NEW j \in 1..n
         PROVE  t[j] = text[k - 1 + j]
    <3>1. CASE j = 1
      <4>1. 1 \in 1..Len(o) /\ k - 1 + 1 = k
        BY <2>1, <2>8
      <4> QED
        BY <2>8, <2>9, <3>1, <4>1 DEF c
    <3>2. CASE j # 1
      <4>1. j - 1 \in 1..n - 1 /\ 1 + (j - 1) = j /\ k + (j - 1) = k - 1 + j
        BY <2>1, <3>2
      <4>2. t[Len(o) + (j - 1)] = s[j - 1] /\ s[j - 1] = text[k + (j - 1)]
        BY <2>2, <2>9, <4>1
      <4> QED
        BY <2>8, <4>1, <4>2
    <3> QED
      BY <3>1, <3>2
  <2>12. f[g[N - n] + 1] = t
    BY <2>1, <2>7 DEF p, o, t
  <2>13. Solved(n)
    BY <2>1, <2>10, <2>11, <2>12
  <2> QED
    BY <2>1, <2>13
<1>6. N \in T
  <2> HIDE DEF T
  <2> QED
    BY <1>1, <1>4, <1>5, UpTo
<1>7. N - N = 0 /\ g[N - N] + 1 = 1 /\ 1 \in 1..M + 1
  BY <1>1, <1>2
<1>8. Len(f[1]) = N /\ \A j \in 1..N : f[1][j] = text[j]
  <2>1. Solved(N)
    BY <1>6
  <2>2. \A j \in 1..N : N - N + j = j
    BY <1>1
  <2> QED
    BY <1>7, <2>1, <2>2
<1>9. f[1] \in Seq(Byte255)
  BY <1>3, <1>7
<1> QED
  BY <1>8, <1>9, SeqEqual
LEMMA Halves ==
  ASSUME NEW c \in Byte255
  PROVE  c \div 16 \in 0..15 /\ c % 16 \in 0..15
BY DEF Byte255

LEMMA JsDecodeUnfolds ==
  ASSUME NEW text \in Seq(Byte255)
  PROVE  \E f : Decodes(f, text, Plus) /\ JsDecodeURIComponent(text) = f[1]
<1> DEFINE JsStep(f, k) ==
             IF k > Len(text) THEN <<>>
             ELSE IF text[k] = Percent
                  THEN IF IsEscape(text, k) THEN <<ByteAt(text, k)>> \o f[k + 3] ELSE <<>>
             ELSE <<text[k]>> \o f[k + 1]
           f == CHOOSE f : f = [k \in 1..Len(text) + 1 |-> JsStep(f, k)]
<1>1. \A g, k : Step(text, Plus, g, k) = JsStep(g, k)
  BY DEF Step
<1>2. JsDecodeURIComponent(text) = f[1]
  BY DEF JsDecodeURIComponent
<1> HIDE DEF JsStep
<1>3. \A g : Solves(g, text, Plus, 1) <=> g = [k \in 1..Len(text) + 1 |-> JsStep(g, k)]
  BY <1>1 DEF Solves
<1>4. \E g : g = [k \in 1..Len(text) + 1 |-> JsStep(g, k)]
  BY <1>3, SolutionExists
<1>5. f = [k \in 1..Len(text) + 1 |-> JsStep(f, k)]
  BY <1>4
<1> HIDE DEF f
<1>6. Solves(f, text, Plus, 1)
  BY <1>3, <1>5
<1>7. Plus \in Byte255
  BY DEF Plus, Byte255
<1> QED
  BY <1>2, <1>6, <1>7, SolutionType

\* The bytes of what is encoded
LEMMA PercentEncodedBytes ==
  ASSUME NEW text \in Seq(Byte255), NEW safe, NEW S,
         Percent \in S, Digits \subseteq S, 65..70 \subseteq S, safe \subseteq S
  PROVE  PercentEncoded(text, safe) \in Seq(S)
<1> DEFINE N == Len(text)
<1>1. N \in Nat /\ \A k \in 1..N : text[k] \in Byte255
  BY LenProperties, ElementOfSeq
<1>2. PICK seqs \in Seq(Seq(Byte255)) :
         /\ PercentEncoded(text, safe) = FlattenSeq(seqs) /\ Len(seqs) = N
         /\ \A k \in 1..N : seqs[k] = Code(text[k], safe)
  BY PercentCodes
<1>3. ASSUME NEW c \in Byte255
      PROVE  Code(c, safe) \in Seq(S)
  <2>1. c \div 16 \in 0..15 /\ c % 16 \in 0..15
    BY Halves
  <2>2. HexTab(c \div 16) \in S /\ HexTab(c % 16) \in S
    BY <2>1, HexTabs
  <2>3. CASE c \in safe
    BY <2>3 DEF Code
  <2>4. CASE c \notin safe
    BY <2>2, <2>4 DEF Code
  <2> QED
    BY <2>3, <2>4
<1>4. \A k \in 1..N : seqs[k] \in Seq(S)
  BY <1>1, <1>2, <1>3
<1>5. seqs = [k \in 1..N |-> seqs[k]]
  BY <1>2, LenProperties
<1>6. seqs \in [1..N -> Seq(S)]
  BY <1>4, <1>5
<1>7. seqs \in Seq(Seq(S))
  BY <1>1, <1>6, FunctionIsSeq
<1> QED
  BY <1>2, <1>7, Flattened

\* A text of safe bytes is encoded as it is.
LEMMA PercentEncodedSafe ==
  ASSUME NEW text \in Seq(Byte255), NEW safe, \A k \in 1..Len(text) : text[k] \in safe
  PROVE  PercentEncoded(text, safe) = text
<1> DEFINE N == Len(text)
           w == PercentEncoded(text, safe)
<1>1. N \in Nat /\ \A k \in 1..N : text[k] \in Byte255
  BY LenProperties, ElementOfSeq
<1>2. PICK seqs \in Seq(Seq(Byte255)) :
         /\ w = FlattenSeq(seqs) /\ Len(seqs) = N
         /\ \A k \in 1..N : seqs[k] = Code(text[k], safe)
  BY PercentCodes
<1>3. PICK g : Places(g, seqs, w)
  BY <1>2, FlattenPlaces
<1>4. \A k \in 1..N : seqs[k] = <<text[k]>>
  BY <1>2 DEF Code
<1> HIDE DEF w
<1>5. /\ g \in [0..N -> Nat] /\ g[0] = 0 /\ g[N] = Len(w)
      /\ \A k \in 1..N : /\ g[k] = g[k - 1] + Len(seqs[k])
                         /\ \A j \in 1..Len(seqs[k]) : w[g[k - 1] + j] = seqs[k][j]
  BY <1>2, <1>3 DEF Places
<1>6. \A k \in 1..N : g[k] = g[k - 1] + 1 /\ w[g[k - 1] + 1] = text[k]
  <2>1. ASSUME NEW k \in 1..N
        PROVE  g[k] = g[k - 1] + 1 /\ w[g[k - 1] + 1] = text[k]
    <3>1. Len(seqs[k]) = 1 /\ seqs[k][1] = text[k] /\ 1 \in 1..Len(seqs[k])
      <4> DEFINE b == text[k]
      <4>1. seqs[k] = <<b>>
        BY <1>4
      <4> HIDE DEF b
      <4>2. Len(<<b>>) = 1 /\ <<b>>[1] = b /\ 1 \in 1..1
        OBVIOUS
      <4> QED
        BY <4>1, <4>2 DEF b
    <3>2. g[k] = g[k - 1] + Len(seqs[k]) /\ w[g[k - 1] + 1] = seqs[k][1]
      BY <1>5, <3>1
    <3> QED
      BY <3>1, <3>2
  <2> QED
    BY <2>1
<1> DEFINE T == {k \in 0..N : \A j \in 0..N : j <= k => g[j] = j}
<1>7. 0 \in T
  BY <1>1, <1>5
<1>8. ASSUME NEW k \in 1..N, k - 1 \in T
      PROVE  k \in T
  <2>1. k - 1 \in 0..N /\ g[k - 1] = k - 1 /\ g[k] = k
    BY <1>1, <1>6, <1>8
  <2>2. ASSUME NEW j \in 0..N, j <= k
        PROVE  g[j] = j
    <3>1. j = k \/ j <= k - 1
      BY <1>1, <2>2
    <3> QED
      BY <1>8, <2>1, <3>1
  <2> QED
    BY <1>1, <2>2
<1>9. N \in T
  <2> HIDE DEF T
  <2> QED
    BY <1>1, <1>7, <1>8, UpTo
<1>10. \A j \in 0..N : g[j] = j
  BY <1>9
<1>11. Len(w) = N
  BY <1>1, <1>5, <1>10
<1>12. ASSUME NEW k \in 1..N
       PROVE  w[k] = text[k]
  <2>1. g[k - 1] = k - 1 /\ (k - 1) + 1 = k
    BY <1>1, <1>10
  <2> QED
    BY <1>6, <2>1
<1>13. w \in Seq(Byte255)
  BY PercentEncodedType DEF w
<1>14. w = text
  BY <1>11, <1>12, <1>13, SeqEqual
<1> QED
  BY <1>14 DEF w

\* The words of the programs are sent as they are.
LEMMA EscapedName ==
  ASSUME NEW name \in Seq(Letters \cup Digits)
  PROVE  name \in Seq(Byte255) /\ Escaped(name) = name
<1>1. Letters \cup Digits \subseteq Byte255
  BY DEF Letters, Digits, Byte255
<1>2. name \in Seq(Byte255) /\ \A k \in 1..Len(name) : name[k] \in Letters \cup Digits
  BY <1>1, SeqMonotonic, ElementOfSeq
<1>3. JsEncodeURIComponent(name) = name
  BY <1>2, PercentEncodedSafe DEF JsEncodeURIComponent
<1>4. JsEscape(name) = name
  BY <1>2, PercentEncodedSafe DEF JsEscape
<1> QED
  BY <1>2, <1>3, <1>4 DEF Escaped

\* What is decoded on the way is what was encoded.
LEMMA Decodable ==
  ASSUME NEW text \in Seq(Byte255), NEW w \in Seq(Byte255),
         NEW g, Encodes(g, w, text, Space)
  PROVE  decodeUriComponent(w) = text
<1>1. PICK f : Decodes(f, w, Space) /\ decodeUriComponent(w) = f[1]
  BY DecodeUnfolds
<1> QED
  BY <1>1, RoundTrip

LEMMA EscapedTwice ==
  ASSUME NEW value \in Seq(Byte255)
  PROVE  decodeUriComponent(decodeUriComponent(Escaped(value))) = value
<1> DEFINE x == JsEncodeURIComponent(value)
           y == JsEscape(x)
           safe == Letters \cup Digits \cup {45, 95, 46, 33, 126, 42, 39, 40, 41}
           safe2 == Letters \cup Digits \cup {64, 42, 95, 43, 45, 46, 47}
           S == safe \cup {Percent}
<1>1. x = PercentEncoded(value, safe) /\ y = PercentEncoded(x, safe2) /\ Escaped(value) = y
  BY DEF JsEncodeURIComponent, JsEscape, Escaped
<1>2. Percent \notin safe /\ Percent \notin safe2 /\ Plus \notin safe /\ Plus \notin S
  BY DEF Percent, Plus, Letters, Digits
<1>3. Percent \in S /\ Digits \subseteq S /\ 65..70 \subseteq S /\ safe \subseteq S
  BY DEF Letters
<1> HIDE DEF safe, safe2, S, x, y
<1>4. x \in Seq(Byte255) /\ y \in Seq(Byte255)
  <2>1. x \in Seq(Byte255)
    BY <1>1, PercentEncodedType
  <2> QED
    BY <1>1, <2>1, PercentEncodedType
<1>5. x \in Seq(S)
  BY <1>1, <1>3, PercentEncodedBytes
<1>6. \A k \in 1..Len(x) : x[k] # Plus
  BY <1>2, <1>5, ElementOfSeq
<1>7. \E g : Encodes(g, x, value, Space)
  BY <1>1, <1>2, PercentEncodes
<1>8. \E g : Encodes(g, y, x, Space)
  BY <1>1, <1>2, <1>4, <1>6, PercentEncodes
<1>9. decodeUriComponent(x) = value
  BY <1>4, <1>7, Decodable
<1>10. decodeUriComponent(y) = x
  BY <1>4, <1>8, Decodable
<1> QED
  BY <1>1, <1>9, <1>10

\* No byte of a value ends it, in the first line.
LEMMA EscapedBytes ==
  ASSUME NEW value \in Seq(Byte255)
  PROVE  Escaped(value) \in Seq(Byte255 \ (Eol \cup {And, Space}))
<1> DEFINE x == JsEncodeURIComponent(value)
           safe == Letters \cup Digits \cup {64, 42, 95, 43, 45, 46, 47}
           S == Byte255 \ (Eol \cup {And, Space})
<1>1. x \in Seq(Byte255)
  BY PercentEncodedType DEF JsEncodeURIComponent
<1>2. Escaped(value) = PercentEncoded(x, safe)
  BY DEF JsEscape, Escaped
<1>3. Percent \in S /\ Digits \subseteq S /\ 65..70 \subseteq S /\ safe \subseteq S
  BY DEF Percent, Digits, Letters, Byte255, Eol, And, Space, NewLine, Return
<1> HIDE DEF x, safe, S
<1>4. PercentEncoded(x, safe) \in Seq(S)
  BY <1>1, <1>3, PercentEncodedBytes
<1> QED
  BY <1>2, <1>4 DEF S

\* What a page shows again is what it was.
LEMMA ShownAgain ==
  ASSUME NEW value \in Seq(Byte255)
  PROVE  JsDecodeURIComponent(encodeUriComponent(value)) = value
<1> DEFINE w == encodeUriComponent(value)
<1>1. w = PercentEncoded(value, isSafe)
  BY DEF encodeUriComponent
<1>2. Percent \notin isSafe
  BY DEF Percent, isSafe, HexDigits, Digits
<1> HIDE DEF w
<1>3. w \in Seq(Byte255)
  BY <1>1, PercentEncodedType
<1>4. \E g : Encodes(g, w, value, Plus)
  BY <1>1, <1>2, PercentEncodes
<1>5. PICK f : Decodes(f, w, Plus) /\ JsDecodeURIComponent(w) = f[1]
  BY <1>3, JsDecodeUnfolds
<1>6. f[1] = value
  BY <1>3, <1>4, <1>5, RoundTrip
<1> QED
  BY <1>5, <1>6 DEF w

LEMMA FormIsDecoded ==
  ASSUME NEW text \in Seq(Byte255)
  PROVE  /\ FormEncoded(text) \in Seq(Byte255 \ (Eol \cup {And, Equal, 0}))
         /\ decodeUriComponent(FormEncoded(text)) = text
         /\ text # <<>> => FormEncoded(text) # <<>>
<1> DEFINE safe == (Letters \cup Digits \cup {42, 45, 46, 95}) \cup {Space}
           t == PercentEncoded(text, safe)
           w == FormEncoded(text)
           N == Len(text)
           M == Len(t)
           S == safe \cup {Percent}
           R == Byte255 \ (Eol \cup {And, Equal, 0})
           New(b) == IF b = Space THEN Plus ELSE b
<1>1. w = [k \in 1..M |-> New(t[k])]
  BY DEF FormEncoded, ReplaceAll
<1>2. /\ Percent \notin safe /\ Plus \notin safe /\ \A c \in HexDigits : c # Space
      /\ Percent # Space /\ \A c \in S : New(c) \in R
      /\ Percent \in S /\ Digits \subseteq S /\ 65..70 \subseteq S /\ safe \subseteq S
  <2>1. Percent \notin safe /\ Plus \notin safe /\ Percent # Space
    BY DEF Percent, Plus, Letters, Digits, Space
  <2>2. \A c \in HexDigits : c # Space
    BY DEF HexDigits, Digits, Space
  <2>3. Percent \in S /\ Digits \subseteq S /\ 65..70 \subseteq S /\ safe \subseteq S
    BY DEF Letters
  <2>4. ASSUME NEW c \in S
        PROVE  New(c) \in R
    BY DEF Percent, Plus, Letters, Digits, Space, Byte255, Eol, And, Equal, NewLine, Return
  <2> QED
    BY <2>1, <2>2, <2>3, <2>4
<1>3. N \in Nat
  BY LenProperties
<1> HIDE DEF safe, S, R, t, w, N
<1>4. t \in Seq(Byte255) /\ t \in Seq(S) /\ M \in Nat /\ \A k \in 1..M : t[k] \in S
  <2>1. t \in Seq(Byte255) /\ t \in Seq(S)
    BY <1>2, PercentEncodedType, PercentEncodedBytes DEF t
  <2> QED
    BY <2>1, LenProperties, ElementOfSeq
<1>5. w \in [1..M -> R]
  BY <1>1, <1>2, <1>4
<1>6. w \in Seq(R) /\ Len(w) = M
  BY <1>4, <1>5, FunctionIsSeq
<1>7. w \in Seq(Byte255)
  <2>1. R \subseteq Byte255
    BY DEF R
  <2> QED
    BY <1>6, <2>1, SeqMonotonic
<1>8. PICK g : Encodes(g, t, text, Space)
  BY <1>2, PercentEncodes DEF t
<1>9. /\ g \in [0..N -> Nat] /\ g[0] = 0 /\ g[N] = M
      /\ \A k \in 1..N : g[k] <= M /\ Coded(t, g[k - 1], g[k], text[k], Space)
  BY <1>8 DEF Encodes, N
<1>10. \A k \in 1..M : w[k] = New(t[k])
  BY <1>1
<1> HIDE DEF M
<1>11. ASSUME NEW k \in 1..N
       PROVE  Coded(w, g[k - 1], g[k], text[k], Space)
  <2> DEFINE c == text[k]
             p == g[k - 1]
             q == g[k]
  <2>1. p \in Nat /\ q \in Nat /\ q <= M /\ Coded(t, p, q, c, Space)
    BY <1>3, <1>9
  <2> HIDE DEF c, p, q
  <2>2. CASE q = p + 1 /\ t[q] # Percent /\ (IF t[q] = Plus THEN Space ELSE t[q]) = c
    <3>1. q \in 1..M
      BY <1>4, <2>1, <2>2
    <3>2. w[q] = New(t[q])
      BY <1>10, <3>1
    <3>3. w[q] # Percent
      BY <2>2, <3>2 DEF Plus, Percent
    <3>4. (IF w[q] = Plus THEN Space ELSE w[q]) = c
      BY <2>2, <3>2
    <3> QED
      BY <2>2, <3>3, <3>4 DEF Coded, c, p, q
  <2>3. CASE q = p + 3 /\ t[p + 1] = Percent /\ IsEscape(t, p + 1) /\ ByteAt(t, p + 1) = c
    <3>1. /\ p + 1 \in 1..M /\ p + 1 + 1 \in 1..M /\ p + 1 + 2 \in 1..M
      BY <1>4, <2>1, <2>3
    <3>2. t[p + 1 + 1] \in HexDigits /\ t[p + 1 + 2] \in HexDigits /\ p + 1 + 2 <= M
      BY <2>3 DEF IsEscape, M
    <3>3. w[p + 1] = Percent /\ w[p + 1 + 1] = t[p + 1 + 1] /\ w[p + 1 + 2] = t[p + 1 + 2]
      BY <1>2, <1>10, <2>3, <3>1, <3>2
    <3>4. IsEscape(w, p + 1) /\ ByteAt(w, p + 1) = c
      BY <1>6, <2>3, <3>2, <3>3 DEF IsEscape, ByteAt, M
    <3> QED
      BY <2>3, <3>3, <3>4 DEF Coded, c, p, q
  <2> QED
    BY <2>1, <2>2, <2>3 DEF Coded
<1>12. Encodes(g, w, text, Space)
  BY <1>6, <1>9, <1>11 DEF Encodes, N
<1>13. decodeUriComponent(w) = text
  BY <1>7, <1>12, Decodable
<1>14. ASSUME text # <<>>
       PROVE  w # <<>>
  <2>1. N \in 1..N /\ 1 \in 1..N /\ 1 - 1 = 0
    <3>1. N # 0
      BY <1>14, EmptySeq DEF N
    <3> QED
      BY <1>3, <3>1
  <2>2. g[1] \in Nat /\ g[1] <= M /\ Coded(w, 0, g[1], text[1], Space)
    BY <1>9, <1>11, <2>1
  <2>3. M # 0
    BY <2>2 DEF Coded
  <2> QED
    BY <1>6, <2>3, EmptySeq
<1> QED
  BY <1>6, <1>13, <1>14 DEF R, w

LEMMA PutParts ==
  ASSUME NEW w, NEW p \in Nat \ {0}, NEW a \in Seq(Byte255), NEW b \in Seq(Byte255),
         Put(w, p, a \o b)
  PROVE  /\ Put(w, p, a) /\ Put(w, p + Len(a), b)
         /\ a \o b \in Seq(Byte255) /\ Len(a \o b) = Len(a) + Len(b)
         /\ Len(a) \in Nat /\ Len(b) \in Nat /\ p + Len(a) \in Nat \ {0}
<1> DEFINE t == a \o b
<1>1. Len(a) \in Nat /\ Len(b) \in Nat
  BY LenProperties
<1>2. /\ t \in Seq(Byte255) /\ Len(t) = Len(a) + Len(b)
      /\ \A k \in 1..Len(a) : t[k] = a[k]
      /\ \A k \in 1..Len(b) : t[Len(a) + k] = b[k]
  BY Behind
<1>3. \A j \in 1..Len(t) : w[p - 1 + j] = t[j]
  BY DEF Put
<1> HIDE DEF t
<1>4. ASSUME NEW j \in 1..Len(a)
      PROVE  w[p - 1 + j] = a[j]
  <2>1. j \in 1..Len(t)
    BY <1>1, <1>2
  <2> QED
    BY <1>2, <1>3, <2>1
<1>5. ASSUME NEW j \in 1..Len(b)
      PROVE  w[p + Len(a) - 1 + j] = b[j]
  <2>1. Len(a) + j \in 1..Len(t) /\ p - 1 + (Len(a) + j) = p + Len(a) - 1 + j
    BY <1>1, <1>2
  <2>2. w[p - 1 + (Len(a) + j)] = t[Len(a) + j]
    BY <1>3, <2>1
  <2> QED
    BY <1>2, <2>1, <2>2
<1> QED
  BY <1>1, <1>2, <1>4, <1>5 DEF Put, t

LEMMA CutIs ==
  ASSUME NEW w, NEW p \in Nat \ {0}, NEW bytes, NEW t \in Seq(Byte255 \ bytes),
         Put(w, p, t)
  PROVE  Cut(w, p, p + Len(t), t, bytes)
<1>1. Len(t) \in Nat /\ \A k \in 1..Len(t) : t[k] \in Byte255 \ bytes
  BY LenProperties, ElementOfSeq
<1>2. ASSUME NEW k \in p..p + Len(t) - 1
      PROVE  w[k] = t[k - p + 1] /\ w[k] \notin bytes
  <2>1. k - p + 1 \in 1..Len(t) /\ p - 1 + (k - p + 1) = k
    BY <1>1
  <2>2. w[p - 1 + (k - p + 1)] = t[k - p + 1]
    BY <2>1 DEF Put
  <2> QED
    BY <1>1, <2>1, <2>2
<1> QED
  BY <1>2 DEF Cut

LEMMA BytesOf ==
  ASSUME NEW bytes, NEW t \in Seq(Byte255 \ bytes)
  PROVE  t \in Seq(Byte255)
<1>1. Byte255 \ bytes \subseteq Byte255
  OBVIOUS
<1> QED
  BY <1>1, SeqMonotonic

LEMMA CellIs ==
  ASSUME NEW w, NEW p \in Nat \ {0}, NEW c, NEW mid \in Byte255, NEW names, NEW values,
         CellText(c, mid, names, values),
         Put(w, p, c[1]), Put(w, p + Len(c[1]), Second(c, mid))
  PROVE  /\ Cell(w, c, mid, p, p + Len(c[1]) + 1, p + Len(c[1]) + Len(Second(c, mid)), names, values)
<1> DEFINE n == Len(c[1])
           x == c[1]
           v == p + n + 1
<1>1. x \in Seq(Byte255 \ (names \cup {mid})) /\ n \in Nat
  BY LenProperties DEF CellText
<1>2. Cut(w, p, p + n, x, names \cup {mid})
  BY <1>1, CutIs
<1>3. v - 1 = p + n /\ v \in Nat \ {0} /\ p + n \in Nat \ {0}
  BY <1>1
<1>4. CASE Len(c) = 1
  <2>1. Second(c, mid) = <<>> /\ p + n + 0 = v - 1
    BY <1>1, <1>4 DEF Second
  <2>2. p + n + Len(Second(c, mid)) = v - 1
    BY <2>1
  <2> QED
    BY <1>2, <1>3, <1>4, <2>2 DEF Cell
<1>5. CASE Len(c) = 2
  <2> DEFINE y == c[2]
             o == <<mid>>
  <2>1. y \in Seq(Byte255 \ values) /\ Second(c, mid) = o \o y
    BY <1>5 DEF CellText, Second
  <2>2. o \in Seq(Byte255) /\ Len(o) = 1 /\ o[1] = mid
    OBVIOUS
  <2>3. y \in Seq(Byte255) /\ Len(y) \in Nat
    BY <2>1, BytesOf, LenProperties
  <2> HIDE DEF o, y, n, v
  <2>4. Put(w, p + n, o \o y)
    BY <2>1 DEF n
  <2>5. Put(w, p + n, o) /\ Put(w, p + n + Len(o), y) /\ Len(o \o y) = Len(o) + Len(y)
    <3> DEFINE u == p + n
    <3>1. u \in Nat \ {0} /\ Put(w, u, o \o y)
      BY <1>3, <2>4
    <3> HIDE DEF u
    <3>2. o \in Seq(Byte255) /\ y \in Seq(Byte255)
      BY <2>2, <2>3
    <3>3. Put(w, u, o)
      BY <3>1, <3>2, PutParts
    <3>4. Put(w, u + Len(o), y)
      BY <3>1, <3>2, PutParts
    <3>5. Len(o \o y) = Len(o) + Len(y)
      BY <3>2, Behind
    <3> QED
      BY <3>3, <3>4, <3>5 DEF u
  <2>6. p + n + Len(o) = v /\ p + n + (1 + Len(y)) = v + Len(y)
    BY <1>1, <2>2, <2>3 DEF v
  <2>7. Cut(w, v, v + Len(y), y, values)
    BY <1>3, <2>1, <2>5, <2>6, CutIs
  <2>8. w[v - 1] = mid
    <3>1. 1 \in 1..Len(o) /\ p + n - 1 + 1 = v - 1
      BY <1>1, <1>3, <2>2
    <3>2. \A j \in 1..Len(o) : w[p + n - 1 + j] = o[j]
      BY <1>1, <2>5 DEF Put
    <3>3. w[p + n - 1 + 1] = o[1]
      BY <3>1, <3>2
    <3> QED
      BY <2>2, <3>1, <3>3
  <2>9. p + n + Len(Second(c, mid)) = v + Len(y)
    BY <2>1, <2>2, <2>5, <2>6
  <2> QED
    BY <1>2, <1>3, <1>5, <2>7, <2>8, <2>9 DEF Cell, y, v, n
<1> QED
  BY <1>4, <1>5 DEF CellText
LEMMA CellTexts ==
  ASSUME NEW c, NEW mid \in Byte255, NEW names, NEW values, CellText(c, mid, names, values)
  PROVE  c[1] \in Seq(Byte255) /\ Second(c, mid) \in Seq(Byte255)
<1>1. c[1] \in Seq(Byte255)
  BY BytesOf DEF CellText
<1>2. CASE Len(c) = 2
  <2> DEFINE o == <<mid>>
  <2>1. o \in Seq(Byte255) /\ c[2] \in Seq(Byte255)
    BY <1>2, BytesOf DEF CellText
  <2> HIDE DEF o
  <2>2. o \o c[2] \in Seq(Byte255)
    BY <2>1, ConcatProperties
  <2> QED
    BY <1>1, <1>2, <2>2 DEF Second, o
<1>3. CASE Len(c) # 2
  BY <1>1, <1>3, EmptySeq DEF Second
<1> QED
  BY <1>2, <1>3

LEMMA PairsPlaces ==
  ASSUME NEW n \in Nat, NEW cs, NEW b \in Byte255, NEW mid \in Byte255, NEW names, NEW values,
         \A k \in 1..n : CellText(cs[k], mid, names, values),
         NEW seqs, seqs = [k \in 1..n |-> (IF k > 1 THEN <<b>> ELSE <<>>)
                                          \o cs[k][1] \o Second(cs[k], mid)],
         NEW x, x = FlattenSeq(seqs),
         NEW w, NEW p \in Nat \ {0}, Put(w, p, x)
  PROVE  /\ x \in Seq(Byte255) /\ Len(x) \in Nat
         /\ \E s, v, z : Row(w, n, cs, b, mid, names, values, p, p + Len(x), s, v, z)
<1> DEFINE lead(k) == IF k > 1 THEN <<b>> ELSE <<>>
           one(k) == IF k > 1 THEN 1 ELSE 0
<1>1. \A k \in 1..n : /\ lead(k) \in Seq(Byte255) /\ cs[k][1] \in Seq(Byte255)
                      /\ Second(cs[k], mid) \in Seq(Byte255)
                      /\ lead(k) \o cs[k][1] \in Seq(Byte255)
                      /\ seqs[k] \in Seq(Byte255)
                      /\ seqs[k] = (lead(k) \o cs[k][1]) \o Second(cs[k], mid)
  <2> TAKE k \in 1..n
  <2>1. lead(k) \in Seq(Byte255)
    BY EmptySeq
  <2>2. seqs[k] = (lead(k) \o cs[k][1]) \o Second(cs[k], mid)
    OBVIOUS
  <2> HIDE DEF lead
  <2>3. cs[k][1] \in Seq(Byte255) /\ Second(cs[k], mid) \in Seq(Byte255)
    BY CellTexts
  <2>4. lead(k) \o cs[k][1] \in Seq(Byte255)
    BY <2>1, <2>3, ConcatProperties
  <2>5. (lead(k) \o cs[k][1]) \o Second(cs[k], mid) \in Seq(Byte255)
    BY <2>3, <2>4, ConcatProperties
  <2> QED
    BY <2>1, <2>2, <2>3, <2>4, <2>5
<1>2. \A k \in 1..n : Len(lead(k)) = one(k) /\ (k > 1 => lead(k)[1] = b)
  OBVIOUS
<1> HIDE DEF lead
<1>3. seqs \in Seq(Seq(Byte255)) /\ Len(seqs) = n
  <2>1. seqs \in [1..n -> Seq(Byte255)]
    <3>1. seqs = [k \in 1..n |-> seqs[k]]
      OBVIOUS
    <3> QED
      BY <1>1, <3>1
  <2> QED
    BY <2>1, FunctionIsSeq
<1>4. x \in Seq(Byte255) /\ Len(x) \in Nat
  BY <1>3, Flattened, LenProperties
<1>5. PICK g : Places(g, seqs, x)
  BY <1>3, FlattenPlaces
<1>6. /\ g \in [0..n -> Nat] /\ g[0] = 0 /\ g[n] = Len(x)
      /\ \A k \in 1..n : /\ g[k] = g[k - 1] + Len(seqs[k]) /\ g[k] <= Len(x)
                         /\ \A j \in 1..Len(seqs[k]) : x[g[k - 1] + j] = seqs[k][j]
  BY <1>3, <1>5 DEF Places
<1>7. \A j \in 1..Len(x) : w[p - 1 + j] = x[j]
  BY DEF Put
<1> DEFINE s == [k \in 1..n |-> p + g[k - 1] + one(k)]
           z == [k \in 1..n |-> p + g[k]]
           v == [k \in 1..n |-> s[k] + Len(cs[k][1]) + 1]
<1>8. ASSUME NEW k \in 1..n
      PROVE  /\ Cell(w, cs[k], mid, s[k], v[k], z[k], names, values)
             /\ z[k] \in Nat /\ z[k] <= p + Len(x)
             /\ k > 1 => w[z[k - 1]] = b /\ s[k] = z[k - 1] + 1
  <2> DEFINE a == lead(k)
             c == cs[k][1]
             d == Second(cs[k], mid)
             u == p + g[k - 1]
             y == seqs[k]
             u1 == u + one(k)
  <2>1. /\ a \in Seq(Byte255) /\ c \in Seq(Byte255) /\ d \in Seq(Byte255)
        /\ a \o c \in Seq(Byte255) /\ y \in Seq(Byte255) /\ y = (a \o c) \o d
    BY <1>1
  <2>2. k - 1 \in 0..n /\ k \in 0..n
    OBVIOUS
  <2>3. g[k - 1] \in Nat /\ g[k] \in Nat /\ g[k] = g[k - 1] + Len(y) /\ g[k] <= Len(x)
    BY <1>6, <2>2
  <2>4. Len(a) = one(k) /\ (k > 1 => a[1] = b)
    BY <1>2
  <2>5. \A j \in 1..Len(y) : x[g[k - 1] + j] = y[j]
    BY <1>6
  <2>6. u \in Nat \ {0} /\ u1 \in Nat \ {0} /\ s[k] = u1 /\ z[k] = p + g[k]
        /\ v[k] = u1 + Len(c) + 1
    <3>1. one(k) \in Nat
      OBVIOUS
    <3>2. u \in Nat \ {0}
      BY <2>3
    <3>3. u1 \in Nat \ {0}
      <4> HIDE DEF u, one
      <4> QED
        BY <3>1, <3>2
    <3>4. s[k] = u1 /\ z[k] = p + g[k]
      OBVIOUS
    <3>5. v[k] = u1 + Len(c) + 1
      BY <3>4
    <3> QED
      BY <3>2, <3>3, <3>4, <3>5
  <2> HIDE DEF a, c, d, y, s, z, v
  <2>7. Len(y) \in Nat /\ Len(a) \in Nat /\ Len(c) \in Nat /\ Len(d) \in Nat
    BY <2>1, LenProperties
  <2>8. ASSUME NEW j \in 1..Len(y)
        PROVE  w[u - 1 + j] = y[j]
    <3>1. g[k - 1] + j \in 1..Len(x) /\ p - 1 + (g[k - 1] + j) = u - 1 + j
      <4> DEFINE h == g[k - 1]
                 h2 == g[k]
                 m == Len(y)
                 lx == Len(x)
      <4>1. h \in Nat /\ h2 \in Nat /\ m \in Nat /\ lx \in Nat /\ h2 = h + m /\ h2 <= lx /\ j \in 1..m
        BY <1>4, <2>3, <2>7
      <4>2. u = p + h
        OBVIOUS
      <4> HIDE DEF h, h2, m, lx, u
      <4>3. h + j \in 1..lx
        BY <4>1
      <4>4. p - 1 + (h + j) = u - 1 + j
        BY <4>1, <4>2
      <4> QED
        BY <4>3, <4>4 DEF h, lx
    <3>2. w[p - 1 + (g[k - 1] + j)] = x[g[k - 1] + j]
      BY <1>7, <3>1
    <3> QED
      BY <2>5, <3>1, <3>2
  <2> HIDE DEF u
  <2>9. Put(w, u, (a \o c) \o d)
    BY <2>1, <2>8 DEF Put
  <2> DEFINE ac == a \o c
  <2>10. Len(ac) = Len(a) + Len(c)
    BY <2>1, Behind
  <2>11. ac \in Seq(Byte255) /\ Put(w, u, ac \o d)
    BY <2>1, <2>9
  <2>12. Len(ac \o d) = Len(ac) + Len(d) /\ y = ac \o d
    <3> HIDE DEF ac
    <3>1. Len(ac \o d) = Len(ac) + Len(d)
      BY <2>1, <2>11, Behind
    <3> QED
      BY <2>1, <3>1 DEF ac
  <2>13. Put(w, u, ac)
    <3> HIDE DEF ac
    <3> QED
      BY <2>1, <2>6, <2>11, PutParts
  <2>14. Put(w, u + Len(ac), d)
    <3> HIDE DEF ac
    <3> QED
      BY <2>1, <2>6, <2>11, PutParts
  <2>15. Put(w, u, a)
    BY <2>1, <2>6, <2>13, PutParts
  <2>16. Put(w, u + Len(a), c)
    BY <2>1, <2>6, <2>13, PutParts
  <2> HIDE DEF ac
  <2>17. u + Len(a) = u1 /\ u + Len(ac) = u1 + Len(c) /\ u1 + Len(c) + Len(d) = u + Len(y)
    <3> DEFINE la == Len(a)
               lc == Len(c)
               ld == Len(d)
               ly == Len(y)
               lac == Len(ac)
               o == one(k)
    <3>1. la \in Nat /\ lc \in Nat /\ ld \in Nat /\ la = o /\ lac = la + lc /\ ly = lac + ld
      BY <2>4, <2>7, <2>10, <2>12
    <3>2. u \in Nat /\ u1 = u + o
      BY <2>6
    <3> HIDE DEF la, lc, ld, ly, lac, o, u1
    <3>3. u + la = u1
      BY <3>1, <3>2
    <3>4. u + lac = u1 + lc
      BY <3>1, <3>2
    <3>5. u1 + lc + ld = u + ly
      BY <3>1, <3>2
    <3> QED
      BY <3>3, <3>4, <3>5 DEF la, lac, lc, ld, ly
  <2>18. Put(w, u1, c) /\ Put(w, u1 + Len(c), d)
    BY <2>14, <2>16, <2>17
  <2>19. z[k] = u + Len(y)
    BY <2>3, <2>6, <2>7 DEF u
  <2> HIDE DEF u1
  <2>20. Cell(w, cs[k], mid, u1, u1 + Len(c) + 1, u1 + Len(c) + Len(d), names, values)
    BY <2>6, <2>18, CellIs DEF c, d
  <2>21. Cell(w, cs[k], mid, s[k], v[k], z[k], names, values)
    BY <2>6, <2>17, <2>19, <2>20
  <2>22. z[k] \in Nat /\ z[k] <= p + Len(x)
    BY <1>4, <2>3, <2>6
  <2>23. ASSUME k > 1
         PROVE  w[z[k - 1]] = b /\ s[k] = z[k - 1] + 1
    <3>1. k - 1 \in 1..n /\ one(k) = 1
      BY <2>23
    <3>2. z[k - 1] = u
      BY <3>1 DEF z, u
    <3>3. 1 \in 1..Len(a) /\ u - 1 + 1 = u
      BY <2>4, <2>6, <3>1
    <3>4. w[u - 1 + 1] = a[1]
      BY <2>6, <2>15, <3>3 DEF Put
    <3>5. s[k] = u + 1
      BY <2>6, <3>1 DEF u1
    <3> QED
      BY <2>4, <2>23, <3>2, <3>3, <3>4, <3>5
  <2> QED
    BY <2>21, <2>22, <2>23
<1>9. \A k \in 1..n - 1 : w[z[k]] = b /\ s[k + 1] = z[k] + 1
  <2> TAKE k \in 1..n - 1
  <2>1. k + 1 \in 1..n /\ k + 1 > 1 /\ (k + 1) - 1 = k
    OBVIOUS
  <2> HIDE DEF s, z
  <2> QED
    BY <1>8, <2>1
<1>10. IF n = 0 THEN p + Len(x) = p ELSE s[1] = p /\ z[n] = p + Len(x)
  <2>1. CASE n = 0
    BY <1>6, <2>1
  <2>2. CASE n # 0
    <3>1. 1 \in 1..n /\ n \in 1..n /\ 1 - 1 = 0 /\ one(1) = 0
      BY <2>2
    <3>2. s[1] = p + 0 + 0 /\ z[n] = p + Len(x)
      BY <1>6, <3>1
    <3> QED
      BY <2>2, <3>2
  <2> QED
    BY <2>1, <2>2
<1> HIDE DEF s, v, z
<1>11. Row(w, n, cs, b, mid, names, values, p, p + Len(x), s, v, z)
  BY <1>8, <1>9, <1>10 DEF Row
<1> QED
  BY <1>4, <1>11

LEMMA FieldsPlaces ==
  ASSUME NEW n \in Nat, NEW cs, NEW eol \in Seq(Byte255),
         \A k \in 1..n : CellText(cs[k], Colon, Eol, Eol),
         NEW seqs, seqs = [k \in 1..n |-> cs[k][1] \o Second(cs[k], Colon) \o eol],
         NEW x, x = FlattenSeq(seqs),
         NEW w, NEW p \in Nat \ {0}, Put(w, p, x)
  PROVE  /\ x \in Seq(Byte255) /\ Len(x) \in Nat
         /\ \E s, v, z : Rows(w, n, cs, eol, p, p + Len(x), s, v, z)
<1>0. Colon \in Byte255
  BY DEF Colon, Byte255
<1>1. \A k \in 1..n : /\ cs[k][1] \in Seq(Byte255) /\ Second(cs[k], Colon) \in Seq(Byte255)
                      /\ cs[k][1] \o Second(cs[k], Colon) \in Seq(Byte255)
                      /\ seqs[k] \in Seq(Byte255)
                      /\ seqs[k] = (cs[k][1] \o Second(cs[k], Colon)) \o eol
  <2> TAKE k \in 1..n
  <2>1. seqs[k] = (cs[k][1] \o Second(cs[k], Colon)) \o eol
    OBVIOUS
  <2>2. cs[k][1] \in Seq(Byte255) /\ Second(cs[k], Colon) \in Seq(Byte255)
    BY <1>0, CellTexts
  <2>3. cs[k][1] \o Second(cs[k], Colon) \in Seq(Byte255)
    BY <2>2, ConcatProperties
  <2>4. (cs[k][1] \o Second(cs[k], Colon)) \o eol \in Seq(Byte255)
    BY <2>3, ConcatProperties
  <2> QED
    BY <2>1, <2>2, <2>3, <2>4
<1>2. seqs \in Seq(Seq(Byte255)) /\ Len(seqs) = n
  <2>1. seqs \in [1..n -> Seq(Byte255)]
    <3>1. seqs = [k \in 1..n |-> seqs[k]]
      OBVIOUS
    <3> QED
      BY <1>1, <3>1
  <2> QED
    BY <2>1, FunctionIsSeq
<1>3. x \in Seq(Byte255) /\ Len(x) \in Nat
  BY <1>2, Flattened, LenProperties
<1>4. PICK g : Places(g, seqs, x)
  BY <1>2, FlattenPlaces
<1>5. /\ g \in [0..n -> Nat] /\ g[0] = 0 /\ g[n] = Len(x)
      /\ \A k \in 1..n : /\ g[k] = g[k - 1] + Len(seqs[k]) /\ g[k] <= Len(x)
                         /\ \A j \in 1..Len(seqs[k]) : x[g[k - 1] + j] = seqs[k][j]
  BY <1>2, <1>4 DEF Places
<1>6. \A j \in 1..Len(x) : w[p - 1 + j] = x[j]
  BY DEF Put
<1> DEFINE s == [k \in 1..n + 1 |-> p + g[k - 1]]
           z == [k \in 1..n |-> s[k] + Len(cs[k][1]) + Len(Second(cs[k], Colon))]
           v == [k \in 1..n |-> s[k] + Len(cs[k][1]) + 1]
<1>7. ASSUME NEW k \in 1..n
      PROVE  /\ Cell(w, cs[k], Colon, s[k], v[k], z[k], Eol, Eol)
             /\ z[k] \in Nat \ {0} /\ Put(w, z[k], eol) /\ s[k + 1] = z[k] + Len(eol)
  <2> DEFINE c == cs[k][1]
             d == Second(cs[k], Colon)
             u == p + g[k - 1]
             y == seqs[k]
  <2>1. /\ c \in Seq(Byte255) /\ d \in Seq(Byte255)
        /\ c \o d \in Seq(Byte255) /\ y \in Seq(Byte255) /\ y = (c \o d) \o eol
    BY <1>1
  <2>2. k - 1 \in 0..n /\ k \in 0..n /\ k \in 1..n + 1 /\ k + 1 \in 1..n + 1 /\ (k + 1) - 1 = k
    OBVIOUS
  <2>3. g[k - 1] \in Nat /\ g[k] \in Nat /\ g[k] = g[k - 1] + Len(y) /\ g[k] <= Len(x)
    BY <1>5, <2>2
  <2>4. \A j \in 1..Len(y) : x[g[k - 1] + j] = y[j]
    BY <1>5
  <2>5. s[k] = u /\ s[k + 1] = p + g[k]
    BY <2>2
  <2>6. u \in Nat \ {0}
    BY <2>3
  <2>7. v[k] = u + Len(c) + 1 /\ z[k] = u + Len(c) + Len(d)
    BY <2>5
  <2> HIDE DEF c, d, y, s, z, v
  <2>8. Len(y) \in Nat /\ Len(c) \in Nat /\ Len(d) \in Nat /\ Len(eol) \in Nat
    BY <2>1, LenProperties
  <2>9. ASSUME NEW j \in 1..Len(y)
        PROVE  w[u - 1 + j] = y[j]
    <3>1. g[k - 1] + j \in 1..Len(x) /\ p - 1 + (g[k - 1] + j) = u - 1 + j
      <4> DEFINE h == g[k - 1]
                 h2 == g[k]
                 m == Len(y)
                 lx == Len(x)
      <4>1. h \in Nat /\ h2 \in Nat /\ m \in Nat /\ lx \in Nat /\ h2 = h + m /\ h2 <= lx /\ j \in 1..m
        BY <1>3, <2>3, <2>8
      <4>2. u = p + h
        OBVIOUS
      <4> HIDE DEF h, h2, m, lx, u
      <4>3. h + j \in 1..lx
        BY <4>1
      <4>4. p - 1 + (h + j) = u - 1 + j
        BY <4>1, <4>2
      <4> QED
        BY <4>3, <4>4 DEF h, lx
    <3>2. w[p - 1 + (g[k - 1] + j)] = x[g[k - 1] + j]
      BY <1>6, <3>1
    <3> QED
      BY <2>4, <3>1, <3>2
  <2> DEFINE cd == c \o d
             cde == cd \o eol
  <2>10. cd \in Seq(Byte255) /\ Len(cd) = Len(c) + Len(d) /\ y = cde
    <3>1. Len(cd) = Len(c) + Len(d)
      BY <2>1, Behind
    <3> QED
      BY <2>1, <3>1
  <2>11. s[k + 1] = u + Len(y)
    BY <2>3, <2>5, <2>8
  <2> HIDE DEF u
  <2>12. Put(w, u, cde)
    BY <2>9, <2>10 DEF Put
  <2>13. Put(w, u, cd)
    <3> HIDE DEF cd
    <3> QED
      BY <2>6, <2>10, <2>12, PutParts
  <2>14. Put(w, u + Len(cd), eol)
    <3> HIDE DEF cd
    <3> QED
      BY <2>6, <2>10, <2>12, PutParts
  <2>15. Put(w, u, c)
    BY <2>1, <2>6, <2>13, PutParts
  <2>16. Put(w, u + Len(c), d)
    BY <2>1, <2>6, <2>13, PutParts
  <2>17. Len(cde) = Len(cd) + Len(eol)
    <3> HIDE DEF cd
    <3> QED
      BY <2>10, Behind
  <2> HIDE DEF cd, cde
  <2> DEFINE la == Len(c)
             lc == Len(cd)
             ld == Len(d)
             le == Len(eol)
  <2>18. u + lc = u + la + ld /\ u + Len(y) = u + la + ld + le /\ u + la + ld \in Nat \ {0}
    <3>1. la \in Nat /\ ld \in Nat /\ le \in Nat /\ lc = la + ld /\ Len(y) = lc + le
      BY <2>8, <2>10, <2>17
    <3> HIDE DEF la, lc, ld, le
    <3>2. u + lc = u + la + ld
      BY <2>6, <3>1
    <3>3. u + Len(y) = u + la + ld + le
      BY <2>6, <3>1
    <3>4. u + la + ld \in Nat \ {0}
      BY <2>6, <3>1
    <3> QED
      BY <3>2, <3>3, <3>4
  <2>19. Cell(w, cs[k], Colon, u, u + la + 1, u + la + ld, Eol, Eol)
    BY <1>0, <2>6, <2>15, <2>16, CellIs DEF c, d
  <2>20. Put(w, u + la + ld, eol) /\ s[k + 1] = u + la + ld + le
    BY <2>11, <2>14, <2>18
  <2> QED
    BY <2>5, <2>7, <2>18, <2>19, <2>20
<1>8. \A k \in 1..n + 1 : s[k] \in Nat \ {0} /\ s[k] <= p + Len(x)
  <2> TAKE k \in 1..n + 1
  <2>1. k - 1 \in 0..n
    OBVIOUS
  <2>2. g[k - 1] \in Nat /\ g[k - 1] <= Len(x)
    <3>1. CASE k = 1
      BY <1>3, <1>5, <2>1, <3>1
    <3>2. CASE k # 1
      <4>1. k - 1 \in 1..n
        BY <3>2
      <4> QED
        BY <1>5, <2>1, <4>1
    <3> QED
      BY <3>1, <3>2
  <2>3. s[k] = p + g[k - 1]
    OBVIOUS
  <2> HIDE DEF s
  <2> QED
    BY <1>3, <2>2, <2>3
<1>9. s[1] = p /\ s[n + 1] = p + Len(x)
  <2>1. 1 \in 1..n + 1 /\ n + 1 \in 1..n + 1 /\ 1 - 1 = 0 /\ (n + 1) - 1 = n
    OBVIOUS
  <2>2. s[1] = p + g[0] /\ s[n + 1] = p + g[n]
    BY <2>1
  <2> HIDE DEF s
  <2> QED
    BY <1>5, <2>2
<1> HIDE DEF s, v, z
<1>10. Rows(w, n, cs, eol, p, p + Len(x), s, v, z)
  BY <1>7, <1>8, <1>9 DEF Rows
<1> QED
  BY <1>3, <1>10

LEMMA PartTexts ==
  ASSUME NEW r, WellFormed(r)
  PROVE  /\ r.method \in Seq(Byte255) /\ r.file \in Seq(Byte255) /\ r.eol \in Seq(Byte255)
         /\ r.version \in Seq(Byte255)
         /\ SpaceText(r) \in Seq(Byte255) /\ QueryText(r) \in Seq(Byte255)
         /\ VersionText(r) \in Seq(Byte255) /\ LinesText(r) \in Seq(Byte255)
         /\ TailText(r) \in Seq(Byte255) /\ BodyText(r) \in Seq(Byte255)
<1>1. r.method \in Seq(Byte255) /\ r.file \in Seq(Byte255) /\ r.version \in Seq(Byte255)
  BY ByteTexts, WordsAre
<1>2. r.eol \in Seq(Byte255)
  <2>1. <<NewLine>> \in Seq(Byte255) /\ <<Return, NewLine>> \in Seq(Byte255)
    BY DEF NewLine, Return, Byte255
  <2> QED
    BY <2>1, WordsAre
<1>3. <<Space>> \in Seq(Byte255) /\ <<Question>> \in Seq(Byte255) /\ <<>> \in Seq(Byte255)
  BY EmptySeq DEF Space, Question, Byte255
<1>4. SpaceText(r) \in Seq(Byte255)
  BY <1>3 DEF SpaceText
<1>5. QueryText(r) \in Seq(Byte255)
  BY <1>3, WordsAre, ParamsType, ConcatProperties DEF QueryText
<1>6. VersionText(r) \in Seq(Byte255)
  BY <1>1, <1>3, ConcatProperties DEF VersionText
<1>7. LinesText(r) \in Seq(Byte255)
  BY <1>2, FieldsType, WordsAre DEF LinesText
<1>8. TailText(r) \in Seq(Byte255)
  BY <1>2, <1>3, <1>7, ConcatProperties DEF TailText
<1>9. BodyText(r) \in Seq(Byte255)
  BY BodyType, WordsAre DEF BodyText
<1> QED
  BY <1>1, <1>2, <1>4, <1>5, <1>6, <1>7, <1>8, <1>9

LEMMA LastPart ==
  ASSUME NEW w, NEW a \in Seq(Byte255), NEW b \in Seq(Byte255), Put(w, 1, a \o b)
  PROVE  /\ Put(w, 1, a) /\ Put(w, 1 + Len(a), b) /\ 1 + Len(a) \in Nat \ {0}
         /\ 1 + Len(a \o b) = (1 + Len(a)) + Len(b)
         /\ a \o b \in Seq(Byte255)
<1>1. 1 \in Nat \ {0}
  OBVIOUS
<1>2. Len(a) \in Nat /\ Len(b) \in Nat /\ Len(a \o b) = Len(a) + Len(b) /\ a \o b \in Seq(Byte255)
  BY LenProperties, Behind
<1>3. Put(w, 1, a)
  BY <1>1, PutParts
<1>4. Put(w, 1 + Len(a), b)
  BY <1>1, PutParts
<1>5. 1 + Len(a \o b) = (1 + Len(a)) + Len(b)
  BY <1>2
<1> QED
  BY <1>2, <1>3, <1>4, <1>5

LEMMA WireParts ==
  ASSUME NEW r, WellFormed(r), NEW w, w = Wire(r)
  PROVE  \E s, f, q, v, e, t, b : Parted(r, w, s, f, q, v, e, t, b)
<1> DEFINE m  == r.method
           sp == SpaceText(r)
           fi == r.file
           qu == QueryText(r)
           ve == VersionText(r)
           eo == r.eol
           ta == TailText(r)
           bo == BodyText(r)
           a1 == m \o sp
           a2 == a1 \o fi
           a3 == a2 \o qu
           a4 == a3 \o ve
           a5 == a4 \o eo
           a6 == a5 \o ta
           a7 == a6 \o bo
<1>1. w = a7
  BY DEF Wire, Header, SpaceText, QueryText, VersionText, TailText, LinesText, BodyText
<1>2. /\ m \in Seq(Byte255) /\ sp \in Seq(Byte255) /\ fi \in Seq(Byte255) /\ qu \in Seq(Byte255)
      /\ ve \in Seq(Byte255) /\ eo \in Seq(Byte255) /\ ta \in Seq(Byte255) /\ bo \in Seq(Byte255)
  BY PartTexts
<1> HIDE DEF m, sp, fi, qu, ve, eo, ta, bo
<1>3. a1 \in Seq(Byte255)
  BY <1>2, Behind
<1>4. a1 = m \o sp
  OBVIOUS
<1> HIDE DEF a1
<1>5. a2 \in Seq(Byte255)
  BY <1>2, <1>3, Behind
<1>6. a2 = a1 \o fi
  OBVIOUS
<1> HIDE DEF a2
<1>7. a3 \in Seq(Byte255)
  BY <1>2, <1>5, Behind
<1>8. a3 = a2 \o qu
  OBVIOUS
<1> HIDE DEF a3
<1>9. a4 \in Seq(Byte255)
  BY <1>2, <1>7, Behind
<1>10. a4 = a3 \o ve
  OBVIOUS
<1> HIDE DEF a4
<1>11. a5 \in Seq(Byte255)
  BY <1>2, <1>9, Behind
<1>12. a5 = a4 \o eo
  OBVIOUS
<1> HIDE DEF a5
<1>13. a6 \in Seq(Byte255)
  BY <1>2, <1>11, Behind
<1>14. a6 = a5 \o ta
  OBVIOUS
<1> HIDE DEF a6
<1>15. a7 = a6 \o bo /\ a7 \in Seq(Byte255)
  BY <1>2, <1>13, Behind
<1> HIDE DEF a7
<1>16. Put(w, 1, a7)
  <2>1. \A j \in 1..Len(a7) : 1 - 1 + j = j
    BY <1>15, LenProperties
  <2> QED
    BY <1>1, <2>1 DEF Put
<1>17. /\ Put(w, 1, a6) /\ Put(w, 1 + Len(a6), bo) /\ 1 + Len(a6) \in Nat \ {0}
       /\ 1 + Len(a7) = (1 + Len(a6)) + Len(bo)
  BY <1>2, <1>13, <1>15, <1>16, LastPart
<1>18. /\ Put(w, 1, a5) /\ Put(w, 1 + Len(a5), ta) /\ 1 + Len(a5) \in Nat \ {0}
       /\ 1 + Len(a6) = (1 + Len(a5)) + Len(ta)
  BY <1>2, <1>11, <1>14, <1>17, LastPart
<1>19. /\ Put(w, 1, a4) /\ Put(w, 1 + Len(a4), eo) /\ 1 + Len(a4) \in Nat \ {0}
       /\ 1 + Len(a5) = (1 + Len(a4)) + Len(eo)
  BY <1>2, <1>9, <1>12, <1>18, LastPart
<1>20. /\ Put(w, 1, a3) /\ Put(w, 1 + Len(a3), ve) /\ 1 + Len(a3) \in Nat \ {0}
       /\ 1 + Len(a4) = (1 + Len(a3)) + Len(ve)
  BY <1>2, <1>7, <1>10, <1>19, LastPart
<1>21. /\ Put(w, 1, a2) /\ Put(w, 1 + Len(a2), qu) /\ 1 + Len(a2) \in Nat \ {0}
       /\ 1 + Len(a3) = (1 + Len(a2)) + Len(qu)
  BY <1>2, <1>5, <1>8, <1>20, LastPart
<1>22. /\ Put(w, 1, a1) /\ Put(w, 1 + Len(a1), fi) /\ 1 + Len(a1) \in Nat \ {0}
       /\ 1 + Len(a2) = (1 + Len(a1)) + Len(fi)
  BY <1>2, <1>3, <1>6, <1>21, LastPart
<1>23. /\ Put(w, 1, m) /\ Put(w, 1 + Len(m), sp) /\ 1 + Len(m) \in Nat \ {0}
       /\ 1 + Len(a1) = (1 + Len(m)) + Len(sp)
  BY <1>2, <1>4, <1>22, LastPart
<1>24. Len(w) + 1 = (1 + Len(a6)) + Len(bo)
  BY <1>1, <1>15, <1>17, LenProperties
<1> DEFINE S == 1 + Len(m)
           F == 1 + Len(a1)
           Q == 1 + Len(a2)
           V == 1 + Len(a3)
           E == 1 + Len(a4)
           T == 1 + Len(a5)
           B == 1 + Len(a6)
<1>25. {S, F, Q, V, E, T, B} \subseteq Nat \ {0}
  BY <1>17, <1>18, <1>19, <1>20, <1>21, <1>22, <1>23
<1>26. /\ Put(w, 1, m) /\ Put(w, S, sp) /\ F = S + Len(sp) /\ Put(w, F, fi) /\ Q = F + Len(fi)
       /\ Put(w, Q, qu) /\ V = Q + Len(qu) /\ Put(w, V, ve) /\ E = V + Len(ve)
       /\ Put(w, E, eo) /\ T = E + Len(eo) /\ Put(w, T, ta) /\ B = T + Len(ta)
       /\ Put(w, B, bo) /\ Len(w) + 1 = B + Len(bo) /\ S = 1 + Len(m)
  BY <1>17, <1>18, <1>19, <1>20, <1>21, <1>22, <1>23, <1>24
<1> HIDE DEF S, F, Q, V, E, T, B
<1>27. Parted(r, w, S, F, Q, V, E, T, B)
  BY <1>25, <1>26 DEF Parted, m, sp, fi, qu, ve, eo, ta, bo
<1> QED
  BY <1>27
LEMMA WithoutBytes ==
  ASSUME NEW bytes, NEW t \in TextWithout(bytes)
  PROVE  t \in Seq(Byte255 \ bytes) /\ t \in Seq(Byte255) /\ Len(t) \in Nat
<1> DEFINE A == (1..255) \ bytes
           B == Byte255 \ bytes
<1>1. A \subseteq B /\ t \in Seq(A)
  BY DEF TextWithout, Byte255
<1> HIDE DEF A, B
<1>2. t \in Seq(B)
  BY <1>1, SeqMonotonic
<1> QED
  BY <1>2, BytesOf, LenProperties DEF B

LEMMA ListIs ==
  ASSUME NEW list \in Lists
  PROVE  /\ Len(list) \in Nat /\ DOMAIN list = 1..Len(list)
         /\ \A k \in 1..Len(list) : /\ Len(list[k]) \in {1, 2} /\ list[k][1] \in Seq(1..255)
                                    /\ Len(list[k]) = 2 => list[k][2] \in Seq(1..255)
                                    /\ list[k] \in Seq(Seq(1..255))
<1>1. /\ Len(list) \in Nat /\ DOMAIN list = 1..Len(list)
      /\ \A k \in 1..Len(list) : list[k] \in Seq(Seq(1..255)) /\ Len(list[k]) \in {1, 2}
  BY LenProperties, ElementOfSeq DEF Lists
<1>2. ASSUME NEW k \in 1..Len(list)
      PROVE  list[k][1] \in Seq(1..255) /\ (Len(list[k]) = 2 => list[k][2] \in Seq(1..255))
  <2> DEFINE c == list[k]
  <2>1. c \in Seq(Seq(1..255)) /\ (Len(c) = 1 \/ Len(c) = 2)
    BY <1>1
  <2> HIDE DEF c
  <2>2. 1 \in 1..Len(c) /\ (Len(c) = 2 => 2 \in 1..Len(c))
    <3>1. CASE Len(c) = 1
      <4>1. 1..Len(c) = 1..1 /\ Len(c) # 2
        BY <3>1
      <4> QED
        BY <4>1
    <3>2. CASE Len(c) = 2
      <4>1. 1..Len(c) = 1..2
        BY <3>2
      <4> QED
        BY <4>1
    <3> QED
      BY <2>1, <3>1, <3>2
  <2>3. c[1] \in Seq(1..255) /\ (Len(c) = 2 => c[2] \in Seq(1..255))
    BY <2>1, <2>2, ElementOfSeq
  <2> QED
    BY <2>3 DEF c
<1> QED
  BY <1>1, <1>2

LEMMA QueryIs ==
  ASSUME NEW r, WellFormed(r), NEW P, P = Len(r.params)
  PROVE  /\ P \in Nat /\ Len(Query(r)) = P
         /\ \A k \in 1..P : /\ Len(Query(r)[k]) = Len(r.params[k])
                            /\ Query(r)[k][1] = r.params[k][1]
                            /\ Len(r.params[k]) = 2 => Query(r)[k][2] = Escaped(r.params[k][2])
                            /\ CellText(Query(r)[k], Equal, Eol, Eol \cup {And, Space})
         /\ Pairs(r.params, And, Escaped) =
              FlattenSeq([k \in 1..P |-> (IF k > 1 THEN <<And>> ELSE <<>>)
                                         \o Query(r)[k][1] \o Second(Query(r)[k], Equal)])
<1> DEFINE ps == r.params
           Q == Query(r)
<1>1. /\ P \in Nat /\ DOMAIN ps = 1..P
      /\ \A k \in 1..P : /\ Len(ps[k]) \in {1, 2} /\ ps[k][1] \in Seq(1..255)
                         /\ Len(ps[k]) = 2 => ps[k][2] \in Seq(1..255)
  BY WordsAre, ListIs
<1>2. \A k \in 1..P : ps[k][1] \in Seq(Letters \cup Digits)
  BY <1>1 DEF WellFormed, WellFormedParams
<1>3. Q = [k \in 1..P |-> IF Len(ps[k]) = 1 THEN ps[k] ELSE <<ps[k][1], Escaped(ps[k][2])>>]
  BY <1>1 DEF Query
<1>4. Len(Q) = P
  BY <1>1, <1>3
<1> HIDE DEF Q, ps
<1>5. \A k \in 1..P : /\ Len(Q[k]) = Len(ps[k]) /\ Q[k][1] = ps[k][1]
                      /\ Len(ps[k]) = 2 => Q[k][2] = Escaped(ps[k][2])
  <2> TAKE k \in 1..P
  <2>1. CASE Len(ps[k]) = 1
    <3>1. Q[k] = ps[k]
      BY <1>3, <2>1
    <3> QED
      BY <2>1, <3>1
  <2>2. CASE Len(ps[k]) = 2
    <3> DEFINE a == ps[k][1]
               b == Escaped(ps[k][2])
    <3>1. Q[k] = <<a, b>>
      BY <1>3, <2>2
    <3> HIDE DEF a, b
    <3>2. Len(Q[k]) = 2 /\ Q[k][1] = a /\ Q[k][2] = b
      BY <3>1
    <3> QED
      BY <2>2, <3>2 DEF a, b
  <2> QED
    BY <1>1, <2>1, <2>2
<1>6. ASSUME NEW k \in 1..P
      PROVE  /\ CellText(Q[k], Equal, Eol, Eol \cup {And, Space})
             /\ Escaped(ps[k][1]) = Q[k][1]
  <2>1. ps[k][1] \in Seq(Byte255 \ (Eol \cup {Equal}))
    <3>1. Letters \cup Digits \subseteq Byte255 \ (Eol \cup {Equal})
      BY DEF Letters, Digits, Eol, Equal, NewLine, Return, Byte255
    <3> QED
      BY <1>2, <3>1, SeqMonotonic
  <2>2. Len(ps[k]) = 2 => Escaped(ps[k][2]) \in Seq(Byte255 \ (Eol \cup {And, Space}))
    <3>1. Len(ps[k]) = 2 => ps[k][2] \in Seq(Byte255)
      BY <1>1, ByteTexts
    <3> QED
      BY <3>1, EscapedBytes
  <2>3. Escaped(ps[k][1]) = ps[k][1]
    BY <1>2, EscapedName
  <2>4. Len(ps[k]) = 1 \/ Len(ps[k]) = 2
    BY <1>1
  <2>5. CellText(Q[k], Equal, Eol, Eol \cup {And, Space})
    BY <1>5, <2>1, <2>2, <2>4 DEF CellText
  <2> QED
    BY <1>5, <2>3, <2>5
<1>7. Pairs(ps, And, Escaped) =
        FlattenSeq([k \in 1..P |-> (IF k > 1 THEN <<And>> ELSE <<>>)
                                   \o Q[k][1] \o Second(Q[k], Equal)])
  <2> DEFINE X(k) == (IF k > 1 THEN <<And>> ELSE <<>>) \o Escaped(ps[k][1])
                     \o (IF Len(ps[k]) = 2 THEN <<Equal>> \o Escaped(ps[k][2]) ELSE <<>>)
             Y(k) == (IF k > 1 THEN <<And>> ELSE <<>>) \o Q[k][1] \o Second(Q[k], Equal)
  <2>1. Pairs(ps, And, Escaped) = FlattenSeq([k \in 1..P |-> X(k)])
    BY <1>1 DEF Pairs
  <2>2. ASSUME NEW k \in 1..P
        PROVE  X(k) = Y(k)
    <3>1. (IF Len(ps[k]) = 2 THEN <<Equal>> \o Escaped(ps[k][2]) ELSE <<>>) = Second(Q[k], Equal)
      BY <1>5 DEF Second
    <3>2. Escaped(ps[k][1]) = Q[k][1]
      BY <1>6
    <3> QED
      BY <3>1, <3>2
  <2> HIDE DEF X, Y
  <2>3. [k \in 1..P |-> X(k)] = [k \in 1..P |-> Y(k)]
    BY <2>2
  <2> QED
    BY <2>1, <2>3 DEF Y
<1> QED
  BY <1>1, <1>4, <1>5, <1>6, <1>7 DEF Q, ps

LEMMA FormPairs ==
  ASSUME NEW r, WellFormed(r), NEW B, B = Len(r.body)
  PROVE  B \in Nat /\ DOMAIN r.body = 1..B /\ Len(Form(r)) = B /\ \A k \in 1..B : FormPair(r, k)
<1> DEFINE ps == r.body
           Q == Form(r)
<1>1. /\ B \in Nat /\ DOMAIN ps = 1..B
      /\ \A k \in 1..B : /\ Len(ps[k]) = 2 /\ ps[k][1] # <<>> 
                         /\ ps[k][1] \in Seq(1..255) /\ ps[k][2] \in Seq(1..255)
  <2>1. \A k \in DOMAIN ps : Len(ps[k]) = 2 /\ ps[k][1] # <<>>
    BY DEF WellFormed, WellFormedBody
  <2> QED
    BY <2>1, WordsAre, ListIs
<1>2. Q = [k \in 1..B |-> <<FormEncoded(ps[k][1]), FormEncoded(ps[k][2])>>]
  BY <1>1 DEF Form
<1>3. Len(Q) = B
  BY <1>1, <1>2
<1> HIDE DEF Q, ps
<1>4. \A k \in 1..B : /\ Len(Q[k]) = 2 /\ Q[k][1] = FormEncoded(ps[k][1])
                      /\ Q[k][2] = FormEncoded(ps[k][2])
  <2> TAKE k \in 1..B
  <2> DEFINE a == FormEncoded(ps[k][1])
             b == FormEncoded(ps[k][2])
  <2>1. Q[k] = <<a, b>>
    BY <1>2
  <2> HIDE DEF a, b
  <2>2. Len(Q[k]) = 2 /\ Q[k][1] = a /\ Q[k][2] = b
    BY <2>1
  <2> QED
    BY <2>2 DEF a, b
<1> QED
  BY <1>1, <1>3, <1>4 DEF FormPair, Q, ps

LEMMA FormCells ==
  ASSUME NEW r, WellFormed(r), NEW B, B = Len(r.body)
  PROVE  /\ B \in Nat /\ Len(Form(r)) = B
         /\ \A k \in 1..B : CellText(Form(r)[k], Equal, Eol, {And})
         /\ BodyText(r) =
              FlattenSeq([k \in 1..B |-> (IF k > 1 THEN <<And>> ELSE <<>>)
                                         \o Form(r)[k][1] \o Second(Form(r)[k], Equal)])
<1> DEFINE ps == r.body
           Q == Form(r)
<1>1. /\ B \in Nat /\ DOMAIN ps = 1..B
      /\ \A k \in 1..B : /\ Len(ps[k]) = 2 /\ ps[k][1] # <<>> 
                         /\ ps[k][1] \in Seq(1..255) /\ ps[k][2] \in Seq(1..255)
  BY FormPairs DEF FormPair
<1>3. Len(Q) = B
  BY FormPairs
<1>4. \A k \in 1..B : /\ Len(Q[k]) = 2 /\ Q[k][1] = FormEncoded(ps[k][1])
                      /\ Q[k][2] = FormEncoded(ps[k][2])
  BY FormPairs DEF FormPair
<1> HIDE DEF Q, ps
<1>5. ASSUME NEW k \in 1..B
      PROVE  CellText(Q[k], Equal, Eol, {And})
  <2>1. ps[k][1] \in Seq(Byte255) /\ ps[k][2] \in Seq(Byte255)
    BY <1>1, ByteTexts
  <2> DEFINE R == Byte255 \ (Eol \cup {And, Equal, 0})
             R1 == Byte255 \ (Eol \cup {Equal})
             R2 == Byte255 \ {And}
  <2>2. Q[k][1] \in Seq(R) /\ Q[k][2] \in Seq(R)
    BY <1>4, <2>1, FormIsDecoded
  <2>3. R \subseteq R1 /\ R \subseteq R2
    OBVIOUS
  <2> HIDE DEF R, R1, R2
  <2>4. Q[k][1] \in Seq(R1) /\ Q[k][2] \in Seq(R2)
    BY <2>2, <2>3, SeqMonotonic
  <2> QED
    BY <1>4, <2>4 DEF CellText, R1, R2
<1>6. Pairs(ps, And, FormEncoded) =
        FlattenSeq([k \in 1..B |-> (IF k > 1 THEN <<And>> ELSE <<>>)
                                   \o Q[k][1] \o Second(Q[k], Equal)])
  <2> DEFINE X(k) == (IF k > 1 THEN <<And>> ELSE <<>>) \o FormEncoded(ps[k][1])
                     \o (IF Len(ps[k]) = 2 THEN <<Equal>> \o FormEncoded(ps[k][2]) ELSE <<>>)
             Y(k) == (IF k > 1 THEN <<And>> ELSE <<>>) \o Q[k][1] \o Second(Q[k], Equal)
  <2>1. Pairs(ps, And, FormEncoded) = FlattenSeq([k \in 1..B |-> X(k)])
    BY <1>1 DEF Pairs
  <2>2. ASSUME NEW k \in 1..B
        PROVE  X(k) = Y(k)
    <3>1. (IF Len(ps[k]) = 2 THEN <<Equal>> \o FormEncoded(ps[k][2]) ELSE <<>>) = Second(Q[k], Equal)
      BY <1>1, <1>4 DEF Second
    <3>2. FormEncoded(ps[k][1]) = Q[k][1]
      BY <1>4
    <3> QED
      BY <3>1, <3>2
  <2> HIDE DEF X, Y
  <2>3. [k \in 1..B |-> X(k)] = [k \in 1..B |-> Y(k)]
    BY <2>2
  <2> QED
    BY <2>1, <2>3 DEF Y
<1> QED
  BY <1>1, <1>3, <1>4, <1>5, <1>6 DEF Q, ps, BodyText

LEMMA FieldCells ==
  ASSUME NEW r, WellFormed(r), NEW F, F = Len(r.fields)
  PROVE  /\ F \in Nat
         /\ \A k \in 1..F : /\ CellText(r.fields[k], Colon, Eol, Eol)
                            /\ r.fields[k][1] # <<>> /\ r.fields[k][1] \in Seq(1..255)
                            /\ Len(r.fields[k]) = 2 => r.fields[k][2] \in Seq(1..255)
                            /\ Len(r.fields[k]) \in {1, 2}
         /\ LinesText(r) = FlattenSeq([k \in 1..F |-> r.fields[k][1] \o Second(r.fields[k], Colon) \o r.eol])
<1> DEFINE ps == r.fields
<1>1. /\ F \in Nat /\ DOMAIN ps = 1..F
      /\ \A k \in 1..F : /\ Len(ps[k]) \in {1, 2} /\ ps[k][1] \in Seq(1..255)
                         /\ Len(ps[k]) = 2 => ps[k][2] \in Seq(1..255)
  BY WordsAre, ListIs
<1>2. \A k \in 1..F : /\ ps[k][1] \in TextWithout(Eol \cup {Colon}) /\ ps[k][1] # <<>>
                      /\ Len(ps[k]) = 2 => ps[k][2] \in TextWithout(Eol)
  <2> TAKE k \in 1..F
  <2>1. /\ ps[k][1] \in TextWithout(Eol \cup {Colon}) \ {<<>>}
        /\ Len(ps[k]) # 1 => ps[k][2] \in TextWithout(Eol)
    BY <1>1 DEF WellFormed, WellFormedFields
  <2>2. Len(ps[k]) = 2 => Len(ps[k]) # 1
    OBVIOUS
  <2> QED
    BY <2>1, <2>2
<1>3. LinesText(r) = FlattenSeq([k \in 1..F |-> ps[k][1] \o Second(ps[k], Colon) \o r.eol])
  BY <1>1 DEF LinesText, Second
<1> HIDE DEF ps
<1>4. ASSUME NEW k \in 1..F
      PROVE  CellText(ps[k], Colon, Eol, Eol)
  <2>1. ps[k][1] \in Seq(Byte255 \ (Eol \cup {Colon}))
    BY <1>2, WithoutBytes
  <2>2. Len(ps[k]) = 2 => ps[k][2] \in Seq(Byte255 \ Eol)
    BY <1>2, WithoutBytes
  <2>3. Len(ps[k]) = 1 \/ Len(ps[k]) = 2
    BY <1>1
  <2> QED
    BY <2>1, <2>2, <2>3 DEF CellText
<1> QED
  BY <1>1, <1>2, <1>3, <1>4 DEF ps
LEMMA FirstByte ==
  ASSUME NEW w, NEW p \in Nat \ {0}, NEW b \in Byte255, NEW t \in Seq(Byte255), Put(w, p, <<b>> \o t)
  PROVE  w[p] = b /\ Put(w, p + 1, t) /\ Len(<<b>> \o t) = 1 + Len(t) /\ Len(t) \in Nat
<1> DEFINE o == <<b>>
<1>1. o \in Seq(Byte255) /\ Len(o) = 1 /\ o[1] = b
  OBVIOUS
<1>2. Put(w, p, o \o t)
  OBVIOUS
<1> HIDE DEF o
<1>3. Len(t) \in Nat /\ Len(o \o t) = Len(o) + Len(t)
  BY <1>1, Behind, LenProperties
<1>4. Put(w, p, o)
  BY <1>1, <1>2, PutParts
<1>5. Put(w, p + Len(o), t)
  BY <1>1, <1>2, PutParts
<1>6. w[p] = b
  <2>1. 1 \in 1..Len(o) /\ p - 1 + 1 = p
    BY <1>1
  <2>2. w[p - 1 + 1] = o[1]
    BY <1>4, <2>1 DEF Put
  <2> QED
    BY <1>1, <2>1, <2>2
<1> QED
  BY <1>1, <1>3, <1>5, <1>6 DEF o

LEMMA QueryPlanExists ==
  ASSUME NEW r, WellFormed(r), NEW w, NEW q \in Nat \ {0}, Put(w, q, QueryText(r)),
         NEW v, v = q + Len(QueryText(r))
  PROVE  \E s, x, z : QueryPlan(r, w, q, v, s, x, z)
<1> DEFINE P == Len(r.params)
<1>1. /\ P \in Nat
      /\ \A k \in 1..P : CellText(Query(r)[k], Equal, Eol, Eol \cup {And, Space})
      /\ Pairs(r.params, And, Escaped) =
              FlattenSeq([k \in 1..P |-> (IF k > 1 THEN <<And>> ELSE <<>>)
                                         \o Query(r)[k][1] \o Second(Query(r)[k], Equal)])
  BY QueryIs
<1>2. r.params = <<>> <=> P = 0
  <2>1. r.params \in Seq(Seq(Seq(1..255)))
    BY WordsAre DEF Lists
  <2> QED
    BY <2>1, EmptySeq
<1>3. CASE P = 0
  <2>1. v = q
    BY <1>2, <1>3 DEF QueryText
  <2>2. 1..P = {} /\ 1..P - 1 = {}
    BY <1>3
  <2>3. QueryPlan(r, w, q, v, <<>>, <<>>, <<>>)
    BY <1>3, <2>1, <2>2 DEF QueryPlan
  <2> QED
    BY <2>3
<1>4. CASE P # 0
  <2> DEFINE t == Pairs(r.params, And, Escaped)
  <2>1. QueryText(r) = <<Question>> \o t /\ t \in Seq(Byte255) /\ Question \in Byte255
    BY <1>2, <1>4, WordsAre, ParamsType DEF QueryText, Question, Byte255
  <2>2. And \in Byte255 /\ Equal \in Byte255
    BY DEF And, Equal, Byte255
  <2> HIDE DEF t
  <2>3. w[q] = Question /\ Put(w, q + 1, t) /\ Len(QueryText(r)) = 1 + Len(t) /\ Len(t) \in Nat
    BY <2>1, FirstByte
  <2> DEFINE q1 == q + 1
             seqs == [k \in 1..P |-> (IF k > 1 THEN <<And>> ELSE <<>>)
                                         \o Query(r)[k][1] \o Second(Query(r)[k], Equal)]
  <2>4. q1 \in Nat \ {0} /\ Put(w, q1, t) /\ v = q1 + Len(t)
    BY <2>3
  <2>5. t = FlattenSeq(seqs)
    BY <1>1 DEF t
  <2> HIDE DEF q1, P
  <2>6. \E s, x, z : Row(w, P, Query(r), And, Equal, Eol, Eol \cup {And, Space}, q1, q1 + Len(t), s, x, z)
    BY <1>1, <2>2, <2>4, <2>5, PairsPlaces
  <2>7. PICK s, x, z : Row(w, P, Query(r), And, Equal, Eol, Eol \cup {And, Space}, q1, v, s, x, z)
    BY <2>4, <2>6
  <2>8. QueryPlan(r, w, q, v, s, x, z)
    BY <1>4, <2>3, <2>7 DEF Row, QueryPlan, P, q1
  <2> QED
    BY <2>8
<1> QED
  BY <1>3, <1>4

LEMMA BodyPlanExists ==
  ASSUME NEW r, WellFormed(r), NEW w, NEW b \in Nat, Put(w, b + 1, BodyText(r)),
         Len(w) + 1 = b + 1 + Len(BodyText(r)), Len(w) \in Nat
  PROVE  \E s, x, z : BodyPlan(r, w, b, s, x, z)
<1> DEFINE B == Len(r.body)
           t == BodyText(r)
           seqs == [k \in 1..B |-> (IF k > 1 THEN <<And>> ELSE <<>>)
                                         \o Form(r)[k][1] \o Second(Form(r)[k], Equal)]
           b1 == b + 1
<1>1. /\ B \in Nat
      /\ \A k \in 1..B : CellText(Form(r)[k], Equal, Eol, {And})
      /\ t = FlattenSeq(seqs)
  BY FormCells
<1>2. And \in Byte255 /\ Equal \in Byte255
  BY DEF And, Equal, Byte255
<1>3. b1 \in Nat \ {0} /\ Put(w, b1, t) /\ Len(w) + 1 = b1 + Len(t)
  OBVIOUS
<1> HIDE DEF b1, B, t
<1>4. \E s, x, z : Row(w, B, Form(r), And, Equal, Eol, {And}, b1, b1 + Len(t), s, x, z)
  BY <1>1, <1>2, <1>3, PairsPlaces
<1>5. PICK s, x, z : Row(w, B, Form(r), And, Equal, Eol, {And}, b1, Len(w) + 1, s, x, z)
  BY <1>3, <1>4
<1>6. Len(t) \in Nat
  BY PartTexts, LenProperties DEF t
<1>7. Len(w) - b = Len(t)
  <2> DEFINE n == Len(w)
             m == Len(t)
  <2>1. n \in Nat /\ m \in Nat /\ n + 1 = b + 1 + m
    BY <1>3, <1>6 DEF b1
  <2> HIDE DEF n, m
  <2>2. n - b = m
    BY <2>1
  <2> QED
    BY <2>2 DEF n, m
<1>8. B = 0 => Len(w) = b
  BY <1>5 DEF Row, b1
<1>9. BodyPlan(r, w, b, s, x, z)
  BY <1>5, <1>7, <1>8 DEF Row, BodyPlan, BodyText, B, b1, t
<1> QED
  BY <1>9

LEMMA EolSize ==
  ASSUME NEW r, WellFormed(r)
  PROVE  /\ r.eol \in Seq(Byte255) /\ Len(r.eol) \in {1, 2} /\ r.eol[1] \in Eol
         /\ Len(r.eol) = 1 => r.eol[1] = NewLine
         /\ Len(r.eol) = 2 => r.eol[1] = Return /\ r.eol[2] = NewLine
<1>1. <<NewLine>> \in Seq(Byte255) /\ <<Return, NewLine>> \in Seq(Byte255)
  BY DEF NewLine, Return, Byte255
<1>2. CASE r.eol = <<NewLine>>
  <2>1. Len(r.eol) = 1 /\ r.eol[1] = NewLine
    BY <1>2
  <2> QED
    BY <1>1, <1>2, <2>1 DEF Eol
<1>3. CASE r.eol = <<Return, NewLine>>
  <2>1. Len(r.eol) = 2 /\ r.eol[1] = Return /\ r.eol[2] = NewLine
    BY <1>3
  <2> QED
    BY <1>1, <1>3, <2>1 DEF Eol
<1> QED
  BY <1>2, <1>3, WordsAre

LEMMA EolCut ==
  ASSUME NEW r, WellFormed(r), NEW w, NEW p \in Nat \ {0}, Put(w, p, r.eol)
  PROVE  EolPut(r, w, p)
<1>1. r.eol \in Seq(Byte255 \ {})
  <2>1. Byte255 \ {} = Byte255
    OBVIOUS
  <2> QED
    BY <2>1, EolSize
<1> QED
  BY <1>1, CutIs DEF EolPut

LEMMA FieldsPlanExists ==
  ASSUME NEW r, WellFormed(r), NEW w, NEW s0, NEW f0, NEW q0, NEW v, NEW e, NEW t, NEW b,
         Parted(r, w, s0, f0, q0, v, e, t, b)
  PROVE  \E s, x, z : FieldsPlan(r, w, v, e, b - 1, s, x, z)
<1> DEFINE n == Len(r.eol)
           F == Len(r.fields)
<1>1. /\ v \in Nat \ {0} /\ e \in Nat \ {0} /\ t \in Nat \ {0} /\ b \in Nat \ {0}
      /\ Put(w, v, VersionText(r)) /\ e = v + Len(VersionText(r))
      /\ Put(w, e, r.eol) /\ t = e + n /\ Put(w, t, TailText(r)) /\ b = t + Len(TailText(r))
  BY DEF Parted
<1>2. n \in {1, 2} /\ r.eol \in Seq(Byte255) /\ EolPut(r, w, e)
  BY <1>1, EolSize, EolCut
<1>3. CASE r.version = <<>>
  <2>1. VersionText(r) = <<>> /\ TailText(r) = <<>>
    BY <1>3 DEF VersionText, TailText
  <2>2. e = v /\ b = t
    <3>1. Len(VersionText(r)) = 0 /\ Len(TailText(r)) = 0
      BY <2>1
    <3> QED
      BY <1>1, <3>1
  <2>3. b - 1 = v + n - 1
    <3> HIDE DEF n
    <3> QED
      BY <1>1, <1>2, <2>2
  <2>4. FieldsPlan(r, w, v, e, b - 1, <<>>, <<>>, <<>>)
    BY <1>2, <1>3, <2>2, <2>3 DEF FieldsPlan
  <2> QED
    BY <2>4
<1>4. CASE r.version # <<>>
  <2> DEFINE ver == r.version
             lines == LinesText(r)
             seqs == [k \in 1..F |-> r.fields[k][1] \o Second(r.fields[k], Colon) \o r.eol]
  <2>1. ver \in Seq(Byte255 \ Eol) /\ ver \in Seq(Byte255)
    BY WordsAre, WithoutBytes
  <2>2. VersionText(r) = <<Space>> \o ver /\ TailText(r) = lines \o r.eol /\ Space \in Byte255
    BY <1>4 DEF VersionText, TailText, Space, Byte255
  <2>3. /\ F \in Nat /\ lines = FlattenSeq(seqs)
        /\ \A k \in 1..F : CellText(r.fields[k], Colon, Eol, Eol)
    BY FieldCells, Zenon
  <2> HIDE DEF ver, lines, n, F
  <2>4. w[v] = Space /\ Put(w, v + 1, ver) /\ Len(VersionText(r)) = 1 + Len(ver) /\ Len(ver) \in Nat
    BY <1>1, <2>1, <2>2, FirstByte
  <2> DEFINE v1 == v + 1
  <2>5. v1 \in Nat \ {0} /\ Put(w, v1, ver) /\ e = v1 + Len(ver)
    BY <1>1, <2>4
  <2> HIDE DEF v1
  <2>6. Cut(w, v1, v1 + Len(ver), ver, Eol)
    BY <2>1, <2>5, CutIs
  <2>7. lines \in Seq(Byte255)
    BY PartTexts DEF lines
  <2>8. Put(w, t, lines \o r.eol)
    BY <1>1, <2>2
  <2>9. Put(w, t, lines)
    BY <1>1, <1>2, <2>7, <2>8, PutParts
  <2>10. Put(w, t + Len(lines), r.eol)
    BY <1>1, <1>2, <2>7, <2>8, PutParts
  <2>11. Len(lines \o r.eol) = Len(lines) + n /\ Len(lines) \in Nat
    BY <1>2, <2>7, Behind, LenProperties DEF n
  <2>12. \E s, x, z : Rows(w, F, r.fields, r.eol, t, t + Len(lines), s, x, z)
    BY <1>1, <1>2, <2>3, <2>9, FieldsPlaces
  <2> DEFINE z0 == t + Len(lines)
  <2>13. PICK s, x, z : Rows(w, F, r.fields, r.eol, t, z0, s, x, z)
    BY <2>12
  <2>14. z0 \in Nat \ {0} /\ Put(w, z0, r.eol) /\ b = z0 + n
    BY <1>1, <1>2, <2>2, <2>10, <2>11
  <2> HIDE DEF z0
  <2>15. EolPut(r, w, z0)
    BY <2>14, EolCut
  <2>16. /\ \A k \in 1..F : /\ Cell(w, r.fields[k], Colon, s[k], x[k], z[k], Eol, Eol)
                            /\ z[k] \in Nat \ {0} /\ Put(w, z[k], r.eol) /\ s[k + 1] = z[k] + n
         /\ \A k \in 1..F + 1 : s[k] \in Nat \ {0} /\ s[k] <= z0
         /\ s[1] = t /\ s[F + 1] = z0
    BY <2>13 DEF Rows, n
  <2>17. \A k \in 1..F : EolPut(r, w, z[k])
    BY <2>16, EolCut
  <2>18. \A k \in 1..F + 1 : s[k] + n - 1 <= b - 1
    <3> TAKE k \in 1..F + 1
    <3>1. s[k] \in Nat /\ s[k] <= z0
      BY <2>16
    <3> QED
      BY <1>2, <2>14, <3>1 DEF n
  <2>19. b - 1 = z0 + n - 1
    BY <1>2, <2>14 DEF n
  <2>20. FieldsPlan(r, w, v, e, b - 1, s, x, z)
    <3>1. Cut(w, v + 1, e, r.version, Eol)
      BY <2>5, <2>6 DEF v1, ver
    <3>2. s[1] = e + Len(r.eol)
      BY <1>1, <2>16 DEF n
    <3>3. \A k \in 1..F : /\ Cell(w, r.fields[k], Colon, s[k], x[k], z[k], Eol, Eol)
                          /\ EolPut(r, w, z[k])
                          /\ s[k + 1] = z[k] + n
      BY <2>16, <2>17
    <3>4. \A k \in 1..F + 1 : s[k] \in Nat \ {0} /\ s[k] + n - 1 <= b - 1
      BY <2>16, <2>18
    <3>5. EolPut(r, w, s[F + 1]) /\ b - 1 = s[F + 1] + n - 1
      BY <2>15, <2>16, <2>19
    <3> QED
      BY <1>2, <1>4, <2>4, <3>1, <3>2, <3>3, <3>4, <3>5 DEF FieldsPlan, n, F
  <2> QED
    BY <2>20
<1> QED
  BY <1>3, <1>4

LEMMA PlanExists ==
  ASSUME NEW r, WellFormed(r), r.file # <<>>
  PROVE  \E L : L.r = r /\ L.w = Wire(r) /\ Plan(L)
<1> DEFINE w == Wire(r)
<1>1. PICK s, f, q, v, e, t, b : Parted(r, w, s, f, q, v, e, t, b)
  BY WireParts
<1>2. /\ s \in Nat \ {0} /\ f \in Nat \ {0} /\ q \in Nat \ {0} /\ v \in Nat \ {0} /\ b \in Nat \ {0}
      /\ Put(w, 1, r.method) /\ s = 1 + Len(r.method)
      /\ Put(w, s, SpaceText(r)) /\ f = s + Len(SpaceText(r))
      /\ Put(w, f, r.file) /\ q = f + Len(r.file)
      /\ Put(w, q, QueryText(r)) /\ v = q + Len(QueryText(r))
      /\ Put(w, b, BodyText(r)) /\ Len(w) + 1 = b + Len(BodyText(r))
  BY <1>1 DEF Parted
<1>3. w \in Seq(Byte255) /\ Len(w) \in Nat
  BY WordsAre, WireIs, LenProperties
<1> HIDE DEF w
<1>4. LinePlan(r, w, f, q)
  <2> DEFINE a == r.method
             c == r.file
  <2>1. /\ a \in Seq(Byte255 \ (Eol \cup {Space})) /\ Len(a) \in Nat
        /\ c \in Seq(Byte255 \ (Eol \cup {Space, Question}))
    BY WordsAre, WithoutBytes
  <2> DEFINE o == <<Space>>
  <2>2. o \in Seq(Byte255) /\ Len(o) = 1 /\ o[1] = Space /\ SpaceText(r) = o
    BY DEF SpaceText, Space, Byte255
  <2> HIDE DEF a, c, o
  <2>3. /\ Put(w, 1, a) /\ s = 1 + Len(a) /\ Put(w, s, o) /\ f = s + 1
        /\ Put(w, f, c) /\ q = f + Len(c)
    BY <1>2, <2>2 DEF a, c
  <2>4. 1 \in Nat \ {0} /\ f = Len(a) + 2 /\ 1 + Len(a) = f - 1 /\ s = f - 1
    BY <1>2, <2>1, <2>3
  <2>5. Cut(w, 1, 1 + Len(a), a, Eol \cup {Space})
    BY <2>1, <2>3, <2>4, CutIs
  <2>6. Cut(w, f, f + Len(c), c, Eol \cup {Space, Question})
    BY <1>2, <2>1, <2>3, CutIs
  <2>7. w[f - 1] = Space
    <3>1. 1 \in 1..Len(o) /\ s - 1 + 1 = f - 1
      BY <1>2, <2>2, <2>4
    <3>2. w[s - 1 + 1] = o[1]
      BY <1>2, <2>3, <3>1 DEF Put
    <3> QED
      BY <2>2, <3>1, <3>2
  <2> QED
    BY <2>3, <2>4, <2>5, <2>6, <2>7 DEF LinePlan, a, c
<1>5. PICK ps, pv, pe : QueryPlan(r, w, q, v, ps, pv, pe)
  BY <1>2, QueryPlanExists
<1>6. PICK fs, fv, fe : FieldsPlan(r, w, v, e, b - 1, fs, fv, fe)
  BY <1>1, FieldsPlanExists
<1>7. b - 1 \in Nat /\ (b - 1) + 1 = b
  BY <1>2
<1>8. PICK bs, bv, be : BodyPlan(r, w, b - 1, bs, bv, be)
  <2> DEFINE b0 == b - 1
  <2>1. b0 \in Nat /\ Put(w, b0 + 1, BodyText(r)) /\ Len(w) + 1 = b0 + 1 + Len(BodyText(r))
    BY <1>2, <1>7
  <2> HIDE DEF b0
  <2>2. \E x, y, z : BodyPlan(r, w, b0, x, y, z)
    BY <1>3, <2>1, BodyPlanExists
  <2> QED
    BY <2>2 DEF b0
<1> DEFINE L == [r |-> r, w |-> w, f |-> f, d |-> q, q |-> v, ve |-> e, b |-> b - 1,
                 ps |-> ps, pv |-> pv, pe |-> pe, fs |-> fs, fv |-> fv, fe |-> fe,
                 bs |-> bs, bv |-> bv, be |-> be]
<1>9. /\ L.r = r /\ L.w = w /\ L.f = f /\ L.d = q /\ L.q = v /\ L.ve = e /\ L.b = b - 1
      /\ L.ps = ps /\ L.pv = pv /\ L.pe = pe /\ L.fs = fs /\ L.fv = fv /\ L.fe = fe
      /\ L.bs = bs /\ L.bv = bv /\ L.be = be
  OBVIOUS
<1> HIDE DEF L
<1>10. Plan(L)
  BY <1>4, <1>5, <1>6, <1>7, <1>8, <1>9 DEF Plan, w
<1> QED
  BY <1>9, <1>10 DEF w
LEMMA HeldKept ==
  ASSUME NEW buf, NEW new, NEW p, NEW t, NEW z \in Int, NEW zz \in Int, z <= zz,
         Held(buf, p, t, z), \A k \in 1..z - 1 : new[k] = buf[k]
  PROVE  Held(new, p, t, zz)
<1>1. p \in Nat \ {0} /\ Len(t) \in Nat /\ p + Len(t) < z /\ p + Len(t) < zz
  BY DEF Held
<1>2. \A k \in 1..Len(t) : p - 1 + k \in 1..z - 1
  BY <1>1
<1>3. p + Len(t) \in 1..z - 1
  BY <1>1
<1>4. new[p + Len(t)] = 0
  BY <1>3 DEF Held
<1>5. \A k \in 1..Len(t) : new[p - 1 + k] = t[k]
  BY <1>2 DEF Held
<1> QED
  BY <1>1, <1>4, <1>5 DEF Held

LEMMA HeldPairsKept ==
  ASSUME NEW buf, NEW new, NEW list, NEW cs, NEW z \in Int, NEW zz \in Int, z <= zz,
         HeldPairs(buf, list, cs, z), \A k \in 1..z - 1 : new[k] = buf[k]
  PROVE  HeldPairs(new, list, cs, zz)
<1>1. ASSUME NEW k \in 1..Len(list)
      PROVE  HeldPair(new, list[k], cs[k], zz)
  <2>1. HeldPair(buf, list[k], cs[k], z)
    BY DEF HeldPairs
  <2>2. Held(new, list[k][1], cs[k][1], zz)
    <3>1. Held(buf, list[k][1], cs[k][1], z)
      BY <2>1 DEF HeldPair
    <3> QED
      BY <3>1, HeldKept
  <2>3. ASSUME Len(cs[k]) # 1
        PROVE  Held(new, list[k][2], cs[k][2], zz)
    <3>1. Held(buf, list[k][2], cs[k][2], z)
      BY <2>1, <2>3 DEF HeldPair
    <3> QED
      BY <3>1, HeldKept
  <2>4. IF Len(cs[k]) = 1 THEN list[k][2] = NULL ELSE list[k][2] # NULL
    BY <2>1 DEF HeldPair
  <2> QED
    BY <2>2, <2>3, <2>4 DEF HeldPair
<1> QED
  BY <1>1 DEF HeldPairs

\* The part that ends at z is held there.
LEMMA HeldHere ==
  ASSUME NEW buf, NEW w, NEW p, NEW z, NEW t, NEW bytes, NEW zz \in Int,
         Cut(w, p, z, t, bytes), z < zz, \A k \in p..z - 1 : buf[k] = w[k], buf[z] = 0
  PROVE  Held(buf, p, t, zz)
<1>1. p \in Nat \ {0} /\ Len(t) \in Nat /\ z = p + Len(t)
  BY DEF Cut
<1>2. \A k \in 1..Len(t) : p - 1 + k \in p..z - 1 /\ (p - 1 + k) - p + 1 = k
  BY <1>1
<1>3. \A k \in 1..Len(t) : w[p - 1 + k] = t[(p - 1 + k) - p + 1]
  BY <1>2 DEF Cut
<1>4. \A k \in 1..Len(t) : buf[p - 1 + k] = t[k]
  BY <1>2, <1>3
<1> QED
  BY <1>1, <1>4 DEF Held

LEMMA HeldAppend ==
  ASSUME NEW buf, NEW list \in PairLists, NEW pair, NEW cs, NEW z,
         HeldPairs(buf, list, cs, z), NEW k \in 1..Len(cs), k = Len(list) + 1, Len(cs) \in Nat,
         HeldPair(buf, pair, cs[k], z)
  PROVE  HeldPairs(buf, Append(list, pair), cs, z) /\ Len(Append(list, pair)) = k
<1>1. /\ Len(Append(list, pair)) = Len(list) + 1 /\ Len(list) \in Nat
      /\ \A j \in 1..Len(list) : Append(list, pair)[j] = list[j]
      /\ Append(list, pair)[Len(list) + 1] = pair
  <2> DEFINE T == Positions \X (Positions \cup {NULL})
             S == T \cup {pair}
  <2>1. list \in Seq(T) /\ T \subseteq S /\ pair \in S
    BY DEF PairLists
  <2> HIDE DEF S, T
  <2>2. list \in Seq(S)
    BY <2>1, SeqMonotonic
  <2> QED
    BY <2>1, <2>2, AppendProperties, LenProperties
<1>2. ASSUME NEW j \in 1..Len(list) + 1
      PROVE  HeldPair(buf, Append(list, pair)[j], cs[j], z)
  <2>1. CASE j = Len(list) + 1
    BY <1>1, <2>1
  <2>2. CASE j # Len(list) + 1
    <3>1. j \in 1..Len(list)
      BY <1>1, <2>2
    <3> QED
      BY <1>1, <3>1 DEF HeldPairs
  <2> QED
    BY <2>1, <2>2
<1> QED
  BY <1>1, <1>2 DEF HeldPairs

\* Where a text that is held ends
LEMMA HeldEnds ==
  ASSUME NEW N \in Nat, NEW buf \in [1..N -> Byte255], NEW p, NEW t \in Seq(1..255),
         NEW z \in Int, z <= N + 1, Held(buf, p, t, z)
  PROVE  /\ p \in 1..N /\ p + Len(t) \in 1..N /\ Ends(buf, p, p + Len(t))
         /\ TextIn(buf, p) = t
<1> DEFINE n == Len(t)
<1>1. p \in Nat \ {0} /\ n \in Nat /\ p + n < z
  BY DEF Held
<1>2. \A k \in 1..n : buf[p - 1 + k] = t[k] /\ t[k] # 0
  <2> TAKE k \in 1..n
  <2>1. t[k] \in 1..255
    BY ElementOfSeq
  <2>2. t[k] # 0
    <3>1. \A x \in 1..255 : x # 0
      OBVIOUS
    <3> QED
      BY <2>1, <3>1
  <2> QED
    BY <2>2 DEF Held
<1>3. buf[p + n] = 0
  BY DEF Held
<1>4. t = [k \in 1..n |-> t[k]]
  BY SeqDef
<1> HIDE DEF n
<1>5. p \in 1..N /\ p + n \in 1..N /\ (p + n) - p = n
  BY <1>1
<1>6. \A k \in p..(p + n) - 1 : buf[k] # 0
  <2> TAKE k \in p..(p + n) - 1
  <2>1. k - p + 1 \in 1..n /\ p - 1 + (k - p + 1) = k
    BY <1>1
  <2> QED
    BY <1>2, <2>1
<1>7. Ends(buf, p, p + n)
  BY <1>1, <1>3, <1>6 DEF Ends
<1>8. TextIn(buf, p) = [k \in 1..n |-> buf[p + k - 1]]
  BY <1>5, <1>7, TextIs
<1>9. \A k \in 1..n : buf[p + k - 1] = t[k]
  <2> TAKE k \in 1..n
  <2>1. p + k - 1 = p - 1 + k
    BY <1>1
  <2> QED
    BY <1>2, <2>1
<1> QED
  BY <1>4, <1>5, <1>7, <1>8, <1>9 DEF n

\* The text of what is held
LEMMA HeldText ==
  ASSUME TypeInv, NEW p, NEW t \in Seq(1..255), NEW z \in Int, z <= BufferSize + 2,
         Held(buffer, p, t, z)
  PROVE  Text(p) = t
<1> DEFINE N == BufferSize + 1
<1>1. N \in Nat /\ buffer \in [1..N -> Byte255] /\ z <= N + 1
  <2>1. buffer \in [Positions -> 0..255]
    BY Types
  <2> QED
    BY <2>1, SizesHold DEF Sizes, Byte255
<1> HIDE DEF N
<1> QED
  BY <1>1, HeldEnds DEF Text

\* Between two parts there is no part that starts.
LEMMA StartAhead ==
  ASSUME phase' = "header", state' \in 5..7
  PROVE  Start' = i'
BY DEF Start

\* The part that the automaton is in starts where it has been.
LEMMA StartIs ==
  ASSUME TypeInv, NameInv, phase \in {"header", "body"}
  PROVE  Start \in 1..i
<1>1. Sizes /\ PointersSet
  BY SizesHold DEF TypeInv
<1>2. /\ {fileName, lastName, lastValue} \subseteq Positions \cup {NULL}
      /\ fileName <= i /\ lastName <= i /\ lastValue <= i
  BY DEF TypeInv, TypeOK
<1>3. /\ fileName # NULL => fileName \in 1..i
      /\ lastName # NULL => lastName \in 1..i
      /\ lastValue # NULL => lastValue \in 1..i
  BY <1>1, <1>2 DEF Sizes
<1>4. i \in 1..i /\ 1 \in 1..i
  BY <1>1 DEF Sizes
<1>5. CASE phase = "header"
  <2>1. state \in {2, 11, 12} => fileName # NULL
    BY <1>5 DEF NameInv, InName
  <2>2. state \in {3, 8, 9, 4, 10} => lastName # NULL
    BY <1>1, <1>5 DEF PointersSet
  <2>3. state \in {4, 10} => lastValue # NULL
    BY <1>1, <1>5 DEF PointersSet
  <2> QED
    BY <1>3, <1>4, <1>5, <2>1, <2>2, <2>3 DEF Start
<1>6. CASE phase = "body"
  <2>1. state # 0 => lastName # NULL
    BY <1>1, <1>6 DEF PointersSet
  <2>2. state \in 0..2 /\ (state = 2 => lastValue # NULL)
    BY <1>1, <1>6 DEF PointersSet
  <2> QED
    BY <1>3, <1>4, <1>6, <2>1, <2>2 DEF Start
<1> QED
  BY <1>5, <1>6

\* A step in the header does not go back, and writes before the next part only.
LEMMA HeaderStart ==
  ASSUME TypeInv, NameInv, phase' = "header",
         \/ ReadMethod \/ SkipSpace \/ ReadFileName \/ ReadParamName \/ ReadParamValue
         \/ ReadVersion \/ SkipEol \/ ReadFieldStart \/ ReadFieldName \/ ReadFieldValue
  PROVE  /\ phase = "header" /\ UNCHANGED <<client, length>> /\ i <= length
         /\ Start' \in Int /\ Start <= Start'
         /\ \/ buffer' = buffer
            \/ Terminate /\ i < Start'
<1>1. Sizes /\ Start \in 1..i /\ phase = "header"
  BY SizesHold, StartIs DEF ReadMethod, SkipSpace, ReadFileName, ReadParamName, ReadParamValue,
     ReadVersion, SkipEol, ReadFieldStart, ReadFieldName, ReadFieldValue, At
<1>2. ~EndHeader /\ ~Fail
  BY DEF EndHeader, Fail
<1>3. \A next : Go(next) => state' = next /\ i' = i + 1
  BY DEF Go
<1>4. i \in Int /\ i < i + 1 /\ i + 1 \in Int /\ Start \in Int /\ Start <= i /\ Start <= i + 1 /\ 1 <= Start
  BY <1>1 DEF Sizes
<1>5. CASE ReadMethod
  <2>1. state = 0 /\ UNCHANGED <<client, length>> /\ i <= length
    BY <1>5 DEF ReadMethod, At
  <2>2. CASE Terminate /\ Go(1)
    <3>1. Start' = i + 1
      BY <1>1, <1>3, <2>2 DEF Start
    <3> QED
      BY <1>1, <1>4, <2>1, <2>2, <3>1
  <2>3. CASE buffer' = buffer /\ Go(0)
    <3>1. Start' = 1 /\ Start = 1
      BY <1>1, <1>3, <2>1, <2>3 DEF Start
    <3> QED
      BY <1>1, <1>4, <2>1, <2>3, <3>1
  <2> QED
    BY <1>2, <1>5, <2>2, <2>3 DEF ReadMethod
<1>6. CASE SkipSpace
  <2>1. state = 1 /\ UNCHANGED <<client, length, buffer>> /\ i <= length
    BY <1>6 DEF SkipSpace, At
  <2>2. CASE Go(1)
    <3>1. Start' = i + 1
      BY <1>1, <1>3, <2>2 DEF Start
    <3> QED
      BY <1>1, <1>4, <2>1, <3>1
  <2>3. CASE Go(2) /\ fileName' = i
    <3>1. Start' = i
      BY <1>1, <1>3, <2>3 DEF Start
    <3> QED
      BY <1>1, <1>4, <2>1, <3>1
  <2> QED
    BY <1>2, <1>6, <2>2, <2>3 DEF SkipSpace
<1>7. CASE ReadFileName
  <2>1. state \in {2, 11, 12} /\ UNCHANGED <<client, length, fileName>> /\ i <= length
    BY <1>7 DEF ReadFileName, At
  <2>2. CASE Terminate /\ Go(3) /\ lastName' = i + 1
    <3>1. Start' = i + 1
      BY <1>1, <1>3, <2>2 DEF Start
    <3> QED
      BY <1>1, <1>4, <2>1, <2>2, <3>1
  <2>3. CASE Terminate /\ Go(5)
    <3>1. Start' = i + 1
      BY <1>1, <1>3, <2>3 DEF Start
    <3> QED
      BY <1>1, <1>4, <2>1, <2>3, <3>1
  <2>4. CASE buffer' = buffer /\ (Go(2) \/ Go(AfterDot))
    <3>1. state' \in {2, 11, 12}
      BY <1>3, <2>4 DEF AfterDot
    <3>2. Start' = Start
      BY <1>1, <2>1, <3>1 DEF Start
    <3> QED
      BY <1>1, <1>4, <2>1, <2>4, <3>2
  <2> QED
    BY <1>2, <1>7, <2>2, <2>3, <2>4 DEF ReadFileName
<1>8. CASE ReadParamName
  <2>1. state = 3 /\ UNCHANGED <<client, length, lastName>> /\ i <= length
    BY <1>8 DEF ReadParamName, At
  <2>2. CASE Terminate /\ Go(4) /\ lastValue' = i + 1
    <3>1. Start' = i + 1
      BY <1>1, <1>3, <2>2 DEF Start
    <3> QED
      BY <1>1, <1>4, <2>1, <2>2, <3>1
  <2>3. CASE buffer' = buffer /\ Go(3)
    <3>1. Start' = Start
      BY <1>1, <1>3, <2>1, <2>3 DEF Start
    <3> QED
      BY <1>1, <1>4, <2>1, <2>3, <3>1
  <2> QED
    BY <1>2, <1>8, <2>2, <2>3 DEF ReadParamName
<1>9. CASE ReadParamValue
  <2>1. state = 4 /\ UNCHANGED <<client, length, lastValue>> /\ i <= length
    BY <1>9 DEF ReadParamValue, At
  <2>2. CASE Terminate /\ Go(3) /\ lastName' = i + 1
    <3>1. Start' = i + 1
      BY <1>1, <1>3, <2>2 DEF Start
    <3> QED
      BY <1>1, <1>4, <2>1, <2>2, <3>1
  <2>3. CASE Terminate /\ Go(5)
    <3>1. Start' = i + 1
      BY <1>1, <1>3, <2>3 DEF Start
    <3> QED
      BY <1>1, <1>4, <2>1, <2>3, <3>1
  <2>4. CASE buffer' = buffer /\ Go(4)
    <3>1. Start' = Start
      BY <1>1, <1>3, <2>1, <2>4 DEF Start
    <3> QED
      BY <1>1, <1>4, <2>1, <2>4, <3>1
  <2> QED
    BY <1>2, <1>9, <2>2, <2>3, <2>4 DEF ReadParamValue
<1>10. CASE ReadVersion
  <2>1. state = 5 /\ UNCHANGED <<client, length, buffer>> /\ i <= length
    BY <1>10 DEF ReadVersion, At
  <2>2. state' \in {5, 6, 7} /\ i' = i + 1
    BY <1>10 DEF ReadVersion, Go
  <2>3. Start' = i + 1
    BY <1>1, <2>2 DEF Start
  <2> QED
    BY <1>1, <1>4, <2>1, <2>3
<1>11. CASE SkipEol
  <2>1. state \in {6, 7} /\ UNCHANGED <<client, length, buffer>> /\ i <= length
    BY <1>11 DEF SkipEol, At
  <2>2. Start' = i' /\ (i' = i \/ i' = i + 1)
    BY <1>1, <1>11 DEF SkipEol, Start
  <2> QED
    BY <1>1, <1>4, <2>1, <2>2
<1>12. CASE ReadFieldStart
  <2>1. state = 8 /\ UNCHANGED <<client, length, buffer, lastName>> /\ i <= length
    BY <1>12 DEF ReadFieldStart, At, pointers
  <2>2. state' = 9
    BY <1>2, <1>3, <1>12 DEF ReadFieldStart
  <2>3. Start' = Start
    BY <1>1, <2>1, <2>2 DEF Start
  <2> QED
    BY <1>1, <1>4, <2>1, <2>3
<1>13. CASE ReadFieldName
  <2>1. state = 9 /\ UNCHANGED <<client, length, lastName>> /\ i <= length
    BY <1>13 DEF ReadFieldName, At
  <2>2. CASE Terminate /\ Go(10) /\ lastValue' = i + 1
    <3>1. Start' = i + 1
      BY <1>1, <1>3, <2>2 DEF Start
    <3> QED
      BY <1>1, <1>4, <2>1, <2>2, <3>1
  <2>3. CASE Terminate /\ Go(IF Byte = NewLine THEN 6 ELSE 7)
    <3>1. state' \in {6, 7} /\ i' = i + 1
      BY <1>3, <2>3
    <3>2. Start' = i + 1
      BY <1>1, <3>1 DEF Start
    <3> QED
      BY <1>1, <1>4, <2>1, <2>3, <3>2
  <2>4. CASE buffer' = buffer /\ Go(9)
    <3>1. Start' = Start
      BY <1>1, <1>3, <2>1, <2>4 DEF Start
    <3> QED
      BY <1>1, <1>4, <2>1, <2>4, <3>1
  <2> QED
    BY <1>2, <1>13, <2>2, <2>3, <2>4 DEF ReadFieldName
<1>14. CASE ReadFieldValue
  <2>1. state = 10 /\ UNCHANGED <<client, length, lastValue>> /\ i <= length
    BY <1>14 DEF ReadFieldValue, At, pointers
  <2>2. CASE Terminate /\ Go(IF Byte = NewLine THEN 6 ELSE 7)
    <3>1. state' \in {6, 7} /\ i' = i + 1
      BY <1>3, <2>2
    <3>2. Start' = i + 1
      BY <1>1, <3>1 DEF Start
    <3> QED
      BY <1>1, <1>4, <2>1, <2>2, <3>2
  <2>3. CASE buffer' = buffer /\ Go(10)
    <3>1. Start' = Start
      BY <1>1, <1>3, <2>1, <2>3 DEF Start
    <3> QED
      BY <1>1, <1>4, <2>1, <2>3, <3>1
  <2> QED
    BY <1>2, <1>14, <2>2, <2>3 DEF ReadFieldValue
<1> QED
  BY <1>5, <1>6, <1>7, <1>8, <1>9, <1>10, <1>11, <1>12, <1>13, <1>14

\* A step that does not go back, and writes before its part only
LEMMA PartStep ==
  ASSUME TypeInv, PartIsSent, UNCHANGED <<client, length>>,
         Open' => /\ Open /\ Start \in Nat \ {0} /\ Start' \in Int /\ Start <= Start'
                  /\ \A k \in Positions : Start' <= k => buffer'[k] = buffer[k]
  PROVE  PartIsSent'
<1> SUFFICES ASSUME Open', NEW k \in Start'..length'
             PROVE  buffer'[k] = wire'[k]
  BY DEF PartIsSent
<1>1. wire' = wire /\ length' = length /\ Sizes
  BY SizesHold DEF client
<1> DEFINE s == Start
           t == Start'
<1>2. Open /\ s \in Nat \ {0} /\ t \in Int /\ s <= t /\ \A j \in Positions : t <= j => buffer'[j] = buffer[j]
  OBVIOUS
<1>3. k \in t..length
  BY <1>1
<1>4. \A j \in s..length : buffer[j] = wire[j]
  BY <1>2 DEF PartIsSent
<1> HIDE DEF s, t
<1>5. k \in Positions /\ t <= k /\ k \in s..length
  BY <1>1, <1>2, <1>3 DEF Sizes
<1>6. buffer'[k] = buffer[k]
  BY <1>2, <1>5
<1>7. buffer[k] = wire[k]
  BY <1>4, <1>5
<1> QED
  BY <1>1, <1>6, <1>7

\* A request of which no field has been read has no body.
LEMMA EmptyBody ==
  ASSUME TypeInv, NameInv, EndHeader, phase = "header", state \in {2, 3, 4, 11, 12}
  PROVE  /\ phase' = "body" => state' = 0 /\ responseSize' = 0
         /\ phase' \in {"body", "answer"} /\ i' = i /\ syntaxError' = syntaxError
<1>1. fields = <<>>
  BY DEF NameInv
<1>2. Body = 0
  BY <1>1, NoBody
<1> QED
  BY <1>2 DEF EndHeader

LEMMA PartHeader ==
  ASSUME TypeInv, NameInv, PartIsSent,
         \/ ReadMethod \/ SkipSpace \/ ReadFileName \/ ReadParamName \/ ReadParamValue
         \/ ReadVersion \/ SkipEol \/ ReadFieldStart \/ ReadFieldName \/ ReadFieldValue
  PROVE  PartIsSent'
<1>1. Sizes /\ phase = "header" /\ Start \in 1..i
  BY SizesHold, StartIs DEF ReadMethod, SkipSpace, ReadFileName, ReadParamName, ReadParamValue,
     ReadVersion, SkipEol, ReadFieldStart, ReadFieldName, ReadFieldValue, At
<1>2. UNCHANGED <<client, length>>
  BY DEF ReadMethod, SkipSpace, ReadFileName, ReadParamName, ReadParamValue,
     ReadVersion, SkipEol, ReadFieldStart, ReadFieldName, ReadFieldValue
<1>3. Start \in Nat \ {0} /\ Start \in Int /\ Start <= i /\ i \in Int
  BY <1>1 DEF Sizes
<1>4. Open
  BY <1>1 DEF Open
<1>5. CASE phase' = "header"
  <2>1. /\ Start' \in Int /\ Start <= Start'
        /\ \/ buffer' = buffer
           \/ Terminate /\ i < Start'
    BY <1>5, HeaderStart
  <2>2. ASSUME NEW k \in Positions, Start' <= k
        PROVE  buffer'[k] = buffer[k]
    <3>1. CASE buffer' = buffer
      BY <3>1
    <3>2. CASE Terminate /\ i < Start'
      <4>1. k # i
        BY <1>1, <1>3, <2>1, <2>2, <3>2 DEF Sizes
      <4> QED
        BY <3>2, <4>1, TerminateType
    <3> QED
      BY <2>1, <3>1, <3>2
  <2> QED
    BY <1>2, <1>3, <1>4, <2>1, <2>2, PartStep
<1>6. CASE phase' # "header" /\ ReadFieldStart
  <2>1. EndHeader /\ buffer' = buffer /\ lastName' = lastName /\ state = 8
    <3>1. \A next : Go(next) => phase' = phase
      BY DEF Go
    <3> QED
      BY <1>1, <1>6, <3>1 DEF ReadFieldStart, At, pointers
  <2>2. CASE Open'
    <3>1. phase' = "body" /\ state' = 0 /\ i' = i
      BY <1>6, <2>1, <2>2, EndHeaderType DEF Open
    <3>2. Start' = i
      BY <3>1 DEF Start
    <3> QED
      BY <1>2, <1>3, <1>4, <2>1, <3>2, PartStep
  <2> QED
    BY <2>2 DEF PartIsSent
<1>7. CASE phase' # "header" /\ ~ReadFieldStart
  <2>1. \A next : Go(next) => phase' = phase
    BY DEF Go
  <2>2. Fail => phase' = "answer"
    BY DEF Fail
  <2>3. SkipEol => phase' = phase
    BY DEF SkipEol
  <2>4. \/ phase' = "answer"
        \/ EndHeader /\ state \in {2, 3, 4, 11, 12}
    BY <1>1, <1>7, <2>1, <2>2, <2>3 DEF ReadMethod, SkipSpace, ReadFileName, ReadParamName, ReadParamValue,
       ReadVersion, ReadFieldName, ReadFieldValue, At
  <2>5. ~Open'
    <3>1. CASE phase' = "answer"
      BY <3>1 DEF Open
    <3>2. CASE EndHeader /\ state \in {2, 3, 4, 11, 12}
      BY <1>1, <3>2, EmptyBody DEF Open
    <3> QED
      BY <2>4, <3>1, <3>2
  <2> QED
    BY <2>5 DEF PartIsSent
<1> QED
  BY <1>5, <1>6, <1>7

LEMMA PartBody ==
  ASSUME TypeInv, NameInv, PartIsSent, SkipBeforeBody \/ ReadBodyName \/ ReadBodyValue
  PROVE  PartIsSent'
<1>1. Sizes /\ phase = "body" /\ phase' = "body" /\ Start \in 1..i /\ responseSize # 0
  BY SizesHold, StartIs DEF SkipBeforeBody, ReadBodyName, ReadBodyValue, InBody
<1>2. UNCHANGED <<client, length>> /\ i' = i + 1
  BY DEF SkipBeforeBody, ReadBodyName, ReadBodyValue
<1>3. Start \in Nat \ {0} /\ Start \in Int /\ Start <= i /\ i \in Int /\ i + 1 \in Int
      /\ Start <= i + 1
  BY <1>1 DEF Sizes
<1>4. Open
  BY <1>1 DEF Open
<1>5. CASE SkipBeforeBody
  <2>1. state = 0 /\ buffer' = buffer
    BY <1>5 DEF SkipBeforeBody, InBody
  <2>2. Start' = i + 1 \/ Start' = i
    BY <1>1, <1>2, <1>5, <2>1 DEF SkipBeforeBody, Start
  <2> QED
    BY <1>2, <1>3, <1>4, <2>1, <2>2, PartStep
<1>6. CASE ReadBodyName
  <2>1. state = 1 /\ lastName' = lastName
    BY <1>6 DEF ReadBodyName, InBody
  <2>2. CASE Byte = Equal
    <3>1. Terminate /\ lastValue' = i + 1 /\ state' = 2
      BY <1>6, <2>2 DEF ReadBodyName
    <3>2. Start' = i + 1
      BY <1>1, <3>1 DEF Start
    <3>3. \A k \in Positions : i + 1 <= k => buffer'[k] = buffer[k]
      <4>1. \A k \in Positions : i + 1 <= k => k # i
        BY <1>1 DEF Sizes
      <4> QED
        BY <3>1, <4>1, TerminateType
    <3> QED
      BY <1>2, <1>3, <1>4, <3>2, <3>3, PartStep
  <2>3. CASE Byte # Equal
    <3>1. buffer' = buffer /\ state' = state
      BY <1>6, <2>3 DEF ReadBodyName
    <3>2. Start' = Start
      BY <1>1, <2>1, <3>1 DEF Start
    <3> QED
      BY <1>2, <1>3, <1>4, <3>1, <3>2, PartStep
  <2> QED
    BY <2>2, <2>3
<1>7. CASE ReadBodyValue
  <2>1. state = 2 /\ lastValue' = lastValue
    BY <1>7 DEF ReadBodyValue, InBody
  <2>2. CASE Byte = And
    <3>1. EndPair /\ lastName' = i + 1 /\ state' = 1
      BY <1>7, <2>2 DEF ReadBodyValue
    <3>2. Start' = i + 1
      BY <1>1, <3>1 DEF Start
    <3>3. \A k \in Positions : i + 1 <= k => buffer'[k] = buffer[k]
      <4>1. \A k \in Positions : i + 1 <= k => k > i
        BY <1>1 DEF Sizes
      <4> QED
        BY <1>1, <2>1, <3>1, <4>1, EndPairType
    <3> QED
      BY <1>2, <1>3, <1>4, <3>2, <3>3, PartStep
  <2>3. CASE Byte # And
    <3>1. buffer' = buffer /\ state' = state
      BY <1>7, <2>3 DEF ReadBodyValue
    <3>2. Start' = Start
      BY <1>1, <2>1, <3>1 DEF Start
    <3> QED
      BY <1>2, <1>3, <1>4, <3>1, <3>2, PartStep
  <2> QED
    BY <2>2, <2>3
<1> QED
  BY <1>5, <1>6, <1>7

\* What read() leaves alone
LEMMA ReceiveKeeps ==
  ASSUME TypeInv, NameInv, Receive
  PROVE  /\ UNCHANGED <<client, phase, state, i, syntaxError, fileName, lastName, lastValue,
                        params, fields, responseSize, outcome>>
         /\ request' = request /\ wire' = wire /\ outcome = "none"
         /\ phase \in {"header", "body"} /\ Open
         /\ i = length + 1 /\ length' \in Nat /\ length' <= Len(wire) /\ length' <= BufferSize
         /\ Start' = Start /\ Start \in 1..length + 1
         /\ \A k \in Positions : k <= length => buffer'[k] = buffer[k]
         /\ \A k \in length + 1..length' : buffer'[k] = wire[k]
<1>1. Sizes
  BY SizesHold
<1>2. /\ UNCHANGED <<client, phase, state, i, syntaxError, pointers, lists, responseSize, outcome>>
      /\ i > length /\ \/ phase = "header"
                       \/ phase = "body" /\ responseSize # 0
  BY DEF Receive, Reading
<1>3. PICK d \in Nat \ {0} :
        /\ length' = length + d
        /\ buffer' = [k \in Positions |-> IF length < k /\ k <= length + d THEN wire[k] ELSE buffer[k]]
        /\ length + d <= BufferSize /\ length + d <= Len(wire)
  BY ReceiveIs
<1>4. /\ UNCHANGED <<client, phase, state, i, syntaxError, fileName, lastName, lastValue,
                     params, fields, responseSize, outcome>>
      /\ request' = request /\ wire' = wire
  BY <1>2 DEF pointers, lists, client
<1>5. outcome = "none" /\ phase \in {"header", "body"} /\ Open
  BY <1>2 DEF NameInv, Open
<1>6. i = length + 1 /\ length' \in Nat
  BY <1>1, <1>2, <1>3 DEF Sizes
<1>7. Start' = Start
  BY <1>4 DEF Start
<1>8. Start \in 1..length + 1
  BY <1>5, <1>6, StartIs
<1>9. \A k \in Positions : k <= length => buffer'[k] = buffer[k]
  BY <1>1, <1>3 DEF Sizes
<1>10. \A k \in length + 1..length' : buffer'[k] = wire[k]
  <2> TAKE k \in length + 1..length'
  <2>1. k \in Positions /\ length < k /\ k <= length + d
    BY <1>1, <1>3 DEF Sizes
  <2> QED
    BY <1>3, <2>1
<1> QED
  BY <1>3, <1>4, <1>5, <1>6, <1>7, <1>8, <1>9, <1>10

LEMMA PartOthers ==
  ASSUME TypeInv, NameInv, PartIsSent, Receive \/ EndBody \/ BufferFull \/ Answer \/ Disconnect \/ UNCHANGED vars
  PROVE  PartIsSent'
<1>1. Sizes
  BY SizesHold
<1>2. CASE Receive
  <2>1. Open /\ wire' = wire /\ i = length + 1 /\ length' \in Nat /\ Start' = Start /\ Start \in 1..length + 1
    BY <1>2, ReceiveKeeps
  <2>2. /\ \A k \in Positions : k <= length => buffer'[k] = buffer[k]
        /\ \A k \in length + 1..length' : buffer'[k] = wire[k]
    BY <1>2, ReceiveKeeps
  <2> SUFFICES ASSUME NEW k \in Start'..length'
               PROVE  buffer'[k] = wire'[k]
    BY DEF PartIsSent
  <2>3. k \in Start..length'
    BY <2>1
  <2> DEFINE s == Start
  <2>4. \A j \in s..length : buffer[j] = wire[j]
    BY <2>1 DEF PartIsSent
  <2>5. s \in 1..length + 1 /\ k \in s..length'
    BY <2>1, <2>3
  <2> HIDE DEF s
  <2>6. CASE k <= length
    <3>1. k \in Positions /\ k \in s..length
      BY <1>1, <2>5, <2>6 DEF Sizes
    <3>2. buffer'[k] = buffer[k]
      BY <2>2, <2>6, <3>1
    <3>3. buffer[k] = wire[k]
      BY <2>4, <3>1
    <3> QED
      BY <2>1, <3>2, <3>3
  <2>7. CASE ~(k <= length)
    <3>1. k \in length + 1..length'
      BY <1>1, <2>1, <2>5, <2>7 DEF Sizes
    <3>2. buffer'[k] = wire[k]
      BY <2>2, <3>1
    <3> QED
      BY <2>1, <3>2
  <2> QED
    BY <2>6, <2>7
<1>3. CASE EndBody \/ BufferFull \/ Answer \/ Disconnect
  <2>1. phase' \in {"answer", "done"}
    BY <1>3 DEF EndBody, BufferFull, Answer, Disconnect
  <2> QED
    BY <2>1 DEF PartIsSent, Open
<1>4. CASE UNCHANGED vars
  <2>1. /\ wire' = wire /\ buffer' = buffer /\ length' = length /\ phase' = phase /\ state' = state
        /\ i' = i /\ fileName' = fileName /\ lastName' = lastName /\ lastValue' = lastValue
        /\ responseSize' = responseSize
    BY <1>4 DEF vars
  <2>2. Start' = Start /\ (Open' <=> Open)
    BY <2>1 DEF Start, Open
  <2> QED
    BY <2>1, <2>2 DEF PartIsSent
<1> QED
  BY <1>2, <1>3, <1>4

LEMMA PartStepAll ==
  ASSUME TypeInv, NameInv, PartIsSent, [Next]_vars
  PROVE  PartIsSent'
BY PartHeader, PartBody, PartOthers DEF Next, Parse
LEMMA CellNumbers ==
  ASSUME NEW w, NEW c, NEW mid, NEW p, NEW v, NEW z, NEW names, NEW values,
         Cell(w, c, mid, p, v, z, names, values)
  PROVE  /\ p \in Nat \ {0} /\ v \in Nat /\ z \in Nat /\ p <= v - 1 /\ v - 1 <= z
<1>1. v \in Nat /\ Cut(w, p, v - 1, c[1], names \cup {mid})
  BY DEF Cell
<1>2. p \in Nat \ {0} /\ Len(c[1]) \in Nat /\ v - 1 = p + Len(c[1])
  BY <1>1 DEF Cut
<1>3. CASE Len(c) = 1
  BY <1>1, <1>2, <1>3 DEF Cell
<1>4. CASE Len(c) # 1
  BY <1>1, <1>2, <1>4 DEF Cell, Cut
<1> QED
  BY <1>3, <1>4

LEMMA CellName ==
  ASSUME NEW w, NEW c, NEW mid, NEW p, NEW v, NEW z, NEW names, NEW values,
         Cell(w, c, mid, p, v, z, names, values)
  PROVE  \A k \in p..v - 2 : w[k] \notin names \cup {mid}
<1>1. Cut(w, p, v - 1, c[1], names \cup {mid})
  BY DEF Cell
<1>2. \A k \in p..(v - 1) - 1 : w[k] \notin names \cup {mid}
  BY <1>1 DEF Cut
<1>3. v \in Nat /\ p \in Nat
  BY CellNumbers
<1>4. (v - 1) - 1 = v - 2
  BY <1>3
<1> QED
  BY <1>2, <1>4

LEMMA CellNamed ==
  ASSUME NEW w, NEW c, NEW mid, NEW p, NEW v, NEW z, NEW names, NEW values,
         Cell(w, c, mid, p, v, z, names, values), Len(c[1]) # 0
  PROVE  p < v - 1
<1>1. Len(c[1]) \in Nat /\ v - 1 = p + Len(c[1]) /\ p \in Nat /\ v \in Nat
  BY DEF Cell, Cut
<1> QED
  BY <1>1

LEMMA CellValue ==
  ASSUME NEW w, NEW c, NEW mid, NEW p, NEW v, NEW z, NEW names, NEW values,
         Cell(w, c, mid, p, v, z, names, values), Len(c) # 1
  PROVE  v <= z /\ w[v - 1] = mid /\ \A k \in v..z - 1 : w[k] \notin values
<1>1. w[v - 1] = mid /\ Cut(w, v, z, c[2], values)
  BY DEF Cell
<1>2. Len(c[2]) \in Nat /\ z = v + Len(c[2]) /\ v \in Nat
  BY <1>1 DEF Cut
<1>3. v <= z
  BY <1>2
<1>4. \A k \in v..z - 1 : w[k] \notin values
  BY <1>1 DEF Cut
<1> QED
  BY <1>1, <1>3, <1>4

\* What a plan says of the first line: of its words, ...
LEMMA LineFacts ==
  ASSUME NEW L, Plan(L)
  PROVE  /\ L.f \in Nat /\ 2 <= L.f /\ L.d \in Nat /\ L.f < L.d
         /\ Cut(L.w, 1, L.f - 1, L.r.method, Eol \cup {Space})
         /\ Cut(L.w, L.f, L.d, L.r.file, Eol \cup {Space, Question})
         /\ \A k \in 1..L.f - 2 : L.w[k] \notin Eol \cup {Space}
         /\ L.w[L.f - 1] = Space
         /\ \A k \in L.f..L.d - 1 : L.w[k] \notin Eol \cup {Space, Question}
<1> DEFINE m == L.r.method
           t == L.r.file
<1>1. /\ L.f = Len(m) + 2 /\ L.w[L.f - 1] = Space
      /\ Cut(L.w, 1, L.f - 1, m, Eol \cup {Space})
      /\ Cut(L.w, L.f, L.d, t, Eol \cup {Space, Question})
  BY DEF Plan, LinePlan
<1>2. Len(t) # 0 /\ Len(t) \in Nat
  <2>1. t \in Seq(Byte255) /\ t # <<>>
    BY WordsAre, WithoutBytes DEF Plan
  <2> QED
    BY <2>1, EmptySeq
<1>3. Len(m) \in Nat
  BY <1>1 DEF Cut
<1>4. L.d = L.f + Len(t)
  BY <1>1 DEF Cut
<1>5. \A k \in 1..L.f - 2 : L.w[k] \notin Eol \cup {Space}
  <2>1. \A k \in 1..L.f - 2 : k \in 1..(L.f - 1) - 1
    BY <1>1, <1>3
  <2> QED
    BY <1>1, <2>1 DEF Cut
<1>6. \A k \in L.f..L.d - 1 : L.w[k] \notin Eol \cup {Space, Question}
  BY <1>1 DEF Cut
<1> HIDE DEF m, t
<1>7. L.f \in Nat /\ 2 <= L.f /\ L.d \in Nat /\ L.f < L.d
  BY <1>1, <1>2, <1>3, <1>4
<1> QED
  BY <1>1, <1>5, <1>6, <1>7 DEF m, t

LEMMA ParamFacts ==
  ASSUME NEW L, Plan(L)
  PROVE  ParamsAre(L, Len(L.r.params))
<1>0. PICK P : P = Len(L.r.params)
  OBVIOUS
<1>1. WellFormed(L.r) /\ QueryPlan(L.r, L.w, L.d, L.q, L.ps, L.pv, L.pe)
  BY DEF Plan
<1>2. /\ P \in Nat /\ Len(Query(L.r)) = P
      /\ \A k \in 1..P : /\ Len(Query(L.r)[k]) = Len(L.r.params[k])
                         /\ Query(L.r)[k][1] = L.r.params[k][1]
  BY <1>0, <1>1, QueryIs
<1>3. /\ \A k \in 1..P : ParamCell(L, k) /\ L.pe[k] <= L.q
      /\ \A k \in 1..P - 1 : L.w[L.pe[k]] = And /\ L.ps[k + 1] = L.pe[k] + 1
      /\ IF P = 0 THEN L.q = L.d ELSE L.w[L.d] = Question /\ L.ps[1] = L.d + 1 /\ L.q = L.pe[P]
  BY <1>0, <1>1 DEF QueryPlan, ParamCell
<1>4. \A k \in 1..P : k # P => L.w[L.pe[k]] = And /\ L.ps[k + 1] = L.pe[k] + 1
  <2>1. \A k \in 1..P : k # P => k \in 1..P - 1
    BY <1>2
  <2> QED
    BY <1>3, <2>1
<1>5. ASSUME NEW k \in 1..P
      PROVE  Len(L.r.params[k]) \in {1, 2} /\ (Len(L.r.params[k]) = 1 => k = P /\ L.r.version = <<>>)
  <2>1. L.r.params \in Lists /\ DOMAIN L.r.params = 1..P
    <3>1. L.r.params \in Lists
      BY <1>1, WordsAre
    <3> QED
      BY <1>0, <3>1, ListIs
  <2>2. Len(L.r.params[k]) \in {1, 2}
    BY <2>1, ListIs
  <2>3. Len(L.r.params[k]) = 1 => k = P /\ L.r.version = <<>>
    BY <1>0, <1>1, <2>1 DEF WellFormed, WellFormedParams
  <2> QED
    BY <2>2, <2>3
<1>6. L.d \in Nat
  BY LineFacts
<1>7. CASE P = 0
  BY <1>0, <1>2, <1>3, <1>4, <1>5, <1>6, <1>7 DEF ParamsAre
<1>8. CASE P # 0
  <2>1. 1 \in 1..P /\ P \in 1..P
    BY <1>2, <1>8
  <2>2. ParamCell(L, P) /\ ParamCell(L, 1) /\ L.pe[1] <= L.q
    BY <1>3, <2>1
  <2>3. L.pe[P] \in Nat
    BY <2>2, CellNumbers DEF ParamCell
  <2>4. L.ps[1] \in Nat /\ L.pe[1] \in Nat /\ L.ps[1] <= L.pe[1]
    <3> DEFINE p == L.ps[1]
               v == L.pv[1]
               z == L.pe[1]
    <3>1. Cell(L.w, Query(L.r)[1], Equal, p, v, z, Eol, Eol \cup {And, Space})
      BY <2>2 DEF ParamCell
    <3> HIDE DEF p, v, z
    <3>2. p \in Nat \ {0} /\ v \in Nat /\ z \in Nat /\ p <= v - 1 /\ v - 1 <= z
      BY <3>1, CellNumbers
    <3>3. p \in Nat /\ z \in Nat /\ p <= z
      BY <3>2
    <3> QED
      BY <3>3 DEF p, z
  <2>5. L.q = L.pe[P] /\ L.ps[1] = L.d + 1
    BY <1>3, <1>8
  <2>6. L.q \in Nat /\ L.d <= L.q
    <3> DEFINE p == L.ps[1]
               z == L.pe[1]
               d == L.d
               q == L.q
    <3>1. d \in Nat /\ p = d + 1 /\ p <= z /\ z <= q /\ p \in Nat /\ z \in Nat /\ q \in Nat
      BY <1>6, <2>2, <2>3, <2>4, <2>5
    <3> HIDE DEF p, z, d, q
    <3>2. d <= q
      BY <3>1
    <3> QED
      BY <3>1, <3>2 DEF d, q
  <2> QED
    BY <1>0, <1>2, <1>3, <1>4, <1>5, <1>8, <2>6 DEF ParamsAre
<1> QED
  BY <1>7, <1>8

LEMMA EolIs ==
  ASSUME NEW r, WellFormed(r), NEW w, NEW p \in Nat \ {0}, EolPut(r, w, p)
  PROVE  /\ w[p] \in Eol /\ Len(r.eol) \in {1, 2}
         /\ Len(r.eol) = 1 => w[p] = NewLine
         /\ Len(r.eol) = 2 => w[p] = Return /\ w[p + 1] = NewLine
         /\ \A k \in p..p + Len(r.eol) - 1 : w[k] \in Eol
<1>1. /\ Len(r.eol) \in {1, 2} /\ r.eol[1] \in Eol
      /\ Len(r.eol) = 1 => r.eol[1] = NewLine
      /\ Len(r.eol) = 2 => r.eol[1] = Return /\ r.eol[2] = NewLine
  BY EolSize
<1>2. \A k \in p..p + Len(r.eol) - 1 : w[k] = r.eol[k - p + 1]
  BY DEF EolPut, Cut
<1>3. p \in p..p + Len(r.eol) - 1 /\ p - p + 1 = 1
  BY <1>1
<1>4. w[p] = r.eol[1]
  BY <1>2, <1>3
<1>5. Len(r.eol) = 2 => w[p + 1] = r.eol[2]
  <2> SUFFICES ASSUME Len(r.eol) = 2 PROVE w[p + 1] = r.eol[2]
    OBVIOUS
  <2>1. p + 1 \in p..p + Len(r.eol) - 1 /\ (p + 1) - p + 1 = 2
    OBVIOUS
  <2> QED
    BY <1>2, <2>1
<1>6. \A k \in p..p + Len(r.eol) - 1 : w[k] \in Eol
  <2> TAKE k \in p..p + Len(r.eol) - 1
  <2>1. k = p \/ (Len(r.eol) = 2 /\ k = p + 1)
    <3> DEFINE n == Len(r.eol)
    <3>1. n \in {1, 2} /\ k \in p..p + n - 1
      BY <1>1
    <3> HIDE DEF n
    <3>2. k = p \/ (n = 2 /\ k = p + 1)
      BY <3>1
    <3> QED
      BY <3>2 DEF n
  <2> QED
    BY <1>1, <1>4, <1>5, <2>1 DEF Eol
<1> QED
  BY <1>1, <1>4, <1>5, <1>6

\* ... of the end of the query, and of the version, ...
LEMMA QueryEnd ==
  ASSUME NEW L, Plan(L)
  PROVE  /\ WellFormed(L.r) /\ L.b \in Nat /\ L.q \in Nat \ {0} /\ L.q <= L.b /\ Len(L.r.eol) \in {1, 2}
         /\ L.r.version = <<>> => L.w[L.q] \in Eol /\ L.r.fields = <<>>
         /\ L.r.version # <<>> => /\ L.w[L.q] = Space
                                  /\ L.ve \in Nat /\ L.q + 1 <= L.ve /\ L.ve <= L.b
                                  /\ \A k \in L.q + 1..L.ve - 1 : L.w[k] \notin Eol
                                  /\ EolPut(L.r, L.w, L.ve)
<1> DEFINE n == Len(L.r.eol)
           q == L.q
           b == L.b
           e == L.ve
           F == Len(L.r.fields)
<1>1. WellFormed(L.r) /\ FieldsPlan(L.r, L.w, q, e, b, L.fs, L.fv, L.fe) /\ b \in Nat
  BY DEF Plan
<1>2. n \in {1, 2}
  BY <1>1, EolSize
<1>3. q \in Nat \ {0}
  <2>1. L.d \in Nat /\ L.f < L.d /\ L.f \in Nat
    BY LineFacts
  <2>2. L.q \in Nat /\ L.d <= L.q
    BY ParamFacts DEF ParamsAre
  <2> QED
    BY <2>1, <2>2
<1>4. CASE L.r.version = <<>>
  <2>1. EolPut(L.r, L.w, q) /\ b = q + n - 1
    BY <1>1, <1>4 DEF FieldsPlan
  <2>2. L.w[q] \in Eol
    BY <1>1, <1>3, <2>1, EolIs
  <2>3. L.r.fields = <<>>
    BY <1>1, <1>4 DEF WellFormed, WellFormedFields
  <2> HIDE DEF n, q, b
  <2>4. q <= b
    BY <1>2, <1>3, <2>1
  <2> QED
    BY <1>1, <1>2, <1>3, <1>4, <2>2, <2>3, <2>4 DEF n, q, b
<1>5. CASE L.r.version # <<>>
  <2>1. /\ L.w[q] = Space
        /\ Cut(L.w, q + 1, e, L.r.version, Eol)
        /\ EolPut(L.r, L.w, e) /\ L.fs[1] = e + n
        /\ \A k \in 1..F + 1 : L.fs[k] \in Nat \ {0} /\ L.fs[k] + n - 1 <= b
    BY <1>1, <1>5 DEF FieldsPlan
  <2>2. F \in Nat
    BY <1>1, FieldCells
  <2>3. 1 \in 1..F + 1
    <3> HIDE DEF F
    <3> QED
      BY <2>2
  <2>4. L.fs[1] + n - 1 <= b /\ L.fs[1] = e + n
    BY <2>1, <2>3
  <2>5. Len(L.r.version) \in Nat /\ e = q + 1 + Len(L.r.version)
    BY <2>1 DEF Cut
  <2>6. \A k \in q + 1..e - 1 : L.w[k] \notin Eol
    BY <2>1 DEF Cut
  <2> DEFINE s == L.fs[1]
             m == Len(L.r.version)
  <2>7. s + n - 1 <= b /\ s = e + n /\ m \in Nat /\ e = q + 1 + m
    BY <2>4, <2>5
  <2> HIDE DEF n, q, b, e, s, m
  <2>8. e \in Nat /\ q + 1 <= e /\ e <= b /\ q <= b
    BY <1>1, <1>2, <1>3, <2>7
  <2> QED
    BY <1>1, <1>2, <1>3, <1>5, <2>1, <2>6, <2>8 DEF n, q, b, e
<1> QED
  BY <1>4, <1>5

LEMMA FieldFacts ==
  ASSUME NEW L, Plan(L), L.r.version # <<>>
  PROVE  FieldsAre(L, Len(L.r.fields), Len(L.r.eol))
<1>0. PICK F, n : F = Len(L.r.fields) /\ n = Len(L.r.eol)
  OBVIOUS
<1>1. WellFormed(L.r) /\ FieldsPlan(L.r, L.w, L.q, L.ve, L.b, L.fs, L.fv, L.fe)
  BY DEF Plan
<1>2. F \in Nat /\ \A k \in 1..F : /\ L.r.fields[k][1] # <<>> /\ L.r.fields[k][1] \in Seq(1..255)
                                   /\ Len(L.r.fields[k]) \in {1, 2}
  <2>1. F \in Nat
    BY <1>0, <1>1, FieldCells
  <2>2. ASSUME NEW k \in 1..F
        PROVE  /\ L.r.fields[k][1] # <<>> /\ L.r.fields[k][1] \in Seq(1..255)
               /\ Len(L.r.fields[k]) \in {1, 2}
    BY <1>0, <1>1, FieldCells
  <2> QED
    BY <2>1, <2>2
<1>3. n \in {1, 2}
  <2>1. Len(L.r.eol) \in {1, 2}
    BY <1>1, EolSize
  <2> QED
    BY <1>0, <2>1
<1>4. \A k \in 1..F : Len(L.r.fields[k][1]) # 0
  BY <1>2, EmptySeq
<1>5. /\ \A k \in 1..F : FieldCell(L, k) /\ EolPut(L.r, L.w, L.fe[k]) /\ L.fs[k + 1] = L.fe[k] + n
      /\ \A k \in 1..F + 1 : L.fs[k] \in Nat \ {0} /\ L.fs[k] + n - 1 <= L.b
      /\ EolPut(L.r, L.w, L.fs[F + 1]) /\ L.b = L.fs[F + 1] + n - 1
      /\ L.fs[1] = L.ve + n
  BY <1>0, <1>1 DEF FieldsPlan, FieldCell
<1>6. \A k \in 1..F : /\ FieldCell(L, k) /\ Len(L.r.fields[k]) \in {1, 2}
                     /\ Len(L.r.fields[k][1]) # 0
  BY <1>2, <1>4, <1>5
<1>7. \A k \in 1..F : EolPut(L.r, L.w, L.fe[k]) /\ L.fs[k + 1] = L.fe[k] + n
  BY <1>5
<1>8. FieldsAre(L, F, n)
  BY <1>2, <1>3, <1>5, <1>6, <1>7, Zenon DEF FieldsAre
<1> QED
  BY <1>0, <1>8

\* ... where the lines of the fields and the last one end, ...
LEMMA EolBefore ==
  ASSUME NEW L, Plan(L), L.r.version # <<>>, NEW k \in 1..Len(L.r.fields) + 1
  PROVE  /\ L.fs[k] - Len(L.r.eol) \in Nat \ {0} /\ EolPut(L.r, L.w, L.fs[k] - Len(L.r.eol))
         /\ k <= Len(L.r.fields) => L.w[L.fs[k]] \notin Eol \cup {Colon}
         /\ k = Len(L.r.fields) + 1 => EolPut(L.r, L.w, L.fs[k]) /\ L.b = L.fs[k] + Len(L.r.eol) - 1
<1> DEFINE F == Len(L.r.fields)
           n == Len(L.r.eol)
<1>0. FieldsAre(L, F, n)
  BY FieldFacts
<1>1. /\ F \in Nat /\ n \in {1, 2} /\ L.fs[1] = L.ve + n
      /\ EolPut(L.r, L.w, L.fs[F + 1]) /\ L.b = L.fs[F + 1] + n - 1
  BY <1>0 DEF FieldsAre
<1>2. \A j \in 1..F : /\ FieldCell(L, j) /\ Len(L.r.fields[j][1]) # 0
                      /\ EolPut(L.r, L.w, L.fe[j]) /\ L.fs[j + 1] = L.fe[j] + n
  BY <1>0 DEF FieldsAre
<1>3. L.fs[k] - n \in Nat \ {0} /\ EolPut(L.r, L.w, L.fs[k] - n)
  <2>1. CASE k = 1
    <3>1. L.ve \in Nat \ {0} /\ EolPut(L.r, L.w, L.ve)
      <4>1. L.ve \in Nat /\ L.q + 1 <= L.ve /\ L.q \in Nat /\ EolPut(L.r, L.w, L.ve)
        BY QueryEnd
      <4> QED
        BY <4>1
    <3>2. (L.ve + n) - n = L.ve
      BY <1>1, <3>1
    <3> QED
      BY <1>1, <2>1, <3>1, <3>2
  <2>2. CASE k # 1
    <3>1. k - 1 \in 1..F /\ (k - 1) + 1 = k
      BY <1>1, <2>2
    <3>2. FieldCell(L, k - 1) /\ EolPut(L.r, L.w, L.fe[k - 1]) /\ L.fs[k] = L.fe[k - 1] + n
      BY <1>2, <3>1
    <3> DEFINE j == k - 1
               e == L.fe[j]
    <3>3. e \in Nat /\ EolPut(L.r, L.w, e) /\ L.fs[k] = e + n /\ e # 0
      <4> DEFINE p == L.fs[j]
                 v == L.fv[j]
      <4>1. Cell(L.w, L.r.fields[j], Colon, p, v, e, Eol, Eol)
        BY <3>2 DEF FieldCell
      <4> HIDE DEF p, v, e, j
      <4>2. p \in Nat \ {0} /\ v \in Nat /\ e \in Nat /\ p <= v - 1 /\ v - 1 <= e
        BY <4>1, CellNumbers
      <4>3. e \in Nat /\ e # 0
        BY <4>2
      <4> QED
        BY <3>2, <4>3 DEF e, j
    <3> HIDE DEF e
    <3>4. (e + n) - n = e
      BY <1>1, <3>3
    <3> QED
      BY <3>3, <3>4
  <2> QED
    BY <2>1, <2>2
<1>4. ASSUME k <= F
      PROVE  L.w[L.fs[k]] \notin Eol \cup {Colon}
  <2>1. k \in 1..F
    BY <1>1, <1>4
  <2> DEFINE p == L.fs[k]
             v == L.fv[k]
             z == L.fe[k]
             c == L.r.fields[k]
  <2>2. Cell(L.w, c, Colon, p, v, z, Eol, Eol) /\ Len(c[1]) # 0
    BY <1>2, <2>1 DEF FieldCell
  <2> HIDE DEF p, v, z, c
  <2>3. p \in Nat \ {0} /\ v \in Nat
    BY <2>2, CellNumbers
  <2>4. \A x \in p..v - 2 : L.w[x] \notin Eol \cup {Colon}
    BY <2>2, CellName
  <2>5. p \in p..v - 2
    <3>1. p < v - 1
      BY <2>2, CellNamed
    <3> QED
      BY <2>3, <3>1
  <2>6. L.w[p] \notin Eol \cup {Colon}
    BY <2>4, <2>5
  <2> QED
    BY <2>6 DEF p
<1> QED
  BY <1>1, <1>3, <1>4

LEMMA BodyFacts ==
  ASSUME NEW L, Plan(L)
  PROVE  /\ BodyAre(L, Len(L.r.body), Len(L.w))
         /\ Len(L.w) - L.b = Len(Pairs(L.r.body, And, FormEncoded))
<1>0. PICK B, N : B = Len(L.r.body) /\ N = Len(L.w)
  OBVIOUS
<1> DEFINE m == Len(Pairs(L.r.body, And, FormEncoded))
<1>1. WellFormed(L.r) /\ BodyPlan(L.r, L.w, L.b, L.bs, L.bv, L.be) /\ L.b \in Nat /\ L.w = Wire(L.r)
  BY DEF Plan
<1>2. m \in Nat
  <2>1. BodyText(L.r) \in Seq(Byte255)
    BY <1>1, PartTexts
  <2> QED
    BY <2>1, LenProperties DEF BodyText
<1>3. N \in Nat
  BY <1>0, <1>1, WordsAre, WireIs, LenProperties
<1>4. N - L.b = m
  BY <1>0, <1>1 DEF BodyPlan
<1>5. /\ \A k \in 1..B : BodyCell(L, k) /\ L.be[k] <= N + 1
      /\ \A k \in 1..B - 1 : L.w[L.be[k]] = And /\ L.bs[k + 1] = L.be[k] + 1
      /\ IF B = 0 THEN N = L.b ELSE L.bs[1] = L.b + 1 /\ L.be[B] = N + 1
  BY <1>0, <1>1 DEF BodyPlan, BodyCell
<1>6. B \in Nat /\ \A k \in 1..B : /\ Len(Form(L.r)[k]) = 2
                                   /\ Form(L.r)[k][1] = FormEncoded(L.r.body[k][1])
                                   /\ L.r.body[k][1] \in Seq(1..255) /\ L.r.body[k][1] # <<>>
  <2>1. B \in Nat /\ \A k \in 1..B : FormPair(L.r, k)
    BY <1>0, <1>1, FormPairs
  <2> QED
    BY <2>1 DEF FormPair
<1>7. ASSUME NEW k \in 1..B
      PROVE  Len(Form(L.r)[k][1]) # 0
  <2> DEFINE t == L.r.body[k][1]
  <2>1. t \in Seq(Byte255) /\ t # <<>>
    <3>1. t \in Seq(1..255) /\ t # <<>>
      BY <1>6
    <3>2. 1..255 \subseteq Byte255
      BY DEF Byte255
    <3> HIDE DEF t
    <3> QED
      BY <3>1, <3>2, SeqMonotonic
  <2>2. Form(L.r)[k][1] = FormEncoded(t)
    BY <1>6
  <2> HIDE DEF t
  <2>3. FormEncoded(t) \in Seq(Byte255 \ (Eol \cup {And, Equal, 0})) /\ FormEncoded(t) # <<>>
    BY <2>1, FormIsDecoded
  <2>4. Len(FormEncoded(t)) # 0
    BY <2>3, EmptySeq
  <2> QED
    BY <2>2, <2>4
<1>8. \A k \in 1..B : k # B => L.w[L.be[k]] = And /\ L.bs[k + 1] = L.be[k] + 1
  <2>1. \A k \in 1..B : k # B => k \in 1..B - 1
    BY <1>6
  <2> QED
    BY <1>5, <2>1
<1>9. L.b <= N
  <2> DEFINE b == L.b
  <2>1. b \in Nat /\ N - b = m
    BY <1>1, <1>4
  <2> HIDE DEF b, m
  <2>2. b <= N
    BY <1>2, <1>3, <2>1
  <2> QED
    BY <2>2 DEF b
<1>10. BodyAre(L, B, N)
  BY <1>3, <1>5, <1>6, <1>7, <1>8, <1>9 DEF BodyAre
<1> QED
  BY <1>0, <1>4, <1>10

\* All of a part of the header is before the end of the header.
LEMMA Before ==
  ASSUME NEW L, Plan(L)
  PROVE  /\ L.f <= L.b /\ L.d <= L.b /\ L.b \in Nat
         /\ \A k \in 1..Len(L.r.params) : /\ L.ps[k] \in Nat /\ L.pv[k] \in Nat /\ L.pe[k] \in Nat
                                          /\ L.pv[k] - 1 <= L.b /\ L.pe[k] <= L.b
         /\ L.r.version # <<>> =>
              \A k \in 1..Len(L.r.fields) : /\ L.fs[k] \in Nat /\ L.fv[k] \in Nat /\ L.fe[k] \in Nat
                                            /\ L.fv[k] - 1 <= L.b /\ L.fe[k] <= L.b
<1>1. L.f \in Nat /\ L.d \in Nat /\ L.f < L.d /\ L.q \in Nat /\ L.d <= L.q /\ L.q <= L.b /\ L.b \in Nat
  <2>1. L.f \in Nat /\ L.d \in Nat /\ L.f < L.d
    BY LineFacts
  <2>2. L.q <= L.b /\ L.b \in Nat
    BY QueryEnd
  <2> QED
    BY <2>1, <2>2, ParamFacts DEF ParamsAre
<1>2. L.f <= L.b /\ L.d <= L.b
  BY <1>1
<1>3. ASSUME NEW k \in 1..Len(L.r.params)
      PROVE  /\ L.ps[k] \in Nat /\ L.pv[k] \in Nat /\ L.pe[k] \in Nat
             /\ L.pv[k] - 1 <= L.b /\ L.pe[k] <= L.b
  <2> DEFINE p == L.ps[k]
             v == L.pv[k]
             z == L.pe[k]
             b == L.b
             q == L.q
  <2>1. Cell(L.w, Query(L.r)[k], Equal, p, v, z, Eol, Eol \cup {And, Space}) /\ z <= q
    BY ParamFacts DEF ParamsAre, ParamCell
  <2>2. q \in Nat /\ b \in Nat /\ q <= b
    BY <1>1
  <2> HIDE DEF p, v, z, b, q
  <2>3. p \in Nat \ {0} /\ v \in Nat /\ z \in Nat /\ p <= v - 1 /\ v - 1 <= z
    BY <2>1, CellNumbers
  <2>4. v - 1 <= b /\ z <= b /\ p \in Nat
    BY <2>1, <2>2, <2>3
  <2> QED
    BY <2>3, <2>4 DEF p, v, z, b
<1>4. ASSUME L.r.version # <<>>, NEW k \in 1..Len(L.r.fields)
      PROVE  /\ L.fs[k] \in Nat /\ L.fv[k] \in Nat /\ L.fe[k] \in Nat
             /\ L.fv[k] - 1 <= L.b /\ L.fe[k] <= L.b
  <2> DEFINE p == L.fs[k]
             v == L.fv[k]
             z == L.fe[k]
             y == L.fs[k + 1]
             b == L.b
             n == Len(L.r.eol)
             F == Len(L.r.fields)
  <2>0. FieldsAre(L, F, n)
    BY <1>4, FieldFacts
  <2>1. Cell(L.w, L.r.fields[k], Colon, p, v, z, Eol, Eol) /\ y = z + n /\ n \in {1, 2}
        /\ F \in Nat /\ k \in 1..F
    BY <2>0 DEF FieldsAre, FieldCell
  <2>2. k + 1 \in 1..F + 1
    <3> HIDE DEF F
    <3> QED
      BY <2>1
  <2>3. y + n - 1 <= b /\ b \in Nat
    BY <1>1, <2>0, <2>2 DEF FieldsAre
  <2> HIDE DEF p, v, z, y, b, n, F
  <2>4. p \in Nat \ {0} /\ v \in Nat /\ z \in Nat /\ p <= v - 1 /\ v - 1 <= z
    BY <2>1, CellNumbers
  <2>5. v - 1 <= b /\ z <= b /\ p \in Nat
    BY <2>1, <2>3, <2>4
  <2> QED
    BY <2>4, <2>5 DEF p, v, z, b
<1> QED
  BY <1>1, <1>2, <1>3, <1>4

LEMMA ReadsSent ==
  ASSUME TypeInv, NameInv, PartIsSent, NEW L, Planned(L), Open, i <= length
  PROVE  Reads(L)
<1>1. Sizes
  BY SizesHold
<1>2. Start \in 1..i
  BY StartIs DEF Open
<1> DEFINE s == Start
<1>3. \A k \in s..length : buffer[k] = L.w[k]
  BY DEF PartIsSent, Planned
<1>4. s \in 1..i /\ i \in Nat \ {0} /\ i <= length /\ length \in Nat /\ i \in Positions
  BY <1>1, <1>2 DEF Sizes
<1> HIDE DEF s
<1>5. i \in s..length /\ s \in Nat \ {0} /\ s <= i /\ \A k \in s..i - 1 : k \in s..length
  BY <1>4
<1>6. Byte = L.w[i] /\ \A k \in s..i - 1 : buffer[k] = L.w[k]
  BY <1>3, <1>5 DEF Byte
<1> QED
  BY <1>4, <1>5, <1>6 DEF Reads, s

\* What is held stays so.
LEMMA HeaderHeld ==
  ASSUME TypeInv, NameInv, phase' = "header", HeaderStep
  PROVE  /\ \A p, t : Held(buffer, p, t, Start) => Held(buffer', p, t, Start')
         /\ \A list, cs : HeldPairs(buffer, list, cs, Start) => HeldPairs(buffer', list, cs, Start')
<1> DEFINE s == Start
           z == Start'
<1>1. /\ phase = "header" /\ z \in Int /\ s <= z /\ i <= length
      /\ \/ buffer' = buffer
         \/ Terminate /\ i < z
  BY HeaderStart DEF HeaderStep
<1>2. Sizes /\ s \in 1..i
  BY <1>1, SizesHold, StartIs
<1>3. \A k \in 1..s - 1 : k \in Positions /\ k # i
  BY <1>1, <1>2 DEF Sizes
<1>4. \A k \in 1..s - 1 : buffer'[k] = buffer[k]
  <2>1. CASE buffer' = buffer
    BY <2>1
  <2>2. CASE Terminate
    BY <1>3, <2>2, TerminateType
  <2> QED
    BY <1>1, <2>1, <2>2
<1>5. s \in Int
  BY <1>2 DEF Sizes
<1> HIDE DEF s, z
<1>6. \A p, t : Held(buffer, p, t, s) => Held(buffer', p, t, z)
  BY <1>1, <1>4, <1>5, HeldKept
<1>7. \A list, cs : HeldPairs(buffer, list, cs, s) => HeldPairs(buffer', list, cs, z)
  BY <1>1, <1>4, <1>5, HeldPairsKept
<1> QED
  BY <1>6, <1>7 DEF s, z

\* The part that ends here is held.
LEMMA EndHeld ==
  ASSUME TypeInv, NEW L, Reads(L), Terminate, NEW t, NEW bytes, Cut(L.w, Start, i, t, bytes)
  PROVE  \A zz \in Int : i < zz => Held(buffer', Start, t, zz)
<1> DEFINE s == Start
<1>1. s \in Nat \ {0} /\ s <= i /\ i \in Nat \ {0} /\ \A k \in s..i - 1 : buffer[k] = L.w[k]
  BY DEF Reads
<1>2. Positions = 1..BufferSize + 1 /\ BufferSize \in Nat /\ i <= BufferSize + 1
  BY SizesHold DEF Sizes, Reads
<1>3. Cut(L.w, s, i, t, bytes)
  OBVIOUS
<1> HIDE DEF s
<1>4. \A k \in s..i - 1 : k \in Positions /\ k # i
  BY <1>1, <1>2
<1>5. buffer'[i] = 0 /\ \A k \in s..i - 1 : buffer'[k] = L.w[k]
  BY <1>1, <1>4, TerminateType
<1>6. \A zz \in Int : i < zz => Held(buffer', s, t, zz)
  BY <1>3, <1>5, HeldHere
<1> QED
  BY <1>6 DEF s

\* Before the end of the header nothing else is asked.
LEMMA InHeader ==
  ASSUME NameInv, phase = "header", phase' = "header", outcome' = outcome, NEW L, HeaderSent(L)'
  PROVE  SentAll(L)'
<1>1. ~Accepted'
  BY DEF NameInv, Accepted
<1>2. BodySent(L)'
  BY DEF BodySent
<1>3. AnswerSent(L)'
  BY <1>1 DEF AnswerSent
<1> QED
  BY <1>2, <1>3 DEF SentAll

LEMMA MethodStep ==
  ASSUME TypeInv, NameInv, PartIsSent, NEW L, Planned(L), HeaderSent(L), ReadMethod
  PROVE  SentAll(L)'
<1>1. /\ phase = "header" /\ state = 0 /\ i <= length
      /\ UNCHANGED <<client, length, pointers, lists, outcome>>
  BY DEF ReadMethod, At
<1>2. Reads(L) /\ Start = 1
  BY <1>1, ReadsSent DEF Open, Start
<1>3. WhereInHeader(L) /\ HeldInHeader(L)
  BY <1>1 DEF HeaderSent
<1>4. i < L.f /\ params = <<>> /\ fields = <<>>
  BY <1>1, <1>3 DEF WhereInHeader, HeldInHeader
<1>5. /\ HeldPairs(buffer, params, Query(L.r), Start) /\ HeldPairs(buffer, fields, L.r.fields, Start)
  BY <1>3 DEF HeldInHeader
<1>6. params' = params /\ fields' = fields /\ outcome' = outcome
  BY <1>1 DEF lists
<1>7. /\ L.f \in Nat /\ 2 <= L.f
      /\ Cut(L.w, 1, L.f - 1, L.r.method, Eol \cup {Space})
      /\ \A k \in 1..L.f - 2 : L.w[k] \notin Eol \cup {Space}
      /\ L.w[L.f - 1] = Space
  BY LineFacts DEF Planned
<1>8. i \in Nat \ {0} /\ Byte = L.w[i] /\ i + 1 \in Int
  BY <1>2 DEF Reads
<1>9. ASSUME phase' = "header"
      PROVE  /\ HeldPairs(buffer', params', Query(L.r), Start') /\ HeldPairs(buffer', fields', L.r.fields, Start')
  BY <1>5, <1>6, <1>9, HeaderHeld DEF HeaderStep
<1>10. CASE i = L.f - 1
  <2>1. Byte = Space /\ Space \notin Eol
    BY <1>7, <1>8, <1>10 DEF Space, Eol, NewLine, Return
  <2>2. Terminate /\ Go(1)
    BY <2>1 DEF ReadMethod
  <2>3. phase' = "header" /\ state' = 1 /\ i' = i + 1
    BY <1>1, <2>2 DEF Go
  <2>4. Start' = i + 1 /\ i' = L.f
    BY <1>7, <1>8, <1>10, <2>3 DEF Start
  <2>5. Held(buffer', 1, L.r.method, i + 1)
    <3>1. Cut(L.w, Start, i, L.r.method, Eol \cup {Space})
      BY <1>2, <1>7, <1>10
    <3>2. i < i + 1
      BY <1>8
    <3> QED
      BY <1>2, <1>8, <2>2, <3>1, <3>2, EndHeld
  <2>6. WhereInHeader(L)'
    BY <2>3, <2>4 DEF WhereInHeader
  <2>7. HeldInHeader(L)'
    BY <1>4, <1>6, <1>9, <2>3, <2>4, <2>5 DEF HeldInHeader
  <2> QED
    BY <1>1, <1>6, <2>3, <2>6, <2>7, InHeader DEF HeaderSent
<1>11. CASE i # L.f - 1
  <2>1. i \in 1..L.f - 2 /\ i + 1 < L.f
    BY <1>4, <1>7, <1>8, <1>11
  <2>2. Byte \notin Eol \cup {Space}
    BY <1>7, <1>8, <2>1
  <2>3. Go(0)
    BY <2>2 DEF ReadMethod
  <2>4. phase' = "header" /\ state' = 0 /\ i' = i + 1
    BY <1>1, <2>3 DEF Go
  <2>5. WhereInHeader(L)'
    BY <2>1, <2>4 DEF WhereInHeader
  <2>6. HeldInHeader(L)'
    BY <1>4, <1>6, <1>9, <2>4 DEF HeldInHeader
  <2> QED
    BY <1>1, <1>6, <2>4, <2>5, <2>6, InHeader DEF HeaderSent
<1> QED
  BY <1>10, <1>11

LEMMA WantedIs ==
  ASSUME NEW r, WellFormed(r), NEW P, P = Len(r.params), NEW B, B = Len(r.body)
  PROVE  WantedAre(r, P, B)
<1> DEFINE Q == Query(r)
           b == r.body
<1>1. P \in Nat /\ Len(Q) = P /\ DOMAIN Q = 1..P
  <2>1. r.params \in Lists
    BY WordsAre
  <2>2. DOMAIN r.params = 1..P /\ P \in Nat
    BY <2>1, ListIs
  <2>3. DOMAIN Q = 1..P
    BY <2>2 DEF Query
  <2>4. Len(Q) = P
    BY <2>2, <2>3
  <2> QED
    BY <2>2, <2>3, <2>4
<1>2. B \in Nat /\ DOMAIN b = 1..B /\ b \in Seq(Seq(Seq(1..255)))
  <2>1. r.body \in Lists
    BY WordsAre
  <2> QED
    BY <2>1, ListIs DEF Lists
<1> DEFINE S == {Q[k] : k \in 1..P} \cup {b[k] : k \in 1..B}
<1>3. Q \in Seq(S)
  <2>1. Q = [k \in 1..P |-> Q[k]]
    BY <1>1 DEF Query
  <2>2. \A k \in 1..P : Q[k] \in S
    OBVIOUS
  <2> HIDE DEF Q, S
  <2>3. Q \in [1..P -> S]
    BY <2>1, <2>2
  <2> QED
    BY <1>1, <2>3, SeqDef
<1>4. b \in Seq(S)
  <2>1. Len(b) = B /\ b \in [1..B -> Seq(Seq(1..255))]
    BY <1>2, LenProperties
  <2>2. \A k \in 1..B : b[k] \in S
    OBVIOUS
  <2> HIDE DEF b, S
  <2>3. b \in [1..B -> S]
    BY <2>1, <2>2
  <2> QED
    BY <1>2, <2>3, FunctionIsSeq
<1>5. Len(b) = B /\ Len(Q) = P /\ Wanted(r) = Q \o b
  BY <1>1 DEF Wanted
<1> DEFINE x == Wanted(r)
<1> HIDE DEF Q, b, S, x
<1>6. /\ Len(Wanted(r)) = Len(Q) + Len(b)
      /\ \A k \in 1..Len(Q) : Wanted(r)[k] = Q[k]
      /\ \A k \in 1..Len(b) : Wanted(r)[Len(Q) + k] = b[k]
  <2>1. x = Q \o b
    BY <1>5 DEF x
  <2>2. Len(x) = Len(Q) + Len(b)
    BY <1>3, <1>4, <2>1, Behind
  <2>3. \A k \in 1..Len(Q) : x[k] = Q[k]
    BY <1>3, <1>4, <2>1, Behind
  <2>4. \A k \in 1..Len(b) : x[Len(Q) + k] = b[k]
    BY <1>3, <1>4, <2>1, Behind
  <2> QED
    BY <2>2, <2>3, <2>4 DEF x
<1>7. /\ Len(Wanted(r)) = P + B
      /\ \A k \in 1..P : Wanted(r)[k] = Q[k]
      /\ \A k \in 1..B : Wanted(r)[P + k] = b[k]
  BY <1>5, <1>6
<1> QED
  BY <1>1, <1>2, <1>7 DEF Q, b, WantedAre

LEMMA WantedHeld ==
  ASSUME NEW r, WellFormed(r), NEW buf, NEW list, NEW z, HeldPairs(buf, list, Query(r), z),
         Len(list) = Len(r.params)
  PROVE  HeldPairs(buf, list, Wanted(r), z)
<1> PICK P, B : P = Len(r.params) /\ B = Len(r.body)
  OBVIOUS
<1>0. WantedAre(r, P, B)
  BY WantedIs
<1>1. P \in Nat /\ B \in Nat /\ Len(Wanted(r)) = P + B /\ \A k \in 1..P : Wanted(r)[k] = Query(r)[k]
  BY <1>0 DEF WantedAre
<1>2. \A k \in 1..P : HeldPair(buf, list[k], Query(r)[k], z)
  BY DEF HeldPairs
<1>3. P <= P + B
  <2>1. P \in Nat /\ B \in Nat
    BY <1>1
  <2>2. \A x, y \in Nat : x <= x + y
    OBVIOUS
  <2> QED
    BY <2>1, <2>2
<1> QED
  BY <1>1, <1>2, <1>3 DEF HeldPairs

\* A request without a version has no fields and no body.
LEMMA SimpleRequest ==
  ASSUME NEW L, Plan(L), L.r.version = <<>>
  PROVE  /\ L.r.fields = <<>> /\ L.r.body = <<>> /\ Len(L.w) = L.b /\ L.b \in Nat
         /\ Len(Wanted(L.r)) = Len(L.r.params) /\ Len(L.r.params) \in Nat
<1>1. WellFormed(L.r) /\ L.b \in Nat
  BY DEF Plan
<1>2. L.r.fields = <<>>
  BY <1>1 DEF WellFormed, WellFormedFields
<1>3. L.r.body = <<>>
  <2>1. Named(L.r.fields, ContentLength) = {}
    BY <1>2 DEF Named
  <2> QED
    BY <1>1, <2>1 DEF WellFormed, WellFormedBody
<1>4. Len(L.r.body) = 0
  BY <1>3
<1>5. Len(L.w) = L.b
  BY <1>4, BodyFacts DEF BodyAre
<1> PICK P, B : P = Len(L.r.params) /\ B = Len(L.r.body)
  OBVIOUS
<1>6. P \in Nat /\ Len(Wanted(L.r)) = P + B
  <2>1. WantedAre(L.r, P, B)
    BY <1>1, WantedIs
  <2> QED
    BY <2>1 DEF WantedAre
<1>7. P + B = P
  BY <1>4, <1>6
<1> QED
  BY <1>1, <1>2, <1>3, <1>5, <1>6, <1>7

\* It ends with the first line.
LEMMA LineEnds ==
  ASSUME TypeInv, NameInv, NEW L, Planned(L), Reads(L), EndHeader,
         phase = "header", state \in {2, 3, 4, 11, 12},
         UNCHANGED <<client, length, outcome>>, fileName' = L.f, fields' = fields,
         L.r.version = <<>>, Len(params') = Len(L.r.params),
         Held(buffer', 1, L.r.method, i + 1), Held(buffer', L.f, L.r.file, i + 1),
         HeldPairs(buffer', params', Query(L.r), i + 1)
  PROVE  SentAll(L)'
<1>1. /\ L.r.fields = <<>> /\ L.r.body = <<>> /\ Len(L.w) = L.b /\ L.b \in Nat
      /\ Len(Wanted(L.r)) = Len(L.r.params) /\ Len(L.r.params) \in Nat
  BY SimpleRequest DEF Planned
<1>2. /\ phase' = "body" => state' = 0 /\ responseSize' = 0
      /\ phase' \in {"body", "answer"} /\ i' = i
  BY EmptyBody
<1>3. fields' = <<>> /\ ~Accepted'
  BY DEF NameInv, Accepted
<1>4. i + 1 <= BufferSize + 2 /\ i + 1 \in Int /\ BufferSize + 2 \in Int
  BY SizesHold DEF Sizes, Reads
<1>5. WellFormed(L.r)
  BY DEF Planned, Plan
<1>6. HeldPairs(buffer', params', Wanted(L.r), i + 1)
  BY <1>5, WantedHeld
<1>7. \A z : HeldPairs(buffer', fields', L.r.fields, z)
  BY <1>1, <1>3 DEF HeldPairs
<1>8. HeaderSent(L)'
  BY <1>2 DEF HeaderSent
<1>9. ASSUME phase' = "body"
      PROVE  WhereInBody(L)' /\ HeldBelow(L, Below)'
  <2>1. state' = 0 /\ responseSize' = 0 /\ Len(L.w) - L.b = 0
    BY <1>1, <1>2, <1>9
  <2>2. Below' = i + 1
    BY <1>2, <2>1 DEF Below
  <2>3. WhereInBody(L)'
    BY <2>1 DEF WhereInBody
  <2>4. Len(params') >= Len(L.r.params) /\ Len(fields') = Len(L.r.fields)
    BY <1>1, <1>3
  <2>5. HeldBelow(L, Below)'
    BY <1>6, <1>7, <2>2, <2>4 DEF HeldBelow
  <2> QED
    BY <2>3, <2>5
<1>10. BodySent(L)'
  BY <1>9 DEF BodySent
<1>11. HeldBelow(L, BufferSize + 2)'
  <2> DEFINE z == BufferSize + 2
             y == i + 1
  <2>1. /\ y <= z /\ y \in Int /\ z \in Int
        /\ Held(buffer', 1, L.r.method, y) /\ Held(buffer', L.f, L.r.file, y)
        /\ HeldPairs(buffer', params', Wanted(L.r), y) /\ HeldPairs(buffer', fields', L.r.fields, z)
    BY <1>4, <1>6, <1>7
  <2>2. Len(params') >= Len(L.r.params) /\ Len(fields') = Len(L.r.fields)
    BY <1>1, <1>3
  <2> HIDE DEF y, z
  <2>3. Held(buffer', 1, L.r.method, z) /\ Held(buffer', L.f, L.r.file, z)
    BY <2>1, HeldKept
  <2>4. HeldPairs(buffer', params', Wanted(L.r), z)
    BY <2>1, HeldPairsKept
  <2>5. z' = z
    BY DEF z
  <2>6. HeldBelow(L, z)'
    BY <2>1, <2>2, <2>3, <2>4, <2>5 DEF HeldBelow
  <2> QED
    BY <2>6 DEF z
<1>12. AnswerSent(L)'
  BY <1>1, <1>11 DEF AnswerSent
<1> QED
  BY <1>8, <1>10, <1>12 DEF SentAll
LEMMA StillHeld ==
  ASSUME TypeInv, NameInv, phase' = "header", HeaderStep, NEW L, HeldInHeader(L)
  PROVE  /\ state # 0 => Held(buffer', 1, L.r.method, Start')
         /\ state \in 3..10 => Held(buffer', L.f, L.r.file, Start')
         /\ HeldPairs(buffer', params, Query(L.r), Start')
         /\ HeldPairs(buffer', fields, L.r.fields, Start')
BY HeaderHeld DEF HeldInHeader

\* When the header ends, too
LEMMA EndKeeps ==
  ASSUME TypeInv, NEW L, Reads(L), Terminate
  PROVE  /\ \A p, t : Held(buffer, p, t, Start) => Held(buffer', p, t, i + 1)
         /\ \A list, cs : HeldPairs(buffer, list, cs, Start) => HeldPairs(buffer', list, cs, i + 1)
<1> DEFINE s == Start
           y == i + 1
<1>1. s \in Int /\ s <= y /\ y \in Int /\ \A k \in 1..s - 1 : k \in Positions /\ k # i
  BY SizesHold DEF Reads, Sizes
<1> HIDE DEF s, y
<1>2. \A k \in 1..s - 1 : buffer'[k] = buffer[k]
  BY <1>1, TerminateType
<1>3. \A p, t : Held(buffer, p, t, s) => Held(buffer', p, t, y)
  BY <1>1, <1>2, HeldKept
<1>4. \A list, cs : HeldPairs(buffer, list, cs, s) => HeldPairs(buffer', list, cs, y)
  BY <1>1, <1>2, HeldPairsKept
<1> QED
  BY <1>3, <1>4 DEF s, y

LEMMA SpaceStep ==
  ASSUME TypeInv, NameInv, PartIsSent, NEW L, Planned(L), HeaderSent(L), SkipSpace
  PROVE  SentAll(L)'
<1>1. /\ phase = "header" /\ state = 1 /\ i <= length
      /\ UNCHANGED <<client, buffer, length, lists, outcome>>
  BY DEF SkipSpace, At
<1>2. Reads(L) /\ Start = i
  BY <1>1, ReadsSent DEF Open, Start
<1>3. WhereInHeader(L) /\ HeldInHeader(L)
  BY <1>1 DEF HeaderSent
<1>4. i = L.f /\ params' = <<>> /\ fields' = <<>> /\ params' = params /\ fields' = fields
  BY <1>1, <1>3 DEF WhereInHeader, HeldInHeader, lists
<1>5. /\ L.f \in Nat /\ L.d \in Nat /\ L.f < L.d
      /\ \A k \in L.f..L.d - 1 : L.w[k] \notin Eol \cup {Space, Question}
  BY LineFacts DEF Planned
<1>6. Byte \notin Eol \cup {Space}
  <2>1. i \in L.f..L.d - 1
    BY <1>4, <1>5
  <2> QED
    BY <1>2, <1>5, <2>1 DEF Reads
<1>7. Go(2) /\ fileName' = i
  BY <1>6 DEF SkipSpace
<1>8. phase' = "header" /\ state' = 2 /\ i' = i + 1
  BY <1>1, <1>7 DEF Go
<1>9. i' \in L.f..L.d
  BY <1>4, <1>5, <1>8
<1>10. WhereInHeader(L)'
  BY <1>8, <1>9 DEF WhereInHeader
<1>11. /\ Held(buffer', 1, L.r.method, Start')
       /\ HeldPairs(buffer', params', Query(L.r), Start') /\ HeldPairs(buffer', fields', L.r.fields, Start')
  BY <1>1, <1>3, <1>4, <1>8, StillHeld DEF HeaderStep
<1>12. HeldInHeader(L)'
  BY <1>4, <1>7, <1>8, <1>11 DEF HeldInHeader
<1> QED
  BY <1>1, <1>8, <1>10, <1>12, InHeader DEF HeaderSent

LEMMA NameStepSent ==
  ASSUME TypeInv, NameInv, PartIsSent, NEW L, Planned(L), HeaderSent(L), ReadFileName
  PROVE  SentAll(L)'
<1>1. /\ phase = "header" /\ state \in {2, 11, 12} /\ i <= length
      /\ UNCHANGED <<client, length, fileName, lists, outcome>>
  BY DEF ReadFileName, At
<1>2. WhereInHeader(L) /\ HeldInHeader(L)
  BY <1>1 DEF HeaderSent
<1>3. /\ i \in L.f..L.d /\ fileName = L.f
      /\ params' = <<>> /\ fields' = <<>> /\ params' = params /\ fields' = fields
  BY <1>1, <1>2 DEF WhereInHeader, HeldInHeader, lists
<1>4. Reads(L) /\ Start = L.f
  BY <1>1, <1>3, ReadsSent DEF Open, Start
<1>5. /\ L.f \in Nat /\ L.d \in Nat /\ L.f < L.d
      /\ \A k \in L.f..L.d - 1 : L.w[k] \notin Eol \cup {Space, Question}
      /\ Cut(L.w, L.f, L.d, L.r.file, Eol \cup {Space, Question})
  BY LineFacts DEF Planned
<1>6. Byte = L.w[i] /\ i \in Nat \ {0} /\ i + 1 \in Int /\ i < i + 1
  BY <1>4 DEF Reads
<1>7. Plan(L)
  BY DEF Planned
<1>8. \A k : Go(k) => phase' = "header" /\ state' = k /\ i' = i + 1
  BY <1>1 DEF Go
<1>9. phase' = "header" =>
        /\ Held(buffer', 1, L.r.method, Start')
        /\ HeldPairs(buffer', params', Query(L.r), Start') /\ HeldPairs(buffer', fields', L.r.fields, Start')
  BY <1>1, <1>2, <1>3, StillHeld DEF HeaderStep
<1>10. CASE i # L.d
  <2>1. i \in L.f..L.d - 1 /\ i + 1 \in L.f..L.d
    BY <1>3, <1>5, <1>10
  <2>2. Byte \notin Eol \cup {Question, Space}
    BY <1>5, <1>6, <2>1
  <2>3. \/ Fail
        \/ buffer' = buffer /\ (Go(2) \/ Go(AfterDot))
    BY <2>2 DEF ReadFileName
  <2>4. CASE Fail
    <3>1. phase' = "answer" /\ syntaxError'
      BY <2>4 DEF Fail
    <3> QED
      BY <3>1 DEF SentAll, HeaderSent, BodySent, AnswerSent
  <2>5. CASE Go(2) \/ Go(AfterDot)
    <3>1. phase' = "header" /\ state' \in {2, 11, 12} /\ i' = i + 1
      BY <1>8, <2>5 DEF AfterDot
    <3>2. WhereInHeader(L)'
      BY <2>1, <3>1 DEF WhereInHeader
    <3>3. HeldInHeader(L)'
      BY <1>1, <1>3, <1>9, <3>1 DEF HeldInHeader
    <3> QED
      BY <1>1, <3>1, <3>2, <3>3, InHeader DEF HeaderSent
  <2> QED
    BY <2>3, <2>4, <2>5
<1>11. CASE i = L.d
  <2>1. Terminate => \A zz \in Int : i < zz => Held(buffer', L.f, L.r.file, zz)
    BY <1>4, <1>5, <1>11, EndHeld
  <2> PICK P : P = Len(L.r.params)
    OBVIOUS
  <2>2. ParamsAre(L, P)
    BY <1>7, ParamFacts
  <2>3. CASE P # 0
    <3>1. L.w[L.d] = Question /\ L.ps[1] = L.d + 1 /\ P \in Nat /\ ParamCell(L, 1)
      <4>1. P \in Nat
        BY <2>2 DEF ParamsAre
      <4>2. 1 \in 1..P
        BY <2>3, <4>1
      <4> QED
        BY <2>2, <2>3, <4>1, <4>2 DEF ParamsAre
    <3>2. Byte = Question /\ Question \notin Eol \cup {Space, Dot, Slash}
      BY <1>6, <1>11, <3>1 DEF Question, Eol, Space, Dot, Slash, NewLine, Return
    <3>3. Terminate /\ Go(3) /\ lastName' = i + 1
      BY <3>2 DEF ReadFileName
    <3>4. phase' = "header" /\ state' = 3 /\ i' = i + 1 /\ Start' = i + 1
      BY <1>8, <3>3 DEF Start
    <3> DEFINE p == L.ps[1]
               v == L.pv[1]
    <3>5. i + 1 \in p..v - 1
      <4> DEFINE z == L.pe[1]
      <4>1. Cell(L.w, Query(L.r)[1], Equal, p, v, z, Eol, Eol \cup {And, Space}) /\ p = i + 1
        BY <1>11, <3>1 DEF ParamCell
      <4> HIDE DEF p, v, z
      <4>2. p \in Nat \ {0} /\ v \in Nat /\ z \in Nat /\ p <= v - 1 /\ v - 1 <= z
        BY <4>1, CellNumbers
      <4> QED
        BY <1>6, <4>1, <4>2
    <3>6. InParamName(L)'
      <4>1. 1 \in 1..Len(L.r.params) /\ 1 = Len(params') + 1
        BY <1>3, <2>3, <3>1
      <4>2. lastName' = L.ps[1] /\ i' \in L.ps[1]..L.pv[1] - 1
        BY <1>11, <3>1, <3>3, <3>4, <3>5
      <4> QED
        BY <4>1, <4>2 DEF InParamName
    <3>7. WhereInHeader(L)'
      BY <3>4, <3>6 DEF WhereInHeader
    <3>8. HeldInHeader(L)'
      BY <1>1, <1>3, <1>6, <1>9, <2>1, <3>3, <3>4 DEF HeldInHeader
    <3> QED
      BY <1>1, <3>4, <3>7, <3>8, InHeader DEF HeaderSent
  <2>4. CASE P = 0 /\ L.r.version # <<>>
    <3>1. L.q = L.d /\ L.w[L.q] = Space /\ L.ve \in Nat /\ L.q + 1 <= L.ve
      BY <1>7, <2>2, <2>4, QueryEnd DEF ParamsAre
    <3>2. Byte = Space /\ Space \notin Eol \cup {Question, Dot, Slash}
      BY <1>6, <1>11, <3>1 DEF Question, Eol, Space, Dot, Slash, NewLine, Return
    <3>3. Terminate /\ Go(5)
      BY <3>2 DEF ReadFileName
    <3>4. phase' = "header" /\ state' = 5 /\ i' = i + 1 /\ Start' = i + 1
      BY <1>8, <3>3 DEF Start
    <3>5. i' \in L.q + 1..L.ve
      BY <1>6, <1>11, <3>1, <3>4
    <3>6. WhereInHeader(L)'
      BY <3>4, <3>5 DEF WhereInHeader
    <3>7. Len(params') = Len(L.r.params)
      BY <1>3, <2>4
    <3>8. HeldInHeader(L)'
      BY <1>1, <1>3, <1>6, <1>9, <2>1, <2>4, <3>3, <3>4, <3>7 DEF HeldInHeader
    <3> QED
      BY <1>1, <3>4, <3>6, <3>8, InHeader DEF HeaderSent
  <2>5. CASE P = 0 /\ L.r.version = <<>>
    <3>1. L.q = L.d /\ L.w[L.q] \in Eol
      BY <1>7, <2>2, <2>5, QueryEnd DEF ParamsAre
    <3>2. Byte \in Eol /\ Byte \notin {Question, Dot, Slash, Space}
      BY <1>6, <1>11, <3>1 DEF Question, Eol, Space, Dot, Slash, NewLine, Return
    <3>3. Terminate /\ EndHeader
      BY <3>2 DEF ReadFileName
    <3>4. Held(buffer', 1, L.r.method, i + 1)
      <4>1. Held(buffer, 1, L.r.method, Start)
        BY <1>1, <1>2 DEF HeldInHeader
      <4> QED
        BY <1>4, <3>3, <4>1, EndKeeps
    <3>5. Held(buffer', L.f, L.r.file, i + 1)
      BY <1>6, <2>1, <3>3
    <3>6. HeldPairs(buffer', params', Query(L.r), i + 1) /\ Len(params') = Len(L.r.params)
      <4>1. Len(Query(L.r)) = P /\ P = 0
        BY <2>2, <2>5 DEF ParamsAre
      <4> QED
        BY <1>3, <4>1 DEF HeldPairs
    <3>7. fileName' = L.f
      BY <1>1, <1>3
    <3> QED
      BY <1>1, <1>3, <1>4, <2>5, <3>3, <3>4, <3>5, <3>6, <3>7, LineEnds
  <2> QED
    BY <2>3, <2>4, <2>5
<1> QED
  BY <1>10, <1>11

\* The k-th parameter, as it is placed
LEMMA ParamAt ==
  ASSUME NEW L, Plan(L), NEW k \in 1..Len(L.r.params), NEW c, c = Query(L.r)[k],
         NEW p, p = L.ps[k], NEW v, v = L.pv[k], NEW z, z = L.pe[k]
  PROVE  /\ Cell(L.w, c, Equal, p, v, z, Eol, Eol \cup {And, Space})
         /\ p \in Nat \ {0} /\ v \in Nat /\ z \in Nat /\ p <= v - 1 /\ v - 1 <= z
         /\ Cut(L.w, p, v - 1, c[1], Eol \cup {Equal})
         /\ \A j \in p..v - 2 : L.w[j] \notin Eol \cup {Equal}
<1>1. Cell(L.w, c, Equal, p, v, z, Eol, Eol \cup {And, Space})
  BY ParamFacts DEF ParamsAre, ParamCell
<1>3. p \in Nat \ {0} /\ v \in Nat /\ z \in Nat /\ p <= v - 1 /\ v - 1 <= z
  BY <1>1, CellNumbers
<1>4. Cut(L.w, p, v - 1, c[1], Eol \cup {Equal})
  BY <1>1 DEF Cell
<1>5. \A j \in p..v - 2 : L.w[j] \notin Eol \cup {Equal}
  BY <1>1, CellName
<1> QED
  BY <1>1, <1>3, <1>4, <1>5

LEMMA ParamNameStep ==
  ASSUME TypeInv, NameInv, PartIsSent, NEW L, Planned(L), HeaderSent(L), ReadParamName
  PROVE  SentAll(L)'
<1>1. /\ phase = "header" /\ state = 3 /\ i <= length
      /\ UNCHANGED <<client, length, fileName, lastName, fields, outcome>>
  BY DEF ReadParamName, At
<1>2. WhereInHeader(L) /\ HeldInHeader(L)
  BY <1>1 DEF HeaderSent
<1>3. InParamName(L)
  BY <1>1, <1>2 DEF WhereInHeader
<1>4. PICK k \in 1..Len(L.r.params) :
        k = Len(params) + 1 /\ lastName = L.ps[k] /\ i \in L.ps[k]..L.pv[k] - 1
  BY <1>3 DEF InParamName
<1> PICK c, p, v, z : c = Query(L.r)[k] /\ p = L.ps[k] /\ v = L.pv[k] /\ z = L.pe[k]
  OBVIOUS
<1>5. Plan(L)
  BY DEF Planned
<1>6. /\ Cell(L.w, c, Equal, p, v, z, Eol, Eol \cup {And, Space})
      /\ p \in Nat \ {0} /\ v \in Nat /\ z \in Nat /\ p <= v - 1 /\ v - 1 <= z
  BY <1>5, ParamAt
<1>7. /\ Cut(L.w, p, v - 1, c[1], Eol \cup {Equal})
      /\ \A j \in p..v - 2 : L.w[j] \notin Eol \cup {Equal}
  BY <1>5, ParamAt
<1>8. c[1] = L.r.params[k][1] /\ Len(c) = Len(L.r.params[k]) /\ Len(c) \in {1, 2}
  BY <1>5, ParamFacts DEF ParamsAre
<1>9. Reads(L) /\ Start = p
  BY <1>1, <1>4, ReadsSent DEF Open, Start
<1>10. Byte = L.w[i] /\ i \in Nat \ {0} /\ i + 1 \in Int /\ i < i + 1
  BY <1>9 DEF Reads
<1>11. \A j : Go(j) => phase' = "header" /\ state' = j /\ i' = i + 1
  BY <1>1 DEF Go
<1>12. phase' = "header" =>
        /\ Held(buffer', 1, L.r.method, Start') /\ Held(buffer', L.f, L.r.file, Start')
        /\ HeldPairs(buffer', params, Query(L.r), Start') /\ HeldPairs(buffer', fields', L.r.fields, Start')
  BY <1>1, <1>2, StillHeld DEF HeaderStep
<1>13. fileName' = L.f /\ fields' = <<>> /\ fields' = fields
  BY <1>1, <1>2 DEF HeldInHeader
<1>14. CASE i # v - 1
  <2>1. i \in p..v - 2 /\ i + 1 \in p..v - 1
    <3>1. i \in p..v - 1
      BY <1>4
    <3> QED
      BY <1>6, <1>10, <1>14, <3>1
  <2>2. Byte \notin Eol \cup {Equal}
    BY <1>7, <1>10, <2>1
  <2>3. Go(3) /\ params' = params
    BY <2>2 DEF ReadParamName
  <2>4. phase' = "header" /\ state' = 3 /\ i' = i + 1
    BY <1>11, <2>3
  <2>5. InParamName(L)'
    BY <1>1, <1>4, <2>1, <2>3, <2>4 DEF InParamName
  <2>6. WhereInHeader(L)'
    BY <2>4, <2>5 DEF WhereInHeader
  <2>7. HeldInHeader(L)'
    BY <1>12, <1>13, <2>3, <2>4 DEF HeldInHeader
  <2> QED
    BY <1>1, <2>4, <2>6, <2>7, InHeader DEF HeaderSent
<1>15. CASE i = v - 1 /\ Len(c) # 1
  <2>1. v <= z /\ L.w[v - 1] = Equal
    BY <1>6, <1>15, CellValue
  <2>2. Byte = Equal /\ Equal \notin Eol
    BY <1>10, <1>15, <2>1 DEF Equal, Eol, NewLine, Return
  <2>3. Terminate /\ Go(4) /\ lastValue' = i + 1 /\ params' = params
    BY <2>2 DEF ReadParamName
  <2>4. phase' = "header" /\ state' = 4 /\ i' = i + 1 /\ Start' = i + 1
    BY <1>11, <2>3 DEF Start
  <2>5. Held(buffer', p, c[1], i + 1)
    BY <1>7, <1>9, <1>10, <1>15, <2>3, EndHeld
  <2>6. i + 1 = v /\ i + 1 \in v..z
    BY <1>6, <1>10, <1>15, <2>1
  <2>7. InParamValue(L)'
    <3>1. Len(L.r.params[k]) = 2 /\ k = Len(params') + 1
      BY <1>4, <1>8, <1>15, <2>3
    <3>2. lastName' = L.ps[k] /\ lastValue' = L.pv[k] /\ i' \in L.pv[k]..L.pe[k]
      BY <1>1, <1>4, <2>3, <2>4, <2>6
    <3>3. Held(buffer', lastName', L.r.params[k][1], lastValue')
      BY <1>1, <1>4, <1>8, <2>3, <2>5
    <3> QED
      BY <3>1, <3>2, <3>3 DEF InParamValue
  <2>8. WhereInHeader(L)'
    BY <2>4, <2>7 DEF WhereInHeader
  <2>9. HeldInHeader(L)'
    BY <1>12, <1>13, <2>3, <2>4 DEF HeldInHeader
  <2> QED
    BY <1>1, <2>4, <2>8, <2>9, InHeader DEF HeaderSent
<1>16. CASE i = v - 1 /\ Len(c) = 1
  <2>1. z = i
    BY <1>6, <1>16 DEF Cell
  <2>2. k = Len(L.r.params) /\ L.r.version = <<>> /\ L.q = z /\ Len(Query(L.r)) = k /\ k \in Nat
    <3>1. ParamsAre(L, Len(L.r.params))
      BY <1>5, ParamFacts
    <3> PICK P : P = Len(L.r.params)
      OBVIOUS
    <3>2. P \in Nat /\ k \in 1..P /\ ParamsAre(L, P)
      BY <3>1 DEF ParamsAre
    <3>3. k = P /\ L.r.version = <<>>
      BY <1>8, <1>16, <3>2 DEF ParamsAre
    <3>4. P # 0
      BY <3>2
    <3>5. L.q = L.pe[P] /\ Len(Query(L.r)) = P
      BY <3>2, <3>4 DEF ParamsAre
    <3> QED
      BY <3>2, <3>3, <3>5
  <2>3. Byte \in Eol /\ Equal \notin Eol
    BY <1>5, <1>10, <2>1, <2>2, QueryEnd DEF Equal, Eol, NewLine, Return
  <2>4. Terminate /\ EndHeader /\ params' = Append(params, <<lastName, NULL>>)
    BY <2>3 DEF ReadParamName
  <2>5. Held(buffer', p, c[1], i + 1)
    BY <1>7, <1>9, <1>10, <1>16, <2>4, EndHeld
  <2>6. HeldPair(buffer', <<lastName, NULL>>, Query(L.r)[k], i + 1)
    BY <1>4, <1>16, <2>5 DEF HeldPair
  <2>7. /\ Held(buffer', 1, L.r.method, i + 1) /\ Held(buffer', L.f, L.r.file, i + 1)
        /\ HeldPairs(buffer', params, Query(L.r), i + 1)
    BY <1>1, <1>2, <1>9, <2>4, EndKeeps DEF HeldInHeader
  <2>8. HeldPairs(buffer', params', Query(L.r), i + 1) /\ Len(params') = k
    <3>1. params \in PairLists /\ k \in 1..Len(Query(L.r)) /\ Len(Query(L.r)) \in Nat
      BY <1>4, <2>2, Types
    <3> QED
      BY <1>4, <2>4, <2>6, <2>7, <3>1, HeldAppend
  <2> QED
    BY <1>1, <1>9, <1>13, <2>2, <2>4, <2>7, <2>8, LineEnds
<1> QED
  BY <1>8, <1>14, <1>15, <1>16
LEMMA ParamValueStep ==
  ASSUME TypeInv, NameInv, PartIsSent, NEW L, Planned(L), HeaderSent(L), ReadParamValue
  PROVE  SentAll(L)'
<1>1. /\ phase = "header" /\ state = 4 /\ i <= length
      /\ UNCHANGED <<client, length, fileName, lastValue, fields, outcome>>
  BY DEF ReadParamValue, At
<1>2. WhereInHeader(L) /\ HeldInHeader(L)
  BY <1>1 DEF HeaderSent
<1>3. InParamValue(L)
  BY <1>1, <1>2 DEF WhereInHeader
<1>4. PICK k \in 1..Len(L.r.params) :
        /\ k = Len(params) + 1 /\ Len(L.r.params[k]) = 2
        /\ lastName = L.ps[k] /\ lastValue = L.pv[k] /\ i \in L.pv[k]..L.pe[k]
        /\ Held(buffer, lastName, L.r.params[k][1], lastValue)
  BY <1>3 DEF InParamValue
<1> PICK c, p, v, z : c = Query(L.r)[k] /\ p = L.ps[k] /\ v = L.pv[k] /\ z = L.pe[k]
  OBVIOUS
<1>5. Plan(L)
  BY DEF Planned
<1>6. /\ Cell(L.w, c, Equal, p, v, z, Eol, Eol \cup {And, Space})
      /\ p \in Nat \ {0} /\ v \in Nat /\ z \in Nat /\ p <= v - 1 /\ v - 1 <= z
  BY <1>5, ParamAt
<1>7. c[1] = L.r.params[k][1] /\ Len(c) = 2
  BY <1>4, <1>5, ParamFacts DEF ParamsAre
<1>8. /\ v <= z /\ \A j \in v..z - 1 : L.w[j] \notin Eol \cup {And, Space}
  <2>1. Len(c) # 1
    BY <1>7
  <2>2. Cut(L.w, v, z, c[2], Eol \cup {And, Space})
    BY <1>6, <2>1 DEF Cell
  <2>3. v <= z
    BY <2>2 DEF Cut
  <2>4. \A j \in v..z - 1 : L.w[j] \notin Eol \cup {And, Space}
    BY <2>2 DEF Cut
  <2> QED
    BY <2>3, <2>4
<1>9. Cut(L.w, v, z, c[2], Eol \cup {And, Space})
  BY <1>6, <1>7 DEF Cell
<1>10. Reads(L) /\ Start = v /\ lastName = p /\ lastValue = v /\ i \in v..z
  BY <1>1, <1>4, ReadsSent DEF Open, Start
<1>11. Byte = L.w[i] /\ i \in Nat \ {0} /\ i + 1 \in Int /\ i < i + 1
  BY <1>10 DEF Reads
<1>12. \A j : Go(j) => phase' = "header" /\ state' = j /\ i' = i + 1
  BY <1>1 DEF Go
<1>13. phase' = "header" =>
        /\ Held(buffer', 1, L.r.method, Start') /\ Held(buffer', L.f, L.r.file, Start')
        /\ HeldPairs(buffer', params, Query(L.r), Start') /\ HeldPairs(buffer', fields', L.r.fields, Start')
  BY <1>1, <1>2, StillHeld DEF HeaderStep
<1>14. fileName' = L.f /\ fields' = <<>> /\ fields' = fields
  BY <1>1, <1>2 DEF HeldInHeader
<1>15. CASE i # z
  <2>1. i \in v..z - 1 /\ i + 1 \in v..z
    BY <1>6, <1>10, <1>15
  <2>2. Byte \notin Eol \cup {And, Space}
    BY <1>8, <1>11, <2>1
  <2>3. Go(4) /\ params' = params /\ lastName' = lastName /\ buffer' = buffer
    BY <2>2 DEF ReadParamValue
  <2>4. phase' = "header" /\ state' = 4 /\ i' = i + 1
    BY <1>12, <2>3
  <2>5. InParamValue(L)'
    <3>1. i' \in L.pv[k]..L.pe[k]
      BY <2>1, <2>4
    <3>2. k = Len(params') + 1 /\ lastName' = L.ps[k] /\ lastValue' = L.pv[k]
      BY <1>1, <1>4, <2>3
    <3>3. Held(buffer', lastName', L.r.params[k][1], lastValue')
      BY <1>1, <1>4, <2>3
    <3> QED
      BY <1>4, <3>1, <3>2, <3>3 DEF InParamValue
  <2>6. WhereInHeader(L)'
    BY <2>4, <2>5 DEF WhereInHeader
  <2>7. HeldInHeader(L)'
    BY <1>13, <1>14, <2>3, <2>4 DEF HeldInHeader
  <2> QED
    BY <1>1, <2>4, <2>6, <2>7, InHeader DEF HeaderSent
<1>16. CASE i = z
  <2> PICK P : P = Len(L.r.params)
    OBVIOUS
  <2>1. ParamsAre(L, P) /\ k \in 1..P /\ P \in Nat /\ Len(Query(L.r)) = P
    <3>1. ParamsAre(L, P)
      BY <1>5, ParamFacts
    <3> QED
      BY <3>1 DEF ParamsAre
  \* What the end of the value leaves
  <2>2. ASSUME Terminate, params' = Append(params, <<lastName, lastValue>>)
        PROVE  /\ Held(buffer', 1, L.r.method, i + 1) /\ Held(buffer', L.f, L.r.file, i + 1)
               /\ HeldPairs(buffer', params', Query(L.r), i + 1) /\ Len(params') = k
    <3>1. /\ Held(buffer', 1, L.r.method, i + 1) /\ Held(buffer', L.f, L.r.file, i + 1)
          /\ HeldPairs(buffer', params, Query(L.r), i + 1)
      BY <1>1, <1>2, <1>10, <2>2, EndKeeps DEF HeldInHeader
    <3>2. Held(buffer', p, c[1], i + 1)
      BY <1>4, <1>7, <1>10, <2>2, EndKeeps
    <3>3. Held(buffer', v, c[2], i + 1)
      BY <1>9, <1>10, <1>11, <1>16, <2>2, EndHeld
    <3>4. lastValue # NULL
      BY <1>1 DEF TypeInv, PointersSet
    <3>5. HeldPair(buffer', <<lastName, lastValue>>, Query(L.r)[k], i + 1)
      <4>1. <<lastName, lastValue>>[1] = p /\ <<lastName, lastValue>>[2] = v
        BY <1>10
      <4>2. Len(Query(L.r)[k]) # 1
        BY <1>7
      <4> QED
        BY <1>10, <3>2, <3>3, <3>4, <4>1, <4>2 DEF HeldPair
    <3>6. params \in PairLists /\ k \in 1..Len(Query(L.r)) /\ Len(Query(L.r)) \in Nat
      BY <2>1, Types
    <3> QED
      BY <1>4, <2>2, <3>1, <3>5, <3>6, HeldAppend
  <2>3. CASE k # P
    <3>1. L.w[z] = And /\ L.ps[k + 1] = z + 1
      BY <2>1, <2>3 DEF ParamsAre
    <3>2. Byte = And /\ And \notin Eol \cup {Space}
      BY <1>11, <1>16, <3>1 DEF And, Eol, Space, NewLine, Return
    <3>3. Terminate /\ params' = Append(params, <<lastName, lastValue>>) /\ Go(3) /\ lastName' = i + 1
      BY <3>2 DEF ReadParamValue
    <3>4. phase' = "header" /\ state' = 3 /\ i' = i + 1 /\ Start' = i + 1
      BY <1>12, <3>3 DEF Start
    <3>5. InParamName(L)'
      <4>1. k + 1 \in 1..P /\ k + 1 \in 1..Len(L.r.params)
        BY <2>1, <2>3
      <4> DEFINE x == L.ps[k + 1]
                 y == L.pv[k + 1]
                 u == L.pe[k + 1]
                 d == Query(L.r)[k + 1]
      <4>2. x \in Nat \ {0} /\ y \in Nat /\ u \in Nat /\ x <= y - 1 /\ y - 1 <= u
        <5>1. Cell(L.w, d, Equal, x, y, u, Eol, Eol \cup {And, Space})
          BY <2>1, <4>1 DEF ParamsAre, ParamCell
        <5> HIDE DEF x, y, u, d
        <5> QED
          BY <5>1, CellNumbers
      <4>3. i' = x /\ lastName' = x
        BY <1>16, <3>1, <3>3, <3>4
      <4> HIDE DEF x, y, u
      <4>4. i' \in x..y - 1
        BY <4>2, <4>3
      <4>5. k + 1 = Len(params') + 1
        BY <2>2, <3>3
      <4> QED
        BY <4>1, <4>3, <4>4, <4>5 DEF InParamName, x, y
    <3>6. WhereInHeader(L)'
      BY <3>4, <3>5 DEF WhereInHeader
    <3>7. HeldInHeader(L)'
      BY <1>13, <1>14, <2>2, <3>3, <3>4 DEF HeldInHeader
    <3> QED
      BY <1>1, <3>4, <3>6, <3>7, InHeader DEF HeaderSent
  <2>4. k = P => L.q = z
    <3>1. P # 0
      BY <2>1
    <3> QED
      BY <2>1, <3>1 DEF ParamsAre
  <2>5. CASE k = P /\ L.r.version # <<>>
    <3>1. L.w[L.q] = Space /\ L.ve \in Nat /\ L.q + 1 <= L.ve
      BY <1>5, <2>5, QueryEnd
    <3>2. Byte = Space /\ Space \notin Eol \cup {And}
      BY <1>11, <1>16, <2>4, <2>5, <3>1 DEF And, Eol, Space, NewLine, Return
    <3>3. Terminate /\ params' = Append(params, <<lastName, lastValue>>) /\ Go(5)
      BY <3>2 DEF ReadParamValue
    <3>4. phase' = "header" /\ state' = 5 /\ i' = i + 1 /\ Start' = i + 1
      BY <1>12, <3>3 DEF Start
    <3>5. i' \in L.q + 1..L.ve
      BY <1>11, <1>16, <2>4, <2>5, <3>1, <3>4
    <3>6. WhereInHeader(L)'
      BY <3>4, <3>5 DEF WhereInHeader
    <3>7. Len(params') = Len(L.r.params)
      BY <2>2, <2>5, <3>3
    <3>8. HeldInHeader(L)'
      BY <1>13, <1>14, <2>2, <2>5, <3>3, <3>4, <3>7 DEF HeldInHeader
    <3> QED
      BY <1>1, <3>4, <3>6, <3>8, InHeader DEF HeaderSent
  <2>6. CASE k = P /\ L.r.version = <<>>
    <3>1. L.w[L.q] \in Eol
      BY <1>5, <2>6, QueryEnd
    <3>2. Byte \in Eol /\ Byte # And /\ Byte # Space
      <4>1. Byte \in Eol
        BY <1>11, <1>16, <2>4, <2>6, <3>1
      <4>2. \A x \in Eol : x # And /\ x # Space
        BY DEF And, Eol, Space, NewLine, Return
      <4> QED
        BY <4>1, <4>2
    <3>3. Terminate /\ params' = Append(params, <<lastName, lastValue>>) /\ EndHeader
      BY <3>2 DEF ReadParamValue
    <3>4. Len(params') = Len(L.r.params)
      BY <2>2, <2>6, <3>3
    <3> QED
      BY <1>1, <1>10, <1>14, <2>2, <2>6, <3>3, <3>4, LineEnds
  <2> QED
    BY <2>3, <2>5, <2>6
<1> QED
  BY <1>15, <1>16

LEMMA VersionStep ==
  ASSUME TypeInv, NameInv, PartIsSent, NEW L, Planned(L), HeaderSent(L), ReadVersion
  PROVE  SentAll(L)'
<1>1. /\ phase = "header" /\ state = 5 /\ i <= length
      /\ UNCHANGED <<client, buffer, length, pointers, lists, outcome>>
      /\ Go(IF Byte = NewLine THEN 6 ELSE IF Byte = Return THEN 7 ELSE 5)
  BY DEF ReadVersion, At
<1>2. WhereInHeader(L) /\ HeldInHeader(L)
  BY <1>1 DEF HeaderSent
<1>3. i \in L.q + 1..L.ve /\ Len(params) = Len(L.r.params) /\ L.r.version # <<>>
  BY <1>1, <1>2 DEF WhereInHeader, HeldInHeader
<1>4. Plan(L)
  BY DEF Planned
<1>5. /\ WellFormed(L.r) /\ L.q \in Nat /\ L.ve \in Nat \ {0} /\ Len(L.r.eol) \in {1, 2}
      /\ \A k \in L.q + 1..L.ve - 1 : L.w[k] \notin Eol
      /\ EolPut(L.r, L.w, L.ve)
  <2>1. /\ WellFormed(L.r) /\ L.q \in Nat /\ L.ve \in Nat /\ L.q + 1 <= L.ve /\ Len(L.r.eol) \in {1, 2}
        /\ \A k \in L.q + 1..L.ve - 1 : L.w[k] \notin Eol
        /\ EolPut(L.r, L.w, L.ve)
    BY <1>3, <1>4, QueryEnd
  <2> QED
    BY <2>1
<1>6. Reads(L)
  BY <1>1, ReadsSent DEF Open
<1>7. Byte = L.w[i] /\ i \in Nat
  BY <1>6 DEF Reads
<1>8. phase' = "header" /\ i' = i + 1
      /\ state' = IF Byte = NewLine THEN 6 ELSE IF Byte = Return THEN 7 ELSE 5
  BY <1>1 DEF Go
<1>9. params' = params /\ fields' = fields /\ fileName' = fileName /\ outcome' = outcome
  BY <1>1 DEF lists, pointers
<1>10. /\ Held(buffer', 1, L.r.method, Start') /\ Held(buffer', L.f, L.r.file, Start')
       /\ HeldPairs(buffer', params', Query(L.r), Start') /\ HeldPairs(buffer', fields', L.r.fields, Start')
  BY <1>1, <1>2, <1>8, <1>9, StillHeld DEF HeaderStep
<1>11. fileName' = L.f /\ fields' = <<>> /\ Len(params') = Len(L.r.params)
  BY <1>1, <1>2, <1>3, <1>9 DEF HeldInHeader
<1>12. HeldInHeader(L)'
  <2>1. state' \in {5, 6, 7}
    BY <1>8
  <2> QED
    BY <1>3, <1>10, <1>11, <2>1 DEF HeldInHeader
<1>13. WhereInHeader(L)'
  <2>1. CASE i # L.ve
    <3>1. i \in L.q + 1..L.ve - 1 /\ i + 1 \in L.q + 1..L.ve
      BY <1>3, <1>5, <1>7, <2>1
    <3>2. Byte \notin Eol
      BY <1>5, <1>7, <3>1
    <3>3. state' = 5
      BY <1>8, <3>2 DEF Eol
    <3> QED
      BY <1>8, <3>1, <3>3 DEF WhereInHeader
  <2>2. CASE i = L.ve
    <3>1. state' = Len(L.r.eol) + 5
      <4>1. /\ Len(L.r.eol) = 1 => L.w[L.ve] = NewLine
            /\ Len(L.r.eol) = 2 => L.w[L.ve] = Return
        BY <1>5, EolIs
      <4>2. CASE Len(L.r.eol) = 1
        <5>1. Byte = NewLine
          BY <1>7, <2>2, <4>1, <4>2
        <5>2. state' = 6
          BY <1>8, <5>1
        <5> QED
          BY <4>2, <5>2
      <4>3. CASE Len(L.r.eol) = 2
        <5>1. Byte = Return
          BY <1>7, <2>2, <4>1, <4>3
        <5>2. state' = 7
          BY <1>8, <5>1 DEF NewLine, Return
        <5> QED
          BY <4>3, <5>2
      <4> QED
        BY <1>5, <4>2, <4>3
    <3>2. AtEol(L)'
      <4> PICK F, n : F = Len(L.r.fields) /\ n = Len(L.r.eol)
        OBVIOUS
      <4>1. FieldsAre(L, F, n)
        BY <1>3, <1>4, FieldFacts
      <4>2. F \in Nat /\ n \in {1, 2} /\ L.fs[1] = L.ve + n
        BY <4>1 DEF FieldsAre
      <4>3. i' = L.fs[1] + 1 - n
        BY <1>5, <1>8, <2>2, <4>2
      <4>4. 1 \in 1..Len(L.r.fields) + 1 /\ 1 = Len(fields') + 1
        BY <1>11, <4>2
      <4> QED
        BY <4>3, <4>4 DEF AtEol
    <3>3. state' \in {6, 7}
      <4> PICK n : n = Len(L.r.eol)
        OBVIOUS
      <4>1. n \in {1, 2} /\ state' = n + 5
        BY <1>5, <3>1
      <4>2. 1 + 5 = 6 /\ 2 + 5 = 7
        OBVIOUS
      <4>3. CASE n = 1
        BY <4>1, <4>2, <4>3
      <4>4. CASE n = 2
        BY <4>1, <4>2, <4>4
      <4> QED
        BY <4>1, <4>3, <4>4
    <3> QED
      BY <1>8, <3>1, <3>2, <3>3 DEF WhereInHeader
  <2> QED
    BY <2>1, <2>2
<1> QED
  BY <1>1, <1>8, <1>9, <1>12, <1>13, InHeader DEF HeaderSent

\* The k-th field, as it is placed
LEMMA FieldAt ==
  ASSUME NEW L, Plan(L), L.r.version # <<>>, NEW k \in 1..Len(L.r.fields), NEW c, c = L.r.fields[k],
         NEW p, p = L.fs[k], NEW v, v = L.fv[k], NEW z, z = L.fe[k]
  PROVE  /\ Cell(L.w, c, Colon, p, v, z, Eol, Eol) /\ Len(c) \in {1, 2}
         /\ p \in Nat \ {0} /\ v \in Nat /\ z \in Nat /\ p < v - 1 /\ v - 1 <= z
         /\ Cut(L.w, p, v - 1, c[1], Eol \cup {Colon})
         /\ \A j \in p..v - 2 : L.w[j] \notin Eol \cup {Colon}
         /\ EolPut(L.r, L.w, z) /\ L.fs[k + 1] = z + Len(L.r.eol)
<1>0. FieldsAre(L, Len(L.r.fields), Len(L.r.eol))
  BY FieldFacts
<1>1. Cell(L.w, c, Colon, p, v, z, Eol, Eol) /\ Len(c) \in {1, 2} /\ Len(c[1]) # 0
  BY <1>0 DEF FieldsAre, FieldCell
<1>2. p \in Nat \ {0} /\ v \in Nat /\ z \in Nat /\ v - 1 <= z
  BY <1>1, CellNumbers
<1>3. p < v - 1
  BY <1>1, CellNamed
<1>4. Cut(L.w, p, v - 1, c[1], Eol \cup {Colon})
  BY <1>1 DEF Cell
<1>5. \A j \in p..v - 2 : L.w[j] \notin Eol \cup {Colon}
  BY <1>1, CellName
<1>6. EolPut(L.r, L.w, z) /\ L.fs[k + 1] = z + Len(L.r.eol)
  BY <1>0 DEF FieldsAre
<1> QED
  BY <1>1, <1>2, <1>3, <1>4, <1>5, <1>6

\* Of an end of line the first byte is read, and the next state is to skip the

\* other one.
LEMMA FirstOfEol ==
  ASSUME NEW r, WellFormed(r), NEW w, NEW z \in Nat \ {0}, EolPut(r, w, z), Byte = w[z]
  PROVE  /\ Byte \in Eol /\ Len(r.eol) + 5 = (IF Byte = NewLine THEN 6 ELSE 7)
         /\ Len(r.eol) + 5 \in {6, 7}
<1> PICK n : n = Len(r.eol)
  OBVIOUS
<1>1. /\ w[z] \in Eol /\ n \in {1, 2}
      /\ n = 1 => w[z] = NewLine
      /\ n = 2 => w[z] = Return
  BY EolIs
<1>2. 1 + 5 = 6 /\ 2 + 5 = 7
  OBVIOUS
<1>3. CASE n = 1
  BY <1>1, <1>2, <1>3
<1>4. CASE n = 2
  BY <1>1, <1>2, <1>4 DEF NewLine, Return
<1> QED
  BY <1>1, <1>3, <1>4

\* ... and the automaton is at the end of a line.
LEMMA ThenAtEol ==
  ASSUME NEW L, Plan(L), L.r.version # <<>>, NEW k \in 1..Len(L.r.fields), Len(fields') = k,
         i' = L.fe[k] + 1
  PROVE  AtEol(L)'
<1> PICK F, n, z : F = Len(L.r.fields) /\ n = Len(L.r.eol) /\ z = L.fe[k]
  OBVIOUS
<1>1. FieldsAre(L, F, n)
  BY FieldFacts
<1>2. F \in Nat /\ n \in {1, 2} /\ k \in 1..F
  BY <1>1 DEF FieldsAre
<1>3. z \in Nat /\ L.fs[k + 1] = z + n
  BY FieldAt
<1>4. z + 1 = (z + n) + 1 - n
  <2>1. CASE n = 1
    BY <1>3, <2>1
  <2>2. CASE n = 2
    BY <1>3, <2>2
  <2> QED
    BY <1>2, <2>1, <2>2
<1>5. k + 1 \in 1..F + 1
  BY <1>2
<1> QED
  BY <1>3, <1>4, <1>5 DEF AtEol

LEMMA SkipEolStep ==
  ASSUME TypeInv, NameInv, PartIsSent, NEW L, Planned(L), HeaderSent(L), SkipEol
  PROVE  SentAll(L)'
<1>1. /\ phase = "header" /\ state \in {6, 7} /\ i <= length /\ phase' = "header"
      /\ i' = (IF Byte = (IF state = 6 THEN Return ELSE NewLine) THEN i + 1 ELSE i)
      /\ lastName' = i' /\ state' = 8
      /\ UNCHANGED <<client, buffer, length, fileName, lists, outcome>>
  BY DEF SkipEol, At
<1>2. WhereInHeader(L) /\ HeldInHeader(L)
  BY <1>1 DEF HeaderSent
<1>3. AtEol(L) /\ state = Len(L.r.eol) + 5 /\ Len(params) = Len(L.r.params) /\ L.r.version # <<>>
  BY <1>1, <1>2 DEF WhereInHeader, HeldInHeader
<1>4. PICK k \in 1..Len(L.r.fields) + 1 : k = Len(fields) + 1 /\ i = L.fs[k] + 1 - Len(L.r.eol)
  BY <1>3 DEF AtEol
<1>5. Plan(L) /\ WellFormed(L.r)
  BY DEF Planned, Plan
<1> PICK s, n : s = L.fs[k] /\ n = Len(L.r.eol)
  OBVIOUS
<1>6. /\ n \in {1, 2} /\ s \in Int /\ s - n \in Nat \ {0} /\ EolPut(L.r, L.w, s - n)
      /\ k <= Len(L.r.fields) => L.w[s] \notin Eol \cup {Colon}
      /\ k = Len(L.r.fields) + 1 => EolPut(L.r, L.w, s)
  <2>1. FieldsAre(L, Len(L.r.fields), n)
    BY <1>3, <1>5, FieldFacts
  <2>2. n \in {1, 2}
    BY <2>1 DEF FieldsAre
  <2>3. s \in Int
    <3>1. s \in Nat \ {0}
      BY <2>1 DEF FieldsAre
    <3> QED
      BY <3>1
  <2> QED
    BY <1>3, <1>5, <2>2, <2>3, EolBefore
<1>7. Byte = L.w[i]
  BY <1>1, ReadsSent DEF Open, Reads
<1>8. i' = s
  <2>1. CASE n = 1
    <3>1. s + 1 - 1 = s /\ 1 + 5 = 6
      BY <1>6
    <3>2. i = s /\ state = 6
      BY <1>3, <1>4, <2>1, <3>1
    <3>3. L.w[s] # Return
      <4>1. CASE k <= Len(L.r.fields)
        BY <1>6, <4>1 DEF Eol
      <4>2. CASE k = Len(L.r.fields) + 1
        <5>1. s \in Nat \ {0}
          BY <1>6, <2>1
        <5>2. L.w[s] = NewLine
          BY <1>5, <1>6, <2>1, <4>2, <5>1, EolIs
        <5> QED
          BY <5>2 DEF NewLine, Return
      <4>3. Len(L.r.fields) \in Nat
        BY <1>5, FieldCells
      <4> PICK F : F = Len(L.r.fields)
        OBVIOUS
      <4>4. k <= F \/ k = F + 1
        BY <4>3
      <4> QED
        BY <4>1, <4>2, <4>4
    <3> QED
      BY <1>1, <1>7, <3>2, <3>3
  <2>2. CASE n = 2
    <3>1. /\ s + 1 - 2 = s - 1 /\ (s - 2) + 1 = s - 1 /\ (s - 1) + 1 = s /\ 2 + 5 = 7
      BY <1>6
    <3>2. i = s - 1 /\ state = 7
      BY <1>3, <1>4, <2>2, <3>1
    <3>3. L.w[s - 1] = NewLine
      <4>1. s - 2 \in Nat \ {0} /\ EolPut(L.r, L.w, s - 2)
        BY <1>6, <2>2
      <4> PICK y : y = s - 2
        OBVIOUS
      <4>3. y \in Nat \ {0} /\ EolPut(L.r, L.w, y) /\ Len(L.r.eol) = 2
        BY <2>2, <4>1
      <4>4. Len(L.r.eol) = 2 => L.w[y] = Return /\ L.w[y + 1] = NewLine
        BY <1>5, <4>3, EolIs
      <4>2. L.w[y + 1] = NewLine
        BY <4>3, <4>4
      <4> QED
        BY <3>1, <4>2
    <3>4. i' = i + 1
      BY <1>1, <1>7, <3>2, <3>3
    <3> QED
      BY <3>1, <3>2, <3>4
  <2> QED
    BY <1>6, <2>1, <2>2
<1>9. params' = params /\ fields' = fields
  BY <1>1 DEF lists
<1>10. /\ Held(buffer', 1, L.r.method, Start') /\ Held(buffer', L.f, L.r.file, Start')
       /\ HeldPairs(buffer', params', Query(L.r), Start') /\ HeldPairs(buffer', fields', L.r.fields, Start')
  BY <1>1, <1>2, <1>9, StillHeld DEF HeaderStep
<1>11. HeldInHeader(L)'
  <2>1. fileName' = L.f
    BY <1>1, <1>2 DEF HeldInHeader
  <2> QED
    BY <1>1, <1>3, <1>9, <1>10, <2>1 DEF HeldInHeader
<1>12. AtField(L)'
  BY <1>1, <1>4, <1>8, <1>9 DEF AtField
<1>13. WhereInHeader(L)'
  BY <1>1, <1>12 DEF WhereInHeader
<1> QED
  BY <1>1, <1>11, <1>13, InHeader DEF HeaderSent

\* The fields that are held are those that were sent.
LEMMA NamedIsHeld ==
  ASSUME TypeInv, NEW r, WellFormed(r), NEW z \in Int, z <= BufferSize + 2,
         HeldPairs(buffer, fields, r.fields, z), Len(fields) = Len(r.fields)
  PROVE  /\ \A name : FieldsNamed(name) = Named(r.fields, name)
         /\ \A k \in 1..Len(r.fields) : /\ Text(fields[k][1]) = r.fields[k][1]
                                        /\ Len(r.fields[k]) = 1 => fields[k][2] = NULL
                                        /\ Len(r.fields[k]) = 2 => /\ fields[k][2] # NULL
                                                                   /\ Text(fields[k][2]) = r.fields[k][2]
<1> DEFINE F == Len(r.fields)
<1>1. F \in Nat /\ \A k \in 1..F : /\ r.fields[k][1] \in Seq(1..255)
                                   /\ Len(r.fields[k]) = 2 => r.fields[k][2] \in Seq(1..255)
                                   /\ Len(r.fields[k]) \in {1, 2}
  <2>1. r.fields \in Lists
    BY WordsAre
  <2> QED
    BY <2>1, ListIs
<1>2. ASSUME NEW k \in 1..F
      PROVE  /\ Text(fields[k][1]) = r.fields[k][1]
             /\ Len(r.fields[k]) = 1 => fields[k][2] = NULL
             /\ Len(r.fields[k]) = 2 => fields[k][2] # NULL /\ Text(fields[k][2]) = r.fields[k][2]
  <2>1. HeldPair(buffer, fields[k], r.fields[k], z)
    BY <1>1 DEF HeldPairs
  <2>2. Text(fields[k][1]) = r.fields[k][1]
    BY <1>1, <2>1, HeldText DEF HeldPair
  <2>3. Len(r.fields[k]) = 1 => fields[k][2] = NULL
    BY <2>1 DEF HeldPair
  <2>4. ASSUME Len(r.fields[k]) = 2
        PROVE  fields[k][2] # NULL /\ Text(fields[k][2]) = r.fields[k][2]
    <3>1. Len(r.fields[k]) # 1
      BY <2>4
    <3>2. fields[k][2] # NULL /\ Held(buffer, fields[k][2], r.fields[k][2], z)
      BY <2>1, <3>1 DEF HeldPair
    <3> QED
      BY <1>1, <2>4, <3>2, HeldText
  <2> QED
    BY <2>2, <2>3, <2>4
<1>3. DOMAIN fields = 1..F /\ DOMAIN r.fields = 1..F
  <2>1. r.fields \in Lists
    BY WordsAre
  <2>2. DOMAIN r.fields = 1..F
    BY <2>1, ListIs
  <2>3. DOMAIN fields = 1..Len(fields)
    BY LenProperties DEF TypeInv, TypeOK
  <2> QED
    BY <2>2, <2>3
<1>4. \A name : FieldsNamed(name) = Named(r.fields, name)
  BY <1>2, <1>3 DEF FieldsNamed, Named
<1> QED
  BY <1>2, <1>4

\* As many bytes are read as were sent.
LEMMA BodyIsSent ==
  ASSUME TypeInv, NEW L, Plan(L), NEW z \in Int, z <= BufferSize + 2,
         HeldPairs(buffer, fields, L.r.fields, z), Len(fields) = Len(L.r.fields), L.r.method = Post
  PROVE  Body = Len(L.w) - L.b
<1> DEFINE r == L.r
           found == FieldsNamed(ContentLength)
           sizes == Named(r.fields, ContentLength)
<1>1. WellFormed(r) /\ Len(L.w) - L.b = Len(Pairs(r.body, And, FormEncoded))
  BY BodyFacts DEF Plan
<1>2. found = sizes
  BY <1>1, NamedIsHeld
<1>3. CASE sizes = {}
  <2>1. Body = 0
    BY <1>2, <1>3 DEF Body
  <2>2. Len(r.body) = 0
    <3>1. r.body = <<>>
      BY <1>1, <1>3 DEF WellFormed, WellFormedBody
    <3> QED
      BY <3>1
  <2>3. Len(L.w) = L.b /\ Len(L.w) \in Nat
    BY <2>2, BodyFacts DEF BodyAre
  <2> QED
    BY <2>1, <2>3
<1>4. CASE sizes # {}
  <2>1. Len(Pairs(r.body, And, FormEncoded)) = Number(r.fields[Min(sizes)][2])
    BY <1>1, <1>4 DEF WellFormed, WellFormedBody
  <2>2. Body = Number(Text(fields[Min(sizes)][2]))
    BY <1>2, <1>4 DEF Body
  <2>3. Len(r.fields) \in Nat /\ DOMAIN r.fields = 1..Len(r.fields)
    BY <1>1, ListIs DEF WellFormed, WellFormedFields
  <2>4. Min(sizes) \in sizes
    <3>1. sizes \in SUBSET Int /\ \A y \in sizes : 1 <= y
      <4>1. sizes \subseteq DOMAIN r.fields
        BY DEF Named
      <4> HIDE DEF sizes, r
      <4> QED
        BY <2>3, <4>1
    <3> HIDE DEF sizes
    <3> QED
      BY <1>4, <3>1, MinIsIn
  <2> DEFINE m == Min(sizes)
  <2>5. m \in 1..Len(r.fields) /\ r.fields[m][1] = ContentLength
    BY <2>3, <2>4 DEF Named
  <2>6. Len(r.fields[m]) = 2
    <3>1. Len(r.fields[m]) # 1
      BY <1>1, <2>3, <2>5 DEF WellFormed, WellFormedFields
    <3>2. Len(r.fields[m]) \in {1, 2}
      BY <1>1, <2>5, FieldCells
    <3> QED
      BY <3>1, <3>2
  <2>7. Text(fields[m][2]) = r.fields[m][2]
    BY <1>1, <2>5, <2>6, NamedIsHeld
  <2> QED
    BY <1>1, <2>1, <2>2, <2>7
<1> QED
  BY <1>3, <1>4

\* All of the header is held when it ends.
LEMMA HeaderEnds ==
  ASSUME TypeInv, NEW L, Plan(L), L.r.version # <<>>, HeldInHeader(L), phase = "header", state = 8,
         Len(fields) = Len(L.r.fields), NEW z \in Int, Start <= z, Start \in Int
  PROVE  HeldBelow(L, z)
<1> DEFINE s == Start
<1>1. /\ Held(buffer, 1, L.r.method, s) /\ Held(buffer, L.f, L.r.file, s) /\ fileName = L.f
      /\ HeldPairs(buffer, params, Query(L.r), s) /\ Len(params) = Len(L.r.params)
      /\ HeldPairs(buffer, fields, L.r.fields, s)
  BY DEF HeldInHeader
<1>2. WellFormed(L.r)
  BY DEF Plan
<1>3. HeldPairs(buffer, params, Wanted(L.r), s)
  BY <1>1, <1>2, WantedHeld
<1>4. Len(L.r.params) \in Nat
  BY <1>2, QueryIs
<1>5. s <= z /\ s \in Int
  OBVIOUS
<1> HIDE DEF s
<1>6. Held(buffer, 1, L.r.method, z) /\ Held(buffer, L.f, L.r.file, z)
  BY <1>1, <1>5, HeldKept
<1>7. HeldPairs(buffer, params, Wanted(L.r), z) /\ HeldPairs(buffer, fields, L.r.fields, z)
  BY <1>1, <1>3, <1>5, HeldPairsKept
<1>8. Len(params) >= Len(L.r.params)
  BY <1>1, <1>4
<1> QED
  BY <1>1, <1>6, <1>7, <1>8 DEF HeldBelow

LEMMA FieldStartStep ==
  ASSUME TypeInv, NameInv, PartIsSent, NEW L, Planned(L), HeaderSent(L), ReadFieldStart
  PROVE  SentAll(L)'
<1>1. /\ phase = "header" /\ state = 8 /\ i <= length
      /\ UNCHANGED <<client, buffer, length, pointers, lists, outcome>>
      /\ IF Byte \in Eol THEN EndHeader ELSE Go(9)
  BY DEF ReadFieldStart, At
<1>2. WhereInHeader(L) /\ HeldInHeader(L)
  BY <1>1 DEF HeaderSent
<1>3. AtField(L) /\ Len(params) = Len(L.r.params) /\ L.r.version # <<>> /\ fileName = L.f
  BY <1>1, <1>2 DEF WhereInHeader, HeldInHeader
<1>4. PICK k \in 1..Len(L.r.fields) + 1 : k = Len(fields) + 1 /\ lastName = L.fs[k] /\ i = L.fs[k]
  BY <1>3 DEF AtField
<1>5. Plan(L) /\ WellFormed(L.r) /\ wire = L.w
  BY DEF Planned, Plan
<1>6. params' = params /\ fields' = fields /\ fileName' = fileName /\ lastName' = lastName /\ buffer' = buffer
  BY <1>1 DEF lists, pointers
<1>7. Reads(L) /\ Start = i
  BY <1>1, <1>4, ReadsSent DEF Open, Start
<1>8. Byte = L.w[i] /\ i \in Nat \ {0} /\ length \in Nat /\ i <= length /\ i \in Positions
  BY <1>7 DEF Reads
<1>9. Len(L.r.fields) \in Nat
  BY <1>5, FieldCells
<1>10. CASE k # Len(L.r.fields) + 1
  <2>1. k \in 1..Len(L.r.fields)
    <3> PICK F : F = Len(L.r.fields)
      OBVIOUS
    <3>1. F \in Nat /\ k \in 1..F + 1 /\ k # F + 1
      BY <1>9, <1>10
    <3>2. k \in 1..F
      BY <3>1
    <3> QED
      BY <3>2
  <2> PICK c, p, v, z : c = L.r.fields[k] /\ p = L.fs[k] /\ v = L.fv[k] /\ z = L.fe[k]
    OBVIOUS
  <2>2. p \in Nat \ {0} /\ v \in Nat /\ p < v - 1 /\ \A j \in p..v - 2 : L.w[j] \notin Eol \cup {Colon}
    BY <1>3, <1>5, <2>1, FieldAt
  <2>3. i \in p..v - 2 /\ i + 1 \in p..v - 1
    BY <1>4, <2>2
  <2>4. Byte \notin Eol
    BY <1>8, <2>2, <2>3
  <2>5. phase' = "header" /\ state' = 9 /\ i' = i + 1
    BY <1>1, <2>4 DEF Go
  <2>6. InFieldName(L)'
    BY <1>4, <1>6, <2>1, <2>3, <2>5 DEF InFieldName
  <2>7. WhereInHeader(L)'
    BY <2>5, <2>6 DEF WhereInHeader
  <2>8. /\ Held(buffer', 1, L.r.method, Start') /\ Held(buffer', L.f, L.r.file, Start')
        /\ HeldPairs(buffer', params', Query(L.r), Start') /\ HeldPairs(buffer', fields', L.r.fields, Start')
    BY <1>1, <1>2, <1>6, <2>5, StillHeld DEF HeaderStep
  <2>9. HeldInHeader(L)'
    BY <1>3, <1>6, <2>5, <2>8 DEF HeldInHeader
  <2> QED
    BY <1>1, <2>5, <2>7, <2>9, InHeader DEF HeaderSent
<1>11. CASE k = Len(L.r.fields) + 1
  <2> PICK n, b : n = Len(L.r.eol) /\ b = L.b
    OBVIOUS
  <2>1. EolPut(L.r, L.w, i) /\ b = i + n - 1 /\ n \in {1, 2} /\ b \in Nat
    <3>1. EolPut(L.r, L.w, L.fs[k]) /\ b = L.fs[k] + n - 1
      BY <1>3, <1>5, <1>11, EolBefore
    <3>2. n \in {1, 2}
      BY <1>5, EolSize
    <3>3. b \in Nat
      BY <1>5 DEF Plan
    <3> QED
      BY <1>4, <3>1, <3>2, <3>3
  <2>2. Byte \in Eol /\ \A j \in i..i + n - 1 : L.w[j] \in Eol
    BY <1>5, <1>8, <2>1, EolIs
  <2>3. EndHeader
    BY <1>1, <2>2
  <2>4. Len(fields) = Len(L.r.fields)
    <3> PICK F, m : F = Len(L.r.fields) /\ m = Len(fields)
      OBVIOUS
    <3>1. F \in Nat /\ m \in Nat /\ m + 1 = F + 1
      <4>1. m \in Nat
        BY LenProperties DEF TypeInv, TypeOK
      <4> QED
        BY <1>4, <1>9, <1>11, <4>1
    <3>2. m = F
      BY <3>1
    <3> QED
      BY <3>2
  <2>5. \A z \in Int : i <= z => HeldBelow(L, z)
    BY <1>1, <1>2, <1>3, <1>5, <1>7, <1>8, <2>4, HeaderEnds
  <2>6. i \in Int /\ i + 1 \in Int /\ BufferSize + 2 \in Int /\ i <= i + 1 /\ i <= BufferSize + 2
    BY <1>8, SizesHold DEF Sizes
  <2>7. HeldBelow(L, i) /\ HeldBelow(L, i + 1) /\ HeldBelow(L, BufferSize + 2)
    BY <1>8, <2>5, <2>6
  <2>8. \A z : HeldBelow(L, z) => (fileName' = L.f /\ Held(buffer', 1, L.r.method, z)
                                   /\ Held(buffer', L.f, L.r.file, z)
                                   /\ Len(params') >= Len(L.r.params) /\ HeldPairs(buffer', params', Wanted(L.r), z)
                                   /\ Len(fields') = Len(L.r.fields) /\ HeldPairs(buffer', fields', L.r.fields, z))
    BY <1>6 DEF HeldBelow
  <2>9. Text(1) = L.r.method
    <3>1. L.r.method \in Seq(1..255)
      <4>1. L.r.method \in TextWithout(Eol \cup {Space}) \/ L.r.method \in TextWithout(Eol)
        BY <1>5, WordsAre
      <4>2. (1..255) \ (Eol \cup {Space}) \subseteq 1..255 /\ (1..255) \ Eol \subseteq 1..255
        OBVIOUS
      <4> QED
        BY <4>1, <4>2, SeqMonotonic DEF TextWithout
    <3>2. Held(buffer, 1, L.r.method, i)
      BY <2>7 DEF HeldBelow
    <3> QED
      BY <2>6, <3>1, <3>2, HeldText
  <2>10. ~Accepted'
    BY <1>1 DEF NameInv, Accepted
  <2>11. CASE L.r.method = Post
    <3>1. phase' = "body" /\ state' = 0 /\ i' = i /\ responseSize' = Body
      BY <2>3, <2>9, <2>11 DEF EndHeader
    <3>2. Body = Len(L.w) - L.b
      <4>1. HeldPairs(buffer, fields, L.r.fields, i)
        BY <2>7 DEF HeldBelow
      <4> QED
        BY <1>5, <2>4, <2>6, <2>11, <4>1, BodyIsSent
    <3>3. i <= b + 1 /\ \A j \in i..b : L.w[j] \in Eol
      <4>1. i <= b + 1
        BY <1>8, <2>1
      <4> QED
        BY <2>1, <2>2, <4>1
    <3>4. WhereInBody(L)'
      BY <1>3, <1>6, <3>1, <3>2, <3>3 DEF WhereInBody
    <3>5. Below' = i + 1 \/ Below' = i
      BY <3>1 DEF Below
    <3>6. HeldBelow(L, Below)'
      <4>1. CASE Below' = i
        BY <2>7, <2>8, <4>1 DEF HeldBelow
      <4>2. CASE Below' = i + 1
        BY <2>7, <2>8, <4>2 DEF HeldBelow
      <4> QED
        BY <3>5, <4>1, <4>2
    <3> QED
      BY <2>10, <3>1, <3>4, <3>6 DEF SentAll, HeaderSent, BodySent, AnswerSent
  <2>12. CASE L.r.method # Post
    <3>1. phase' = "answer"
      BY <2>3, <2>9, <2>12 DEF EndHeader
    <3>2. Len(Wanted(L.r)) = Len(L.r.params)
      <4>1. L.r.body = <<>>
        BY <1>5, <2>12 DEF WellFormed, WellFormedBody
      <4> PICK P, B : P = Len(L.r.params) /\ B = Len(L.r.body)
        OBVIOUS
      <4>2. P \in Nat /\ Len(Wanted(L.r)) = P + B
        <5>1. WantedAre(L.r, P, B)
          BY <1>5, WantedIs
        <5> QED
          BY <5>1 DEF WantedAre
      <4>3. B = 0
        BY <4>1
      <4>4. P + B = P
        BY <4>2, <4>3
      <4> QED
        BY <4>2, <4>4
    <3>3. HeldBelow(L, BufferSize + 2)'
      BY <2>7, <2>8 DEF HeldBelow
    <3>4. AnswerSent(L)'
      BY <1>3, <1>6, <3>2, <3>3 DEF AnswerSent
    <3> QED
      BY <3>1, <3>4 DEF SentAll, HeaderSent, BodySent
  <2> QED
    BY <2>11, <2>12
<1> QED
  BY <1>10, <1>11
LEMMA FieldNameStep ==
  ASSUME TypeInv, NameInv, PartIsSent, NEW L, Planned(L), HeaderSent(L), ReadFieldName
  PROVE  SentAll(L)'
<1>1. /\ phase = "header" /\ state = 9 /\ i <= length
      /\ UNCHANGED <<client, length, fileName, lastName, params, outcome>>
  BY DEF ReadFieldName, At
<1>2. WhereInHeader(L) /\ HeldInHeader(L)
  BY <1>1 DEF HeaderSent
<1>3. InFieldName(L) /\ Len(params) = Len(L.r.params) /\ L.r.version # <<>> /\ fileName = L.f
  BY <1>1, <1>2 DEF WhereInHeader, HeldInHeader
<1>4. PICK k \in 1..Len(L.r.fields) :
        k = Len(fields) + 1 /\ lastName = L.fs[k] /\ i \in L.fs[k]..L.fv[k] - 1
  BY <1>3 DEF InFieldName
<1> PICK c, p, v, z : c = L.r.fields[k] /\ p = L.fs[k] /\ v = L.fv[k] /\ z = L.fe[k]
  OBVIOUS
<1>5. Plan(L) /\ WellFormed(L.r)
  BY DEF Planned, Plan
<1>6. /\ Cell(L.w, c, Colon, p, v, z, Eol, Eol) /\ Len(c) \in {1, 2}
      /\ p \in Nat \ {0} /\ v \in Nat /\ z \in Nat /\ p < v - 1 /\ v - 1 <= z
      /\ EolPut(L.r, L.w, z)
  BY <1>3, <1>5, FieldAt
<1>7. /\ Cut(L.w, p, v - 1, c[1], Eol \cup {Colon})
      /\ \A j \in p..v - 2 : L.w[j] \notin Eol \cup {Colon}
  BY <1>3, <1>5, FieldAt
<1>9. Reads(L) /\ Start = p
  BY <1>1, <1>4, ReadsSent DEF Open, Start
<1>10. Byte = L.w[i] /\ i \in Nat \ {0} /\ i + 1 \in Int /\ i < i + 1
  BY <1>9 DEF Reads
<1>11. \A j : Go(j) => phase' = "header" /\ state' = j /\ i' = i + 1
  BY <1>1 DEF Go
<1>12. phase' = "header" =>
        /\ Held(buffer', 1, L.r.method, Start') /\ Held(buffer', L.f, L.r.file, Start')
        /\ HeldPairs(buffer', params, Query(L.r), Start') /\ HeldPairs(buffer', fields, L.r.fields, Start')
  BY <1>1, <1>2, StillHeld DEF HeaderStep
<1>13. fileName' = L.f /\ params' = params
  BY <1>1, <1>3
<1>14. CASE i # v - 1
  <2>1. i \in p..v - 2 /\ i + 1 \in p..v - 1
    <3>1. i \in p..v - 1
      BY <1>4
    <3> QED
      BY <1>6, <1>10, <1>14, <3>1
  <2>2. Byte \notin Eol \cup {Colon}
    BY <1>7, <1>10, <2>1
  <2>3. Go(9) /\ fields' = fields
    BY <2>2 DEF ReadFieldName
  <2>4. phase' = "header" /\ state' = 9 /\ i' = i + 1
    BY <1>11, <2>3
  <2>5. InFieldName(L)'
    BY <1>1, <1>4, <2>1, <2>3, <2>4 DEF InFieldName
  <2>6. WhereInHeader(L)'
    BY <2>4, <2>5 DEF WhereInHeader
  <2>7. HeldInHeader(L)'
    BY <1>3, <1>12, <1>13, <2>3, <2>4 DEF HeldInHeader
  <2> QED
    BY <1>1, <2>4, <2>6, <2>7, InHeader DEF HeaderSent
<1>15. CASE i = v - 1 /\ Len(c) # 1
  <2>1. v <= z /\ L.w[v - 1] = Colon
    BY <1>6, <1>15, CellValue
  <2>2. Byte = Colon /\ Colon \notin Eol
    BY <1>10, <1>15, <2>1 DEF Colon, Eol, NewLine, Return
  <2>3. Terminate /\ Go(10) /\ lastValue' = i + 1 /\ fields' = fields
    BY <2>2 DEF ReadFieldName
  <2>4. phase' = "header" /\ state' = 10 /\ i' = i + 1
    BY <1>11, <2>3
  <2>5. Held(buffer', p, c[1], i + 1)
    BY <1>7, <1>9, <1>10, <1>15, <2>3, EndHeld
  <2>6. i + 1 = v /\ i + 1 \in v..z
    BY <1>6, <1>10, <1>15, <2>1
  <2>7. InFieldValue(L)'
    <3>1. Len(L.r.fields[k]) = 2 /\ k = Len(fields') + 1
      BY <1>4, <1>6, <1>15, <2>3
    <3>2. lastName' = L.fs[k] /\ lastValue' = L.fv[k] /\ i' \in L.fv[k]..L.fe[k]
      BY <1>1, <1>4, <2>3, <2>4, <2>6
    <3>3. Held(buffer', lastName', L.r.fields[k][1], lastValue')
      BY <1>1, <1>4, <2>3, <2>5
    <3> QED
      BY <3>1, <3>2, <3>3 DEF InFieldValue
  <2>8. WhereInHeader(L)'
    BY <2>4, <2>7 DEF WhereInHeader
  <2>9. HeldInHeader(L)'
    BY <1>3, <1>12, <1>13, <2>3, <2>4 DEF HeldInHeader
  <2> QED
    BY <1>1, <2>4, <2>8, <2>9, InHeader DEF HeaderSent
<1>16. CASE i = v - 1 /\ Len(c) = 1
  <2>1. z = i
    BY <1>6, <1>16 DEF Cell
  <2>2. Byte \in Eol /\ Len(L.r.eol) + 5 = (IF Byte = NewLine THEN 6 ELSE 7) /\ Len(L.r.eol) + 5 \in {6, 7}
    BY <1>5, <1>6, <1>10, <2>1, FirstOfEol
  <2>3. Colon \notin Eol
    BY DEF Colon, Eol, NewLine, Return
  <2>4. /\ Terminate /\ Go(IF Byte = NewLine THEN 6 ELSE 7)
        /\ fields' = Append(fields, <<lastName, NULL>>)
    BY <2>2, <2>3 DEF ReadFieldName
  <2>5. phase' = "header" /\ state' = Len(L.r.eol) + 5 /\ state' \in {6, 7} /\ i' = i + 1
    BY <1>11, <2>2, <2>4
  <2>6. Start' = i + 1
    <3>1. phase' = "header" /\ state' \in 5..7 /\ i' = i + 1
      BY <2>5
    <3> QED
      BY <3>1, StartAhead
  <2>7. Held(buffer', p, c[1], i + 1)
    BY <1>7, <1>9, <1>10, <1>16, <2>4, EndHeld
  <2>8. HeldPair(buffer', <<lastName, NULL>>, L.r.fields[k], i + 1)
    BY <1>4, <1>16, <2>7 DEF HeldPair
  <2>9. HeldPairs(buffer', fields', L.r.fields, i + 1) /\ Len(fields') = k
    <3>1. fields \in PairLists /\ Len(L.r.fields) \in Nat
      BY <1>5, Types, FieldCells
    <3>2. HeldPairs(buffer', fields, L.r.fields, i + 1)
      BY <1>12, <2>5, <2>6
    <3> QED
      BY <1>4, <2>4, <2>8, <3>1, <3>2, HeldAppend
  <2>10. AtEol(L)'
    BY <1>3, <1>5, <2>1, <2>5, <2>9, ThenAtEol
  <2>11. WhereInHeader(L)'
    <3>1. AtEol(L)' /\ state' = Len(L.r.eol) + 5
      BY <2>5, <2>10
    <3>2. state' = 6 \/ state' = 7
      <4>1. state' \in {6, 7}
        BY <2>5
      <4> QED
        BY <4>1
    <3>3. CASE state' = 6
      BY <3>1, <3>3 DEF WhereInHeader
    <3>4. CASE state' = 7
      BY <3>1, <3>4 DEF WhereInHeader
    <3> QED
      BY <3>2, <3>3, <3>4
  <2>12. HeldInHeader(L)'
    BY <1>3, <1>12, <1>13, <2>5, <2>6, <2>9 DEF HeldInHeader
  <2> QED
    BY <1>1, <2>5, <2>11, <2>12, InHeader DEF HeaderSent
<1> QED
  BY <1>6, <1>14, <1>15, <1>16

LEMMA FieldValueStep ==
  ASSUME TypeInv, NameInv, PartIsSent, NEW L, Planned(L), HeaderSent(L), ReadFieldValue
  PROVE  SentAll(L)'
<1>1. /\ phase = "header" /\ state = 10 /\ i <= length
      /\ UNCHANGED <<client, length, fileName, lastName, lastValue, params, outcome>>
  BY DEF ReadFieldValue, At, pointers
<1>2. WhereInHeader(L) /\ HeldInHeader(L)
  BY <1>1 DEF HeaderSent
<1>3. InFieldValue(L) /\ Len(params) = Len(L.r.params) /\ L.r.version # <<>> /\ fileName = L.f
  BY <1>1, <1>2 DEF WhereInHeader, HeldInHeader
<1>4. PICK k \in 1..Len(L.r.fields) :
        /\ k = Len(fields) + 1 /\ Len(L.r.fields[k]) = 2
        /\ lastName = L.fs[k] /\ lastValue = L.fv[k] /\ i \in L.fv[k]..L.fe[k]
        /\ Held(buffer, lastName, L.r.fields[k][1], lastValue)
  BY <1>3 DEF InFieldValue
<1> PICK c, p, v, z : c = L.r.fields[k] /\ p = L.fs[k] /\ v = L.fv[k] /\ z = L.fe[k]
  OBVIOUS
<1>5. Plan(L) /\ WellFormed(L.r)
  BY DEF Planned, Plan
<1>6. /\ Cell(L.w, c, Colon, p, v, z, Eol, Eol) /\ Len(c) = 2
      /\ p \in Nat \ {0} /\ v \in Nat /\ z \in Nat /\ p < v - 1 /\ v - 1 <= z
      /\ EolPut(L.r, L.w, z)
  <2>1. Cell(L.w, c, Colon, p, v, z, Eol, Eol) /\ EolPut(L.r, L.w, z)
    BY <1>3, <1>5, FieldAt
  <2>2. p \in Nat \ {0} /\ v \in Nat /\ z \in Nat /\ p < v - 1 /\ v - 1 <= z
    BY <1>3, <1>5, FieldAt
  <2> QED
    BY <1>4, <2>1, <2>2
<1>7. Cut(L.w, v, z, c[2], Eol) /\ Len(c) # 1
  <2>1. Len(c) # 1
    BY <1>6
  <2> QED
    BY <1>6, <2>1 DEF Cell
<1>8. v <= z /\ \A j \in v..z - 1 : L.w[j] \notin Eol
  <2>1. v <= z
    BY <1>7 DEF Cut
  <2>2. \A j \in v..z - 1 : L.w[j] \notin Eol
    BY <1>7 DEF Cut
  <2> QED
    BY <2>1, <2>2
<1>9. Reads(L) /\ Start = v
  BY <1>1, <1>4, ReadsSent DEF Open, Start
<1>10. Byte = L.w[i] /\ i \in Nat \ {0} /\ i + 1 \in Int /\ i < i + 1 /\ i \in v..z
  BY <1>4, <1>9 DEF Reads
<1>11. \A j : Go(j) => phase' = "header" /\ state' = j /\ i' = i + 1
  BY <1>1 DEF Go
<1>12. phase' = "header" =>
        /\ Held(buffer', 1, L.r.method, Start') /\ Held(buffer', L.f, L.r.file, Start')
        /\ HeldPairs(buffer', params, Query(L.r), Start') /\ HeldPairs(buffer', fields, L.r.fields, Start')
  BY <1>1, <1>2, StillHeld DEF HeaderStep
<1>13. fileName' = L.f /\ params' = params
  BY <1>1, <1>3
<1>14. CASE i # z
  <2>1. i \in v..z - 1 /\ i + 1 \in v..z
    BY <1>6, <1>10, <1>14
  <2>2. Byte \notin Eol
    BY <1>8, <1>10, <2>1
  <2>3. Go(10) /\ fields' = fields /\ buffer' = buffer
    BY <2>2 DEF ReadFieldValue
  <2>4. phase' = "header" /\ state' = 10 /\ i' = i + 1
    BY <1>11, <2>3
  <2>5. InFieldValue(L)'
    <3>1. i' \in L.fv[k]..L.fe[k]
      BY <2>1, <2>4
    <3>2. k = Len(fields') + 1 /\ lastName' = L.fs[k] /\ lastValue' = L.fv[k]
      BY <1>1, <1>4, <2>3
    <3>3. Held(buffer', lastName', L.r.fields[k][1], lastValue')
      BY <1>1, <1>4, <2>3
    <3> QED
      BY <1>4, <3>1, <3>2, <3>3 DEF InFieldValue
  <2>6. WhereInHeader(L)'
    BY <2>4, <2>5 DEF WhereInHeader
  <2>7. HeldInHeader(L)'
    BY <1>3, <1>12, <1>13, <2>3, <2>4 DEF HeldInHeader
  <2> QED
    BY <1>1, <2>4, <2>6, <2>7, InHeader DEF HeaderSent
<1>15. CASE i = z
  <2>2. Byte \in Eol /\ Len(L.r.eol) + 5 = (IF Byte = NewLine THEN 6 ELSE 7) /\ Len(L.r.eol) + 5 \in {6, 7}
    <3>1. z \in Nat \ {0} /\ Byte = L.w[z]
      BY <1>10, <1>15
    <3> QED
      BY <1>5, <1>6, <3>1, FirstOfEol
  <2>4. /\ Terminate /\ Go(IF Byte = NewLine THEN 6 ELSE 7)
        /\ fields' = Append(fields, <<lastName, lastValue>>)
    BY <2>2 DEF ReadFieldValue
  <2>5. phase' = "header" /\ state' = Len(L.r.eol) + 5 /\ state' \in {6, 7} /\ i' = i + 1
    BY <1>11, <2>2, <2>4
  <2>6. Start' = i + 1
    <3>1. phase' = "header" /\ state' \in 5..7 /\ i' = i + 1
      BY <2>5
    <3> QED
      BY <3>1, StartAhead
  <2>7. Held(buffer', p, c[1], i + 1)
    BY <1>4, <1>9, <2>4, EndKeeps
  <2>8. Held(buffer', v, c[2], i + 1)
    BY <1>7, <1>9, <1>10, <1>15, <2>4, EndHeld
  <2>9. HeldPair(buffer', <<lastName, lastValue>>, L.r.fields[k], i + 1)
    <3>1. <<lastName, lastValue>>[1] = p /\ <<lastName, lastValue>>[2] = v
      BY <1>4
    <3>2. v # NULL
      BY <1>6 DEF NULL
    <3> QED
      BY <1>7, <2>7, <2>8, <3>1, <3>2 DEF HeldPair
  <2>10. HeldPairs(buffer', fields', L.r.fields, i + 1) /\ Len(fields') = k
    <3>1. fields \in PairLists /\ Len(L.r.fields) \in Nat
      BY <1>5, Types, FieldCells
    <3>2. HeldPairs(buffer', fields, L.r.fields, i + 1)
      BY <1>12, <2>5, <2>6
    <3> QED
      BY <1>4, <2>4, <2>9, <3>1, <3>2, HeldAppend
  <2>11. AtEol(L)'
    BY <1>3, <1>5, <1>15, <2>5, <2>10, ThenAtEol
  <2>12. WhereInHeader(L)'
    <3>1. AtEol(L)' /\ state' = Len(L.r.eol) + 5
      BY <2>5, <2>11
    <3>2. state' = 6 \/ state' = 7
      <4>1. state' \in {6, 7}
        BY <2>5
      <4> QED
        BY <4>1
    <3>3. CASE state' = 6
      BY <3>1, <3>3 DEF WhereInHeader
    <3>4. CASE state' = 7
      BY <3>1, <3>4 DEF WhereInHeader
    <3> QED
      BY <3>2, <3>3, <3>4
  <2>13. HeldInHeader(L)'
    BY <1>3, <1>12, <1>13, <2>5, <2>6, <2>10 DEF HeldInHeader
  <2> QED
    BY <1>1, <2>5, <2>12, <2>13, InHeader DEF HeaderSent
<1> QED
  BY <1>14, <1>15
(***************************************************************************)
(* The body is read as it was sent                                         *)
(***************************************************************************)

\* What is held at p does not depend on what is before or behind it.
LEMMA HeldThere ==
  ASSUME NEW buf, NEW new, NEW p, NEW t, NEW z \in Int, Held(buf, p, t, z),
         \A k \in p..z - 1 : new[k] = buf[k]
  PROVE  Held(new, p, t, z)
<1> DEFINE n == Len(t)
<1>1. /\ p \in Nat \ {0} /\ n \in Nat /\ p + n < z
      /\ \A k \in 1..n : buf[p - 1 + k] = t[k]
      /\ buf[p + n] = 0
  BY DEF Held
<1> HIDE DEF n
<1>2. p + n \in p..z - 1 /\ \A k \in 1..n : p - 1 + k \in p..z - 1
  BY <1>1
<1>3. new[p + n] = 0 /\ \A k \in 1..n : new[p - 1 + k] = t[k]
  BY <1>1, <1>2
<1> QED
  BY <1>1, <1>3 DEF Held, n

\* A text that is decoded where it is held
LEMMA DecodedHeld ==
  ASSUME NEW N \in Nat, NEW buf \in [1..N -> Byte255], NEW p, NEW t \in Seq(1..255),
         NEW z \in Int, z <= N + 1, Held(buf, p, t, z),
         NEW d, d = decodeUriComponent(t)
  PROVE  Rewritten(N, buf, Decoded(buf, p), p, d, z)
<1> PICK y : y = p + Len(t)
  OBVIOUS
<1>1. p \in 1..N /\ y \in 1..N /\ Ends(buf, p, y) /\ TextIn(buf, p) = t
  BY HeldEnds
<1>2. y < z
  BY DEF Held
<1>3. Decoded(buf, p) \in [1..N -> Byte255]
  <2>1. y \in p..N /\ buf[y] = 0
    BY <1>1 DEF Ends
  <2> QED
    BY <1>1, <2>1, DecodedType
<1> DEFINE n == Len(d)
<1>4. /\ d \in Seq(Byte255) /\ n \in Nat /\ p + n <= y
      /\ Decoded(buf, p) =
           [k \in 1..N |-> IF p <= k /\ k < p + n THEN d[k - p + 1]
                           ELSE IF k = p + n THEN 0 ELSE buf[k]]
  BY <1>1, DecodedIs
<1> HIDE DEF n
<1>5. \A k \in 1..N : k < p \/ z <= k => Decoded(buf, p)[k] = buf[k]
  <2> TAKE k \in 1..N
  <2> HAVE k < p \/ z <= k
  <2>1. ~(p <= k /\ k < p + n) /\ k # p + n
    BY <1>1, <1>2, <1>4
  <2> QED
    BY <1>4, <2>1
<1>6. ASSUME NEW k \in 1..n
      PROVE  Decoded(buf, p)[p - 1 + k] = d[k]
  <2>1. p - 1 + k \in 1..N /\ p <= p - 1 + k /\ p - 1 + k < p + n /\ (p - 1 + k) - p + 1 = k
    BY <1>1, <1>4
  <2> PICK j : j = p - 1 + k
    OBVIOUS
  <2>2. j \in 1..N /\ p <= j /\ j < p + n /\ j - p + 1 = k
    BY <2>1
  <2> QED
    BY <1>4, <2>2
<1>7. Decoded(buf, p)[p + n] = 0
  <2>1. p + n \in 1..N /\ ~(p + n < p + n)
    BY <1>1, <1>4
  <2> QED
    BY <1>4, <2>1
<1>8. p \in Nat \ {0} /\ p + n < z
  BY <1>1, <1>2, <1>4
<1>9. Held(Decoded(buf, p), p, d, z)
  BY <1>4, <1>6, <1>7, <1>8 DEF Held, n
<1> QED
  BY <1>3, <1>5, <1>9 DEF Rewritten

LEMMA PairDecoded ==
  ASSUME NEW N, NEW buf, NEW b, NEW p, NEW v, NEW z, NEW s, NEW t,
         PairReady(N, buf, b, p, v, z, s, t)
  PROVE  PairAt(N, buf, Decoded(Decoded(b, p), v), p, v, s, t, z)
<1>0. /\ N \in Nat /\ buf \in [1..N -> Byte255]
      /\ p \in Nat \ {0} /\ v \in Nat /\ z \in 1..N /\ p < v /\ v <= z
      /\ s \in Seq(1..255) /\ t \in Seq(1..255)
      /\ Held(buf, p, s, v)
  BY DEF PairReady
<1> PICK bytes : Cut(buf, v, z, t, bytes)
  BY DEF PairReady
<1> DEFINE x == Decoded(b, p)
           y == Decoded(x, v)
<1> PICK u : u = z + 1
  OBVIOUS
<1>1. u \in Int /\ v \in Int /\ u - 1 = z /\ v <= N + 1 /\ u <= N + 1 /\ z < u /\ v <= u
  BY <1>0
<1>2. b \in [1..N -> Byte255] /\ b[z] = 0 /\ \A j \in 1..N : j # z => b[j] = buf[j]
  BY DEF PairReady
<1>4. \A j \in 1..v - 1 : j \in 1..N /\ j # z /\ j < v
  BY <1>0
<1>5. \A j \in v..z - 1 : j \in 1..N /\ j # z
  BY <1>0
<1>6. \A j \in v..z : j \in 1..N /\ v <= j
  BY <1>0
<1>7. Held(b, p, s, v)
  BY <1>0, <1>1, <1>2, <1>4, HeldKept
<1>8. \A j \in v..z - 1 : b[j] = buf[j]
  BY <1>2, <1>5
<1>9. Held(b, v, t, u)
  BY <1>1, <1>2, <1>8, HeldHere
<1>10. /\ x \in [1..N -> Byte255] /\ Held(x, p, decodeUriComponent(s), v)
       /\ \A j \in 1..N : j < p \/ v <= j => x[j] = b[j]
  <2>1. Rewritten(N, b, x, p, decodeUriComponent(s), v)
    BY <1>0, <1>1, <1>2, <1>7, DecodedHeld
  <2> QED
    BY <2>1 DEF Rewritten
<1> HIDE DEF x
<1>11. Held(x, v, t, u)
  <2>1. \A j \in v..u - 1 : x[j] = b[j]
    BY <1>1, <1>6, <1>10
  <2> QED
    BY <1>1, <1>9, <2>1, HeldThere
<1>12. /\ Held(y, v, decodeUriComponent(t), u)
       /\ \A j \in 1..N : j < v \/ u <= j => y[j] = x[j]
  <2>1. Rewritten(N, x, y, v, decodeUriComponent(t), u)
    BY <1>0, <1>1, <1>10, <1>11, DecodedHeld
  <2> QED
    BY <2>1 DEF Rewritten
<1> HIDE DEF y
<1>13. Held(y, p, decodeUriComponent(s), u)
  <2>1. \A j \in 1..v - 1 : y[j] = x[j]
    BY <1>4, <1>12
  <2>2. Held(x, p, decodeUriComponent(s), v)
    BY <1>10
  <2> PICK d : d = decodeUriComponent(s)
    OBVIOUS
  <2>3. Held(y, p, d, u)
    BY <1>1, <2>1, <2>2, HeldKept
  <2> QED
    BY <2>3
<1>14. ASSUME NEW j \in 1..N, j < p
      PROVE  y[j] = buf[j]
  <2>1. j < v /\ j # z
    BY <1>0, <1>14
  <2> QED
    BY <1>2, <1>10, <1>12, <1>14, <2>1
<1> QED
  BY <1>12, <1>13, <1>14 DEF PairAt, x, y

\* A pair of the body is decoded where it was sent, whatever is before it.
LEMMA EndPairHeld ==
  ASSUME TypeInv, PartIsSent, NEW L, Planned(L), phase = "body", state = 2, EndPair,
         NEW k \in 1..Len(L.r.body), lastName = L.bs[k], lastValue = L.bv[k], i = L.be[k],
         Held(buffer, lastName, Form(L.r)[k][1], lastValue)
  PROVE  /\ HeldPair(buffer', <<lastName, lastValue>>, L.r.body[k], i + 1)
         /\ \A j \in Positions : j < lastName => buffer'[j] = buffer[j]
<1> PICK p, v, z, e, c : /\ p = L.bs[k] /\ v = L.bv[k] /\ z = L.be[k]
                         /\ e = Form(L.r)[k] /\ c = L.r.body[k]
  OBVIOUS
<1>1. Plan(L) /\ WellFormed(L.r) /\ wire = L.w
  BY DEF Planned, Plan
<1>2. Cell(L.w, e, Equal, p, v, z, Eol, {And})
  BY <1>1, BodyFacts DEF BodyAre, BodyCell
<1>3. /\ Len(c) = 2 /\ Len(e) = 2 /\ e[1] = FormEncoded(c[1]) /\ e[2] = FormEncoded(c[2])
      /\ c[1] \in Seq(1..255) /\ c[2] \in Seq(1..255)
  <2>1. FormPair(L.r, k)
    BY <1>1, FormPairs
  <2> QED
    BY <2>1 DEF FormPair
<1>4. \A x \in Seq(1..255) : FormEncoded(x) \in Seq(1..255) /\ decodeUriComponent(FormEncoded(x)) = x
  <2> TAKE x \in Seq(1..255)
  <2>1. x \in Seq(Byte255)
    <3>1. 1..255 \subseteq Byte255
      BY DEF Byte255
    <3> QED
      BY <3>1, SeqMonotonic
  <2>2. Byte255 \ (Eol \cup {And, Equal, 0}) \subseteq 1..255
    BY DEF Byte255
  <2>3. FormEncoded(x) \in Seq(Byte255 \ (Eol \cup {And, Equal, 0})) /\ decodeUriComponent(FormEncoded(x)) = x
    BY <2>1, FormIsDecoded
  <2> QED
    BY <2>2, <2>3, SeqMonotonic
<1>5. p \in Nat \ {0} /\ v \in Nat /\ z \in Nat /\ p < v
  <2>1. p \in Nat \ {0} /\ v \in Nat /\ z \in Nat /\ p <= v - 1
    BY <1>2, CellNumbers
  <2> QED
    BY <2>1
<1>6. Cut(L.w, v, z, e[2], {And}) /\ v <= z
  <2>1. Len(e) # 1
    BY <1>3
  <2>2. Cut(L.w, v, z, e[2], {And})
    BY <1>2, <2>1 DEF Cell
  <2>3. v <= z
    BY <1>2, <2>1, CellValue
  <2> QED
    BY <2>2, <2>3
<1> DEFINE N == BufferSize + 1
<1>7. N \in Nat /\ Positions = 1..N /\ z \in 1..N /\ length \in Nat /\ z - 1 <= length
  BY SizesHold DEF Sizes
<1>8. buffer \in [1..N -> Byte255]
  BY <1>7, Types DEF Byte255
<1>9. buffer' = Decoded(Decoded([buffer EXCEPT ![z] = 0], p), v)
  BY DEF EndPair
<1>10. \A j \in v..length : buffer[j] = L.w[j]
  <2>1. Open /\ Start = v
    BY DEF Open, Start
  <2> QED
    BY <1>1, <2>1 DEF PartIsSent
<1> HIDE DEF N
<1>11. \A j \in v..z - 1 : buffer[j] = L.w[j]
  <2> PICK n : n = length
    OBVIOUS
  <2>1. n \in Nat /\ z - 1 <= n /\ v \in Nat /\ z \in Nat
    BY <1>5, <1>7
  <2>2. \A j \in v..z - 1 : j \in v..n
    BY <2>1
  <2> QED
    BY <1>10, <2>2
<1>12. e[1] \in Seq(1..255) /\ e[2] \in Seq(1..255)
       /\ decodeUriComponent(e[1]) = c[1] /\ decodeUriComponent(e[2]) = c[2]
  BY <1>3, <1>4
<1>13. Held(buffer, p, e[1], v)
  OBVIOUS
<1>14. /\ Held(buffer', p, c[1], z + 1) /\ Held(buffer', v, c[2], z + 1)
       /\ \A j \in 1..N : j < p => buffer'[j] = buffer[j]
  <2> DEFINE b == [buffer EXCEPT ![z] = 0]
  <2>1. b \in [1..N -> Byte255] /\ b[z] = 0 /\ \A j \in 1..N : j # z => b[j] = buffer[j]
    BY <1>7, <1>8 DEF Byte255
  <2>2. buffer' = Decoded(Decoded(b, p), v)
    BY <1>9
  <2> HIDE DEF b
  <2>3. Cut(buffer, v, z, e[2], {And})
    BY <1>6, <1>11 DEF Cut
  <2>4. PairReady(N, buffer, b, p, v, z, e[1], e[2])
    BY <1>5, <1>6, <1>7, <1>8, <1>12, <1>13, <2>1, <2>3 DEF PairReady
  <2>5. PairAt(N, buffer, buffer', p, v, e[1], e[2], z)
    BY <2>2, <2>4, PairDecoded
  <2> QED
    BY <1>12, <2>5 DEF PairAt
<1>15. HeldPair(buffer', <<p, v>>, c, z + 1)
  <2>1. <<p, v>>[1] = p /\ <<p, v>>[2] = v /\ Len(c) # 1 /\ v # NULL
    BY <1>3, <1>5 DEF NULL
  <2> QED
    BY <1>14, <2>1 DEF HeldPair
<1> QED
  BY <1>7, <1>14, <1>15

LEMMA StillBelow ==
  ASSUME NEW L, NEW z \in Int, NEW zz \in Int, z <= zz, HeldBelow(L, z),
         UNCHANGED <<fileName, params, fields>>, \A k \in 1..z - 1 : buffer'[k] = buffer[k]
  PROVE  HeldNext(L, zz)
<1>1. /\ fileName = L.f
      /\ Held(buffer, 1, L.r.method, z) /\ Held(buffer, L.f, L.r.file, z)
      /\ Len(params) >= Len(L.r.params) /\ HeldPairs(buffer, params, Wanted(L.r), z)
      /\ Len(fields) = Len(L.r.fields) /\ HeldPairs(buffer, fields, L.r.fields, z)
  BY DEF HeldBelow
<1>2. Held(buffer', 1, L.r.method, zz) /\ Held(buffer', L.f, L.r.file, zz)
  BY <1>1, HeldKept
<1>3. HeldPairs(buffer', params, Wanted(L.r), zz) /\ HeldPairs(buffer', fields, L.r.fields, zz)
  BY <1>1, HeldPairsKept
<1> QED
  BY <1>1, <1>2, <1>3 DEF HeldNext

LEMMA BelowNext ==
  ASSUME NEW L, HeldNext(L, Below')
  PROVE  HeldBelow(L, Below)'
BY DEF HeldNext, HeldBelow

LEMMA AnswerNext ==
  ASSUME NEW L, HeldNext(L, BufferSize + 2)
  PROVE  HeldBelow(L, BufferSize + 2)'
BY DEF HeldNext, HeldBelow

\* What the body's steps leave alone
LEMMA InBodySent ==
  ASSUME NameInv, phase = "body", phase' = "body", outcome' = outcome,
         NEW L, WhereInBody(L)', HeldNext(L, Below')
  PROVE  SentAll(L)'
<1>1. ~Accepted'
  BY DEF NameInv, Accepted
<1>2. BodySent(L)'
  BY BelowNext DEF BodySent
<1> QED
  BY <1>1, <1>2 DEF SentAll, HeaderSent, AnswerSent

\* The k-th pair of the body, as it is placed
LEMMA BodyPairAt ==
  ASSUME NEW L, Plan(L), NEW k \in 1..Len(L.r.body), NEW e, e = Form(L.r)[k],
         NEW p, p = L.bs[k], NEW v, v = L.bv[k], NEW z, z = L.be[k], NEW N, N = Len(L.w)
  PROVE  /\ Cut(L.w, p, v - 1, e[1], Eol \cup {Equal}) /\ L.w[v - 1] = Equal
         /\ p \in Nat \ {0} /\ v \in Nat /\ z \in Nat /\ N \in Nat
         /\ p < v - 1 /\ v <= z /\ z <= N + 1
         /\ \A j \in p..v - 2 : L.w[j] \notin Eol \cup {Equal}
         /\ \A j \in v..z - 1 : L.w[j] # And
<1>0. BodyAre(L, Len(L.r.body), N)
  BY BodyFacts
<1>1. Cell(L.w, e, Equal, p, v, z, Eol, {And}) /\ Len(e) = 2 /\ Len(e[1]) # 0 /\ z <= N + 1 /\ N \in Nat
  BY <1>0 DEF BodyAre, BodyCell
<1>2. p \in Nat \ {0} /\ v \in Nat /\ z \in Nat
  BY <1>1, CellNumbers
<1>3. p < v - 1
  BY <1>1, CellNamed
<1>4. Cut(L.w, p, v - 1, e[1], Eol \cup {Equal})
  BY <1>1 DEF Cell
<1>5. \A j \in p..v - 2 : L.w[j] \notin Eol \cup {Equal}
  BY <1>1, CellName
<1>6. Len(e) # 1
  BY <1>1
<1>7. v <= z /\ L.w[v - 1] = Equal /\ \A j \in v..z - 1 : L.w[j] # And
  <2>1. L.w[v - 1] = Equal /\ Cut(L.w, v, z, e[2], {And})
    BY <1>1, <1>6 DEF Cell
  <2>2. v <= z
    BY <1>2, <2>1 DEF Cut
  <2>3. \A j \in v..z - 1 : L.w[j] # And
    BY <2>1 DEF Cut
  <2> QED
    BY <2>1, <2>2, <2>3
<1> QED
  BY <1>1, <1>2, <1>3, <1>4, <1>5, <1>7

\* ... and the one behind it
LEMMA BodyNextAt ==
  ASSUME NEW L, Plan(L), NEW k \in 1..Len(L.r.body), NEW B, B = Len(L.r.body)
  PROVE  /\ B \in Nat
         /\ k # B => L.w[L.be[k]] = And /\ L.bs[k + 1] = L.be[k] + 1
         /\ k = B => L.be[k] = Len(L.w) + 1
         /\ k = 1 => L.bs[k] = L.b + 1
<1>1. BodyAre(L, B, Len(L.w))
  BY BodyFacts
<1>2. B \in Nat /\ B # 0
  <2>1. B \in Nat /\ k \in 1..B
    BY <1>1 DEF BodyAre
  <2> QED
    BY <2>1
<1> QED
  BY <1>1, <1>2 DEF BodyAre

LEMMA SkipBodyStep ==
  ASSUME TypeInv, NameInv, PartIsSent, NEW L, Planned(L), BodySent(L), SkipBeforeBody
  PROVE  SentAll(L)'
<1>1. /\ phase = "body" /\ state = 0 /\ i <= length /\ responseSize # 0
      /\ UNCHANGED <<client, buffer, length, phase, fileName, lastValue, lists, outcome>>
      /\ i' = i + 1
      /\ IF Byte \in Eol THEN UNCHANGED <<lastName, responseSize, state>>
         ELSE lastName' = i /\ responseSize' = responseSize - 1 /\ state' = 1
  BY DEF SkipBeforeBody, InBody
<1>2. WhereInBody(L) /\ HeldBelow(L, Below)
  BY <1>1 DEF BodySent
<1> PICK N, b : N = Len(L.w) /\ b = L.b
  OBVIOUS
<1>3. /\ Len(params) = Len(L.r.params) /\ responseSize = N - b
      /\ i <= b + 1 /\ \A k \in i..b : L.w[k] \in Eol
  BY <1>1, <1>2 DEF WhereInBody
<1>4. Plan(L) /\ WellFormed(L.r) /\ b \in Nat /\ N \in Nat
  BY BodyFacts DEF Planned, Plan, BodyAre
<1>5. Reads(L) /\ Below = i
  BY <1>1, ReadsSent DEF Open, Below
<1>6. Byte = L.w[i] /\ i \in Nat \ {0}
  BY <1>5 DEF Reads
<1>7. HeldNext(L, i) /\ HeldNext(L, i + 1)
  <2>1. i \in Int /\ i + 1 \in Int /\ i <= i /\ i <= i + 1
    BY <1>6
  <2>2. UNCHANGED <<fileName, params, fields>> /\ \A k \in 1..i - 1 : buffer'[k] = buffer[k]
    BY <1>1 DEF lists
  <2> QED
    BY <1>2, <1>5, <2>1, <2>2, StillBelow
<1>8. params' = params
  BY <1>1 DEF lists
<1>9. CASE i # b + 1
  <2>1. i \in i..b
    BY <1>3, <1>4, <1>6, <1>9
  <2>2. Byte \in Eol
    BY <1>3, <1>6, <2>1
  <2>3. state' = 0 /\ responseSize' = responseSize
    BY <1>1, <2>2
  <2>4. i' <= b + 1 /\ \A k \in i'..b : L.w[k] \in Eol
    <3>1. i + 1 <= b + 1 /\ \A k \in i + 1..b : k \in i..b
      BY <1>3, <1>4, <1>6, <1>9
    <3> QED
      BY <1>1, <1>3, <3>1
  <2>5. WhereInBody(L)'
    BY <1>3, <1>8, <2>3, <2>4 DEF WhereInBody
  <2>6. Below' = i + 1
    BY <1>1, <2>3 DEF Below
  <2> QED
    BY <1>1, <1>7, <2>5, <2>6, InBodySent
<1>10. CASE i = b + 1
  <2> PICK B, P : B = Len(L.r.body) /\ P = Len(L.r.params)
    OBVIOUS
  <2>1. BodyAre(L, B, N) /\ P \in Nat
    BY <1>4, BodyFacts, QueryIs
  <2>2. B \in Nat /\ B # 0
    <3>1. B = 0 => N = b
      BY <2>1 DEF BodyAre
    <3>2. N - b # 0
      BY <1>1, <1>3
    <3>3. N # b
      BY <1>4, <3>2
    <3> QED
      BY <2>1, <3>1, <3>3 DEF BodyAre
  <2>3. 1 \in 1..B
    BY <2>2
  <2> PICK p, v, z, e : p = L.bs[1] /\ v = L.bv[1] /\ z = L.be[1] /\ e = Form(L.r)[1]
    OBVIOUS
  <2>4. p = b + 1
    BY <1>4, <2>3, BodyNextAt
  <2>5. /\ p \in Nat \ {0} /\ v \in Nat /\ p < v - 1 /\ \A j \in p..v - 2 : L.w[j] \notin Eol \cup {Equal}
    BY <1>4, <2>3, BodyPairAt
  <2>6. i = p /\ i \in p..v - 2 /\ i + 1 \in p..v - 1
    BY <1>10, <2>4, <2>5
  <2>7. Byte \notin Eol
    BY <1>6, <2>5, <2>6
  <2>8. lastName' = i /\ responseSize' = responseSize - 1 /\ state' = 1
    BY <1>1, <2>7
  <2>9. responseSize' = N + 1 - i'
    <3>1. (N - b) - 1 = N + 1 - ((b + 1) + 1)
      BY <1>4
    <3>2. responseSize' = (N - b) - 1 /\ i' = (b + 1) + 1
      BY <1>1, <1>3, <1>10, <2>8
    <3> QED
      BY <3>1, <3>2
  <2>10. InBodyName(L)'
    <3>1. 1 + P = Len(params') + 1
      BY <1>3, <1>8, <2>1
    <3> QED
      BY <1>1, <2>3, <2>6, <2>8, <3>1 DEF InBodyName
  <2>11. WhereInBody(L)'
    BY <2>8, <2>9, <2>10 DEF WhereInBody
  <2>12. Below' = i
    BY <2>8 DEF Below
  <2> QED
    BY <1>1, <1>7, <2>11, <2>12, InBodySent
<1> QED
  BY <1>9, <1>10

\* Behind the first byte of the body, the bytes are counted one by one.
LEMMA Counted ==
  ASSUME TypeInv, NEW L, Plan(L), phase = "body", state # 0, WhereInBody(L),
         i' = i + 1, responseSize' = responseSize - 1
  PROVE  responseSize' = Len(L.w) + 1 - i'
<1> PICK N : N = Len(L.w)
  OBVIOUS
<1>1. N \in Nat /\ i \in Nat
  BY BodyFacts, SizesHold DEF BodyAre, Sizes
<1>2. responseSize = N + 1 - i
  BY DEF WhereInBody
<1>3. (N + 1 - i) - 1 = N + 1 - (i + 1)
  <2>1. \A x, y \in Nat : (x + 1 - y) - 1 = x + 1 - (y + 1)
    OBVIOUS
  <2> QED
    BY <1>1, <2>1
<1> QED
  BY <1>2, <1>3

LEMMA BodyNameStep ==
  ASSUME TypeInv, NameInv, PartIsSent, NEW L, Planned(L), BodySent(L), ReadBodyName
  PROVE  SentAll(L)'
<1>1. /\ phase = "body" /\ state = 1 /\ i <= length /\ responseSize # 0
      /\ UNCHANGED <<client, length, phase, fileName, lastName, lists, outcome>>
      /\ i' = i + 1 /\ responseSize' = responseSize - 1
      /\ IF Byte = Equal THEN Terminate /\ lastValue' = i + 1 /\ state' = 2
         ELSE UNCHANGED <<buffer, lastValue, state>>
  BY DEF ReadBodyName, InBody
<1>2. WhereInBody(L) /\ HeldBelow(L, Below)
  BY <1>1 DEF BodySent
<1>3. InBodyName(L)
  BY <1>1, <1>2 DEF WhereInBody
<1>4. PICK k \in 1..Len(L.r.body) :
        k + Len(L.r.params) = Len(params) + 1 /\ lastName = L.bs[k] /\ i \in L.bs[k]..L.bv[k] - 1
  BY <1>3 DEF InBodyName
<1> PICK p, v, z, e : p = L.bs[k] /\ v = L.bv[k] /\ z = L.be[k] /\ e = Form(L.r)[k]
  OBVIOUS
<1>5. Plan(L)
  BY DEF Planned
<1>6. /\ p \in Nat \ {0} /\ v \in Nat /\ z \in Nat /\ p < v - 1 /\ v <= z /\ L.w[v - 1] = Equal
      /\ \A j \in p..v - 2 : L.w[j] \notin Eol \cup {Equal}
  BY <1>5, BodyPairAt
<1>7. Cut(L.w, p, v - 1, e[1], Eol \cup {Equal})
  BY <1>5, BodyPairAt
<1>8. Reads(L) /\ Start = p /\ Below = p
  BY <1>1, <1>4, ReadsSent DEF Open, Start, Below
<1>9. Byte = L.w[i] /\ i \in Nat \ {0} /\ i + 1 \in Int /\ i < i + 1 /\ i \in Positions
  BY <1>8 DEF Reads
<1>10. params' = params /\ fields' = fields
  BY <1>1 DEF lists
<1>11. responseSize' = Len(L.w) + 1 - i'
  BY <1>1, <1>2, <1>5, Counted
<1>12. HeldNext(L, p)
  <2>1. \A j \in 1..p - 1 : j \in Positions /\ j # i
    <3>1. Positions = 1..BufferSize + 1 /\ BufferSize \in Nat /\ i \in 1..BufferSize + 1
      BY <1>9, SizesHold DEF Sizes
    <3>2. i \in p..v - 1
      BY <1>4
    <3> PICK M : M = BufferSize + 1
      OBVIOUS
    <3>3. M \in Nat /\ i \in 1..M /\ Positions = 1..M
      BY <3>1
    <3>4. p <= i /\ i <= M /\ i \in Nat
      BY <1>6, <3>2, <3>3
    <3>5. \A j \in 1..p - 1 : j \in 1..M /\ j # i
      BY <1>6, <3>3, <3>4
    <3> QED
      BY <3>3, <3>5
  <2>2. \A j \in 1..p - 1 : buffer'[j] = buffer[j]
    <3>1. CASE Byte = Equal
      BY <1>1, <2>1, <3>1, TerminateType
    <3>2. CASE Byte # Equal
      BY <1>1, <3>2
    <3> QED
      BY <3>1, <3>2
  <2>3. p \in Int /\ p <= p
    BY <1>6
  <2> QED
    BY <1>1, <1>2, <1>8, <1>10, <2>2, <2>3, StillBelow
<1>13. CASE i # v - 1
  <2>1. i \in p..v - 2 /\ i + 1 \in p..v - 1
    <3>1. i \in p..v - 1
      BY <1>4
    <3> QED
      BY <1>6, <1>9, <1>13, <3>1
  <2>2. Byte # Equal
    BY <1>6, <1>9, <2>1
  <2>3. state' = 1
    BY <1>1, <2>2
  <2>4. InBodyName(L)'
    BY <1>1, <1>4, <1>10, <2>1 DEF InBodyName
  <2>5. WhereInBody(L)'
    BY <1>11, <2>3, <2>4 DEF WhereInBody
  <2>6. Below' = p
    BY <1>1, <1>4, <2>3 DEF Below
  <2> QED
    BY <1>1, <1>12, <2>5, <2>6, InBodySent
<1>14. CASE i = v - 1
  <2>1. Terminate /\ lastValue' = i + 1 /\ state' = 2
    BY <1>1, <1>6, <1>9, <1>14
  <2>2. Held(buffer', p, e[1], i + 1)
    BY <1>7, <1>8, <1>9, <1>14, <2>1, EndHeld
  <2>3. i + 1 = v /\ i + 1 \in v..z
    BY <1>6, <1>14
  <2>4. InBodyValue(L)'
    <3>1. lastName' = L.bs[k] /\ lastValue' = L.bv[k] /\ i' \in L.bv[k]..L.be[k]
      BY <1>1, <1>4, <2>1, <2>3
    <3>2. Held(buffer', lastName', Form(L.r)[k][1], lastValue')
      BY <1>1, <1>4, <2>1, <2>2
    <3>3. k + Len(L.r.params) = Len(params') + 1
      BY <1>4, <1>10
    <3> QED
      BY <3>1, <3>2, <3>3 DEF InBodyValue
  <2>5. WhereInBody(L)'
    BY <1>11, <2>1, <2>4 DEF WhereInBody
  <2>6. Below' = p
    BY <1>1, <1>4, <2>1 DEF Below
  <2> QED
    BY <1>1, <1>12, <2>5, <2>6, InBodySent
<1> QED
  BY <1>13, <1>14

\* The pair that ends here is kept.
LEMMA PairKept ==
  ASSUME TypeInv, NameInv, PartIsSent, NEW L, Planned(L), phase = "body", state = 2, EndPair,
         HeldBelow(L, lastName), UNCHANGED <<fileName, fields>>,
         NEW k \in 1..Len(L.r.body), k + Len(L.r.params) = Len(params) + 1,
         lastName = L.bs[k], lastValue = L.bv[k], i = L.be[k],
         Held(buffer, lastName, Form(L.r)[k][1], lastValue)
  PROVE  HeldNext(L, i + 1) /\ Len(params') = k + Len(L.r.params)
<1> PICK P, B, y, p : P = Len(L.r.params) /\ B = Len(L.r.body) /\ y = i + 1 /\ p = lastName
  OBVIOUS
<1>1. Plan(L) /\ WellFormed(L.r)
  BY DEF Planned, Plan
<1>2. /\ P \in Nat /\ B \in Nat /\ Len(Wanted(L.r)) = P + B
      /\ \A j \in 1..B : Wanted(L.r)[P + j] = L.r.body[j]
  <2>1. WantedAre(L.r, P, B)
    BY <1>1, WantedIs
  <2> QED
    BY <2>1 DEF WantedAre
<1>3. HeldPair(buffer', <<lastName, lastValue>>, L.r.body[k], y)
      /\ \A j \in Positions : j < lastName => buffer'[j] = buffer[j]
  BY EndPairHeld
<1>4. /\ fileName = L.f
      /\ Held(buffer, 1, L.r.method, p) /\ Held(buffer, L.f, L.r.file, p)
      /\ Len(params) >= P /\ HeldPairs(buffer, params, Wanted(L.r), p)
      /\ Len(fields) = Len(L.r.fields) /\ HeldPairs(buffer, fields, L.r.fields, p)
  BY DEF HeldBelow
<1>5. p \in Int /\ y \in Int /\ p <= y /\ \A j \in 1..p - 1 : buffer'[j] = buffer[j]
  <2>1. p \in Positions \cup {NULL} /\ p <= i
    BY DEF TypeInv, TypeOK
  <2>2. i \in Positions /\ BufferSize \in Nat /\ Positions = 1..BufferSize + 1
    BY SizesHold DEF Sizes
  <2> PICK M : M = BufferSize + 1
    OBVIOUS
  <2>3. M \in Nat /\ Positions = 1..M /\ i \in 1..M
    BY <2>2
  <2>4. p \in Int /\ y \in Int /\ p <= y /\ p <= M
    <3>1. p \in 1..M \cup {0} /\ p <= i /\ i \in 1..M /\ M \in Nat /\ y = i + 1
      BY <2>1, <2>3 DEF NULL
    <3>2. \A m \in Nat : \A x \in 1..m \cup {0} : \A u \in 1..m :
            x <= u => x \in Int /\ u + 1 \in Int /\ x <= u + 1 /\ x <= m
      OBVIOUS
    <3> QED
      BY <3>1, <3>2
  <2>5. \A j \in 1..p - 1 : j \in Positions /\ j < lastName
    <3>1. \A m \in Nat : \A x \in Int : x <= m => \A j \in 1..x - 1 : j \in 1..m /\ j < x
      OBVIOUS
    <3>2. \A j \in 1..p - 1 : j \in 1..M /\ j < p
      BY <2>3, <2>4, <3>1
    <3> QED
      BY <2>3, <3>2
  <2> QED
    BY <1>3, <2>4, <2>5
<1>6. Held(buffer', 1, L.r.method, y) /\ Held(buffer', L.f, L.r.file, y)
  BY <1>4, <1>5, HeldKept
<1>7. HeldPairs(buffer', params, Wanted(L.r), y) /\ HeldPairs(buffer', fields, L.r.fields, y)
  BY <1>4, <1>5, HeldPairsKept
<1>8. params' = Append(params, <<lastName, lastValue>>) /\ params \in PairLists /\ Len(params) \in Nat
  BY Types, LenProperties DEF EndPair, PairLists
<1> PICK m, j : m = Len(params) /\ j = P + k
  OBVIOUS
<1>9. /\ m \in Nat /\ j \in 1..P + B /\ j = m + 1 /\ P + B \in Nat /\ j >= P /\ k + P = j
  <2>1. m \in Nat /\ k + P = m + 1 /\ k \in 1..B
    BY <1>8
  <2>2. \A a, c \in Nat : \A e \in 1..c :
          a + e \in 1..a + c /\ e + a = a + e /\ a + c \in Nat /\ a + e >= a
    OBVIOUS
  <2>3. j \in 1..P + B /\ k + P = j /\ P + B \in Nat /\ j >= P
    BY <1>2, <2>1, <2>2
  <2> QED
    BY <2>1, <2>3
<1>10. HeldPairs(buffer', params', Wanted(L.r), y) /\ Len(params') = j
  <2>1. Wanted(L.r)[j] = L.r.body[k]
    BY <1>2
  <2>2. j \in 1..Len(Wanted(L.r)) /\ j = Len(params) + 1 /\ Len(Wanted(L.r)) \in Nat
    BY <1>2, <1>9
  <2> QED
    BY <1>3, <1>7, <1>8, <2>1, <2>2, HeldAppend
<1>11. Len(params') >= Len(L.r.params)
  BY <1>9, <1>10
<1> QED
  BY <1>4, <1>6, <1>7, <1>9, <1>10, <1>11 DEF HeldNext

LEMMA BodyValueStep ==
  ASSUME TypeInv, NameInv, PartIsSent, NEW L, Planned(L), BodySent(L), ReadBodyValue
  PROVE  SentAll(L)'
<1>1. /\ phase = "body" /\ state = 2 /\ i <= length /\ responseSize # 0
      /\ UNCHANGED <<client, length, phase, fileName, lastValue, fields, outcome>>
      /\ i' = i + 1 /\ responseSize' = responseSize - 1
      /\ IF Byte = And THEN EndPair /\ lastName' = i + 1 /\ state' = 1
         ELSE UNCHANGED <<buffer, params, lastName, state>>
  BY DEF ReadBodyValue, InBody
<1>2. WhereInBody(L) /\ HeldBelow(L, lastName)
  BY <1>1 DEF BodySent, Below
<1>3. InBodyValue(L)
  BY <1>1, <1>2 DEF WhereInBody
<1>4. PICK k \in 1..Len(L.r.body) :
        /\ k + Len(L.r.params) = Len(params) + 1
        /\ lastName = L.bs[k] /\ lastValue = L.bv[k] /\ i \in L.bv[k]..L.be[k]
        /\ Held(buffer, lastName, Form(L.r)[k][1], lastValue)
  BY <1>3 DEF InBodyValue
<1> PICK p, v, z, e, N, B, P :
       /\ p = L.bs[k] /\ v = L.bv[k] /\ z = L.be[k] /\ e = Form(L.r)[k]
       /\ N = Len(L.w) /\ B = Len(L.r.body) /\ P = Len(L.r.params)
  OBVIOUS
<1>5. Plan(L) /\ WellFormed(L.r)
  BY DEF Planned, Plan
<1>6. /\ p \in Nat \ {0} /\ v \in Nat /\ z \in Nat /\ N \in Nat /\ p < v - 1 /\ v <= z /\ z <= N + 1
      /\ \A j \in v..z - 1 : L.w[j] # And
  BY <1>5, BodyPairAt
<1>7. Reads(L)
  BY <1>1, ReadsSent DEF Open
<1>8. Byte = L.w[i] /\ i \in Nat \ {0} /\ i + 1 \in Int /\ i \in v..z
  BY <1>4, <1>7 DEF Reads
<1>9. responseSize' = N + 1 - i'
  BY <1>1, <1>2, <1>5, Counted
<1>10. CASE i # z
  <2>1. i \in v..z - 1 /\ i + 1 \in v..z
    BY <1>6, <1>8, <1>10
  <2>2. UNCHANGED <<buffer, params, lastName, state>>
    BY <1>1, <1>6, <1>8, <2>1
  <2>3. InBodyValue(L)'
    <3>1. lastName' = L.bs[k] /\ lastValue' = L.bv[k] /\ i' \in L.bv[k]..L.be[k]
      BY <1>1, <1>4, <2>1, <2>2
    <3>2. Held(buffer', lastName', Form(L.r)[k][1], lastValue')
      BY <1>1, <1>4, <2>2
    <3>3. k + Len(L.r.params) = Len(params') + 1
      BY <1>4, <2>2
    <3> QED
      BY <3>1, <3>2, <3>3 DEF InBodyValue
  <2>4. WhereInBody(L)'
    BY <1>1, <1>9, <2>2, <2>3 DEF WhereInBody
  <2>5. HeldNext(L, p)
    <3>1. p \in Int /\ p <= p /\ HeldBelow(L, p)
      BY <1>2, <1>4, <1>6
    <3> QED
      BY <1>1, <2>2, <3>1, StillBelow
  <2>6. Below' = p
    BY <1>1, <1>4, <2>2 DEF Below
  <2> QED
    BY <1>1, <2>4, <2>5, <2>6, InBodySent
<1>11. CASE i = z
  <2>1. k # B
    <3>1. responseSize = N + 1 - i
      BY <1>1, <1>2 DEF WhereInBody
    <3>2. z # N + 1
      <4>1. N + 1 - (N + 1) = 0
        BY <1>6
      <4> QED
        BY <1>1, <1>11, <3>1, <4>1
    <3> QED
      BY <1>5, <3>2, BodyNextAt
  <2>2. L.w[z] = And /\ L.bs[k + 1] = z + 1 /\ B \in Nat
    BY <1>5, <2>1, BodyNextAt
  <2>3. EndPair /\ lastName' = i + 1 /\ state' = 1
    BY <1>1, <1>8, <1>11, <2>2
  <2>4. HeldNext(L, i + 1) /\ Len(params') = k + P
    BY <1>1, <1>2, <1>4, <1>11, <2>3, PairKept
  <2>5. k + 1 \in 1..B
    BY <2>1, <2>2
  <2>6. InBodyName(L)'
    <3> PICK q, u : q = L.bs[k + 1] /\ u = L.bv[k + 1]
      OBVIOUS
    <3>1. q \in Nat \ {0} /\ u \in Nat /\ q < u - 1
      BY <1>5, <2>5, BodyPairAt
    <3>2. q \in q..u - 1
      BY <3>1
    <3>3. (k + 1) + P = Len(params') + 1
      <4>1. P \in Nat /\ k \in Nat
        BY <1>5, <2>2, QueryIs
      <4>2. \A a, c \in Nat : (a + 1) + c = (a + c) + 1
        OBVIOUS
      <4> QED
        BY <2>4, <4>1, <4>2
    <3>4. lastName' = L.bs[k + 1] /\ i' = L.bs[k + 1]
      BY <1>1, <1>11, <2>2, <2>3
    <3> QED
      BY <2>5, <3>2, <3>3, <3>4 DEF InBodyName
  <2>7. WhereInBody(L)'
    BY <1>9, <2>3, <2>6 DEF WhereInBody
  <2>8. Below' = i + 1
    BY <2>3 DEF Below
  <2> QED
    BY <1>1, <2>4, <2>7, <2>8, InBodySent
<1> QED
  BY <1>10, <1>11

\* Bytes of a body that are missing are still to come.
LEMMA BodyWaits ==
  ASSUME TypeInv, NEW L, Plan(L), phase = "body", responseSize # 0, WhereInBody(L)
  PROVE  i <= Len(L.w) /\ L.r.body # <<>>
<1> PICK N, B, b : N = Len(L.w) /\ B = Len(L.r.body) /\ b = L.b
  OBVIOUS
<1>1. /\ N \in Nat /\ B \in Nat /\ b <= N /\ (B = 0 => N = b)
      /\ b \in Nat
  BY BodyFacts DEF BodyAre, Plan
<1>2. i \in Nat
  BY SizesHold DEF Sizes
<1>3. CASE state = 0
  <2>1. responseSize = N - b /\ i <= b + 1
    BY <1>3 DEF WhereInBody
  <2>2. N # b
    BY <1>1, <2>1
  <2>3. i <= N
    BY <1>1, <1>2, <2>1, <2>2
  <2>4. L.r.body # <<>>
    BY <1>1, <2>2
  <2> QED
    BY <2>3, <2>4
<1>4. CASE state # 0
  <2>1. responseSize = N + 1 - i
    BY <1>4 DEF WhereInBody
  <2>2. responseSize \in Nat /\ responseSize # 0
    BY Types
  <2>3. i <= N
    BY <1>1, <1>2, <2>1, <2>2
  <2>4. state \in 0..2
    BY DEF TypeInv, PointersSet
  <2>5. \E k \in 1..B : TRUE
    <3>1. CASE state = 1
      BY <3>1 DEF WhereInBody, InBodyName
    <3>2. CASE state = 2
      BY <3>2 DEF WhereInBody, InBodyValue
    <3> QED
      BY <1>4, <2>4, <3>1, <3>2
  <2>6. L.r.body # <<>>
    BY <2>5
  <2> QED
    BY <2>3, <2>6
<1> QED
  BY <1>3, <1>4

\* What is held is below the end of the buffer.
LEMMA BelowEnd ==
  ASSUME TypeInv
  PROVE  /\ Below \in Int /\ BufferSize + 2 \in Int /\ Below <= BufferSize + 2
         /\ i + 1 \in Int /\ i + 1 <= BufferSize + 2
<1>1. BufferSize \in Nat /\ i \in 1..BufferSize + 1
  BY SizesHold DEF Sizes
<1>2. lastName \in Int /\ lastName <= i
  <2>1. lastName \in Positions \cup {NULL} /\ lastName <= i /\ Positions = 1..BufferSize + 1
    BY SizesHold DEF TypeInv, TypeOK, Sizes
  <2> QED
    BY <1>1, <2>1 DEF NULL
<1> QED
  BY <1>1, <1>2 DEF Below

LEMMA HeldUp ==
  ASSUME NEW L, NEW z \in Int, NEW zz \in Int, z <= zz, HeldNext(L, z)
  PROVE  HeldNext(L, zz)
<1>1. /\ fileName' = L.f
      /\ Held(buffer', 1, L.r.method, z) /\ Held(buffer', L.f, L.r.file, z)
      /\ Len(params') >= Len(L.r.params) /\ HeldPairs(buffer', params', Wanted(L.r), z)
      /\ Len(fields') = Len(L.r.fields) /\ HeldPairs(buffer', fields', L.r.fields, z)
  BY DEF HeldNext
<1>2. Held(buffer', 1, L.r.method, zz) /\ Held(buffer', L.f, L.r.file, zz)
  BY <1>1, HeldKept
<1>3. HeldPairs(buffer', params', Wanted(L.r), zz) /\ HeldPairs(buffer', fields', L.r.fields, zz)
  BY <1>1, HeldPairsKept
<1> QED
  BY <1>1, <1>2, <1>3 DEF HeldNext

\* A body that has ended is whole.
LEMMA EndBodyStep ==
  ASSUME TypeInv, NameInv, PartIsSent, NEW L, Planned(L), BodySent(L), EndBody
  PROVE  SentAll(L)'
<1>1. /\ phase = "body" /\ responseSize = 0 /\ phase' = "answer"
      /\ UNCHANGED <<fileName, fields>>
      /\ IF state = 2 THEN EndPair ELSE UNCHANGED <<buffer, params>>
  BY DEF EndBody, pointers
<1>2. WhereInBody(L) /\ HeldBelow(L, Below)
  BY <1>1 DEF BodySent
<1> PICK N, B, P : N = Len(L.w) /\ B = Len(L.r.body) /\ P = Len(L.r.params)
  OBVIOUS
<1>3. Plan(L) /\ WellFormed(L.r)
  BY DEF Planned, Plan
<1>4. BodyAre(L, B, N) /\ L.b \in Nat
  BY <1>3, BodyFacts DEF Plan
<1>5. B \in Nat /\ N \in Nat
  BY <1>4 DEF BodyAre
<1>6. P \in Nat /\ Len(Wanted(L.r)) = P + B
  <2>1. WantedAre(L.r, P, B)
    BY <1>3, WantedIs
  <2> QED
    BY <2>1 DEF WantedAre
<1>7. i \in Nat \ {0} /\ state \in 0..2
  BY <1>1, SizesHold DEF Sizes, TypeInv, PointersSet
<1>8. HeldNext(L, BufferSize + 2) /\ Len(params') = P + B
  <2>1. CASE state = 0
    <3>1. Len(params) = P /\ N - L.b = 0
      BY <1>1, <1>2, <2>1 DEF WhereInBody
    <3>2. B = 0
      <4> SUFFICES ASSUME B # 0 PROVE FALSE
        OBVIOUS
      <4>1. 1 \in 1..B
        BY <1>5
      <4> PICK p, v, z, e : p = L.bs[1] /\ v = L.bv[1] /\ z = L.be[1] /\ e = Form(L.r)[1]
        OBVIOUS
      <4>2. p = L.b + 1
        BY <1>3, <4>1, BodyNextAt
      <4>3. p \in Nat \ {0} /\ v \in Nat /\ z \in Nat /\ p < v - 1 /\ v <= z /\ z <= N + 1
        BY <1>3, <4>1, BodyPairAt
      <4> QED
        BY <1>4, <1>5, <3>1, <4>2, <4>3
    <3>3. UNCHANGED <<buffer, params>>
      BY <1>1, <2>1
    <3>4. HeldNext(L, BufferSize + 2)
      BY <1>1, <1>2, <3>3, BelowEnd, StillBelow
    <3>5. P + B = P
      BY <1>6, <3>2
    <3> QED
      BY <3>1, <3>3, <3>4, <3>5
  <2>2. state # 1
    <3> SUFFICES ASSUME state = 1 PROVE FALSE
      OBVIOUS
    <3>1. InBodyName(L) /\ N + 1 - i = 0
      BY <1>1, <1>2 DEF WhereInBody
    <3>2. PICK k \in 1..B : i \in L.bs[k]..L.bv[k] - 1
      BY <3>1 DEF InBodyName
    <3> PICK p, v, z, e : p = L.bs[k] /\ v = L.bv[k] /\ z = L.be[k] /\ e = Form(L.r)[k]
      OBVIOUS
    <3>3. p \in Nat \ {0} /\ v \in Nat /\ z \in Nat /\ p < v - 1 /\ v <= z /\ z <= N + 1
      <4>1. p \in Nat \ {0} /\ v \in Nat /\ z \in Nat
        BY <1>3, BodyPairAt
      <4>2. p < v - 1 /\ v <= z /\ z <= N + 1
        BY <1>3, BodyPairAt
      <4> QED
        BY <4>1, <4>2
    <3>4. i \in p..v - 1
      BY <3>2
    <3> QED
      BY <1>5, <1>7, <3>1, <3>3, <3>4
  <2>3. CASE state = 2
    <3>1. InBodyValue(L) /\ N + 1 - i = 0 /\ EndPair
      BY <1>1, <1>2, <2>3 DEF WhereInBody
    <3>2. PICK k \in 1..Len(L.r.body) :
            /\ k + Len(L.r.params) = Len(params) + 1
            /\ lastName = L.bs[k] /\ lastValue = L.bv[k] /\ i \in L.bv[k]..L.be[k]
            /\ Held(buffer, lastName, Form(L.r)[k][1], lastValue)
      BY <3>1 DEF InBodyValue
    <3> PICK p, v, z, e : p = L.bs[k] /\ v = L.bv[k] /\ z = L.be[k] /\ e = Form(L.r)[k]
      OBVIOUS
    <3>3. p \in Nat \ {0} /\ v \in Nat /\ z \in Nat /\ p < v - 1 /\ v <= z /\ z <= N + 1
      <4>1. p \in Nat \ {0} /\ v \in Nat /\ z \in Nat
        BY <1>3, BodyPairAt
      <4>2. p < v - 1 /\ v <= z /\ z <= N + 1
        BY <1>3, BodyPairAt
      <4> QED
        BY <4>1, <4>2
    <3>4. i = z /\ z = N + 1
      <4>1. i \in v..z
        BY <3>2
      <4> QED
        BY <1>5, <1>7, <3>1, <3>3, <4>1
    <3>5. k = B
      <4> SUFFICES ASSUME k # B PROVE FALSE
        OBVIOUS
      <4>1. L.bs[k + 1] = z + 1
        BY <1>3, BodyNextAt
      <4>2. k + 1 \in 1..B
        BY <1>5
      <4> PICK q, u, y, d : q = L.bs[k + 1] /\ u = L.bv[k + 1] /\ y = L.be[k + 1] /\ d = Form(L.r)[k + 1]
        OBVIOUS
      <4>3. q \in Nat \ {0} /\ u \in Nat /\ y \in Nat /\ q < u - 1 /\ u <= y /\ y <= N + 1
        <5>1. q \in Nat \ {0} /\ u \in Nat /\ y \in Nat
          BY <1>3, <4>2, BodyPairAt
        <5>2. q < u - 1 /\ u <= y /\ y <= N + 1
          BY <1>3, <4>2, BodyPairAt
        <5> QED
          BY <5>1, <5>2
      <4> QED
        BY <1>5, <3>4, <4>1, <4>3
    <3>6. Below = lastName
      BY <2>3 DEF Below
    <3>7. HeldNext(L, i + 1) /\ Len(params') = k + P
      BY <1>1, <1>2, <2>3, <3>1, <3>2, <3>4, <3>6, PairKept
    <3>8. HeldNext(L, BufferSize + 2)
      BY <3>7, BelowEnd, HeldUp
    <3>9. k + P = P + B
      <4>1. \A x, y \in Nat : x + y = y + x
        OBVIOUS
      <4> QED
        BY <1>5, <1>6, <3>5, <4>1
    <3> QED
      BY <3>7, <3>8, <3>9
  <2>4. state = 0 \/ state = 1 \/ state = 2
    BY <1>7
  <2> QED
    BY <2>1, <2>2, <2>3, <2>4
<1>9. AnswerSent(L)'
  <2>1. HeldBelow(L, BufferSize + 2)'
    BY <1>8, AnswerNext
  <2>2. Len(params') = Len(Wanted(L.r))
    BY <1>6, <1>8
  <2> QED
    BY <2>1, <2>2 DEF AnswerSent
<1> QED
  BY <1>1, <1>9 DEF SentAll, HeaderSent, BodySent

\* A step that leaves the automaton and what it has read alone
LEMMA SameHeader ==
  ASSUME TypeInv, NameInv, NEW L, HeaderSent(L), phase = "header",
         UNCHANGED <<phase, state, i, fileName, lastName, lastValue, params, fields>>,
         \A k \in 1..i - 1 : buffer'[k] = buffer[k]
  PROVE  HeaderSent(L)'
<1>1. WhereInHeader(L) /\ HeldInHeader(L)
  BY DEF HeaderSent
<1>2. Start' = Start /\ Start \in Int /\ Start <= i /\ i \in Int
  <2>1. Start \in 1..i /\ i \in Nat
    BY StartIs, SizesHold DEF Sizes
  <2>2. Start' = Start
    BY DEF Start
  <2> QED
    BY <2>1, <2>2
<1>3. lastValue \in Int /\ lastValue <= i
  <2>1. lastValue \in Positions \cup {NULL} /\ lastValue <= i
    BY DEF TypeInv, TypeOK
  <2>2. Positions = 1..BufferSize + 1 /\ BufferSize \in Nat
    BY SizesHold DEF Sizes
  <2> QED
    BY <2>1, <2>2 DEF NULL
<1>4. \A z \in Int : z <= i => \A k \in 1..z - 1 : buffer'[k] = buffer[k]
  BY <1>2
<1>5. HeldInHeader(L)'
  <2>1. \A p, t : Held(buffer, p, t, Start) => Held(buffer', p, t, Start)
    BY <1>2, <1>4, HeldKept
  <2>2. \A list, cs : HeldPairs(buffer, list, cs, Start) => HeldPairs(buffer', list, cs, Start)
    BY <1>2, <1>4, HeldPairsKept
  <2> QED
    BY <1>1, <1>2, <2>1, <2>2 DEF HeldInHeader
<1>6. \A p, t : Held(buffer, p, t, lastValue) => Held(buffer', p, t, lastValue)
  BY <1>3, <1>4, HeldKept
<1>7. state = 4 => InParamValue(L)'
  BY <1>1, <1>6 DEF WhereInHeader, InParamValue
<1>8. state = 10 => InFieldValue(L)'
  BY <1>1, <1>6 DEF WhereInHeader, InFieldValue
<1>9. /\ state = 3 => InParamName(L)'
      /\ state \in {6, 7} => AtEol(L)'
      /\ state = 8 => AtField(L)'
      /\ state = 9 => InFieldName(L)'
  BY <1>1 DEF WhereInHeader, InParamName, AtEol, AtField, InFieldName
<1>10. WhereInHeader(L)'
  BY <1>1, <1>7, <1>8, <1>9 DEF WhereInHeader
<1> QED
  BY <1>5, <1>10 DEF HeaderSent

LEMMA SameBody ==
  ASSUME TypeInv, NEW L, BodySent(L), phase = "body",
         UNCHANGED <<phase, state, i, fileName, lastName, lastValue, params, fields, responseSize>>,
         NEW z \in Int, Below <= z, i <= z, \A k \in 1..z - 1 : buffer'[k] = buffer[k]
  PROVE  BodySent(L)'
<1>1. WhereInBody(L) /\ HeldBelow(L, Below)
  BY DEF BodySent
<1>2. Below' = Below /\ Below \in Int /\ i \in Int
  <2>1. Below' = Below
    BY DEF Below
  <2>2. i \in Nat
    BY SizesHold DEF Sizes
  <2> QED
    BY <2>1, <2>2, BelowEnd
<1>3. HeldNext(L, Below)
  <2>1. \A k \in 1..Below - 1 : buffer'[k] = buffer[k]
    BY <1>2
  <2>2. Below <= Below
    BY <1>2
  <2> QED
    BY <1>1, <1>2, <2>1, <2>2, StillBelow
<1>4. HeldBelow(L, Below)'
  BY <1>2, <1>3, BelowNext
<1>5. state = 2 => InBodyValue(L)'
  <2> HAVE state = 2
  <2>1. PICK k \in 1..Len(L.r.body) :
          /\ k + Len(L.r.params) = Len(params) + 1
          /\ lastName = L.bs[k] /\ lastValue = L.bv[k] /\ i \in L.bv[k]..L.be[k]
          /\ Held(buffer, lastName, Form(L.r)[k][1], lastValue)
    BY <1>1 DEF WhereInBody, InBodyValue
  <2>2. lastValue \in Int /\ lastValue <= z
    <3>1. lastValue \in Positions \cup {NULL} /\ lastValue <= i
      BY DEF TypeInv, TypeOK
    <3>2. Positions = 1..BufferSize + 1 /\ BufferSize \in Nat
      BY SizesHold DEF Sizes
    <3>3. lastValue \in Int
      BY <3>1, <3>2 DEF NULL
    <3> QED
      BY <1>2, <3>1, <3>3
  <2>3. \A j \in 1..lastValue - 1 : buffer'[j] = buffer[j]
    BY <2>2
  <2>4. lastValue <= lastValue
    BY <2>2
  <2>5. Held(buffer', lastName, Form(L.r)[k][1], lastValue)
    BY <2>1, <2>2, <2>3, <2>4, HeldKept
  <2> QED
    BY <2>1, <2>5 DEF InBodyValue
<1>6. state = 1 => InBodyName(L)'
  BY <1>1 DEF WhereInBody, InBodyName
<1>7. WhereInBody(L)'
  BY <1>1, <1>5, <1>6 DEF WhereInBody
<1> QED
  BY <1>4, <1>7 DEF BodySent

LEMMA ReceiveSent ==
  ASSUME TypeInv, NameInv, NEW L, Planned(L), SentAll(L), Receive
  PROVE  SentAll(L)'
<1>1. /\ UNCHANGED <<phase, state, i, syntaxError, fileName, lastName, lastValue,
                     params, fields, responseSize, outcome>>
      /\ outcome = "none" /\ phase \in {"header", "body"} /\ i = length + 1
      /\ \A k \in Positions : k <= length => buffer'[k] = buffer[k]
  BY ReceiveKeeps
<1>2. \A k \in 1..i - 1 : buffer'[k] = buffer[k]
  <2>1. length \in Nat /\ BufferSize \in Nat /\ length <= BufferSize /\ Positions = 1..BufferSize + 1
    BY SizesHold DEF Sizes
  <2>2. \A k \in 1..(length + 1) - 1 : k \in 1..BufferSize + 1 /\ k <= length
    BY <2>1
  <2> QED
    BY <1>1, <2>1, <2>2
<1>3. phase = "header" => HeaderSent(L)'
  BY <1>1, <1>2, SameHeader DEF SentAll
<1>4. phase = "body" => BodySent(L)'
  <2> HAVE phase = "body"
  <2>1. responseSize # 0
    BY DEF Receive, Reading
  <2>2. i \in Int /\ Below <= i
    <3>1. i \in Nat /\ lastName <= i
      BY SizesHold DEF Sizes, TypeInv
    <3>2. i <= i
      BY <3>1
    <3>3. Below \in {lastName, i}
      BY <2>1 DEF Below
    <3> QED
      BY <3>1, <3>2, <3>3
  <2>3. i <= i
    BY <2>2
  <2> QED
    BY <1>1, <1>2, <2>2, <2>3, SameBody DEF SentAll
<1>5. ~Accepted'
  BY <1>1 DEF Accepted
<1> QED
  BY <1>1, <1>3, <1>4, <1>5 DEF SentAll, HeaderSent, BodySent, AnswerSent

LEMMA SameAnswer ==
  ASSUME TypeInv, NEW L, AnswerSent(L), phase = "answer" \/ Accepted, request = L.r,
         UNCHANGED <<buffer, length, syntaxError, fileName, params, fields>>
  PROVE  AnswerSent(L)'
<1>1. HeldBelow(L, BufferSize + 2) => HeldBelow(L, BufferSize + 2)'
  <2> HAVE HeldBelow(L, BufferSize + 2)
  <2>1. BufferSize + 2 \in Int /\ BufferSize + 2 <= BufferSize + 2
    BY BelowEnd
  <2>2. HeldNext(L, BufferSize + 2)
    BY <2>1, StillBelow
  <2> QED
    BY <2>2, AnswerNext
<1>2. \/ length = BufferSize \/ syntaxError
      \/ /\ HeldBelow(L, BufferSize + 2)
         /\ \/ length < Len(L.w) /\ L.r.body # <<>>
            \/ Len(params) = Len(Wanted(L.r))
  BY DEF AnswerSent
<1> QED
  BY <1>1, <1>2 DEF AnswerSent

LEMMA OthersSent ==
  ASSUME TypeInv, NameInv, NEW L, Planned(L), SentAll(L),
         BufferFull \/ Disconnect \/ Answer \/ UNCHANGED vars
  PROVE  SentAll(L)'
<1>1. HeaderSent(L) /\ BodySent(L) /\ AnswerSent(L)
  BY DEF SentAll
<1>2. CASE BufferFull
  BY <1>2 DEF BufferFull, SentAll, HeaderSent, BodySent, AnswerSent
<1>3. CASE Disconnect
  <2>1. CASE phase' = "done" /\ outcome' = "dropped"
    BY <2>1 DEF SentAll, HeaderSent, BodySent, AnswerSent, Accepted
  <2>2. CASE phase = "body" /\ phase' = "answer"
    <3>1. /\ responseSize # 0 /\ i > length
          /\ UNCHANGED <<buffer, length, fileName, params, fields>>
      BY <1>3, <2>2 DEF Disconnect, Reading, pointers, lists
    <3>2. WhereInBody(L) /\ HeldBelow(L, Below) /\ Plan(L)
      BY <1>1, <2>2 DEF BodySent, Planned
    <3>3. i <= Len(L.w) /\ L.r.body # <<>>
      BY <2>2, <3>1, <3>2, BodyWaits
    <3>4. length < Len(L.w)
      <4>1. length \in Nat /\ i \in Nat
        BY SizesHold DEF Sizes
      <4>2. Len(L.w) \in Nat
        BY <3>2, BodyFacts DEF BodyAre
      <4> QED
        BY <3>1, <3>3, <4>1, <4>2
    <3>5. HeldNext(L, BufferSize + 2)
      BY <3>1, <3>2, BelowEnd, StillBelow
    <3>6. HeldBelow(L, BufferSize + 2)'
      BY <3>5, AnswerNext
    <3> QED
      BY <2>2, <3>1, <3>3, <3>4, <3>6 DEF SentAll, HeaderSent, BodySent, AnswerSent
  <2> QED
    BY <1>3, <2>1, <2>2 DEF Disconnect
<1>4. CASE Answer
  <2>1. /\ phase = "answer" /\ phase' = "done"
        /\ UNCHANGED <<buffer, length, syntaxError, fileName, params, fields>>
    BY <1>4 DEF Answer, pointers, lists
  <2>2. AnswerSent(L)'
    BY <1>1, <2>1, SameAnswer DEF Planned
  <2> QED
    BY <2>1, <2>2 DEF SentAll, HeaderSent, BodySent
<1>5. CASE UNCHANGED vars
  <2>1. /\ UNCHANGED <<phase, state, i, syntaxError, fileName, lastName, lastValue,
                       params, fields, responseSize, outcome, buffer, length>>
    BY <1>5 DEF vars
  <2>2. HeaderSent(L)'
    <3>1. CASE phase = "header"
      BY <1>1, <2>1, <3>1, SameHeader
    <3>2. CASE phase # "header"
      BY <2>1, <3>2 DEF HeaderSent
    <3> QED
      BY <3>1, <3>2
  <2>3. BodySent(L)'
    <3>1. CASE phase = "body"
      <4>1. /\ BufferSize + 2 \in Int /\ Below <= BufferSize + 2 /\ i <= BufferSize + 2
        BY BelowEnd, SizesHold DEF Sizes
      <4> QED
        BY <1>1, <2>1, <3>1, <4>1, SameBody
    <3>2. CASE phase # "body"
      BY <2>1, <3>2 DEF BodySent
    <3> QED
      BY <3>1, <3>2
  <2>4. AnswerSent(L)'
    <3>1. CASE phase = "answer" \/ Accepted
      BY <1>1, <2>1, <3>1, SameAnswer DEF Planned
    <3>2. CASE ~(phase = "answer" \/ Accepted)
      BY <2>1, <3>2 DEF AnswerSent, Accepted
    <3> QED
      BY <3>1, <3>2
  <2> QED
    BY <2>2, <2>3, <2>4 DEF SentAll
<1> QED
  BY <1>2, <1>3, <1>4, <1>5
LEMMA SentNext ==
  ASSUME TypeInv, NameInv, PartIsSent, NEW L, Planned(L), SentAll(L), [Next]_vars
  PROVE  SentAll(L)' /\ Planned(L)'
<1>1. HeaderSent(L) /\ BodySent(L)
  BY DEF SentAll
<1>2. HeaderStep => SentAll(L)'
  BY <1>1, MethodStep, SpaceStep, NameStepSent, ParamNameStep, ParamValueStep, VersionStep,
     SkipEolStep, FieldStartStep, FieldNameStep, FieldValueStep DEF HeaderStep
<1>3. SkipBeforeBody \/ ReadBodyName \/ ReadBodyValue \/ EndBody => SentAll(L)'
  BY <1>1, SkipBodyStep, BodyNameStep, BodyValueStep, EndBodyStep
<1>4. Receive \/ BufferFull \/ Disconnect \/ Answer \/ UNCHANGED vars => SentAll(L)'
  BY ReceiveSent, OthersSent
<1>5. \/ HeaderStep
      \/ SkipBeforeBody \/ ReadBodyName \/ ReadBodyValue \/ EndBody
      \/ Receive \/ BufferFull \/ Disconnect \/ Answer \/ UNCHANGED vars
  BY DEF Next, Parse, HeaderStep
<1>6. request' = request /\ wire' = wire
  BY <1>5 DEF HeaderStep, ReadMethod, SkipSpace, ReadFileName, ReadParamName, ReadParamValue,
     ReadVersion, SkipEol, ReadFieldStart, ReadFieldName, ReadFieldValue, SkipBeforeBody,
     ReadBodyName, ReadBodyValue, EndBody, Receive, BufferFull, Disconnect, Answer, vars, client
<1> QED
  BY <1>2, <1>3, <1>4, <1>5, <1>6 DEF Planned

LEMMA SentAtFirst ==
  ASSUME Init, request.file # <<>>
  PROVE  \E L : Planned(L) /\ SentAll(L)
<1>1. WellFormed(request) /\ wire = Wire(request)
  BY ProtocolAssumption DEF Init
<1>2. PICK L : L.r = request /\ L.w = Wire(request) /\ Plan(L)
  BY <1>1, PlanExists
<1>3. Planned(L)
  BY <1>1, <1>2 DEF Planned
<1>4. /\ phase = "header" /\ state = 0 /\ i = 1 /\ params = <<>> /\ fields = <<>>
      /\ outcome = "none"
  BY DEF Init
<1>5. WhereInHeader(L)
  <2>1. 1 < L.f
    BY <1>2, LineFacts
  <2> QED
    BY <1>4, <2>1 DEF WhereInHeader
<1>6. HeldInHeader(L)
  <2>1. Len(Query(L.r)) \in Nat /\ Len(L.r.fields) \in Nat
    BY <1>1, <1>2, QueryIs, FieldCells
  <2>2. \A cs, z : Len(cs) \in Nat => HeldPairs(buffer, <<>>, cs, z)
    BY DEF HeldPairs
  <2> QED
    BY <1>4, <2>1, <2>2 DEF HeldInHeader
<1>7. SentAll(L)
  BY <1>4, <1>5, <1>6 DEF SentAll, HeaderSent, BodySent, AnswerSent, Accepted
<1> QED
  BY <1>3, <1>7

\* The request without a file, on the wire
LEMMA NoFileWire ==
  ASSUME TypeInv, request.file = <<>>, NEW m, m = Len(request.method)
  PROVE  /\ m \in Nat /\ m + 1 <= Len(wire) /\ wire[m + 1] \in Eol
         /\ \A k \in 1..m : wire[k] = request.method[k]
         /\ \A j, k \in 1..m : j < k /\ request.method[j] = Space => request.method[k] = Space
<1> PICK r, w : r = request /\ w = wire
  OBVIOUS
<1>1. WellFormed(r) /\ w = Wire(r)
  BY ProtocolAssumption DEF TypeInv, TypeOK
<1>2. PICK s, f, q, v, e, t, b : Parted(r, w, s, f, q, v, e, t, b)
  BY <1>1, WireParts
<1>3. r.params = <<>> /\ r.version = <<>>
      /\ \A j, k \in DOMAIN r.method : j < k /\ r.method[j] = Space => r.method[k] = Space
  BY <1>1 DEF WellFormed, WellFormedLine
<1>4. r.method \in Seq(Byte255) /\ m \in Nat /\ DOMAIN r.method = 1..m
  <2>1. r.method \in Seq(Byte255)
    BY <1>1, PartTexts
  <2> QED
    BY <2>1, LenProperties
<1>5. \A k \in 1..m : w[k] = r.method[k]
  <2>1. Put(w, 1, r.method)
    BY <1>2 DEF Parted
  <2>2. \A k \in 1..m : 1 - 1 + k = k
    BY <1>4
  <2> QED
    BY <2>1, <2>2 DEF Put
<1>6. e = m + 1 /\ e \in Nat
  <2>1. SpaceText(r) = <<>> /\ QueryText(r) = <<>> /\ VersionText(r) = <<>> /\ r.file = <<>>
    BY <1>3 DEF SpaceText, QueryText, VersionText
  <2>2. s = 1 + m /\ f = s + 0 /\ q = f + 0 /\ v = q + 0 /\ e = v + 0
    BY <1>2, <2>1 DEF Parted
  <2> QED
    BY <1>4, <2>2
<1> PICK n, N : n = Len(r.eol) /\ N = Len(w)
  OBVIOUS
<1>7. r.eol \in Seq(Byte255) /\ n \in {1, 2} /\ r.eol[1] \in Eol
  BY <1>1, EolSize
<1>8. w[e] = r.eol[1]
  <2>1. Put(w, e, r.eol)
    BY <1>2 DEF Parted
  <2>2. 1 \in 1..n /\ e - 1 + 1 = e
    BY <1>6, <1>7
  <2> QED
    BY <2>1, <2>2 DEF Put
<1>9. e <= N
  <2>1. TailText(r) \in Seq(Byte255) /\ BodyText(r) \in Seq(Byte255)
    BY <1>1, PartTexts
  <2> PICK x, y : x = Len(TailText(r)) /\ y = Len(BodyText(r))
    OBVIOUS
  <2>2. x \in Nat /\ y \in Nat
    BY <2>1, LenProperties
  <2>3. t = e + n /\ b = t + x /\ N + 1 = b + y
    BY <1>2 DEF Parted
  <2>4. N \in Nat
    BY <1>1, WordsAre, WireIs, LenProperties
  <2>5. n \in Nat /\ n >= 1
    BY <1>7
  <2>7. e \in Nat
    BY <1>6
  <2>8. t \in Nat /\ t >= e + 1
    BY <2>3, <2>5, <2>7
  <2>9. b \in Nat /\ b >= e + 1
    BY <2>2, <2>3, <2>7, <2>8
  <2>10. N + 1 >= e + 1
    BY <2>2, <2>3, <2>4, <2>7, <2>9
  <2> QED
    BY <2>4, <2>7, <2>10
<1>10. m + 1 <= Len(wire) /\ wire[m + 1] \in Eol
  BY <1>6, <1>7, <1>8, <1>9
<1>11. \A j, k \in 1..m : j < k /\ request.method[j] = Space => request.method[k] = Space
  BY <1>3, <1>4
<1> QED
  BY <1>4, <1>5, <1>10, <1>11

LEMMA NoFileNext ==
  ASSUME TypeInv, NameInv, UnreadIsSent, NoFileInv, [Next]_vars
  PROVE  NoFileInv'
<1>1. request' = request
  BY DEF Next, Parse, ReadMethod, SkipSpace, ReadFileName, ReadParamName, ReadParamValue,
     ReadVersion, SkipEol, ReadFieldStart, ReadFieldName, ReadFieldValue, SkipBeforeBody,
     ReadBodyName, ReadBodyValue, EndBody, Receive, BufferFull, Disconnect, Answer, vars, client
<1> SUFFICES ASSUME request.file = <<>> PROVE NoFileInv'
  BY <1>1 DEF NoFileInv
<1> PICK m, x : m = Len(request.method) /\ x = request.method
  OBVIOUS
<1>2. /\ m \in Nat /\ wire[m + 1] \in Eol /\ \A k \in 1..m : wire[k] = x[k]
      /\ \A j, k \in 1..m : j < k /\ x[j] = Space => x[k] = Space
  <2>1. m \in Nat /\ wire[m + 1] \in Eol /\ \A k \in 1..m : wire[k] = x[k]
    BY NoFileWire
  <2>2. \A j, k \in 1..m : j < k /\ x[j] = Space => x[k] = Space
    BY NoFileWire
  <2> QED
    BY <2>1, <2>2
<1>3. /\ fileName = NULL /\ phase # "body" /\ ~Accepted
      /\ phase = "header" => /\ state \in {0, 1} /\ i <= m + 1
                             /\ state = 1 => \E k \in 1..i - 1 : x[k] = Space
  BY DEF NoFileInv
<1>4. i \in Nat \ {0}
  BY SizesHold DEF Sizes
<1>5. phase = "header" /\ i <= length => Byte = wire[i]
  BY SizesHold DEF Sizes, UnreadIsSent, Byte
<1>6. phase = "header" => outcome = "none"
  BY DEF NameInv
<1> SUFFICES /\ fileName' = NULL /\ phase' # "body" /\ ~Accepted'
             /\ phase' = "header" => /\ state' \in {0, 1} /\ i' <= m + 1
                                     /\ state' = 1 => \E k \in 1..i' - 1 : x[k] = Space
  BY <1>1 DEF NoFileInv
<1>7. Space \notin Eol
  BY DEF Space, Eol, NewLine, Return
<1>8. CASE ReadMethod
  <2>1. /\ phase = "header" /\ i <= length /\ fileName' = fileName /\ outcome' = outcome
        /\ \/ Byte = Space /\ Go(1)
           \/ Byte \in Eol /\ Fail
           \/ Byte \notin Eol \cup {Space} /\ Go(0)
    BY <1>8 DEF ReadMethod, At, pointers
  <2>2. ~Accepted'
    BY <1>6, <2>1 DEF Accepted
  <2>3. CASE Fail
    BY <1>3, <2>1, <2>2, <2>3 DEF Fail
  <2>4. CASE Byte \notin Eol /\ phase' = phase /\ i' = i + 1 /\ (state' = 0 \/ (state' = 1 /\ Byte = Space))
    <3>1. i # m + 1
      BY <1>2, <1>5, <2>1, <2>4
    <3>2. i \in 1..m /\ i' <= m + 1 /\ i \in 1..i' - 1
      BY <1>2, <1>3, <1>4, <2>1, <2>4, <3>1
    <3>3. state' = 1 => x[i] = Space
      BY <1>2, <1>5, <2>1, <2>4, <3>2
    <3> QED
      BY <1>3, <2>1, <2>2, <2>4, <3>2, <3>3
  <2>5. \/ Fail
        \/ Byte \notin Eol /\ phase' = phase /\ i' = i + 1 /\ (state' = 0 \/ (state' = 1 /\ Byte = Space))
    BY <1>7, <2>1 DEF Go
  <2> QED
    BY <2>3, <2>4, <2>5
<1>9. CASE SkipSpace
  <2>1. /\ phase = "header" /\ state = 1 /\ i <= length /\ outcome' = outcome
        /\ \/ Byte = Space /\ Go(1) /\ fileName' = fileName
           \/ Byte \in Eol /\ Fail /\ fileName' = fileName
           \/ Byte \notin Eol \cup {Space}
    BY <1>9 DEF SkipSpace, At
  <2>2. ~Accepted'
    BY <1>6, <2>1 DEF Accepted
  <2>3. PICK k \in 1..i - 1 : x[k] = Space
    BY <1>3, <2>1
  <2>4. CASE Byte \in Eol /\ Fail
    BY <1>3, <1>7, <2>1, <2>2, <2>4 DEF Fail
  <2>5. CASE Byte \notin Eol
    <3>1. i # m + 1
      BY <1>2, <1>5, <2>1, <2>5
    <3>2. i \in 1..m /\ k \in 1..m /\ k < i
      BY <1>2, <1>3, <1>4, <2>1, <2>3, <3>1
    <3>3. Byte = Space
      BY <1>2, <1>5, <2>1, <2>3, <3>2
    <3>4. Go(1) /\ fileName' = fileName
      BY <1>7, <2>1, <3>3
    <3>5. i' = i + 1 /\ state' = 1 /\ phase' = phase
      BY <3>4 DEF Go
    <3>6. i' <= m + 1 /\ k \in 1..i' - 1
      BY <1>2, <1>4, <3>2, <3>5
    <3> QED
      BY <1>3, <2>1, <2>2, <2>3, <3>4, <3>5, <3>6
  <2> QED
    BY <1>7, <2>1, <2>4, <2>5
<1>10. ~\/ ReadFileName \/ ReadParamName \/ ReadParamValue \/ ReadVersion \/ SkipEol
        \/ ReadFieldStart \/ ReadFieldName \/ ReadFieldValue
        \/ SkipBeforeBody \/ ReadBodyName \/ ReadBodyValue \/ EndBody
  BY <1>3 DEF ReadFileName, ReadParamName, ReadParamValue, ReadVersion, SkipEol, ReadFieldStart,
     ReadFieldName, ReadFieldValue, SkipBeforeBody, ReadBodyName, ReadBodyValue, EndBody, At, InBody
<1>11. CASE BufferFull \/ Disconnect
  <2>1. fileName' = fileName /\ phase' \in {"answer", "done"} /\ (outcome' = outcome \/ outcome' = "dropped")
    BY <1>11 DEF BufferFull, Disconnect, pointers
  <2> QED
    BY <1>3, <2>1 DEF Accepted
<1>12. CASE Answer
  <2>1. fileName' = fileName /\ phase' = "done" /\ outcome' \in {"dropped", "bad request"}
    BY <1>3, <1>12 DEF Answer, pointers
  <2> QED
    BY <1>3, <2>1 DEF Accepted
<1>13. CASE Receive \/ UNCHANGED vars
  <2>1. UNCHANGED <<fileName, phase, outcome, state, i>>
    BY <1>13 DEF Receive, pointers, vars
  <2> QED
    BY <1>3, <2>1 DEF Accepted
<1> QED
  BY <1>8, <1>9, <1>10, <1>11, <1>12, <1>13 DEF Next, Parse

LEMMA PlannedInit == Init => PlannedInv
<1> SUFFICES ASSUME Init PROVE PlannedInv
  OBVIOUS
<1>1. NameInv /\ UnreadIsSent /\ TypeInv
  BY SentInit, TypeInit DEF SentInv
<1>2. /\ length = 0 /\ i = 1 /\ phase = "header" /\ state = 0 /\ fileName = NULL /\ outcome = "none"
  BY DEF Init
<1>3. PartIsSent
  BY <1>2 DEF PartIsSent, Start
<1>4. NoFileInv
  <2> SUFFICES ASSUME request.file = <<>> PROVE NoFileInv
    BY DEF NoFileInv
  <2>1. Len(request.method) \in Nat
    BY <1>1, NoFileWire
  <2>2. i <= Len(request.method) + 1
    BY <1>2, <2>1
  <2> QED
    BY <1>2, <2>2 DEF NoFileInv, Accepted
<1> QED
  BY <1>1, <1>3, <1>4, SentAtFirst DEF PlannedInv

LEMMA PlannedStep == TypeInv /\ SentInv /\ PlannedInv /\ [Next]_vars => SentInv' /\ PlannedInv'
<1> SUFFICES ASSUME TypeInv, SentInv, PlannedInv, [Next]_vars PROVE SentInv' /\ PlannedInv'
  OBVIOUS
<1>1. NameInv /\ UnreadIsSent /\ PartIsSent /\ NoFileInv
  BY DEF PlannedInv
<1>2. SentInv' /\ NameInv' /\ UnreadIsSent'
  <2>1. SentInv'
    BY SentStep
  <2> QED
    BY <2>1 DEF SentInv
<1>3. PartIsSent' /\ NoFileInv'
  BY <1>1, PartStepAll, NoFileNext
<1>4. request' = request
  BY DEF Next, Parse, ReadMethod, SkipSpace, ReadFileName, ReadParamName, ReadParamValue,
     ReadVersion, SkipEol, ReadFieldStart, ReadFieldName, ReadFieldValue, SkipBeforeBody,
     ReadBodyName, ReadBodyValue, EndBody, Receive, BufferFull, Disconnect, Answer, vars, client
<1>5. ASSUME request.file # <<>>
      PROVE  \E L : Planned(L)' /\ SentAll(L)'
  <2>1. PICK L : Planned(L) /\ SentAll(L)
    BY <1>5 DEF PlannedInv
  <2>2. Planned(L)' /\ SentAll(L)'
    BY <1>1, <2>1, SentNext
  <2> QED
    BY <2>2
<1> QED
  BY <1>2, <1>3, <1>4, <1>5 DEF PlannedInv

\* The end of the header is not behind the automaton.
LEMMA HeaderWaits ==
  ASSUME TypeInv, NEW L, Plan(L), phase = "header", WhereInHeader(L), HeldInHeader(L)
  PROVE  i <= L.b
<1> PICK b, f, d, n, F : b = L.b /\ f = L.f /\ d = L.d /\ n = Len(L.r.eol) /\ F = Len(L.r.fields)
  OBVIOUS
<1>1. i \in Nat /\ state \in 0..12
  BY SizesHold, Types DEF Sizes
<1>2. f \in Nat /\ d \in Nat /\ f <= b /\ d <= b /\ b \in Nat
  BY Before, LineFacts
<1>0. \A p, c \in Nat : \A a \in {1, 2} : (p + a - 1 <= c => p <= c) /\ (p <= c => p + 1 - a <= c)
  OBVIOUS
<1>3. state \in {0, 1, 2, 11, 12} => i <= b
  BY <1>1, <1>2 DEF WhereInHeader
<1>4. CASE state = 3
  <2>1. PICK k \in 1..Len(L.r.params) : i \in L.ps[k]..L.pv[k] - 1
    BY <1>4 DEF WhereInHeader, InParamName
  <2> PICK p, v : p = L.ps[k] /\ v = L.pv[k]
    OBVIOUS
  <2>2. p \in Nat /\ v \in Nat /\ v - 1 <= b
    BY Before
  <2>3. i \in p..v - 1
    BY <2>1
  <2> QED
    BY <1>1, <1>2, <2>2, <2>3
<1>5. CASE state = 4
  <2>1. PICK k \in 1..Len(L.r.params) : i \in L.pv[k]..L.pe[k]
    BY <1>5 DEF WhereInHeader, InParamValue
  <2> PICK v, z : v = L.pv[k] /\ z = L.pe[k]
    OBVIOUS
  <2>2. v \in Nat /\ z \in Nat /\ z <= b
    BY Before
  <2>3. i \in v..z
    BY <2>1
  <2> QED
    BY <1>1, <1>2, <2>2, <2>3
<1>6. CASE state \in 5..10
  <2>1. L.r.version # <<>>
    BY <1>6 DEF HeldInHeader
  <2>2. n \in {1, 2} /\ F \in Nat
    BY QueryEnd, FieldCells
  <2>3. CASE state = 5
    <3>1. i \in L.q + 1..L.ve
      BY <2>3 DEF WhereInHeader
    <3> PICK q, v : q = L.q /\ v = L.ve
      OBVIOUS
    <3>2. q \in Nat /\ v \in Nat /\ v <= b
      BY <2>1, QueryEnd
    <3>3. i \in q + 1..v
      BY <3>1
    <3> QED
      BY <1>1, <1>2, <3>2, <3>3
  <2>4. \A k \in 1..F + 1 : L.fs[k] \in Nat /\ L.fs[k] <= b
    <3> TAKE k \in 1..F + 1
    <3> PICK p : p = L.fs[k]
      OBVIOUS
    <3>1. p \in Nat \ {0} /\ p + n - 1 <= b
      BY <2>1, FieldFacts DEF FieldsAre
    <3>2. p <= b
      BY <1>0, <1>2, <2>2, <3>1
    <3> QED
      BY <3>1, <3>2
  <2>5. CASE state \in {6, 7}
    <3>1. PICK k \in 1..F + 1 : i = L.fs[k] + 1 - n
      BY <2>5 DEF WhereInHeader, AtEol
    <3> PICK p : p = L.fs[k]
      OBVIOUS
    <3>2. p \in Nat /\ p <= b
      BY <2>4
    <3>3. p + 1 - n <= b
      BY <1>0, <1>2, <2>2, <3>2
    <3>4. i = p + 1 - n
      BY <3>1
    <3> QED
      BY <3>3, <3>4
  <2>6. CASE state = 8
    <3>1. PICK k \in 1..F + 1 : i = L.fs[k]
      BY <2>6 DEF WhereInHeader, AtField
    <3> QED
      BY <2>4, <3>1
  <2>7. CASE state = 9
    <3>1. PICK k \in 1..F : i \in L.fs[k]..L.fv[k] - 1
      BY <2>7 DEF WhereInHeader, InFieldName
    <3> PICK p, v : p = L.fs[k] /\ v = L.fv[k]
      OBVIOUS
    <3>2. p \in Nat /\ v \in Nat /\ v - 1 <= b
      BY <2>1, Before
    <3>3. i \in p..v - 1
      BY <3>1
    <3> QED
      BY <1>1, <1>2, <3>2, <3>3
  <2>8. CASE state = 10
    <3>1. PICK k \in 1..F : i \in L.fv[k]..L.fe[k]
      BY <2>8 DEF WhereInHeader, InFieldValue
    <3> PICK v, z : v = L.fv[k] /\ z = L.fe[k]
      OBVIOUS
    <3>2. v \in Nat /\ z \in Nat /\ z <= b
      BY <2>1, Before
    <3>3. i \in v..z
      BY <3>1
    <3> QED
      BY <1>1, <1>2, <3>2, <3>3
  <2>9. state = 5 \/ state \in {6, 7} \/ state = 8 \/ state = 9 \/ state = 10
    BY <1>6
  <2> QED
    BY <2>3, <2>5, <2>6, <2>7, <2>8, <2>9
<1>7. state \in {0, 1, 2, 11, 12} \/ state = 3 \/ state = 4 \/ state \in 5..10
  BY <1>1
<1> QED
  BY <1>2, <1>3, <1>4, <1>5, <1>6, <1>7

\* When the parser calls read(), bytes of the request are missing; for all

\* requests and any cut of read().
THEOREM NeverWaits == Spec => []NeverWaitsInVain
<1>1. TypeInv /\ PlannedInv => NeverWaitsInVain
  <2> SUFFICES ASSUME TypeInv, PlannedInv, Reading PROVE length < Len(wire)
    BY DEF NeverWaitsInVain
  <2> PICK N : N = Len(wire)
    OBVIOUS
  <2>1. i > length /\ i \in Nat /\ length \in Nat
    BY SizesHold DEF Sizes, Reading
  <2>2. N \in Nat
    <3>1. wire \in Seq(0..255)
      BY DEF TypeInv, TypeOK
    <3> QED
      BY <3>1, LenProperties
  <2>3. CASE request.file = <<>>
    <3> PICK m : m = Len(request.method)
      OBVIOUS
    <3>1. phase = "header" /\ i <= m + 1
      BY <2>3 DEF PlannedInv, NoFileInv, Reading
    <3>2. m \in Nat /\ m + 1 <= N
      BY <2>3, NoFileWire
    <3> QED
      BY <2>1, <2>2, <3>1, <3>2
  <2>4. CASE request.file # <<>>
    <3>1. PICK L : Planned(L) /\ SentAll(L)
      BY <2>4 DEF PlannedInv
    <3>2. Plan(L) /\ N = Len(L.w)
      BY <3>1 DEF Planned
    <3>3. CASE phase = "header"
      <4>1. i <= L.b
        BY <3>1, <3>2, <3>3, HeaderWaits DEF SentAll, HeaderSent
      <4>2. L.b <= N /\ L.b \in Nat
        BY <3>2, BodyFacts DEF BodyAre, Plan
      <4> QED
        BY <2>1, <2>2, <4>1, <4>2
    <3>4. CASE phase = "body"
      <4>1. WhereInBody(L) /\ responseSize # 0
        BY <3>1, <3>4 DEF SentAll, BodySent, Reading
      <4>2. i <= N
        BY <3>2, <3>4, <4>1, BodyWaits
      <4> QED
        BY <2>1, <2>2, <4>2
    <3> QED
      BY <3>3, <3>4 DEF Reading
  <2> QED
    BY <2>3, <2>4
<1> QED
  BY <1>1, TypeInit, TypeStep, SentInit, SentStep, PlannedInit, PlannedStep, PTL DEF Spec

LEMMA AcceptedStep ==
  ASSUME TypeInv, NameInv, AcceptedInv, [Next]_vars
  PROVE  AcceptedInv'
<1> SUFFICES ASSUME Accepted' PROVE length' # BufferSize /\ syntaxError' = FALSE
  BY DEF AcceptedInv
<1>1. CASE Answer
  <2>1. /\ length' = length /\ syntaxError' = syntaxError
        /\ outcome' \in {"dropped",
                   IF length = BufferSize \/ syntaxError \/ fileName = NULL THEN "bad request"
                   ELSE IF SessionNumber = NULL THEN "new session"
                   ELSE "dispatched"}
    BY <1>1 DEF Answer
  <2>2. length # BufferSize /\ ~syntaxError
    BY <2>1 DEF Accepted
  <2>3. syntaxError \in BOOLEAN
    BY Types
  <2> QED
    BY <2>1, <2>2, <2>3
<1>2. CASE UNCHANGED vars
  <2>1. outcome' = outcome /\ length' = length /\ syntaxError' = syntaxError
    BY <1>2 DEF vars
  <2> QED
    BY <2>1 DEF AcceptedInv, Accepted
<1>3. ASSUME ~Answer, ~UNCHANGED vars PROVE FALSE
  <2>1. /\ phase # "done"
        /\ outcome' = outcome \/ outcome' = "dropped"
    BY <1>3 DEF Next, Parse, ReadMethod, SkipSpace, ReadFileName, ReadParamName, ReadParamValue,
       ReadVersion, SkipEol, ReadFieldStart, ReadFieldName, ReadFieldValue, SkipBeforeBody,
       ReadBodyName, ReadBodyValue, EndBody, Receive, BufferFull, Disconnect, At, InBody, Reading
  <2>2. outcome = "none"
    BY <2>1 DEF NameInv
  <2> QED
    BY <2>1, <2>2 DEF Accepted
<1> QED
  BY <1>1, <1>2, <1>3

LEMMA EscapedText ==
  ASSUME NEW value \in Seq(Byte255)
  PROVE  Escaped(value) \in Seq(1..255)
<1> DEFINE x == JsEncodeURIComponent(value)
           safe == Letters \cup Digits \cup {64, 42, 95, 43, 45, 46, 47}
           S == 1..255
<1>1. x \in Seq(Byte255)
  BY PercentEncodedType DEF JsEncodeURIComponent
<1>2. Escaped(value) = PercentEncoded(x, safe)
  BY DEF JsEscape, Escaped
<1>3. Percent \in S /\ Digits \subseteq S /\ 65..70 \subseteq S /\ safe \subseteq S
  BY DEF Percent, Digits, Letters
<1> HIDE DEF x, safe, S
<1>4. PercentEncoded(x, safe) \in Seq(S)
  BY <1>1, <1>3, PercentEncodedBytes
<1> QED
  BY <1>2, <1>4 DEF S

LEMMA CellIsPair ==
  ASSUME NEW S, NEW c \in Seq(S)
  PROVE  /\ Len(c) = 1 => c = <<c[1]>>
         /\ Len(c) = 2 => c = <<c[1], c[2]>>
<1>1. DOMAIN c = 1..Len(c) /\ c \in [1..Len(c) -> S]
  BY LenProperties
<1>2. ASSUME Len(c) = 1 PROVE c = <<c[1]>>
  BY <1>1, <1>2, SeqDef
<1>3. ASSUME Len(c) = 2 PROVE c = <<c[1], c[2]>>
  BY <1>1, <1>3, SeqDef
<1> QED
  BY <1>2, <1>3

\* The session is that of the request.
LEMMA SessionIsSent ==
  ASSUME TypeInv, NEW r, WellFormed(r), NEW z \in Int, z <= BufferSize + 2,
         HeldPairs(buffer, fields, r.fields, z), Len(fields) = Len(r.fields)
  PROVE  SessionNumber = r.session
<1> DEFINE found == SessionFields
           named == Named(r.fields, Cookie)
           sessions == {k \in named : HasSession(r.fields[k][2])}
<1>1. Len(r.fields) \in Nat /\ DOMAIN r.fields = 1..Len(r.fields)
  BY ListIs DEF WellFormed, WellFormedFields
<1>2. \A k \in named : k \in 1..Len(r.fields) /\ Text(fields[k][2]) = r.fields[k][2]
  <2> TAKE k \in named
  <2>1. k \in 1..Len(r.fields) /\ r.fields[k][1] = Cookie
    BY <1>1 DEF Named
  <2>2. Len(r.fields[k]) = 2
    <3>1. Len(r.fields[k]) # 1
      BY <1>1, <2>1 DEF WellFormed, WellFormedFields
    <3>2. Len(r.fields[k]) \in {1, 2}
      BY <2>1, FieldCells
    <3> QED
      BY <3>1, <3>2
  <2> QED
    BY <2>1, <2>2, NamedIsHeld
<1>3. found = sessions
  <2>1. FieldsNamed(Cookie) = named
    BY NamedIsHeld
  <2> QED
    BY <1>2, <2>1 DEF SessionFields
<1>4. r.session = IF sessions = {} THEN NULL ELSE SessionIn(r.fields[Min(sessions)][2])
  BY DEF WellFormed, WellFormedFields
<1>5. CASE sessions = {}
  BY <1>3, <1>4, <1>5 DEF SessionNumber
<1>6. CASE sessions # {}
  <2>1. Min(sessions) \in sessions
    <3>1. sessions \in SUBSET Int /\ \A y \in sessions : 1 <= y
      BY <1>1, <1>2
    <3>2. 1 \in Int
      OBVIOUS
    <3> HIDE DEF sessions
    <3> QED
      BY <1>6, <3>1, <3>2, MinIsIn, Zenon
  <2>2. Text(fields[Min(sessions)][2]) = r.fields[Min(sessions)][2]
    BY <1>2, <2>1
  <2> QED
    BY <1>3, <1>4, <1>6, <2>2 DEF SessionNumber
<1> QED
  BY <1>5, <1>6

LEMMA FieldsAreSent ==
  ASSUME TypeInv, NEW r, WellFormed(r), NEW z \in Int, z <= BufferSize + 2,
         HeldPairs(buffer, fields, r.fields, z), Len(fields) = Len(r.fields)
  PROVE  [k \in DOMAIN fields |-> FieldText(fields[k])] = r.fields
<1> DEFINE F == Len(r.fields)
<1>1. F \in Nat /\ DOMAIN r.fields = 1..F /\ r.fields \in Lists
  <2>1. r.fields \in Lists
    BY WordsAre
  <2> QED
    BY <2>1, ListIs
<1>2. DOMAIN fields = 1..F
  BY Types, LenProperties DEF PairLists
<1>3. \A k \in 1..F : FieldText(fields[k]) = r.fields[k]
  <2> TAKE k \in 1..F
  <2>1. r.fields[k] \in Seq(Seq(1..255)) /\ Len(r.fields[k]) \in {1, 2}
    BY <1>1, ListIs
  <2>2. /\ Text(fields[k][1]) = r.fields[k][1]
        /\ Len(r.fields[k]) = 1 => fields[k][2] = NULL
        /\ Len(r.fields[k]) = 2 => fields[k][2] # NULL /\ Text(fields[k][2]) = r.fields[k][2]
    BY NamedIsHeld
  <2>3. CASE Len(r.fields[k]) = 1
    BY <2>1, <2>2, <2>3, CellIsPair DEF FieldText
  <2>4. CASE Len(r.fields[k]) = 2
    BY <2>1, <2>2, <2>4, CellIsPair DEF FieldText
  <2> QED
    BY <2>1, <2>3, <2>4
<1>4. r.fields = [k \in 1..F |-> r.fields[k]]
  <2>1. r.fields \in Seq(Seq(Seq(1..255)))
    BY <1>1 DEF Lists
  <2>2. r.fields \in [1..F -> Seq(Seq(1..255))]
    BY <2>1, LenProperties
  <2> QED
    BY <2>2
<1> QED
  BY <1>2, <1>3, <1>4
LEMMA ListsJoined ==
  ASSUME NEW r, WellFormed(r), NEW t, t = r.params \o r.body
  PROVE  /\ t \in Seq(Seq(Seq(1..255))) /\ Len(t) = Len(r.params) + Len(r.body)
         /\ \A k \in 1..Len(r.params) : t[k] = r.params[k]
         /\ \A k \in 1..Len(r.body) : t[Len(r.params) + k] = r.body[k]
<1> DEFINE S == Seq(Seq(1..255))
           x == r.params
           y == r.body
<1>1. x \in Seq(S) /\ y \in Seq(S)
  BY WordsAre DEF Lists
<1>2. t = x \o y
  OBVIOUS
<1> SUFFICES /\ t \in Seq(S) /\ Len(t) = Len(x) + Len(y)
             /\ \A k \in 1..Len(x) : t[k] = x[k]
             /\ \A k \in 1..Len(y) : t[Len(x) + k] = y[k]
  OBVIOUS
<1> HIDE DEF S, x, y
<1>3. t \in Seq(S) /\ Len(t) = Len(x) + Len(y)
  BY <1>1, <1>2, JoinedIs
<1>4. \A k \in 1..Len(x) : t[k] = x[k]
  BY <1>1, <1>2, JoinedIs
<1>5. \A k \in 1..Len(y) : t[Len(x) + k] = y[k]
  BY <1>1, <1>2, JoinedIs
<1> QED
  BY <1>3, <1>4, <1>5

LEMMA QueryGiven ==
  ASSUME TypeInv, WellFormed(request), NEW z \in Int, z <= BufferSize + 2,
         NEW k \in 1..Len(request.params), NEW c, c = request.params[k],
         HeldPair(buffer, params[k], Query(request)[k], z)
  PROVE  GivenPair(c, k)
<1> PICK r, q, P : r = request /\ q = Query(request)[k] /\ P = Len(request.params)
  OBVIOUS
<1>1. P \in Nat /\ Len(q) = Len(c) /\ q[1] = c[1] /\ (Len(c) = 2 => q[2] = Escaped(c[2]))
  BY QueryIs
<1>2. /\ Len(c) \in {1, 2} /\ c[1] \in Seq(1..255) /\ c \in Seq(Seq(1..255))
      /\ Len(c) = 2 => c[2] \in Seq(1..255)
  <2>1. request.params \in Lists
    BY WordsAre
  <2> QED
    BY <2>1, ListIs
<1>3. Text(params[k][1]) = c[1]
  <2>1. Held(buffer, params[k][1], q[1], z)
    BY DEF HeldPair
  <2> QED
    BY <1>1, <1>2, <2>1, HeldText
<1>4. CASE Len(c) = 1
  <2>1. params[k][2] = NULL
    BY <1>1, <1>4 DEF HeldPair
  <2>2. c = <<c[1]>>
    BY <1>2, <1>4, CellIsPair
  <2> QED
    BY <1>2, <1>3, <2>1, <2>2 DEF GivenPair
<1>5. CASE Len(c) = 2
  <2>1. params[k][2] # NULL /\ Held(buffer, params[k][2], q[2], z)
    BY <1>1, <1>5 DEF HeldPair
  <2>2. c[2] \in Seq(Byte255) /\ q[2] = Escaped(c[2])
    BY <1>1, <1>2, <1>5, ByteTexts
  <2>3. Text(params[k][2]) = Escaped(c[2])
    BY <2>1, <2>2, EscapedText, HeldText
  <2>4. k <= Len(request.params)
    BY <1>1
  <2>5. Value(k) = c[2]
    BY <2>2, <2>3, <2>4, EscapedTwice DEF Value
  <2>6. c = <<c[1], c[2]>>
    BY <1>2, <1>5, CellIsPair
  <2> QED
    BY <1>2, <1>3, <2>1, <2>5, <2>6 DEF GivenPair
<1> QED
  BY <1>2, <1>4, <1>5

LEMMA BodyGiven ==
  ASSUME TypeInv, WellFormed(request), NEW z \in Int, z <= BufferSize + 2,
         NEW j \in 1..Len(request.body), NEW c, c = request.body[j],
         NEW k, ~(k <= Len(request.params)),
         HeldPair(buffer, params[k], c, z)
  PROVE  GivenPair(c, k)
<1>1. Len(c) = 2 /\ c \in Seq(Seq(1..255)) /\ c[1] \in Seq(1..255) /\ c[2] \in Seq(1..255)
  <2>1. request.body \in Lists
    BY WordsAre
  <2>2. DOMAIN request.body = 1..Len(request.body)
    BY <2>1, ListIs
  <2>3. Len(c) = 2
    BY <2>2 DEF WellFormed, WellFormedBody
  <2> QED
    BY <2>1, <2>3, ListIs
<1>2. Held(buffer, params[k][1], c[1], z) /\ params[k][2] # NULL /\ Held(buffer, params[k][2], c[2], z)
  BY <1>1 DEF HeldPair
<1>3. Text(params[k][1]) = c[1] /\ Text(params[k][2]) = c[2]
  BY <1>1, <1>2, HeldText
<1>4. Value(k) = c[2]
  BY <1>3 DEF Value
<1>5. c = <<c[1], c[2]>>
  BY <1>1, CellIsPair
<1> QED
  BY <1>1, <1>2, <1>3, <1>4, <1>5 DEF GivenPair

LEMMA ParamsGiven ==
  ASSUME TypeInv, NEW r, r = request, WellFormed(r), NEW z \in Int, z <= BufferSize + 2,
         HeldPairs(buffer, params, Wanted(r), z),
         NEW n, n = Len(params), NEW t, t = r.params \o r.body
  PROVE  Given(t, n)
<1> PICK P, B : P = Len(r.params) /\ B = Len(r.body)
  OBVIOUS
<1>1. WantedAre(r, P, B)
  BY WantedIs
<1>2. P \in Nat /\ B \in Nat /\ Len(Wanted(r)) = P + B
  BY <1>1 DEF WantedAre
<1>4. /\ t \in Seq(Seq(Seq(1..255))) /\ Len(t) = P + B /\ P + B \in Nat
      /\ \A k \in 1..P : t[k] = r.params[k]
      /\ \A k \in 1..B : t[P + k] = r.body[k]
  <2>1. \A x, y \in Nat : x + y \in Nat
    OBVIOUS
  <2>2. P + B \in Nat
    BY <1>2, <2>1
  <2>3. /\ t \in Seq(Seq(Seq(1..255))) /\ Len(t) = Len(r.params) + Len(r.body)
        /\ \A k \in 1..Len(r.params) : t[k] = r.params[k]
        /\ \A k \in 1..Len(r.body) : t[Len(r.params) + k] = r.body[k]
    BY ListsJoined, Zenon
  <2> QED
    BY <2>2, <2>3
<1>5. params \in PairLists /\ n \in Nat /\ DOMAIN params = 1..n /\ n <= P + B
  <2>1. params \in PairLists
    BY Types
  <2>2. n <= Len(Wanted(r))
    BY DEF HeldPairs
  <2> QED
    BY <1>2, <2>1, <2>2, LenProperties DEF PairLists
<1>6. ASSUME NEW k \in 1..n PROVE GivenPair(t[k], k)
  <2>1. HeldPair(buffer, params[k], Wanted(r)[k], z)
    BY DEF HeldPairs
  <2>2. CASE k <= P
    <3>1. k \in 1..P
      BY <1>5, <2>2
    <3>2. Wanted(r)[k] = Query(r)[k]
      BY <1>1, <3>1 DEF WantedAre
    <3>3. t[k] = r.params[k]
      BY <1>4, <3>1
    <3> QED
      BY <2>1, <3>1, <3>2, <3>3, QueryGiven
  <2>3. CASE ~(k <= P)
    <3> PICK j : j = k - P
      OBVIOUS
    <3>1. j \in 1..B /\ P + j = k
      <4>1. k \in Nat /\ k <= P + B
        <5>1. \A o \in Nat, k0 \in 1..n : n <= o => k0 \in Nat /\ k0 <= o
          BY <1>5
        <5> QED
          BY <1>4, <1>5, <5>1
      <4>2. \A x, y, o \in Nat : ~(o <= x) /\ o <= x + y => o - x \in 1..y /\ x + (o - x) = o
        OBVIOUS
      <4>3. P \in Nat /\ B \in Nat
        BY <1>2
      <4>4. k - P \in 1..B /\ P + (k - P) = k
        BY <2>3, <4>1, <4>2, <4>3, Zenon
      <4> QED
        BY <4>4
    <3>2. Wanted(r)[k] = r.body[j]
      <4>1. Wanted(r)[P + j] = r.body[j]
        BY <1>1, <3>1 DEF WantedAre
      <4> QED
        BY <3>1, <4>1
    <3>3. t[k] = r.body[j]
      <4>1. t[P + j] = r.body[j]
        BY <1>4, <3>1
      <4> QED
        BY <3>1, <4>1
    <3> QED
      BY <2>1, <2>3, <3>1, <3>2, <3>3, BodyGiven
  <2> QED
    BY <2>2, <2>3
<1>7. Received = [k \in 1..n |-> t[k]]
  <2>1. \A k \in 1..n :
          (IF params[k][2] = NULL THEN <<Text(params[k][1])>> ELSE <<Text(params[k][1]), Value(k)>>) = t[k]
    BY <1>6 DEF GivenPair
  <2> QED
    BY <1>5, <2>1 DEF Received
<1>8. DOMAIN Received = 1..n
  BY <1>7
<1> QED
  BY <1>2, <1>4, <1>5, <1>6, <1>7, <1>8 DEF Given

LEMMA PrefixIs ==
  ASSUME NEW S, NEW t \in Seq(S), NEW n \in Nat, n <= Len(t), NEW s, s = [k \in 1..n |-> t[k]]
  PROVE  /\ Len(s) = n /\ IsPrefix(s, t)
         /\ n = Len(t) => s = t
<1>1. s \in Seq(S) /\ Len(s) = n
  <2>1. \A k \in 1..n : t[k] \in S
    BY ElementOfSeq
  <2> QED
    BY <2>1, FunctionIsSeq
<1>2. SubSeq(s, 1, n) = s
  BY <1>1, SubSeqFull
<1>3. SubSeq(t, 1, n) = s
  <2>1. 1..n \subseteq 1..Len(t)
    OBVIOUS
  <2>2. SubSeq(t, 1, n) = [k \in 1..n |-> t[k]]
    BY <2>1 DEF SubSeq
  <2> QED
    BY <2>2
<1>4. n = Len(t) => s = t
  BY <1>3, SubSeqFull
<1> QED
  BY <1>1, <1>2, <1>3, <1>4 DEF IsPrefix

LEMMA GivenPrefix ==
  ASSUME NEW t, NEW n, Given(t, n)
  PROVE  /\ Len(Received) = n /\ IsPrefix(Received, t)
         /\ n = Len(t) => Received = t
<1> DEFINE S == Seq(Seq(1..255))
           s == Received
<1>1. t \in Seq(S) /\ n \in Nat /\ n <= Len(t) /\ s = [k \in 1..n |-> t[k]]
  BY DEF Given
<1> HIDE DEF S, s
<1>2. Len(s) = n
  BY <1>1, PrefixIs
<1>3. IsPrefix(s, t)
  BY <1>1, PrefixIs
<1>4. n = Len(t) => s = t
  BY <1>1, PrefixIs
<1> QED
  BY <1>2, <1>3, <1>4 DEF s

\* A request that is accepted is the one that was sent, however it was cut to
\* pieces by read(), and whatever was in the buffer before: its method, file,
\* session, fields, parameters and body, without the last pairs if the client
\* went away during the body; and a value survives being shown again.
THEOREM ParsedIsSent == Spec => []ParsedAsSent
<1>1. TypeInv /\ PlannedInv /\ AcceptedInv => ParsedAsSent
  <2> SUFFICES ASSUME TypeInv, PlannedInv, AcceptedInv, Accepted
               PROVE  ParsedAsSent
    BY DEF ParsedAsSent
  <2>1. WellFormed(request)
    BY ProtocolAssumption DEF TypeInv, TypeOK
  <2>2. request.file # <<>>
    BY DEF PlannedInv, NoFileInv
  <2>3. PICK L : Planned(L) /\ SentAll(L)
    BY <2>2 DEF PlannedInv
  <2> PICK r, z : r = request /\ z = BufferSize + 2
    OBVIOUS
  <2>4. L.r = r /\ L.w = wire /\ Plan(L)
    BY <2>3 DEF Planned
  <2>5. /\ HeldBelow(L, z)
        /\ \/ length < Len(wire) /\ r.body # <<>>
           \/ Len(params) = Len(Wanted(r))
    BY <2>3, <2>4 DEF SentAll, AnswerSent, AcceptedInv
  <2>6. z \in Int /\ z <= BufferSize + 2
    BY BelowEnd
  <2>7. /\ fileName = L.f
        /\ Held(buffer, 1, r.method, z) /\ Held(buffer, L.f, r.file, z)
        /\ Len(params) >= Len(r.params) /\ HeldPairs(buffer, params, Wanted(r), z)
        /\ Len(fields) = Len(r.fields) /\ HeldPairs(buffer, fields, r.fields, z)
    BY <2>4, <2>5 DEF HeldBelow
  <2>8. r.method \in Seq(1..255) /\ r.file \in Seq(1..255)
    <3>1. \A bytes : (1..255) \ bytes \subseteq 1..255
      OBVIOUS
    <3>2. \A bytes : TextWithout(bytes) \subseteq Seq(1..255)
      BY <3>1, SeqMonotonic DEF TextWithout
    <3> QED
      BY <2>1, <3>2, WordsAre
  <2>9. Text(1) = r.method /\ Text(fileName) = r.file
    BY <2>6, <2>7, <2>8, HeldText
  <2>10. SessionNumber = r.session
    BY <2>1, <2>6, <2>7, SessionIsSent
  <2>11. [k \in DOMAIN fields |-> FieldText(fields[k])] = r.fields
    BY <2>1, <2>6, <2>7, FieldsAreSent
  <2> PICK n, t : n = Len(params) /\ t = r.params \o r.body
    OBVIOUS
  <2>12. Given(t, n)
    BY <2>1, <2>6, <2>7, ParamsGiven
  <2>13. /\ Len(Received) = n /\ IsPrefix(Received, t)
         /\ n = Len(t) => Received = t
    <3>1. Len(Received) = n
      BY <2>12, GivenPrefix
    <3>2. IsPrefix(Received, t)
      BY <2>12, GivenPrefix
    <3>3. n = Len(t) => Received = t
      BY <2>12, GivenPrefix
    <3> QED
      BY <3>1, <3>2, <3>3
  <2>14. IF length < Len(wire) /\ r.body # <<>>
         THEN IsPrefix(Received, t) /\ Len(Received) >= Len(r.params)
         ELSE Received = t
    BY <2>5, <2>7, <2>12, <2>13 DEF Given
  <2>15. ASSUME NEW k \in DOMAIN Received
         PROVE  LET value == Last(Received[k])
                IN JsDecodeURIComponent(encodeUriComponent(value)) = value
    <3> PICK c : c = Received[k]
      OBVIOUS
    <3>1. c \in Seq(Seq(1..255)) /\ Len(c) \in {1, 2}
      BY <2>12 DEF Given, GivenPair
    <3>2. Len(c) \in 1..Len(c)
      <4>1. \A a \in {1, 2} : a \in 1..a
        OBVIOUS
      <4> QED
        BY <3>1, <4>1
    <3>3. c[Len(c)] \in Seq(Byte255)
      BY <3>1, <3>2, ElementOfSeq, ByteTexts
    <3> QED
      BY <3>3, ShownAgain DEF Last
  <2> QED
    BY <2>9, <2>10, <2>11, <2>14, <2>15 DEF ParsedAsSent
<1>2. Init => AcceptedInv
  BY DEF Init, AcceptedInv, Accepted
<1>3. TypeInv /\ SentInv /\ AcceptedInv /\ [Next]_vars => AcceptedInv'
  BY AcceptedStep DEF SentInv
<1> QED
  BY <1>1, <1>2, <1>3, TypeInit, TypeStep, SentInit, SentStep, PlannedInit, PlannedStep, PTL DEF Spec
============================================================================
