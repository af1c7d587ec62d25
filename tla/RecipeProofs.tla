---------------------------- MODULE RecipeProofs ----------------------------
(***************************************************************************)
(* However a recipe is edited, its active step is the one that runs: for   *)
(* lists and queues of any length, any files and any positions in commands.*)
(***************************************************************************)
EXTENDS Recipe, Integers, SequencesExt, FiniteSetsExt, SequenceTheorems, WellFoundedInduction, TLAPS

(***************************************************************************)
(* What the operators of SequencesExt and FiniteSetsExt do that the recipe *)
(* uses: taking an element from a list, putting one in, folding a list,    *)
(* flattening a list of lists, and the greatest of some numbers.           *)
(***************************************************************************)

(***************************************************************************)
(* Induction over the numbers up to N, as a statement about sets           *)
(***************************************************************************)
\* A set of natural numbers that is not empty has a least element.
LEMMA Least ==
  ASSUME NEW T \in SUBSET Nat, T # {}
  PROVE  \E x \in T : \A y \in T : x <= y
<1> DEFINE R == {ss \in Nat \X Nat : ss[1] < ss[2]}
<1>1. IsWellFoundedOn(R, Nat)
  BY NatLessThanWellFounded DEF OpToRel
<1>2. \A x, y \in Nat : y < x => <<y, x>> \in R
  OBVIOUS
<1> HIDE DEF R
<1>3. PICK x \in T : \A y \in T : ~(<<y, x>> \in R)
  BY <1>1, WFMin
<1>4. ASSUME NEW y \in T
      PROVE  x <= y
  <2>1. x \in Nat /\ y \in Nat /\ ~(<<y, x>> \in R)
    BY <1>3
  <2>2. ~(y < x)
    BY <1>2, <2>1
  <2> QED
    BY <2>1, <2>2
<1> QED
  BY <1>4

\* A set that has 0, and with every number the next one, has N.
LEMMA UpTo ==
  ASSUME NEW N \in Nat, NEW G, 0 \in G, \A n \in 1..N : n - 1 \in G => n \in G
  PROVE  N \in G
<1> DEFINE T == {n \in 0..N : n \notin G}
<1> SUFFICES ASSUME T # {} PROVE FALSE
  OBVIOUS
<1>1. T \in SUBSET Nat
  OBVIOUS
<1> HIDE DEF T
<1>2. PICK n \in T : \A y \in T : n <= y
  BY <1>1, Least
<1> USE DEF T
<1>3. n \in 1..N /\ n - 1 \in 0..N
  BY <1>2
<1>4. n - 1 \in G
  BY <1>2, <1>3
<1> QED
  BY <1>2, <1>3, <1>4

(***************************************************************************)
(* Flattening                                                              *)
(***************************************************************************)
Joined(seqs, f, i) == IF i = 1 THEN seqs[i] ELSE f[i - 1] \o seqs[i]

\* f flattens the first n sequences.
Partial(seqs, f, n) == f = [i \in 1..n |-> Joined(seqs, f, i)]

\* What flattens n - 1 sequences can be extended to the next one, so that the
\* recursive definition of FlattenSeq has a solution.
LEMMA PartialExtends ==
  ASSUME NEW seqs, NEW n \in Nat \ {0}, NEW f, Partial(seqs, f, n - 1)
  PROVE  \E g : Partial(seqs, g, n)
<1> DEFINE g == [i \in 1..n |-> IF i < n THEN f[i] ELSE Joined(seqs, f, n)]
<1>1. \A i \in 1..n : g[i] = IF i < n THEN f[i] ELSE Joined(seqs, f, n)
  OBVIOUS
<1>2. g = [i \in 1..n |-> g[i]]
  OBVIOUS
<1> HIDE DEF g
<1>3. ASSUME NEW i \in 1..n
      PROVE  g[i] = Joined(seqs, g, i)
  <2>1. CASE i = 1
    <3>1. Joined(seqs, g, i) = seqs[1] /\ Joined(seqs, f, i) = seqs[1]
      BY <2>1 DEF Joined
    <3>2. i < n => f[i] = Joined(seqs, f, i)
      BY DEF Partial
    <3> QED
      BY <1>1, <2>1, <3>1, <3>2
  <2>2. CASE i # 1
    <3>1. i - 1 \in 1..n /\ i - 1 < n
      BY <2>2
    <3>2. g[i - 1] = f[i - 1]
      BY <1>1, <3>1
    <3>3. Joined(seqs, g, i) = Joined(seqs, f, i)
      BY <3>2 DEF Joined
    <3>4. i < n => f[i] = Joined(seqs, f, i)
      BY DEF Partial
    <3> QED
      BY <1>1, <3>3, <3>4
  <2> QED
    BY <2>1, <2>2
<1>4. g = [i \in 1..n |-> Joined(seqs, g, i)]
  BY <1>2, <1>3
<1> QED
  BY <1>4 DEF Partial

\* A function on 1..n is a list of n elements.
LEMMA FunctionIsSeq ==
  ASSUME NEW S, NEW n \in Nat, NEW f \in [1..n -> S]
  PROVE  f \in Seq(S) /\ Len(f) = n
BY SeqDef, LenProperties

\* f[n] is what the first n of the sequences make, flattened.
Flattens(f, S, seqs) ==
  /\ f \in [0..Len(seqs) -> Seq(S)] /\ f[0] = <<>>
  /\ \A n \in 1..Len(seqs) : f[n] = f[n - 1] \o seqs[n]

LEMMA FlattenUnfolds ==
  ASSUME NEW S, NEW seqs \in Seq(Seq(S))
  PROVE  \E f : Flattens(f, S, seqs) /\ FlattenSeq(seqs) = f[Len(seqs)]
<1> DEFINE N == Len(seqs)
<1>1. N \in Nat /\ \A n \in 1..N : seqs[n] \in Seq(S)
  BY ElementOfSeq, LenProperties
<1>2. \E f : Partial(seqs, f, N)
  <2> DEFINE G == {n \in Nat : \E f : Partial(seqs, f, n)}
  <2>1. 0 \in G
    <3>1. Partial(seqs, <<>>, 0)
      BY DEF Partial
    <3> QED
      BY <3>1
  <2>2. ASSUME NEW n \in 1..N, n - 1 \in G
        PROVE  n \in G
    <3>1. PICK f : Partial(seqs, f, n - 1)
      BY <2>2
    <3> QED
      BY <1>1, <3>1, PartialExtends
  <2> HIDE DEF G
  <2>3. N \in G
    BY <1>1, <2>1, <2>2, UpTo
  <2> QED
    BY <2>3 DEF G
<1>3. CASE N = 0
  <2>1. seqs = <<>>
    BY <1>3, EmptySeq
  <2>2. FlattenSeq(seqs) = <<>>
    BY <1>3, <2>1 DEF FlattenSeq
  <2> DEFINE f == [n \in 0..0 |-> <<>>]
  <2>3. Flattens(f, S, seqs)
    BY <1>3, EmptySeq DEF Flattens
  <2> QED
    BY <1>3, <2>2, <2>3
<1>4. CASE N # 0
  <2> DEFINE flatten == CHOOSE f : f = [i \in 1..N |-> Joined(seqs, f, i)]
             f == [n \in 0..N |-> IF n = 0 THEN <<>> ELSE flatten[n]]
  <2>1. FlattenSeq(seqs) = flatten[N]
    BY <1>4 DEF FlattenSeq, Joined
  <2>2. flatten = [i \in 1..N |-> Joined(seqs, flatten, i)]
    BY <1>2 DEF Partial
  <2> HIDE DEF flatten
  <2>3. ASSUME NEW n \in 1..N
        PROVE  f[n] = f[n - 1] \o seqs[n]
    <3>0. flatten[n] = Joined(seqs, flatten, n)
      BY <2>2
    <3>1. flatten[n] = Joined(seqs, flatten, n) /\ f[n] = flatten[n]
      BY <1>1, <3>0
    <3>2. CASE n = 1
      <4>1. f[n] = seqs[n] /\ f[n - 1] = <<>>
        BY <1>1, <3>1, <3>2 DEF Joined
      <4>2. <<>> \o seqs[n] = seqs[n]
        BY <1>1, ConcatEmptySeq
      <4> QED
        BY <4>1, <4>2
    <3>3. CASE n # 1
      <4>1. n - 1 \in 1..N /\ n - 1 # 0
        BY <1>1, <3>3
      <4>2. f[n - 1] = flatten[n - 1]
        BY <1>1, <4>1
      <4>3. Joined(seqs, flatten, n) = flatten[n - 1] \o seqs[n]
        BY <3>3 DEF Joined
      <4> QED
        BY <3>1, <4>2, <4>3
    <3> QED
      BY <3>2, <3>3
  <2>4. f[0] = <<>> /\ FlattenSeq(seqs) = f[N]
    BY <1>1, <1>4, <2>1
  <2>5. DOMAIN f = 0..N /\ f = [n \in 0..N |-> f[n]]
    OBVIOUS
  <2> HIDE DEF f
  <2>6. ASSUME NEW m \in 0..N
        PROVE  f[m] \in Seq(S)
    <3> DEFINE G == {n \in Nat : n \in 0..N => f[n] \in Seq(S)}
    <3>1. 0 \in G
      BY <2>4, EmptySeq
    <3>2. ASSUME NEW n \in 1..m, n - 1 \in G
          PROVE  n \in G
      <4>1. n \in 1..N /\ n - 1 \in 0..N
        BY <1>1
      <4>2. f[n - 1] \in Seq(S) /\ seqs[n] \in Seq(S)
        BY <1>1, <3>2, <4>1
      <4>3. f[n] \in Seq(S)
        BY <2>3, <4>1, <4>2, ConcatProperties
      <4> QED
        BY <1>1, <4>1, <4>3
    <3> HIDE DEF G
    <3>3. m \in G
      BY <1>1, <3>1, <3>2, UpTo
    <3> QED
      BY <1>1, <3>3 DEF G
  <2>7. Flattens(f, S, seqs)
    BY <2>3, <2>4, <2>5, <2>6 DEF Flattens
  <2> QED
    BY <2>4, <2>7
<1> QED
  BY <1>3, <1>4

\* Flattening a sequence of sequences gives a sequence of their elements.
LEMMA Flattened ==
  ASSUME NEW S, NEW seqs \in Seq(Seq(S))
  PROVE  FlattenSeq(seqs) \in Seq(S)
<1>1. PICK f : Flattens(f, S, seqs) /\ FlattenSeq(seqs) = f[Len(seqs)]
  BY FlattenUnfolds
<1>2. Len(seqs) \in 0..Len(seqs)
  BY LenProperties
<1> QED
  BY <1>1, <1>2 DEF Flattens

\* Lists of one element each, flattened
LEMMA FlattenSingletons ==
  ASSUME NEW S, NEW w \in Seq(S)
  PROVE  FlattenSeq([i \in 1..Len(w) |-> <<w[i]>>]) = w
<1> DEFINE N == Len(w)
           seqs == [i \in 1..N |-> <<w[i]>>]
<1>1. N \in Nat /\ \A i \in 1..N : w[i] \in S
  BY ElementOfSeq, LenProperties
<1>2. seqs \in Seq(Seq(S)) /\ Len(seqs) = N /\ \A i \in 1..N : seqs[i] = <<w[i]>>
  <2>1. ASSUME NEW i \in 1..N
        PROVE  <<w[i]>> \in Seq(S)
    <3> DEFINE v == w[i]
    <3>1. v \in S
      BY <1>1
    <3> HIDE DEF v
    <3>2. <<v>> \in Seq(S)
      BY <3>1
    <3> QED
      BY <3>2 DEF v
  <2>2. seqs \in [1..N -> Seq(S)]
    BY <2>1
  <2> QED
    BY <1>1, <2>2, FunctionIsSeq
<1> HIDE DEF seqs
<1>3. PICK f : Flattens(f, S, seqs) /\ FlattenSeq(seqs) = f[N]
  BY <1>2, FlattenUnfolds
<1> DEFINE G == {n \in Nat : n \in 0..N => /\ Len(f[n]) = n
                                           /\ \A k \in 1..n : f[n][k] = w[k]}
<1>4. 0 \in G
  <2>1. f[0] = <<>> /\ Len(<<>>) = 0
    BY <1>3 DEF Flattens
  <2> QED
    BY <2>1
<1>5. ASSUME NEW n \in 1..N, n - 1 \in G
      PROVE  n \in G
  <2>1. n - 1 \in 0..N /\ n \in Nat /\ n \in 0..N
    BY <1>1
  <2> DEFINE p == f[n - 1]
             v == w[n]
  <2>2. p \in Seq(S) /\ f[n] = p \o <<v>> /\ v \in S
    BY <1>1, <1>2, <1>3, <2>1 DEF Flattens
  <2>3. Len(p) = n - 1 /\ \A k \in 1..(n - 1) : p[k] = w[k]
    BY <1>5, <2>1
  <2> HIDE DEF p, v
  <2>4. f[n] = Append(p, v)
    BY <2>2, AppendIsConcat
  <2>5. Len(f[n]) = n /\ \A k \in 1..n : f[n][k] = IF k = n THEN v ELSE p[k]
    <3>1. /\ Len(Append(p, v)) = Len(p) + 1
          /\ \A k \in 1..Len(p) : Append(p, v)[k] = p[k]
          /\ Append(p, v)[Len(p) + 1] = v
      BY <2>2, AppendProperties
    <3> QED
      BY <2>1, <2>3, <2>4, <3>1
  <2>6. \A k \in 1..n : f[n][k] = w[k]
    BY <2>1, <2>3, <2>5 DEF v
  <2> QED
    BY <2>1, <2>5, <2>6
<1> HIDE DEF G
<1>6. N \in G
  BY <1>1, <1>4, <1>5, UpTo
<1>7. f[N] \in Seq(S) /\ Len(f[N]) = N /\ \A k \in 1..N : f[N][k] = w[k]
  BY <1>1, <1>2, <1>3, <1>6 DEF G, Flattens
<1>8. f[N] = w
  BY <1>7, SeqEqual
<1> QED
  BY <1>3, <1>8 DEF seqs

(***************************************************************************)
(* The greatest of some numbers                                            *)
(***************************************************************************)
LEMMA MaxIsIn ==
  ASSUME NEW N \in Nat, NEW S \in SUBSET (0..N), S # {}
  PROVE  Max(S) \in S /\ \A y \in S : Max(S) >= y
<1> DEFINE T == {n \in 0..N : N - n \in S}
<1>1. T \in SUBSET Nat
  OBVIOUS
<1>2. T # {}
  <2>1. PICK y \in S : TRUE
    OBVIOUS
  <2>2. N - y \in 0..N /\ N - (N - y) = y
    BY <2>1
  <2> QED
    BY <2>1, <2>2
<1> HIDE DEF T
<1>3. PICK n \in T : \A m \in T : n <= m
  BY <1>1, <1>2, Least
<1> USE DEF T
<1>4. N - n \in S /\ n \in 0..N
  BY <1>3
<1>5. ASSUME NEW y \in S
      PROVE  N - n >= y
  <2>1. N - y \in 0..N /\ N - (N - y) = y
    OBVIOUS
  <2>2. n <= N - y
    BY <1>3, <2>1
  <2> QED
    BY <1>4, <2>1, <2>2
<1> QED
  BY <1>4, <1>5 DEF Max

(***************************************************************************)
(* Folding a list: FoldLeft is computed over sets of positions             *)
(***************************************************************************)
\* g folds the list q from base by the function F, a set of positions at a time.
Folds(g, F, base, q, n) ==
  /\ DOMAIN g = SUBSET (1..n)
  /\ \A T \in SUBSET (1..n) :
       g[T] = IF T = {} THEN base ELSE F[<<g[T \ {Max(T)}], q[Max(T)]>>]

\* A fold by a function that stays in V has a solution, in V.
LEMMA FoldExists ==
  ASSUME NEW V, NEW E, NEW base \in V, NEW F \in [V \X E -> V], NEW q \in Seq(E)
  PROVE  \E g : g \in [SUBSET (1..Len(q)) -> V] /\ Folds(g, F, base, q, Len(q))
<1> DEFINE N == Len(q)
           Solved(n) == \E g : g \in [SUBSET (1..n) -> V] /\ Folds(g, F, base, q, n)
           G == {n \in Nat : Solved(n)}
<1>1. N \in Nat /\ \A n \in 1..N : q[n] \in E
  BY ElementOfSeq, LenProperties
<1>2. 0 \in G
  <2> DEFINE g == [T \in SUBSET (1..0) |-> base]
  <2>1. g \in [SUBSET (1..0) -> V] /\ Folds(g, F, base, q, 0)
    <3>1. \A T \in SUBSET (1..0) : T = {}
      OBVIOUS
    <3> QED
      BY <3>1 DEF Folds
  <2> QED
    BY <2>1
<1>3. ASSUME NEW n \in 1..N, n - 1 \in G
      PROVE  n \in G
  <2>1. PICK f : f \in [SUBSET (1..(n - 1)) -> V] /\ Folds(f, F, base, q, n - 1)
    BY <1>3
  <2> DEFINE g == [T \in SUBSET (1..n) |->
                     IF n \in T THEN F[<<f[T \ {n}], q[n]>>] ELSE f[T]]
  <2>2. ASSUME NEW T \in SUBSET (1..n)
        PROVE  /\ T \ {n} \in SUBSET (1..(n - 1))
               /\ n \notin T => T \in SUBSET (1..(n - 1))
    BY <1>1
  <2>3. g \in [SUBSET (1..n) -> V]
    <3>1. ASSUME NEW T \in SUBSET (1..n)
          PROVE  g[T] \in V
      <4>1. CASE n \in T
        <5>1. f[T \ {n}] \in V /\ q[n] \in E
          BY <1>1, <2>1, <2>2
        <5> QED
          BY <4>1, <5>1
      <4>2. CASE n \notin T
        BY <2>1, <2>2, <4>2
      <4> QED
        BY <4>1, <4>2
    <3> QED
      BY <3>1
  <2>4. \A T \in SUBSET (1..n) :
          g[T] = IF n \in T THEN F[<<f[T \ {n}], q[n]>>] ELSE f[T]
    OBVIOUS
  <2>5. DOMAIN g = SUBSET (1..n)
    OBVIOUS
  <2> HIDE DEF g
  <2>6. ASSUME NEW T \in SUBSET (1..n)
        PROVE  g[T] = IF T = {} THEN base ELSE F[<<g[T \ {Max(T)}], q[Max(T)]>>]
    <3>1. CASE n \in T
      <4>1. Max(T) = n
        <5>1. T \in SUBSET (0..n) /\ T # {} /\ n \in Nat
          BY <1>1, <3>1
        <5> DEFINE m == Max(T)
        <5>2. m \in T /\ \A y \in T : m >= y
          BY <5>1, MaxIsIn
        <5> HIDE DEF m
        <5>3. m = n
          BY <3>1, <5>1, <5>2
        <5> QED
          BY <5>3 DEF m
      <4>2. g[T \ {n}] = f[T \ {n}]
        <5>1. T \ {n} \in SUBSET (1..n) /\ n \notin T \ {n}
          OBVIOUS
        <5> QED
          BY <2>4, <5>1
      <4> QED
        BY <2>4, <3>1, <4>1, <4>2
    <3>2. CASE n \notin T
      <4>1. T \in SUBSET (1..(n - 1))
        BY <2>2, <3>2
      <4>2. g[T] = f[T] /\ f[T] = IF T = {} THEN base ELSE F[<<f[T \ {Max(T)}], q[Max(T)]>>]
        BY <2>1, <2>4, <3>2, <4>1 DEF Folds
      <4>3. g[T \ {Max(T)}] = f[T \ {Max(T)}]
        <5>1. T \ {Max(T)} \in SUBSET (1..n) /\ n \notin T \ {Max(T)}
          BY <3>2
        <5> QED
          BY <2>4, <5>1
      <4> QED
        BY <4>2, <4>3
    <3> QED
      BY <3>1, <3>2
  <2>7. Folds(g, F, base, q, n)
    BY <2>5, <2>6 DEF Folds
  <2> QED
    BY <1>1, <2>3, <2>7
<1> HIDE DEF G
<1>4. N \in G
  BY <1>1, <1>2, <1>3, UpTo
<1> QED
  BY <1>4 DEF G

\* What is left when the last positions are taken away one by one
LEMMA LastAway ==
  ASSUME NEW k \in Nat \ {0}
  PROVE  1..k # {} /\ Max(1..k) = k /\ (1..k) \ {k} = 1..(k - 1)
<1>1. 1..k \in SUBSET (0..k) /\ 1..k # {}
  OBVIOUS
<1> DEFINE m == Max(1..k)
<1>2. m \in 1..k /\ \A y \in 1..k : m >= y
  BY <1>1, MaxIsIn
<1> HIDE DEF m
<1>3. m = k /\ (1..k) \ {k} = 1..(k - 1)
  BY <1>2
<1> QED
  BY <1>1, <1>3 DEF m

(***************************************************************************)
(* Lists from which an element is taken, and into which one is put         *)
(***************************************************************************)
LEMMA Removal ==
  ASSUME NEW S, NEW s \in Seq(S), NEW i \in 1..Len(s)
  PROVE  /\ RemoveAt(s, i) \in Seq(S)
         /\ Len(RemoveAt(s, i)) = Len(s) - 1
         /\ \A k \in 1..(Len(s) - 1) :
               RemoveAt(s, i)[k] = IF k < i THEN s[k] ELSE s[k + 1]
<1> DEFINE a == SubSeq(s, 1, i - 1)
           b == SubSeq(s, i + 1, Len(s))
<1>0. Len(s) \in Nat /\ \A k \in 1..Len(s) : s[k] \in S
  BY ElementOfSeq, LenProperties
<1>1. /\ a \in Seq(S) /\ Len(a) = i - 1
      /\ \A k \in 1..(i - 1) : a[k] = s[k]
  BY <1>0, SubSeqProperties, Z3
<1>2. /\ b \in Seq(S) /\ Len(b) = Len(s) - i
      /\ \A k \in 1..(Len(s) - i) : b[k] = s[i + k]
  BY <1>0, SubSeqProperties, Z3
<1> HIDE DEF a, b
<1>3. /\ a \o b \in Seq(S)
      /\ Len(a \o b) = Len(a) + Len(b)
      /\ \A k \in 1..(Len(a) + Len(b)) :
            (a \o b)[k] = IF k <= Len(a) THEN a[k] ELSE b[k - Len(a)]
  BY <1>1, <1>2, ConcatProperties
<1>4. RemoveAt(s, i) = a \o b
  BY DEF RemoveAt, a, b
<1>5. Len(a \o b) = Len(s) - 1
  BY <1>0, <1>1, <1>2, <1>3
<1>6. \A k \in 1..(Len(s) - 1) : (a \o b)[k] = IF k < i THEN s[k] ELSE s[k + 1]
  <2> TAKE k \in 1..(Len(s) - 1)
  <2>1. (a \o b)[k] = IF k <= i - 1 THEN a[k] ELSE b[k - (i - 1)]
    BY <1>0, <1>1, <1>2, <1>3
  <2>2. CASE k < i
    BY <1>0, <1>1, <2>1, <2>2
  <2>3. CASE k >= i
    <3>1. k - (i - 1) \in 1..(Len(s) - i) /\ i + (k - (i - 1)) = k + 1
      BY <1>0, <2>3
    <3>2. b[k - (i - 1)] = s[k + 1]
      BY <1>2, <3>1
    <3> QED
      BY <1>0, <2>1, <2>3, <3>2
  <2>4. k < i \/ k >= i
    BY <1>0
  <2> QED
    BY <2>2, <2>3, <2>4
<1> QED
  BY <1>3, <1>4, <1>5, <1>6

LEMMA Insertion ==
  ASSUME NEW S, NEW s \in Seq(S), NEW e \in S, NEW i \in 1..(Len(s) + 1)
  PROVE  /\ InsertAt(s, i, e) \in Seq(S)
         /\ Len(InsertAt(s, i, e)) = Len(s) + 1
         /\ \A k \in 1..(Len(s) + 1) :
               InsertAt(s, i, e)[k] = IF k < i THEN s[k] ELSE IF k = i THEN e ELSE s[k - 1]
<1> DEFINE a == SubSeq(s, 1, i - 1)
           b == SubSeq(s, i, Len(s))
<1>0. Len(s) \in Nat /\ \A k \in 1..Len(s) : s[k] \in S
  BY ElementOfSeq, LenProperties
<1>1. /\ a \in Seq(S) /\ Len(a) = i - 1
      /\ \A k \in 1..(i - 1) : a[k] = s[k]
  BY <1>0, SubSeqProperties, Z3
<1>2. /\ b \in Seq(S) /\ Len(b) = Len(s) - i + 1
      /\ \A k \in 1..(Len(s) - i + 1) : b[k] = s[i + k - 1]
  BY <1>0, SubSeqProperties, Z3
<1> HIDE DEF a, b
<1> DEFINE c == a \o <<e>>
<1>3. /\ c \in Seq(S) /\ Len(c) = i
      /\ \A k \in 1..i : c[k] = IF k < i THEN a[k] ELSE e
  <2>1. <<e>> \in Seq(S) /\ Len(<<e>>) = 1 /\ <<e>>[1] = e
    OBVIOUS
  <2> HIDE DEF c
  <2>2. /\ c \in Seq(S) /\ Len(c) = Len(a) + 1
        /\ \A k \in 1..(Len(a) + 1) :
              c[k] = IF k <= Len(a) THEN a[k] ELSE <<e>>[k - Len(a)]
    BY <1>1, <2>1, ConcatProperties DEF c
  <2> QED
    BY <1>0, <1>1, <2>1, <2>2
<1> HIDE DEF c
<1>4. /\ c \o b \in Seq(S)
      /\ Len(c \o b) = Len(c) + Len(b)
      /\ \A k \in 1..(Len(c) + Len(b)) :
            (c \o b)[k] = IF k <= Len(c) THEN c[k] ELSE b[k - Len(c)]
  BY <1>2, <1>3, ConcatProperties
<1>5. InsertAt(s, i, e) = c \o b
  BY DEF InsertAt, a, b, c
<1>6. Len(c \o b) = Len(s) + 1
  BY <1>0, <1>2, <1>3, <1>4
<1>7. \A k \in 1..(Len(s) + 1) :
         (c \o b)[k] = IF k < i THEN s[k] ELSE IF k = i THEN e ELSE s[k - 1]
  <2> TAKE k \in 1..(Len(s) + 1)
  <2>1. (c \o b)[k] = IF k <= i THEN c[k] ELSE b[k - i]
    BY <1>0, <1>2, <1>3, <1>4
  <2>2. CASE k <= i
    BY <1>0, <1>1, <1>3, <2>1, <2>2
  <2>3. CASE k > i
    <3>1. k - i \in 1..(Len(s) - i + 1) /\ i + (k - i) - 1 = k - 1
      BY <1>0, <2>3
    <3>2. b[k - i] = s[k - 1]
      BY <1>2, <3>1
    <3> QED
      BY <1>0, <2>1, <2>3, <3>2
  <2>4. k <= i \/ k > i
    BY <1>0
  <2> QED
    BY <2>2, <2>3, <2>4
<1> QED
  BY <1>4, <1>5, <1>6, <1>7

\* The list d is the list with its element at i put at j.
Drops(d, S, list, i, j) ==
  /\ d \in Seq(S) /\ Len(d) = Len(list)
  /\ \A k \in 1..Len(list) :
       d[k] = IF k = j THEN list[i]
              ELSE IF k < j THEN IF k < i THEN list[k] ELSE list[k + 1]
                            ELSE IF k - 1 < i THEN list[k - 1] ELSE list[k]

LEMMA Dropped ==
  ASSUME NEW S, NEW list \in Seq(S), NEW i \in 1..Len(list), NEW j \in 1..Len(list)
  PROVE  Drops(InsertAt(RemoveAt(list, i), j, list[i]), S, list, i, j)
<1> DEFINE n == Len(list)
           r == RemoveAt(list, i)
<1>1. n \in Nat /\ list[i] \in S
  BY LenProperties, ElementOfSeq
<1>2. /\ r \in Seq(S) /\ Len(r) = n - 1
      /\ \A k \in 1..(n - 1) : r[k] = IF k < i THEN list[k] ELSE list[k + 1]
  BY Removal
<1> DEFINE d == InsertAt(r, j, list[i])
<1> HIDE DEF r
<1>3. /\ d \in Seq(S) /\ Len(d) = n
      /\ \A k \in 1..n : d[k] = IF k < j THEN r[k] ELSE IF k = j THEN list[i] ELSE r[k - 1]
  <2>1. j \in 1..(Len(r) + 1) /\ Len(r) + 1 = n
    BY <1>1, <1>2
  <2>2. ASSUME NEW e \in S
        PROVE  /\ InsertAt(r, j, e) \in Seq(S) /\ Len(InsertAt(r, j, e)) = Len(r) + 1
               /\ \A k \in 1..(Len(r) + 1) :
                     InsertAt(r, j, e)[k] = IF k < j THEN r[k] ELSE IF k = j THEN e ELSE r[k - 1]
    BY <1>2, <2>1, Insertion
  <2> QED
    BY <1>1, <2>1, <2>2
<1> HIDE DEF d
<1>4. ASSUME NEW k \in 1..n
      PROVE  d[k] = IF k = j THEN list[i]
                    ELSE IF k < j THEN IF k < i THEN list[k] ELSE list[k + 1]
                                  ELSE IF k - 1 < i THEN list[k - 1] ELSE list[k]
  <2>1. CASE k = j
    BY <1>1, <1>3, <2>1
  <2>2. CASE k < j
    BY <1>1, <1>2, <1>3, <2>2
  <2>3. CASE k > j
    <3>1. k - 1 \in 1..(n - 1) /\ (k - 1) + 1 = k
      BY <1>1, <2>3
    <3>2. r[k - 1] = IF k - 1 < i THEN list[k - 1] ELSE list[k]
      BY <1>2, <3>1
    <3> QED
      BY <1>1, <1>3, <2>3, <3>2
  <2>4. k = j \/ k < j \/ k > j
    BY <1>1
  <2> QED
    BY <2>1, <2>2, <2>3, <2>4
<1>5. Drops(d, S, list, i, j)
  BY <1>3, <1>4 DEF Drops
<1> QED
  BY <1>5 DEF d, r

(***************************************************************************)
(* What the lists of the recipe hold: the steps, the commands in the queue *)
(* and the lines of the file                                               *)
(***************************************************************************)
\* As Step, with no bound on the number of steps created; the settings are
\* those of the parameters, but for values that were refused.
StoredStep ==
  {s \in [id : Nat, kind : Kinds,
          parameters : UNION {[S -> Values] : S \in SUBSET Indices},
          settings : [Indices -> Values \union {Default}]] :
     \A i \in Indices :
       /\ i \notin DOMAIN s.parameters => s.settings[i] = Default
       /\ i \in DOMAIN s.parameters /\ <<s.kind, i, s.parameters[i]>> \notin Refused
          => s.settings[i] = s.parameters[i]}

TypeInv ==
  /\ steps \in Seq(StoredStep)
  /\ actions \in Seq(QueuedCommand)
  /\ file \in Seq(RecipeLine)
  /\ nextId \in Nat \ {0} /\ longest \in Nat

(***************************************************************************)
(* Setting a parameter, exporting and importing                            *)
(***************************************************************************)
LEMMA NewStepType ==
  ASSUME NEW k \in Kinds, nextId \in Nat
  PROVE  NewStep(k) \in StoredStep
<1>1. <<>> \in [{} -> Values]
  OBVIOUS
<1>2. <<>> \in UNION {[S -> Values] : S \in SUBSET Indices}
  BY <1>1
<1>3. NewStep(k) \in [id : Nat, kind : Kinds,
                       parameters : UNION {[S -> Values] : S \in SUBSET Indices},
                       settings : [Indices -> Values \union {Default}]]
  BY <1>2 DEF NewStep
<1>4. NewStep(k).parameters = <<>> /\ NewStep(k).settings = [i \in Indices |-> Default]
  BY DEF NewStep
<1>5. DOMAIN <<>> = {}
  OBVIOUS
<1> QED
  BY <1>3, <1>4, <1>5 DEF StoredStep

LEMMA SetParameterType ==
  ASSUME NEW s \in StoredStep, NEW i \in Indices, NEW v \in Values
  PROVE  SetParameter(s, i, v) \in StoredStep
<1>1. PICK S \in SUBSET Indices : s.parameters \in [S -> Values]
  BY DEF StoredStep
<1> DEFINE parameters == [j \in DOMAIN s.parameters \union {i} |->
                            IF j = i THEN v ELSE s.parameters[j]]
           settings == IF <<s.kind, i, v>> \in Refused THEN s.settings
                       ELSE [s.settings EXCEPT ![i] = v]
<1>2. parameters \in [S \union {i} -> Values] /\ S \union {i} \in SUBSET Indices
  BY <1>1
<1>3. settings \in [Indices -> Values \union {Default}]
  BY DEF StoredStep
<1>4. SetParameter(s, i, v) = [s EXCEPT !.parameters = parameters, !.settings = settings]
  BY DEF SetParameter
<1>5. ASSUME NEW j \in Indices
      PROVE  /\ j \notin DOMAIN parameters => settings[j] = Default
             /\ j \in DOMAIN parameters /\ <<s.kind, j, parameters[j]>> \notin Refused
                => settings[j] = parameters[j]
  <2>1. /\ j \notin DOMAIN s.parameters => s.settings[j] = Default
        /\ j \in DOMAIN s.parameters /\ <<s.kind, j, s.parameters[j]>> \notin Refused
           => s.settings[j] = s.parameters[j]
    BY DEF StoredStep
  <2>2. CASE j = i
    BY <1>3, <2>2 DEF StoredStep
  <2>3. CASE j # i
    BY <2>1, <2>3
  <2> QED
    BY <2>2, <2>3
<1> HIDE DEF parameters, settings
<1>6. parameters \in UNION {[T -> Values] : T \in SUBSET Indices}
  BY <1>2
<1> DEFINE r == SetParameter(s, i, v)
<1>7. /\ r \in [id : Nat, kind : Kinds,
               parameters : UNION {[T -> Values] : T \in SUBSET Indices},
               settings : [Indices -> Values \union {Default}]]
      /\ r.kind = s.kind /\ r.parameters = parameters /\ r.settings = settings
  BY <1>3, <1>4, <1>6 DEF StoredStep
<1> HIDE DEF r
<1>8. r \in StoredStep
  BY <1>5, <1>7 DEF StoredStep
<1> QED
  BY <1>8 DEF r

LEMMA ExportType ==
  ASSUME NEW s \in StoredStep
  PROVE  Export(s) \in RecipeLine
<1> DEFINE last == Max(DOMAIN s.parameters \union {0})
           W == Words \union {Star}
           Word(i) == IF i \notin DOMAIN s.parameters THEN <<Star>>
                      ELSE IF s.parameters[i] = Empty THEN <<>> ELSE <<s.parameters[i]>>
           words == [i \in 1..last |-> Word(i)]
<1>1. PICK S \in SUBSET Indices : s.parameters \in [S -> Values]
  BY DEF StoredStep
<1>2. last \in Nat
  <2> HIDE DEF Word, words, last
  <2> DEFINE T == DOMAIN s.parameters \union {0}
  <2>1. NrParameters \in Nat
    BY ConstantsAssumption
  <2>2. T \in SUBSET (0..NrParameters) /\ T # {}
    <3>1. DOMAIN s.parameters \subseteq 1..NrParameters
      BY <1>1 DEF Indices
    <3> QED
      BY <2>1, <3>1
  <2> HIDE DEF T
  <2> DEFINE m == Max(T)
  <2>3. m \in T
    BY <2>1, <2>2, MaxIsIn
  <2> HIDE DEF m
  <2>4. m \in Nat
    BY <2>1, <2>2, <2>3
  <2> QED
    BY <2>4 DEF T, m, last
<1>3. ASSUME NEW i \in 1..last
      PROVE  Word(i) \in Seq(W)
  <2>1. CASE i \notin DOMAIN s.parameters
    <3>1. <<Star>> \in Seq(W)
      OBVIOUS
    <3> QED
      BY <2>1, <3>1
  <2>2. CASE i \in DOMAIN s.parameters
    <3>1. s.parameters[i] \in Words \union {Empty}
      BY <1>1, <2>2 DEF Values
    <3> DEFINE v == s.parameters[i]
    <3> HIDE DEF v
    <3>2. CASE v = Empty
      BY <2>2, <3>2, EmptySeq DEF v
    <3>3. CASE v # Empty
      <4>1. <<v>> \in Seq(W)
        BY <3>1, <3>3 DEF v
      <4> QED
        BY <2>2, <3>3, <4>1 DEF v
    <3> QED
      BY <3>2, <3>3
  <2> QED
    BY <2>1, <2>2
<1> HIDE DEF last
<1>4. words \in [1..last -> Seq(W)]
  BY <1>3
<1>5. words \in Seq(Seq(W))
  BY <1>2, <1>4, FunctionIsSeq
<1>6. FlattenSeq(words) \in Seq(W)
  BY <1>5, Flattened
<1>7. Export(s) = [kind |-> s.kind, words |-> FlattenSeq(words),
                   blank |-> last # 0 /\ s.parameters[last] = Empty]
  BY DEF Export, last
<1> HIDE DEF words
<1>8. s.kind \in Kinds /\ (last # 0 /\ s.parameters[last] = Empty) \in BOOLEAN
  BY DEF StoredStep
<1> QED
  BY <1>6, <1>7, <1>8 DEF RecipeLine

LEMMA CommandType ==
  ASSUME NEW name \in Names, NEW i \in Nat,
         name \notin {"add", "parameter", "initialize_parameter"},
         name = "move_down_step" => i # 0
  PROVE  /\ Command(name, i) \in QueuedCommand
         /\ \A r \in Seq(RecipeLine) : [Command(name, i) EXCEPT !.recipe = r] \in QueuedCommand
         /\ \A j \in Nat : [Command(name, i) EXCEPT !.destination = j] \in QueuedCommand
<1>1. <<>> \in Seq(RecipeLine)
  BY EmptySeq
<1> QED
  BY <1>1 DEF Command, QueuedCommand, Values

LEMMA AddCommandType ==
  ASSUME NEW i \in Nat, NEW k \in Kinds
  PROVE  [Command("add", i) EXCEPT !.value = k] \in QueuedCommand
<1>1. <<>> \in Seq(RecipeLine)
  BY EmptySeq
<1>2. [Command("add", i) EXCEPT !.value = k]
        = [name |-> "add", index |-> i, destination |-> 0, value |-> k, recipe |-> <<>>]
  BY DEF Command
<1>3. [name |-> "add", index |-> i, destination |-> 0, value |-> k, recipe |-> <<>>]
        \in QueuedCommand
  BY <1>1 DEF QueuedCommand, Names
<1> QED
  BY <1>2, <1>3

LEMMA ParameterCommandType ==
  ASSUME NEW i \in Indices, NEW v \in Values
  PROVE  /\ Initialize(i, v) \in QueuedCommand
         /\ \A x \in Nat : [name |-> "parameter", index |-> i, destination |-> x, value |-> v,
                           recipe |-> <<>>] \in QueuedCommand
<1>1. <<>> \in Seq(RecipeLine) /\ i \in Nat
  BY EmptySeq, ConstantsAssumption DEF Indices
<1>2. Initialize(i, v) = [name |-> "initialize_parameter", index |-> i, destination |-> 0,
                          value |-> v, recipe |-> <<>>]
  BY DEF Initialize, Command
<1>3. Initialize(i, v) \in QueuedCommand
  BY <1>1, <1>2 DEF QueuedCommand, Names
<1>4. ASSUME NEW x \in Nat
      PROVE  [name |-> "parameter", index |-> i, destination |-> x, value |-> v,
              recipe |-> <<>>] \in QueuedCommand
  BY <1>1 DEF QueuedCommand, Names
<1> QED
  BY <1>3, <1>4

LEMMA ImportType ==
  ASSUME NEW line \in RecipeLine
  PROVE  Import(line) \in Seq(QueuedCommand)
<1> DEFINE values == IF line.blank THEN Append(line.words, Empty) ELSE line.words
           Set(i) == IF values[i] = Star \/ i \notin Indices THEN <<>>
                     ELSE <<Initialize(i, values[i])>>
           sets == [i \in DOMAIN values |-> Set(i)]
           add == [Command("add", 0) EXCEPT !.value = line.kind]
<1>1. values \in Seq(Values \union {Star})
  <2>1. line.words \in Seq(Values \union {Star})
    BY SeqMonotonic DEF RecipeLine, Values
  <2> QED
    BY <2>1, AppendProperties DEF Values
<1>2. ASSUME NEW i \in DOMAIN values
      PROVE  Set(i) \in Seq(QueuedCommand)
  <2>1. values[i] \in Values \union {Star}
    BY <1>1
  <2> HIDE DEF values
  <2>2. CASE values[i] = Star \/ i \notin Indices
    BY <2>2, EmptySeq
  <2>3. CASE values[i] # Star /\ i \in Indices
    <3>1. Initialize(i, values[i]) \in QueuedCommand
      BY <2>1, <2>3, ParameterCommandType
    <3> QED
      BY <2>3, <3>1
  <2> QED
    BY <2>2, <2>3
<1> HIDE DEF values
<1>3. Len(values) \in Nat /\ DOMAIN values = 1..Len(values)
  BY <1>1, LenProperties
<1>4. sets \in [1..Len(values) -> Seq(QueuedCommand)]
  BY <1>2, <1>3
<1>5. sets \in Seq(Seq(QueuedCommand))
  BY <1>3, <1>4, FunctionIsSeq
<1>6. FlattenSeq(sets) \in Seq(QueuedCommand)
  BY <1>5, Flattened
<1>7. <<add>> \in Seq(QueuedCommand)
  <2>1. add \in QueuedCommand
    BY AddCommandType DEF RecipeLine
  <2> HIDE DEF add
  <2> QED
    BY <2>1
<1>8. Import(line) = <<add>> \o FlattenSeq(sets)
  BY DEF Import, values
<1> HIDE DEF sets, add
<1> QED
  BY <1>6, <1>7, <1>8, ConcatProperties

LEMMA ImportAllType ==
  ASSUME NEW recipe \in Seq(RecipeLine)
  PROVE  ImportAll(recipe) \in Seq(QueuedCommand)
<1> DEFINE lists == [k \in DOMAIN recipe |-> Import(recipe[k])]
<1>1. Len(recipe) \in Nat /\ DOMAIN recipe = 1..Len(recipe)
  BY LenProperties
<1>2. lists \in [1..Len(recipe) -> Seq(QueuedCommand)]
  BY <1>1, ImportType, ElementOfSeq
<1>3. lists \in Seq(Seq(QueuedCommand))
  BY <1>1, <1>2, FunctionIsSeq
<1> QED
  BY <1>3, Flattened DEF ImportAll

(***************************************************************************)
(* The inductive invariant                                                 *)
(***************************************************************************)
LEMMA TypesInit == Init => TypeInv
BY EmptySeq DEF Init, TypeInv

LEMMA EnqueueTypes ==
  ASSUME TypeInv, NEW c \in QueuedCommand, Enqueue(c)
  PROVE  TypeInv'
<1>1. actions' \in Seq(QueuedCommand)
  BY AppendProperties DEF TypeInv, Enqueue
<1> QED
  BY <1>1 DEF TypeInv, Enqueue

LEMMA CallbackTypes == ASSUME TypeInv, Callback \/ Drop PROVE TypeInv'
<1> USE EnqueueTypes DEF Send
<1>1. ASSUME NEW i \in Positions
      PROVE  i \in Nat \ {0}
  BY <1>1 DEF Positions, TypeInv
<1>2. CASE Send(Command("save_recipe", 1)) \/ Send(Command("stop_step", 1))
  <2>1. Command("save_recipe", 1) \in QueuedCommand /\ Command("stop_step", 1) \in QueuedCommand
    BY CommandType DEF Names
  <2> QED
    BY <1>2, <2>1
<1>3. CASE \E r \in Recipes \union {file} : Send([Command("load_recipe", 1) EXCEPT !.recipe = r])
  <2>1. PICK r \in Recipes \union {file} : Send([Command("load_recipe", 1) EXCEPT !.recipe = r])
    BY <1>3
  <2>2. r \in Seq(RecipeLine)
    BY ConstantsAssumption DEF TypeInv
  <2>3. [Command("load_recipe", 1) EXCEPT !.recipe = r] \in QueuedCommand
    BY <2>2, CommandType DEF Names
  <2> QED
    BY <2>1, <2>3
<1>4. CASE \E k \in Kinds : Send([Command("add", 1) EXCEPT !.value = k])
  <2>1. PICK k \in Kinds : Send([Command("add", 1) EXCEPT !.value = k])
    BY <1>4
  <2>2. [Command("add", 1) EXCEPT !.value = k] \in QueuedCommand
    BY AddCommandType
  <2> QED
    BY <2>1, <2>2
<1>5. CASE \E n \in {"play_step", "remove_step", "move_up_step", "move_down_step"},
             i \in Positions : Send(Command(n, i))
  <2>1. PICK n \in {"play_step", "remove_step", "move_up_step", "move_down_step"},
             i \in Positions : Send(Command(n, i))
    BY <1>5
  <2>2. n \in Names /\ n \notin {"add", "parameter", "initialize_parameter"}
    BY DEF Names
  <2>3. Command(n, i) \in QueuedCommand
    BY <1>1, <2>2, CommandType
  <2> QED
    BY <2>1, <2>3
<1>6. CASE \E x \in 1..(nextId - 1), i \in Indices, v \in Values :
             Send([name |-> "parameter", index |-> i, destination |-> x, value |-> v,
                   recipe |-> <<>>])
  <2>1. PICK x \in 1..(nextId - 1), i \in Indices, v \in Values :
             Send([name |-> "parameter", index |-> i, destination |-> x, value |-> v,
                   recipe |-> <<>>])
    BY <1>6
  <2>2. x \in Nat
    BY DEF TypeInv
  <2>3. [name |-> "parameter", index |-> i, destination |-> x, value |-> v, recipe |-> <<>>]
          \in QueuedCommand
    BY <2>2, ParameterCommandType
  <2> QED
    BY <2>1, <2>3
<1>7. CASE Drop
  <2>1. PICK i \in Positions, j \in Positions :
          Send([Command("swap_steps", i) EXCEPT !.destination = j])
    BY <1>7 DEF Drop
  <2>2. [Command("swap_steps", i) EXCEPT !.destination = j] \in QueuedCommand
    BY <1>1, CommandType DEF Names
  <2> QED
    BY <2>1, <2>2
<1> QED
  BY <1>2, <1>3, <1>4, <1>5, <1>6, <1>7 DEF Callback

\* What the first command in the queue is, and that the others stay
LEMMA TakeTypes ==
  ASSUME TypeInv, actions # <<>>
  PROVE  Head(actions) \in QueuedCommand /\ Tail(actions) \in Seq(QueuedCommand)
BY HeadTailProperties DEF TypeInv

LEMMA EditTypes ==
  ASSUME TypeInv, RemoveStep \/ MoveDown \/ MoveUp \/ Swap
  PROVE  TypeInv'
<1>1. actions' \in Seq(QueuedCommand)
  BY TakeTypes DEF RemoveStep, MoveDown, MoveUp, Swap, Take
<1>2. UNCHANGED <<file, nextId, longest>>
  BY DEF RemoveStep, MoveDown, MoveUp, Swap, Take
<1>3. steps \in Seq(StoredStep) /\ Len(steps) \in Nat /\ DOMAIN steps = 1..Len(steps)
  BY LenProperties DEF TypeInv
<1>4. ASSUME NEW i \in DOMAIN steps, NEW j \in DOMAIN steps, Exchange(i, j)
      PROVE  steps' \in Seq(StoredStep)
  <2>1. steps[i] \in StoredStep /\ steps[j] \in StoredStep
    BY <1>3, ElementOfSeq
  <2>2. [steps EXCEPT ![i] = steps[j]] \in Seq(StoredStep)
    BY <1>3, <2>1, ExceptSeq
  <2> DEFINE s == [steps EXCEPT ![i] = steps[j], ![j] = steps[i]]
  <2>3. s \in [1..Len(steps) -> StoredStep]
    BY <1>3, <2>1, LenProperties
  <2> HIDE DEF s
  <2>4. s \in Seq(StoredStep)
    BY <1>3, <2>3, FunctionIsSeq
  <2> QED
    BY <1>4, <2>4 DEF Exchange, s
<1>5. steps' \in Seq(StoredStep)
  <2>1. CASE UNCHANGED steps
    BY <1>3, <2>1
  <2>2. CASE RemoveStep /\ Index \in DOMAIN steps
    <3>1. steps' = RemoveAt(steps, Index) /\ Index \in 1..Len(steps)
      BY <1>3, <2>2 DEF RemoveStep
    <3> QED
      BY <1>3, <3>1, Removal
  <2>3. CASE Swap /\ {Index, Destination} \subseteq DOMAIN steps /\ Index # Destination
    <3> DEFINE i == Index
               j == Destination
    <3>1. /\ steps' = InsertAt(RemoveAt(steps, i), j, steps[i])
          /\ i \in 1..Len(steps) /\ j \in 1..Len(steps)
      BY <1>3, <2>3 DEF Swap, Moved
    <3> HIDE DEF i, j
    <3>2. InsertAt(RemoveAt(steps, i), j, steps[i]) \in Seq(StoredStep)
      BY <1>3, <3>1, Dropped DEF Drops
    <3> QED
      BY <3>1, <3>2
  <2>4. CASE MoveDown /\ Index + 1 \in DOMAIN steps
    <3>1. Head(actions) \in QueuedCommand /\ Head(actions).name = "move_down_step"
      BY <2>4, TakeTypes DEF MoveDown, Take
    <3>2. Index \in Nat \ {0}
      BY <3>1 DEF Index, QueuedCommand
    <3>3. Index \in DOMAIN steps
      BY <1>3, <2>4, <3>2
    <3> QED
      BY <1>4, <2>4, <3>3 DEF MoveDown
  <2>5. CASE MoveUp /\ Index \in DOMAIN steps /\ Index > 1
    <3>1. Index - 1 \in DOMAIN steps
      BY <1>3, <2>5
    <3> QED
      BY <1>4, <2>5, <3>1 DEF MoveUp
  <2> QED
    BY <2>1, <2>2, <2>3, <2>4, <2>5 DEF RemoveStep, MoveDown, MoveUp, Swap
<1> QED
  BY <1>1, <1>2, <1>3, <1>5 DEF TypeInv

LEMMA SetTypes ==
  ASSUME TypeInv, Add \/ Parameter \/ InitializeParameter
  PROVE  TypeInv'
<1>1. /\ Head(actions) \in QueuedCommand /\ actions' \in Seq(QueuedCommand)
      /\ UNCHANGED <<file, longest>>
  BY TakeTypes DEF Add, Parameter, InitializeParameter, Take
<1>2. steps \in Seq(StoredStep) /\ Len(steps) \in Nat /\ DOMAIN steps = 1..Len(steps)
  BY LenProperties DEF TypeInv
<1>3. nextId' \in Nat \ {0}
  BY DEF TypeInv, Add, Parameter, InitializeParameter
<1>4. CASE Add
  <2>1. Head(actions).value \in Kinds
    BY <1>1, <1>4 DEF Add, Take, QueuedCommand
  <2>2. NewStep(Head(actions).value) \in StoredStep
    BY <2>1, NewStepType DEF TypeInv
  <2>3. steps' \in Seq(StoredStep)
    BY <1>2, <1>4, <2>2, AppendProperties DEF Add
  <2> QED
    BY <1>1, <1>3, <2>3 DEF TypeInv
<1>5. ASSUME Parameter \/ InitializeParameter, NEW s \in StoredStep
      PROVE  SetParameter(s, Index, Head(actions).value) \in StoredStep
  <2>1. Index \in Indices /\ Head(actions).value \in Values
    BY <1>1, <1>5 DEF Parameter, InitializeParameter, Take, QueuedCommand, Index
  <2> QED
    BY <2>1, SetParameterType
<1>6. CASE Parameter
  <2> DEFINE new == [k \in 1..Len(steps) |->
                       IF steps[k].id = Destination
                       THEN SetParameter(steps[k], Index, Head(actions).value) ELSE steps[k]]
  <2>1. new \in [1..Len(steps) -> StoredStep]
    BY <1>2, <1>5, <1>6, ElementOfSeq
  <2>2. steps' = new
    BY <1>2, <1>6 DEF Parameter
  <2> HIDE DEF new
  <2>3. steps' \in Seq(StoredStep)
    BY <1>2, <2>1, <2>2, FunctionIsSeq
  <2> QED
    BY <1>1, <1>3, <2>3 DEF TypeInv
<1>7. CASE InitializeParameter
  <2>1. CASE steps = <<>>
    BY <1>1, <1>2, <1>3, <1>7, <2>1 DEF InitializeParameter, TypeInv
  <2>2. CASE steps # <<>>
    <3>1. Len(steps) \in 1..Len(steps)
      BY <1>2, <2>2, EmptySeq
    <3> DEFINE e == SetParameter(steps[Len(steps)], Index, Head(actions).value)
    <3>2. e \in StoredStep
      BY <1>2, <1>5, <1>7, <3>1, ElementOfSeq
    <3>3. steps' = [steps EXCEPT ![Len(steps)] = e]
      BY <1>7, <2>2 DEF InitializeParameter
    <3> HIDE DEF e
    <3>4. steps' \in Seq(StoredStep)
      BY <1>2, <3>1, <3>2, <3>3, ExceptSeq
    <3> QED
      BY <1>1, <1>3, <3>4 DEF TypeInv
  <2> QED
    BY <2>1, <2>2
<1> QED
  BY <1>4, <1>6, <1>7

LEMMA FileTypes == ASSUME TypeInv, Save \/ Load PROVE TypeInv'
<1>1. CASE Save
  <2>1. Len(steps) \in Nat /\ DOMAIN steps = 1..Len(steps)
    BY LenProperties DEF TypeInv
  <2>2. ExportAll \in [1..Len(steps) -> RecipeLine]
    BY <2>1, ExportType, ElementOfSeq DEF ExportAll, TypeInv
  <2>3. ExportAll \in Seq(RecipeLine)
    BY <2>1, <2>2, FunctionIsSeq
  <2>4. actions' \in Seq(QueuedCommand)
    BY <1>1, TakeTypes DEF Save
  <2> QED
    BY <1>1, <2>3, <2>4 DEF Save, TypeInv
<1>2. CASE Load
  <2>1. Head(actions).recipe \in Seq(RecipeLine)
    BY <1>2, TakeTypes DEF Load, QueuedCommand
  <2>2. actions' \in Seq(QueuedCommand)
    BY <1>2, <2>1, ImportAllType DEF Load
  <2>3. steps' \in Seq(StoredStep)
    BY <1>2, EmptySeq DEF Load
  <2> QED
    BY <1>2, <2>2, <2>3 DEF Load, TypeInv
<1> QED
  BY <1>1, <1>2

LEMMA TypesStep == TypeInv /\ [Next]_vars => TypeInv'
<1> SUFFICES ASSUME TypeInv, [Next]_vars PROVE TypeInv'
  OBVIOUS
<1>1. CASE UNCHANGED <<steps, actions, file, nextId, longest>>
  BY <1>1 DEF TypeInv
<1>2. CASE UNCHANGED vars \/ ToggleMode \/ Wake
  BY <1>1, <1>2 DEF vars, ToggleMode, Wake
<1>3. CASE QueueToggle
  <2>1. Command("toggle_mode", 1) \in QueuedCommand
    BY CommandType DEF Names
  <2> QED
    BY <1>3, <2>1, EnqueueTypes DEF QueueToggle
<1>4. CASE Play \/ Stop \/ IgnoreToggle
  <2>1. actions' \in Seq(QueuedCommand)
    BY <1>4, TakeTypes DEF Play, Stop, IgnoreToggle, Take
  <2> QED
    BY <1>4, <2>1 DEF Play, Stop, IgnoreToggle, Take, TypeInv
<1>5. CASE Perform
  <2> DEFINE M == {longest, Len(steps)}
  <2>1. longest \in Nat /\ Len(steps) \in Nat
    BY LenProperties DEF TypeInv
  <2>2. longest + Len(steps) \in Nat /\ M \in SUBSET (0..(longest + Len(steps))) /\ M # {}
    BY <2>1
  <2>3. longest' = Max(M)
    BY <1>5 DEF Perform
  <2> HIDE DEF M
  <2>4. longest' \in M
    BY <2>2, <2>3, MaxIsIn
  <2>5. longest' \in Nat
    BY <2>1, <2>4 DEF M
  <2> QED
    BY <1>5, <2>5 DEF Perform, TypeInv
<1> QED
  BY <1>2, <1>3, <1>4, <1>5, CallbackTypes, EditTypes, SetTypes, FileTypes DEF Next, Process

\* The queue holds commands that the loop knows, with positions that a page
\* has shown; exporting and importing a recipe keeps it a list of lines, and
\* the settings of a step are those of its parameters, but for refused values.
THEOREM ListsAreTyped == Spec => []TypeInv
BY TypesInit, TypesStep, PTL DEF Spec

(***************************************************************************)
(* The inductive invariant                                                 *)
(***************************************************************************)
Elements(list) == {list[k] : k \in 1..Len(list)}

\* A list of steps, each with an id of its own that is less than n.
WellFormed(list, n) ==
  /\ list \in Seq(Elements(list))
  /\ \A k \in 1..Len(list) : "id" \in DOMAIN list[k] /\ list[k].id \in 1..(n - 1)
  /\ \A j, k \in 1..Len(list) : list[j].id = list[k].id => j = k

\* Step a alone has been started; 0 is none.
Running(a) == [x \in Ids |-> IF x = a THEN 1 ELSE 0]

ActiveId == IF activeStep = 0 THEN 0 ELSE steps[activeStep].id

IInv ==
  /\ nextId \in Nat \ {0}
  /\ WellFormed(steps, nextId)
  /\ activeStep \in 0..Len(steps)
  /\ starts = Running(ActiveId)

LEMMA InvariantInit == Init => IInv
<1> SUFFICES ASSUME Init PROVE IInv
  OBVIOUS
<1>1. steps \in Seq(Elements(steps)) /\ Len(steps) = 0
  BY DEF Init
<1> QED
  BY <1>1 DEF Init, IInv, WellFormed, Running, ActiveId

LEMMA InvariantSuffices == IInv => OnlyActiveRuns
<1> SUFFICES ASSUME IInv, NEW x \in Ids
             PROVE  starts[x] = IF activeStep \in DOMAIN steps /\ steps[activeStep].id = x
                                THEN 1 ELSE 0
  BY DEF OnlyActiveRuns
<1>1. DOMAIN steps = 1..Len(steps) /\ Len(steps) \in Nat
  BY LenProperties DEF IInv, WellFormed
<1>2. x # 0
  BY DEF Ids
<1> QED
  BY <1>1, <1>2 DEF IInv, Running, ActiveId

\* finish() of the active step and start() of another leave only that running.
LEMMA SwitchRuns ==
  ASSUME IInv, NEW j \in 0..Len(steps), Switch(activeStep, j)
  PROVE  starts' = Running(IF j = 0 THEN 0 ELSE steps[j].id)
<1> DEFINE finished == IF activeStep = 0 THEN starts
                       ELSE [starts EXCEPT ![steps[activeStep].id] = @ - 1]
<1>1. finished = Running(0)
  <2>1. CASE activeStep = 0
    BY <2>1 DEF IInv, ActiveId
  <2>2. CASE activeStep # 0
    <3> DEFINE a == steps[activeStep].id
    <3>1. starts = Running(a) /\ a # 0
      BY <2>2, LenProperties DEF IInv, ActiveId, WellFormed
    <3> HIDE DEF a
    <3>2. [starts EXCEPT ![a] = @ - 1] = Running(0)
      <4>1. [Running(a) EXCEPT ![a] = @ - 1]
              = [x \in Ids |-> IF x = a THEN Running(a)[a] - 1 ELSE Running(a)[x]]
        BY DEF Running
      <4>2. \A x \in Ids : (IF x = a THEN Running(a)[a] - 1 ELSE Running(a)[x])
                            = (IF x = 0 THEN 1 ELSE 0)
        BY DEF Running, Ids
      <4> QED
        BY <3>1, <4>1, <4>2 DEF Running
    <3> QED
      BY <2>2, <3>2 DEF a
  <2> QED
    BY <2>1, <2>2
<1>2. starts' = IF j = 0 THEN finished ELSE [finished EXCEPT ![steps[j].id] = @ + 1]
  BY DEF Switch
<1> HIDE DEF finished
<1>3. CASE j = 0
  BY <1>1, <1>2, <1>3
<1>4. CASE j # 0
  <2> DEFINE b == steps[j].id
  <2>1. starts' = [Running(0) EXCEPT ![b] = @ + 1]
    BY <1>1, <1>2, <1>4
  <2> HIDE DEF b
  <2>2. [Running(0) EXCEPT ![b] = @ + 1] = Running(b)
    <3>1. [Running(0) EXCEPT ![b] = @ + 1]
            = [x \in Ids |-> IF x = b THEN Running(0)[b] + 1 ELSE Running(0)[x]]
      BY DEF Running
    <3>2. \A x \in Ids : (IF x = b THEN Running(0)[b] + 1 ELSE Running(0)[x])
                          = (IF x = b THEN 1 ELSE 0)
      BY DEF Running, Ids
    <3> QED
      BY <3>1, <3>2 DEF Running
  <2> QED
    BY <1>4, <2>1, <2>2 DEF b
<1> QED
  BY <1>3, <1>4

\* Step k of the new list has the id of step p[k] of the old one.
Rearranges(p, new, list) ==
  /\ p \in [1..Len(new) -> 1..Len(list)]
  /\ \A j, k \in 1..Len(new) : p[j] = p[k] => j = k
  /\ \A k \in 1..Len(new) : "id" \in DOMAIN new[k] /\ new[k].id = list[p[k]].id

LEMMA Rearranged ==
  ASSUME NEW n \in Nat, NEW list, NEW S, NEW new \in Seq(S), NEW p,
         WellFormed(list, n), Rearranges(p, new, list)
  PROVE  WellFormed(new, n)
<1> USE DEF Rearranges
<1>1. new \in Seq(Elements(new))
  <2>1. Len(new) \in Nat /\ new \in [1..Len(new) -> S] /\ DOMAIN new = 1..Len(new)
    BY LenProperties
  <2>2. new \in [1..Len(new) -> Elements(new)]
    BY <2>1 DEF Elements
  <2> QED
    BY <2>1, <2>2, SeqDef
<1>2. ASSUME NEW k \in 1..Len(new)
      PROVE  p[k] \in 1..Len(list) /\ new[k].id \in 1..(n - 1)
  BY <1>2 DEF WellFormed
<1>3. ASSUME NEW j \in 1..Len(new), NEW k \in 1..Len(new), new[j].id = new[k].id
      PROVE  j = k
  <2>1. p[j] \in 1..Len(list) /\ p[k] \in 1..Len(list) /\ list[p[j]].id = list[p[k]].id
    BY <1>2, <1>3
  <2>2. p[j] = p[k]
    BY <2>1 DEF WellFormed
  <2> QED
    BY <2>2
<1> QED
  BY <1>1, <1>2, <1>3 DEF WellFormed

(***************************************************************************)
(* The edits of the list                                                   *)
(***************************************************************************)
LEMMA Facts ==
  ASSUME IInv
  PROVE  /\ steps \in Seq(Elements(steps))
         /\ Len(steps) \in Nat /\ DOMAIN steps = 1..Len(steps)
         /\ \A k \in 1..Len(steps) : "id" \in DOMAIN steps[k]
                                    /\ steps[k] \in Elements(steps)
         /\ nextId \in Nat
BY LenProperties DEF IInv, WellFormed, Elements

LEMMA RemovalStep == ASSUME IInv, RemoveStep PROVE IInv'
<1> DEFINE i == Index
           n == Len(steps)
<1>0. n \in Nat /\ DOMAIN steps = 1..n /\ steps \in Seq(Elements(steps))
  BY Facts
<1>1. CASE i \notin DOMAIN steps
  BY <1>1 DEF RemoveStep, IInv, ActiveId
<1>2. CASE i \in DOMAIN steps
  <2>1. /\ Switch(IF activeStep = i THEN i ELSE 0, 0)
        /\ activeStep' = IF activeStep = i THEN 0
                         ELSE IF activeStep > i THEN activeStep - 1 ELSE activeStep
        /\ steps' = RemoveAt(steps, i)
        /\ nextId' = nextId
    BY <1>2 DEF RemoveStep
  <2> HIDE DEF i
  <2>2. /\ steps' \in Seq(Elements(steps))
        /\ Len(steps') = n - 1
        /\ \A k \in 1..(n - 1) : steps'[k] = IF k < i THEN steps[k] ELSE steps[k + 1]
    BY <1>0, <1>2, <2>1, Removal
  <2> DEFINE p == [k \in 1..(n - 1) |-> IF k < i THEN k ELSE k + 1]
  <2>3. /\ p \in [1..Len(steps') -> 1..Len(steps)]
        /\ \A k \in 1..Len(steps') : steps'[k] = steps[p[k]]
        /\ \A j, k \in 1..Len(steps') : p[j] = p[k] => j = k
    BY <1>0, <1>2, <2>2
  <2> HIDE DEF p
  <2>4. WellFormed(steps', nextId')
    <3>1. Rearranges(p, steps', steps)
      BY <2>3, Facts DEF Rearranges
    <3>2. nextId' = nextId /\ nextId \in Nat /\ WellFormed(steps, nextId)
      BY <2>1, Facts DEF IInv
    <3> SUFFICES ASSUME NEW new, new = steps'
                 PROVE  WellFormed(new, nextId)
      BY <3>2
    <3> QED
      BY <2>2, <3>1, <3>2, Rearranged
  <2>5. CASE activeStep = i
    <3>1. starts' = Running(0)
      BY <1>0, <2>1, <2>5, SwitchRuns
    <3> QED
      BY <1>0, <2>1, <2>2, <2>4, <2>5, <3>1, <1>2 DEF IInv, ActiveId
  <2>6. CASE activeStep # i
    <3>1. starts' = starts
      BY <1>0, <1>2, <2>1, <2>6 DEF Switch
    <3>2. activeStep' \in 0..Len(steps')
      BY <1>0, <1>2, <2>1, <2>2, <2>6 DEF IInv
    <3>3. ActiveId' = ActiveId
      <4>1. CASE activeStep = 0
        BY <1>0, <1>2, <2>1, <2>6, <4>1 DEF ActiveId
      <4>2. CASE activeStep # 0
        <5>1. activeStep' \in 1..(n - 1) /\ steps'[activeStep'] = steps[activeStep]
          <6>1. activeStep \in 1..n /\ i \in 1..n
            BY <1>0, <1>2, <4>2 DEF IInv
          <6>2. CASE activeStep < i
            BY <1>0, <2>1, <2>2, <6>1, <6>2
          <6>3. CASE activeStep > i
            BY <1>0, <2>1, <2>2, <6>1, <6>3
          <6> QED
            BY <1>0, <2>6, <6>1, <6>2, <6>3
        <5> QED
          BY <4>2, <5>1 DEF ActiveId
      <4> QED
        BY <4>1, <4>2
    <3> QED
      BY <2>1, <2>4, <3>1, <3>2, <3>3 DEF IInv, Running
  <2> QED
    BY <2>5, <2>6
<1> QED
  BY <1>1, <1>2

LEMMA ExchangeStep ==
  ASSUME IInv, NEW i \in 1..Len(steps), NEW j \in 1..Len(steps), i # j, Exchange(i, j),
         UNCHANGED <<starts, nextId>>
  PROVE  IInv'
<1> DEFINE n == Len(steps)
<1>0. n \in Nat /\ DOMAIN steps = 1..n /\ steps \in Seq(Elements(steps))
  BY Facts
<1>1. steps' = [steps EXCEPT ![i] = steps[j], ![j] = steps[i]]
  BY DEF Exchange
<1>2. /\ steps' \in Seq(Elements(steps)) /\ Len(steps') = n
      /\ \A k \in 1..n : steps'[k] = IF k = i THEN steps[j] ELSE IF k = j THEN steps[i] ELSE steps[k]
  BY <1>0, <1>1, Facts
<1> DEFINE p == [k \in 1..n |-> IF k = i THEN j ELSE IF k = j THEN i ELSE k]
<1>3. /\ p \in [1..Len(steps') -> 1..Len(steps)]
      /\ \A k \in 1..Len(steps') : steps'[k] = steps[p[k]]
      /\ \A x, y \in 1..Len(steps') : p[x] = p[y] => x = y
  BY <1>2
<1> HIDE DEF p
<1>4. WellFormed(steps', nextId')
  <2>1. Rearranges(p, steps', steps)
    BY <1>3, Facts DEF Rearranges
  <2>2. nextId' = nextId /\ nextId \in Nat /\ WellFormed(steps, nextId)
    BY Facts DEF IInv
  <2> SUFFICES ASSUME NEW new, new = steps'
               PROVE  WellFormed(new, nextId)
    BY <2>2
  <2> QED
    BY <1>2, <2>1, <2>2, Rearranged
<1>5. activeStep' \in 0..Len(steps')
  BY <1>2 DEF IInv, Exchange
<1>6. ActiveId' = ActiveId
  BY <1>0, <1>2 DEF IInv, ActiveId, Exchange
<1> QED
  BY <1>4, <1>5, <1>6 DEF IInv, Running

LEMMA SwapStep == ASSUME IInv, Swap PROVE IInv'
<1> DEFINE i == Index
           j == Destination
           n == Len(steps)
<1>0. n \in Nat /\ DOMAIN steps = 1..n /\ steps \in Seq(Elements(steps))
  BY Facts
<1>1. CASE ~(i \in DOMAIN steps /\ j \in DOMAIN steps /\ i # j)
  BY <1>1 DEF Swap, IInv, ActiveId
<1>2. CASE i \in DOMAIN steps /\ j \in DOMAIN steps /\ i # j
  <2>1. /\ steps' = InsertAt(RemoveAt(steps, i), j, steps[i])
        /\ activeStep' = IF activeStep = 0 THEN 0
                         ELSE IF activeStep = i THEN j
                         ELSE IF activeStep > i
                              THEN IF activeStep - 1 >= j THEN activeStep ELSE activeStep - 1
                              ELSE IF activeStep >= j THEN activeStep + 1 ELSE activeStep
        /\ starts' = starts /\ nextId' = nextId
    BY <1>0, <1>2 DEF Swap, Moved, IInv
  <2> HIDE DEF i, j
  <2>2. i \in 1..n /\ j \in 1..n /\ i # j
    BY <1>0, <1>2
  <2>3. /\ steps' \in Seq(Elements(steps))
        /\ Len(steps') = n
        /\ \A k \in 1..n : steps'[k] =
              IF k = j THEN steps[i]
              ELSE IF k < j THEN IF k < i THEN steps[k] ELSE steps[k + 1]
                            ELSE IF k - 1 < i THEN steps[k - 1] ELSE steps[k]
    <3> DEFINE d == InsertAt(RemoveAt(steps, i), j, steps[i])
    <3>1. Drops(d, Elements(steps), steps, i, j)
      BY <1>0, <2>2, Dropped
    <3> HIDE DEF d
    <3>2. steps' = d
      BY <2>1 DEF d
    <3> QED
      BY <3>1, <3>2 DEF Drops
  <2> DEFINE p == [k \in 1..n |-> IF k = j THEN i
                                  ELSE IF k < j THEN IF k < i THEN k ELSE k + 1
                                                ELSE IF k - 1 < i THEN k - 1 ELSE k]
  <2>4. p \in [1..Len(steps') -> 1..Len(steps)]
    BY <1>0, <2>2, <2>3
  <2>5. \A k \in 1..Len(steps') : steps'[k] = steps[p[k]]
    BY <1>0, <2>2, <2>3
  <2>6. \A x, y \in 1..Len(steps') : p[x] = p[y] => x = y
    BY <1>0, <2>2, <2>3
  <2> HIDE DEF p
  <2>7. WellFormed(steps', nextId')
    <3>1. Rearranges(p, steps', steps)
      BY <2>4, <2>5, <2>6, Facts DEF Rearranges
    <3>2. nextId' = nextId /\ nextId \in Nat /\ WellFormed(steps, nextId)
      BY <2>1, Facts DEF IInv
    <3> SUFFICES ASSUME NEW new, new = steps'
                 PROVE  WellFormed(new, nextId)
      BY <3>2
    <3> QED
      BY <2>3, <3>1, <3>2, Rearranged
  <2>8. activeStep' \in 0..Len(steps') /\ ActiveId' = ActiveId
    <3>0. activeStep \in 0..n
      BY DEF IInv
    <3>1. CASE activeStep = 0
      BY <1>0, <2>1, <2>3, <3>1 DEF ActiveId
    <3>2. CASE activeStep # 0
      <4>1. activeStep' \in 1..n /\ steps'[activeStep'] = steps[activeStep]
        <5>1. CASE activeStep = i
          BY <2>1, <2>2, <2>3, <3>0, <3>2, <5>1
        <5>2. CASE activeStep > i /\ activeStep - 1 >= j
          BY <1>0, <2>1, <2>2, <2>3, <3>0, <3>2, <5>2
        <5>3. CASE activeStep > i /\ activeStep - 1 < j
          BY <1>0, <2>1, <2>2, <2>3, <3>0, <3>2, <5>3
        <5>4. CASE activeStep < i /\ activeStep >= j
          BY <1>0, <2>1, <2>2, <2>3, <3>0, <3>2, <5>4
        <5>5. CASE activeStep < i /\ activeStep < j
          BY <1>0, <2>1, <2>2, <2>3, <3>0, <3>2, <5>5
        <5> QED
          BY <1>0, <2>2, <3>0, <5>1, <5>2, <5>3, <5>4, <5>5
      <4> QED
        BY <1>0, <2>3, <3>2, <4>1 DEF ActiveId
    <3> QED
      BY <3>1, <3>2
  <2> QED
    BY <2>1, <2>7, <2>8 DEF IInv, Running
<1> QED
  BY <1>1, <1>2

(***************************************************************************)
(* The other commands, and the steps that change no list                   *)
(***************************************************************************)
LEMMA AddStep == ASSUME IInv, Add PROVE IInv'
<1> DEFINE n == Len(steps)
           e == NewStep(Head(actions).value)
           S == Elements(steps) \union {e}
<1>1. /\ n \in Nat /\ DOMAIN steps = 1..n
      /\ steps \in Seq(Elements(steps)) /\ nextId \in Nat \ {0}
  BY Facts DEF IInv
<1>2. "id" \in DOMAIN e /\ e.id = nextId
  BY DEF NewStep
<1>3. /\ steps' = Append(steps, e) /\ nextId' = nextId + 1
      /\ activeStep' = activeStep /\ starts' = starts
  BY DEF Add
<1> HIDE DEF e
<1>4. steps \in Seq(S)
  BY <1>1, SeqMonotonic
<1>5. /\ steps' \in Seq(S) /\ Len(steps') = n + 1
      /\ \A k \in 1..n : steps'[k] = steps[k]
      /\ steps'[n + 1] = e
  BY <1>3, <1>4, AppendProperties
<1>6. steps' \in Seq(Elements(steps'))
  <2>1. DOMAIN steps' = 1..(n + 1) /\ steps' \in [1..(n + 1) -> S]
    BY <1>5, LenProperties
  <2>2. steps' \in [1..(n + 1) -> Elements(steps')]
    BY <1>5, <2>1 DEF Elements
  <2> QED
    BY <1>1, <2>2, SeqDef
<1>7. ASSUME NEW k \in 1..Len(steps')
      PROVE  "id" \in DOMAIN steps'[k] /\ steps'[k].id \in 1..nextId
  <2>1. CASE k \in 1..n
    BY <1>1, <1>5, <2>1 DEF IInv, WellFormed
  <2>2. CASE k = n + 1
    BY <1>1, <1>2, <1>5, <2>2
  <2> QED
    BY <1>1, <1>5, <2>1, <2>2
<1>8. ASSUME NEW j \in 1..Len(steps'), NEW k \in 1..Len(steps'), steps'[j].id = steps'[k].id
      PROVE  j = k
  <2>1. \A x \in 1..n : steps'[x].id = steps[x].id /\ steps[x].id \in 1..(nextId - 1)
    BY <1>5 DEF IInv, WellFormed
  <2>2. \A x, y \in 1..n : steps[x].id = steps[y].id => x = y
    BY DEF IInv, WellFormed
  <2>3. steps'[n + 1].id = nextId
    BY <1>2, <1>5
  <2>4. j \in 1..(n + 1) /\ k \in 1..(n + 1)
    BY <1>5
  <2> QED
    BY <1>1, <1>8, <2>1, <2>2, <2>3, <2>4
<1>9. ActiveId' = ActiveId
  BY <1>1, <1>3, <1>5 DEF IInv, ActiveId
<1> QED
  BY <1>1, <1>3, <1>5, <1>6, <1>7, <1>8, <1>9 DEF IInv, WellFormed, Running

\* Setting parameters leaves the ids and their order.
LEMMA SameIds ==
  ASSUME IInv, NEW S, NEW new \in Seq(S), steps' = new, Len(new) = Len(steps),
         \A k \in 1..Len(new) : "id" \in DOMAIN new[k] /\ new[k].id = steps[k].id,
         UNCHANGED <<activeStep, starts, nextId>>
  PROVE  IInv'
<1>1. Len(steps) \in Nat
  BY Facts
<1> DEFINE p == [k \in 1..Len(new) |-> k]
<1>2. Rearranges(p, new, steps)
  BY <1>1 DEF Rearranges
<1> HIDE DEF p
<1>3. nextId \in Nat /\ WellFormed(steps, nextId)
  BY Facts DEF IInv
<1>4. WellFormed(new, nextId)
  BY <1>2, <1>3, Rearranged
<1>5. ActiveId' = ActiveId
  BY <1>1 DEF IInv, ActiveId
<1> QED
  BY <1>4, <1>5 DEF IInv, Running

LEMMA SetParameterKeepsId ==
  ASSUME NEW s, NEW i, NEW v, "id" \in DOMAIN s
  PROVE  "id" \in DOMAIN SetParameter(s, i, v) /\ SetParameter(s, i, v).id = s.id
BY DEF SetParameter

LEMMA ParameterStep == ASSUME IInv, Parameter PROVE IInv'
<1> DEFINE n == Len(steps)
           new == [k \in 1..n |-> IF steps[k].id = Destination
                                  THEN SetParameter(steps[k], Index, Head(actions).value)
                                  ELSE steps[k]]
           S == {new[k] : k \in 1..n}
<1>1. n \in Nat /\ DOMAIN steps = 1..n /\ \A k \in 1..n : "id" \in DOMAIN steps[k]
  BY Facts
<1>2. steps' = new /\ UNCHANGED <<activeStep, starts, nextId>>
  BY <1>1 DEF Parameter
<1>3. \A k \in 1..n : "id" \in DOMAIN new[k] /\ new[k].id = steps[k].id
  BY <1>1, SetParameterKeepsId
<1>4. new \in Seq(S) /\ Len(new) = n
  <2>1. new \in [1..n -> S]
    OBVIOUS
  <2> HIDE DEF new, S
  <2> QED
    BY <1>1, <2>1, SeqDef, LenProperties
<1> HIDE DEF new, S
<1> QED
  BY <1>2, <1>3, <1>4, SameIds

LEMMA InitializeStep == ASSUME IInv, InitializeParameter PROVE IInv'
<1>1. CASE steps = <<>>
  BY <1>1 DEF InitializeParameter, IInv, ActiveId
<1>2. CASE steps # <<>>
  <2> DEFINE n == Len(steps)
             e == SetParameter(steps[n], Index, Head(actions).value)
             new == [steps EXCEPT ![n] = e]
             S == Elements(steps) \union {e}
  <2>1. /\ n \in Nat /\ steps \in Seq(Elements(steps))
        /\ \A k \in 1..n : "id" \in DOMAIN steps[k]
    BY Facts
  <2>2. n \in 1..Len(steps)
    BY <1>2, <2>1, EmptySeq
  <2>3. steps' = new /\ UNCHANGED <<activeStep, starts, nextId>>
    BY <1>2 DEF InitializeParameter
  <2>4. "id" \in DOMAIN e /\ e.id = steps[n].id
    BY <2>1, <2>2, SetParameterKeepsId
  <2> HIDE DEF e
  <2>5. steps \in Seq(S) /\ e \in S
    BY <2>1, SeqMonotonic
  <2>6. /\ new \in Seq(S) /\ Len(new) = Len(steps)
        /\ \A k \in 1..n : new[k] = IF k = n THEN e ELSE steps[k]
    BY <2>2, <2>5, ExceptSeq
  <2> HIDE DEF new, S
  <2>7. \A k \in 1..n : "id" \in DOMAIN new[k] /\ new[k].id = steps[k].id
    BY <2>1, <2>4, <2>6
  <2> QED
    BY <2>3, <2>6, <2>7, SameIds
<1> QED
  BY <1>1, <1>2

\* Loading deletes the list; playing, stopping and the loop's own step change
\* the active position.
LEMMA SwitchSteps ==
  ASSUME IInv, Load \/ Play \/ Stop \/ Perform
  PROVE  IInv'
<1> DEFINE n == Len(steps)
<1>0. n \in Nat /\ DOMAIN steps = 1..n /\ activeStep \in 0..n
  BY Facts DEF IInv
<1>1. CASE Load
  <2>1. starts' = Running(0)
    BY <1>0, <1>1, SwitchRuns DEF Load
  <2>2. steps' = <<>> /\ activeStep' = 0 /\ nextId' = nextId
    BY <1>1 DEF Load
  <2>3. steps' \in Seq(Elements(steps')) /\ Len(steps') = 0
    BY <2>2
  <2> QED
    BY <2>1, <2>2, <2>3 DEF IInv, WellFormed, ActiveId, Running
<1>2. ASSUME NEW j \in 0..n, Switch(activeStep, j), activeStep' = j,
             UNCHANGED <<steps, nextId>>
      PROVE  IInv'
  <2>1. starts' = Running(IF j = 0 THEN 0 ELSE steps[j].id)
    BY <1>2, SwitchRuns
  <2> QED
    BY <1>2, <2>1 DEF IInv, ActiveId, Running
<1>3. CASE UNCHANGED <<steps, activeStep, starts, nextId>>
  BY <1>3 DEF IInv, ActiveId, Running
<1>4. CASE Play
  <2>1. CASE Index \in DOMAIN steps
    BY <1>0, <1>2, <1>4, <2>1 DEF Play
  <2>2. CASE Index \notin DOMAIN steps
    BY <1>3, <1>4, <2>2 DEF Play
  <2> QED
    BY <2>1, <2>2
<1>5. CASE Stop
  BY <1>0, <1>2, <1>5 DEF Stop
<1>6. CASE Perform
  <2>1. CASE UNCHANGED <<activeStep, starts>>
    BY <1>3, <1>6, <2>1 DEF Perform
  <2>2. CASE ~UNCHANGED <<activeStep, starts>>
    <3>1. /\ activeStep' = IF activeStep < n THEN activeStep + 1 ELSE 0
          /\ Switch(activeStep, activeStep')
          /\ UNCHANGED <<steps, nextId>>
      BY <1>6, <2>2 DEF Perform
    <3>2. activeStep' \in 0..n
      BY <1>0, <3>1
    <3> QED
      BY <1>2, <3>1, <3>2
  <2> QED
    BY <2>1, <2>2
<1> QED
  BY <1>1, <1>4, <1>5, <1>6

LEMMA MoveSteps == ASSUME IInv, TypeInv, MoveUp \/ MoveDown PROVE IInv'
<1>0. Len(steps) \in Nat /\ DOMAIN steps = 1..Len(steps)
  BY Facts
<1>1. CASE UNCHANGED <<steps, activeStep, starts, nextId>>
  BY <1>1 DEF IInv, ActiveId, Running
<1>2. CASE MoveUp
  <2>1. CASE Index \in DOMAIN steps /\ Index > 1
    <3>1. /\ Exchange(Index, Index - 1) /\ UNCHANGED <<starts, nextId>>
          /\ Index \in 1..Len(steps) /\ Index - 1 \in 1..Len(steps) /\ Index # Index - 1
      BY <1>0, <1>2, <2>1 DEF MoveUp
    <3> QED
      BY <3>1, ExchangeStep
  <2>2. CASE ~(Index \in DOMAIN steps /\ Index > 1)
    BY <1>1, <1>2, <2>2 DEF MoveUp
  <2> QED
    BY <2>1, <2>2
<1>3. CASE MoveDown
  <2>1. CASE Index + 1 \in DOMAIN steps
    <3>1. Exchange(Index, Index + 1) /\ UNCHANGED <<starts, nextId>>
      BY <1>3, <2>1 DEF MoveDown
    <3>2. Head(actions) \in QueuedCommand /\ Head(actions).name = "move_down_step"
      BY <1>3, TakeTypes DEF MoveDown, Take
    <3>3. Index \in Nat \ {0}
      BY <3>2 DEF Index, QueuedCommand
    <3>4. Index \in 1..Len(steps) /\ Index + 1 \in 1..Len(steps) /\ Index # Index + 1
      BY <1>0, <2>1, <3>3
    <3> QED
      BY <3>1, <3>4, ExchangeStep
  <2>2. CASE Index + 1 \notin DOMAIN steps
    BY <1>1, <1>3, <2>2 DEF MoveDown
  <2> QED
    BY <2>1, <2>2
<1> QED
  BY <1>2, <1>3

LEMMA InvariantStep == IInv /\ TypeInv /\ [Next]_vars => IInv'
<1> SUFFICES ASSUME IInv, TypeInv, [Next]_vars PROVE IInv'
  OBVIOUS
<1>1. CASE UNCHANGED <<steps, activeStep, starts, nextId>>
  BY <1>1 DEF IInv, ActiveId, Running
<1>2. CASE UNCHANGED vars
  BY <1>1, <1>2 DEF vars
<1>3. ASSUME NEW c, Enqueue(c)
      PROVE  UNCHANGED <<steps, activeStep, starts, nextId>>
  BY <1>3 DEF Enqueue
<1>4. CASE Callback \/ Drop
  BY <1>1, <1>3, <1>4 DEF Callback, Drop, Send
<1>5. CASE ToggleMode \/ QueueToggle \/ Wake
  BY <1>1, <1>3, <1>5 DEF ToggleMode, QueueToggle, Wake
<1>6. CASE Save \/ IgnoreToggle
  BY <1>1, <1>6 DEF Save, IgnoreToggle
<1>7. CASE Process
  BY <1>6, <1>7, SwitchSteps, MoveSteps, AddStep, RemovalStep, SwapStep, ParameterStep,
     InitializeStep DEF Process
<1>8. CASE Perform
  BY <1>8, SwitchSteps
<1> QED
  BY <1>2, <1>4, <1>5, <1>7, <1>8 DEF Next

(***************************************************************************)
(* The result                                                              *)
(***************************************************************************)
\* A step has been started and not finished if and only if it is the active
\* one: BrewingPage::controlLoop calls start() and finish() in pairs, whatever
\* its commands do to the positions of the steps.
THEOREM OneStepRuns == Spec => []OnlyActiveRuns
<1>1. Spec => []IInv
  BY InvariantInit, InvariantStep, ListsAreTyped, PTL DEF Spec
<1> QED
  BY <1>1, InvariantSuffices, PTL

\* The recipe in the file is the one on the page as long as it counts as saved:
\* every command that changes a step or the list takes the flag back.
THEOREM SavedRecipeIsCurrent == Spec => []SavedIsCurrent
<1> USE DEF SavedIsCurrent
<1>1. Init => SavedIsCurrent
  BY DEF Init
<1>2. ASSUME SavedIsCurrent, [Next]_vars
      PROVE  SavedIsCurrent'
  <2>1. ASSUME UNCHANGED <<steps, recipeSaved, file>>
        PROVE  SavedIsCurrent'
    BY <1>2, <2>1 DEF ExportAll
  <2>2. CASE UNCHANGED vars
    BY <2>1, <2>2 DEF vars
  <2>3. CASE Callback \/ Drop \/ ToggleMode \/ QueueToggle \/ Wake \/ Perform
    BY <2>1, <2>3 DEF Callback, Drop, Send, Enqueue, ToggleMode, QueueToggle, Wake, Perform
  <2>4. CASE Save
    BY <2>4 DEF Save, ExportAll
  <2>5. CASE Process /\ ~Save
    <3>1. recipeSaved' = FALSE
      BY <2>5 DEF Process, Load, Add, Play, Stop, RemoveStep, MoveDown, MoveUp, Swap,
                  Parameter, InitializeParameter, IgnoreToggle, Take
    <3> QED
      BY <3>1
  <2> QED
    BY <1>2, <2>2, <2>3, <2>4, <2>5 DEF Next
<1> QED
  BY <1>1, <1>2, PTL DEF Spec

\* What a step dropped on another leaves of the list
LEMMA OthersKeepOrder ==
  ASSUME NEW S, NEW list \in Seq(S), NEW x \in 1..Len(list), NEW y \in 1..Len(list),
         NEW d, Drops(d, S, list, x, y)
  PROVE  /\ Len(d) = Len(list) /\ d[y] = list[x]
         /\ \A i, j \in DOMAIN list \ {x} : i < j => Before(list[i], list[j], d)
<1> DEFINE n == Len(list)
           closed(k) == IF k < x THEN k ELSE k - 1
           place(k) == IF closed(k) < y THEN closed(k) ELSE closed(k) + 1
<1>1. /\ n \in Nat /\ DOMAIN list = 1..n
      /\ d \in Seq(S) /\ Len(d) = n /\ DOMAIN d = 1..n
  BY LenProperties DEF Drops
<1> HIDE DEF n
<1>2. \A k \in 1..n :
        d[k] = IF k = y THEN list[x]
               ELSE IF k < y THEN IF k < x THEN list[k] ELSE list[k + 1]
                             ELSE IF k - 1 < x THEN list[k - 1] ELSE list[k]
  BY DEF Drops, n
<1>3. x \in 1..n /\ y \in 1..n
  BY DEF n
<1>4. ASSUME NEW k \in (1..n) \ {x}
      PROVE  place(k) \in 1..n /\ d[place(k)] = list[k]
  <2>1. k < x \/ k > x
    BY <1>1, <1>3
  <2>2. CASE k < x
    BY <1>1, <1>2, <1>3, <2>2
  <2>3. CASE k > x
    BY <1>1, <1>2, <1>3, <2>3
  <2> QED
    BY <2>1, <2>2, <2>3
<1>5. ASSUME NEW i \in (1..n) \ {x}, NEW j \in (1..n) \ {x}, i < j
      PROVE  place(i) < place(j)
  BY <1>1, <1>3, <1>5
<1> HIDE DEF place
<1>6. ASSUME NEW i \in DOMAIN list \ {x}, NEW j \in DOMAIN list \ {x}, i < j
      PROVE  Before(list[i], list[j], d)
  BY <1>1, <1>4, <1>5, <1>6 DEF Before
<1> QED
  BY <1>1, <1>2, <1>3, <1>6 DEF n

\* BrewingPage::drop moves the step that was dragged, and no other, in lists of
\* any length.
THEOREM DropsMoveOneStep == Spec => DropMovesOne
<1> DEFINE Moves ==
      (/\ loop = "process" /\ actions # <<>> /\ Head(actions).name = "swap_steps"
       /\ actions' = Tail(actions)
       /\ {Index, Destination} \subseteq DOMAIN steps)
      => /\ Len(steps') = Len(steps)
         /\ steps'[Destination] = steps[Index]
         /\ \A i, j \in DOMAIN steps \ {Index} : i < j => Before(steps[i], steps[j], steps')
<1>1. ASSUME TypeInv, [Next]_vars
      PROVE  Moves
  <2> SUFFICES ASSUME loop = "process", actions # <<>>, Head(actions).name = "swap_steps",
                      actions' = Tail(actions), {Index, Destination} \subseteq DOMAIN steps
               PROVE  /\ Len(steps') = Len(steps)
                      /\ steps'[Destination] = steps[Index]
                      /\ \A i, j \in DOMAIN steps \ {Index} :
                           i < j => Before(steps[i], steps[j], steps')
    OBVIOUS
  <2>1. /\ steps \in Seq(StoredStep) /\ Len(steps) \in Nat /\ DOMAIN steps = 1..Len(steps)
        /\ actions \in Seq(QueuedCommand)
    BY <1>1, LenProperties DEF TypeInv
  <2>2. actions' # actions
    <3>1. PICK n \in Nat : Len(actions) = n
      BY <2>1, LenProperties
    <3>2. Len(Tail(actions)) = n - 1
      BY <2>1, <3>1, HeadTailProperties
    <3>3. n - 1 # n
      OBVIOUS
    <3>4. Tail(actions) # actions
      BY <3>1, <3>2, <3>3, Zenon
    <3> QED
      BY <3>4, Zenon
  <2>3. ~(Callback \/ Drop \/ ToggleMode \/ QueueToggle \/ Wake \/ Perform)
    BY <2>2 DEF Callback, Drop, Send, Enqueue, ToggleMode, QueueToggle, Wake, Perform
  <2>4. Swap
    BY <1>1, <2>2, <2>3
       DEF Next, vars, Process, Save, Load, Add, Play, Stop, RemoveStep, MoveDown, MoveUp,
           Parameter, InitializeParameter, IgnoreToggle, Take
  <2>5. CASE Index = Destination
    <3>1. steps' = steps
      BY <2>4, <2>5 DEF Swap
    <3>2. \A i, j \in DOMAIN steps \ {Index} : i < j => Before(steps[i], steps[j], steps')
      BY <3>1 DEF Before
    <3> QED
      BY <2>5, <3>1, <3>2
  <2>6. CASE Index # Destination
    <3> DEFINE d == InsertAt(RemoveAt(steps, Index), Destination, steps[Index])
    <3>1. Index \in 1..Len(steps) /\ Destination \in 1..Len(steps)
      BY <2>1
    <3>2. Drops(d, StoredStep, steps, Index, Destination)
      BY <2>1, <3>1, Dropped
    <3>3. steps' = d
      BY <2>4, <2>6 DEF Swap, Moved
    <3> HIDE DEF d
    <3> QED
      BY <2>1, <3>1, <3>2, <3>3, OthersKeepOrder
  <2> QED
    BY <2>5, <2>6
<1>2. TypeInv /\ [Next]_vars => [Moves]_vars
  BY <1>1
<1>3. Spec => [][Moves]_vars
  BY <1>2, ListsAreTyped, PTL DEF Spec
<1> QED
  BY <1>3 DEF DropMovesOne

(***************************************************************************)
(* How many steps a queue creates                                          *)
(***************************************************************************)
Cost(c) == IF c.name = "add" THEN 1 ELSE Len(c.recipe)

\* c[k] is what the first k commands create.
Counts(c, q) ==
  /\ c \in [0..Len(q) -> Nat] /\ c[0] = 0
  /\ \A k \in 1..Len(q) : c[k] = c[k - 1] + Cost(q[k])

LEMMA CostType ==
  ASSUME NEW c \in QueuedCommand
  PROVE  Cost(c) \in Nat
BY LenProperties DEF Cost, QueuedCommand

LEMMA CreatesCounts ==
  ASSUME NEW q \in Seq(QueuedCommand)
  PROVE  \E c : Counts(c, q) /\ Creates(q) = c[Len(q)]
<1> DEFINE N == Len(q)
           Body1(g, T) == IF T = {} THEN 0 ELSE g[T \ {Max(T)}] + Cost(q[Max(T)])
           iter == CHOOSE g : g = [T \in SUBSET DOMAIN q |-> Body1(g, T)]
           F == [p \in Nat \X QueuedCommand |-> p[1] + Cost(p[2])]
<1>1. N \in Nat /\ DOMAIN q = 1..N /\ \A n \in 1..N : q[n] \in QueuedCommand
  BY ElementOfSeq, LenProperties
<1>2. Creates(q) = iter[1..N]
  BY <1>1 DEF Creates, FoldLeft, MapThenFoldSet, Cost
<1>3. \E g : g = [T \in SUBSET DOMAIN q |-> Body1(g, T)]
  <2>1. F \in [Nat \X QueuedCommand -> Nat]
    BY CostType
  <2>2. PICK g : g \in [SUBSET (1..N) -> Nat] /\ Folds(g, F, 0, q, N)
    BY <2>1, FoldExists
  <2>3. ASSUME NEW T \in SUBSET (1..N)
        PROVE  g[T] = Body1(g, T)
    <3>1. CASE T = {}
      BY <2>2, <3>1 DEF Folds
    <3>2. CASE T # {}
      <4>1. T \in SUBSET (0..N)
        BY <1>1
      <4>2. Max(T) \in T
        BY <1>1, <3>2, <4>1, MaxIsIn
      <4> DEFINE m == Max(T)
      <4>3. m \in 1..N /\ T \ {m} \in SUBSET (1..N)
        BY <4>2
      <4>4. g[T] = F[<<g[T \ {m}], q[m]>>]
        BY <2>2, <3>2 DEF Folds
      <4> HIDE DEF m
      <4>5. <<g[T \ {m}], q[m]>> \in Nat \X QueuedCommand
        BY <1>1, <2>2, <4>3
      <4>6. g[T] = g[T \ {m}] + Cost(q[m])
        BY <4>4, <4>5
      <4> QED
        BY <3>2, <4>6 DEF m
    <3> QED
      BY <3>1, <3>2
  <2>4. g = [T \in SUBSET DOMAIN q |-> g[T]]
    BY <1>1, <2>2
  <2> HIDE DEF Body1
  <2>5. g = [T \in SUBSET DOMAIN q |-> Body1(g, T)]
    BY <1>1, <2>3, <2>4
  <2> QED
    BY <2>5
<1>4. iter = [T \in SUBSET DOMAIN q |-> Body1(iter, T)]
  <2> HIDE DEF Body1
  <2> QED
    BY <1>3
<1> HIDE DEF iter, F
<1> DEFINE c == [k \in 0..N |-> iter[1..k]]
<1>5. iter[{}] = 0
  BY <1>4
<1>6. ASSUME NEW k \in 1..N
      PROVE  iter[1..k] = iter[1..(k - 1)] + Cost(q[k])
  <2>1. 1..k \in SUBSET DOMAIN q /\ k \in Nat \ {0}
    BY <1>1
  <2>2. iter[1..k] = Body1(iter, 1..k)
    BY <1>4, <2>1
  <2> QED
    BY <2>1, <2>2, LastAway
<1>7. c[0] = 0 /\ \A k \in 1..N : c[k] = c[k - 1] + Cost(q[k])
  <2>1. 1..0 = {} /\ \A k \in 1..N : k \in 0..N /\ k - 1 \in 0..N
    BY <1>1
  <2> QED
    BY <1>1, <1>5, <1>6, <2>1
<1>8. c \in [0..N -> Nat]
  <2> DEFINE G == {n \in Nat : n \in 0..N => c[n] \in Nat}
  <2>1. 0 \in G
    BY <1>7
  <2> SUFFICES ASSUME NEW m \in 0..N PROVE c[m] \in Nat
    OBVIOUS
  <2>2. ASSUME NEW n \in 1..m, n - 1 \in G
        PROVE  n \in G
    <3>1. n \in 1..N /\ n - 1 \in 0..N
      BY <1>1
    <3>2. c[n - 1] \in Nat /\ c[n] = c[n - 1] + Cost(q[n]) /\ Cost(q[n]) \in Nat
      BY <1>1, <1>7, <2>2, <3>1, CostType
    <3> HIDE DEF c
    <3> QED
      BY <1>1, <3>1, <3>2
  <2> HIDE DEF G
  <2>3. m \in G
    BY <1>1, <2>1, <2>2, UpTo
  <2> QED
    BY <1>1, <2>3 DEF G
<1>9. Creates(q) = c[N]
  BY <1>1, <1>2
<1> HIDE DEF c
<1>10. Counts(c, q)
  BY <1>7, <1>8 DEF Counts
<1> QED
  BY <1>9, <1>10

LEMMA CreatesIs ==
  ASSUME NEW q \in Seq(QueuedCommand), NEW c, Counts(c, q)
  PROVE  Creates(q) = c[Len(q)]
<1>1. PICK d : Counts(d, q) /\ Creates(q) = d[Len(q)]
  BY CreatesCounts
<1> DEFINE G == {n \in Nat : n \in 0..Len(q) => c[n] = d[n]}
<1>2. Len(q) \in Nat /\ 0 \in G
  BY <1>1, LenProperties DEF Counts
<1>3. ASSUME NEW n \in 1..Len(q), n - 1 \in G
      PROVE  n \in G
  <2>1. n - 1 \in 0..Len(q) /\ n \in Nat
    BY <1>2
  <2>2. c[n] = c[n - 1] + Cost(q[n]) /\ d[n] = d[n - 1] + Cost(q[n])
    BY <1>1 DEF Counts
  <2> QED
    BY <1>3, <2>1, <2>2
<1> HIDE DEF G
<1>4. Len(q) \in G
  BY <1>2, <1>3, UpTo
<1> QED
  BY <1>1, <1>2, <1>4 DEF G

LEMMA CreatesConcat ==
  ASSUME NEW q \in Seq(QueuedCommand), NEW r \in Seq(QueuedCommand)
  PROVE  /\ q \o r \in Seq(QueuedCommand)
         /\ Creates(q) \in Nat /\ Creates(r) \in Nat
         /\ Creates(q \o r) = Creates(q) + Creates(r)
<1> DEFINE m == Len(q)
           n == Len(r)
<1>1. m \in Nat /\ n \in Nat
  BY LenProperties
<1>2. PICK c : Counts(c, q) /\ Creates(q) = c[m]
  BY CreatesCounts
<1>3. PICK d : Counts(d, r) /\ Creates(r) = d[n]
  BY CreatesCounts
<1>4. /\ c \in [0..m -> Nat] /\ c[0] = 0 /\ c[m] \in Nat
      /\ d \in [0..n -> Nat] /\ d[0] = 0 /\ d[n] \in Nat
      /\ \A k \in 1..m : c[k] = c[k - 1] + Cost(q[k])
      /\ \A k \in 1..n : d[k] = d[k - 1] + Cost(r[k])
  BY <1>1, <1>2, <1>3 DEF Counts
<1>5. /\ q \o r \in Seq(QueuedCommand) /\ Len(q \o r) = m + n
      /\ \A k \in 1..(m + n) : (q \o r)[k] = IF k <= m THEN q[k] ELSE r[k - m]
  BY ConcatProperties
<1> HIDE DEF m, n
<1> DEFINE e == [k \in 0..(m + n) |-> IF k <= m THEN c[k] ELSE c[m] + d[k - m]]
<1>6. e \in [0..(m + n) -> Nat] /\ e[0] = 0
  <2>1. ASSUME NEW k \in 0..(m + n)
        PROVE  (IF k <= m THEN c[k] ELSE c[m] + d[k - m]) \in Nat
    <3>1. CASE k <= m
      BY <1>1, <1>4, <3>1
    <3>2. CASE ~(k <= m)
      <4>1. k - m \in 0..n
        BY <1>1, <3>2
      <4>2. d[k - m] \in Nat
        BY <1>4, <4>1
      <4> QED
        BY <1>4, <3>2, <4>2
    <3> QED
      BY <3>1, <3>2
  <2> QED
    BY <1>1, <1>4, <2>1
<1>7. ASSUME NEW k \in 1..(m + n)
      PROVE  e[k] = e[k - 1] + Cost((q \o r)[k])
  <2>1. k \in 0..(m + n) /\ k - 1 \in 0..(m + n) /\ k \in Nat
    BY <1>1
  <2>2. CASE k <= m
    BY <1>1, <1>4, <1>5, <2>1, <2>2
  <2>3. CASE k = m + 1
    <3>1. e[k] = c[m] + d[1] /\ e[k - 1] = c[m] /\ (q \o r)[k] = r[1] /\ 1 \in 1..n
      BY <1>1, <1>5, <2>1, <2>3
    <3>2. d[1] = 0 + Cost(r[1])
      BY <1>4, <3>1
    <3>3. d[1] \in Nat /\ Cost(r[1]) \in Nat
      <4>1. r[1] \in QueuedCommand /\ 1 \in 0..n
        BY <1>1, <3>1, ElementOfSeq DEF n
      <4> QED
        BY <1>4, <4>1, CostType
    <3> QED
      BY <1>4, <3>1, <3>2, <3>3
  <2>4. CASE k > m + 1
    <3> DEFINE j == k - m
    <3>1. j \in 1..n /\ j - 1 \in 0..n /\ (k - 1) - m = j - 1 /\ j \in 0..n
      BY <1>1, <2>4
    <3>2. e[k] = c[m] + d[j] /\ e[k - 1] = c[m] + d[j - 1] /\ (q \o r)[k] = r[j]
      BY <1>1, <1>5, <2>1, <2>4, <3>1
    <3> HIDE DEF j
    <3>3. d[j] = d[j - 1] + Cost(r[j])
      BY <1>4, <3>1
    <3>4. d[j] \in Nat /\ d[j - 1] \in Nat /\ Cost(r[j]) \in Nat
      BY <1>4, <3>1, CostType, ElementOfSeq DEF n
    <3> HIDE DEF e
    <3> QED
      BY <1>4, <3>2, <3>3, <3>4
  <2>5. k <= m \/ k = m + 1 \/ k > m + 1
    BY <1>1, <2>1
  <2> QED
    BY <2>2, <2>3, <2>4, <2>5
<1>8. e[m + n] = c[m] + d[n]
  BY <1>1, <1>4
<1> HIDE DEF e
<1>9. Counts(e, q \o r)
  BY <1>5, <1>6, <1>7 DEF Counts
<1>10. Creates(q \o r) = e[m + n]
  BY <1>5, <1>9, CreatesIs
<1> QED
  BY <1>2, <1>3, <1>4, <1>5, <1>8, <1>10 DEF m, n

\* A queue of no command, and of one
LEMMA CreatesOne ==
  /\ Creates(<<>>) = 0
  /\ \A x \in QueuedCommand : Creates(<<x>>) = Cost(x)
<1>1. Creates(<<>>) = 0
  <2> DEFINE c == [k \in 0..0 |-> 0]
  <2>1. Len(<<>>) = 0 /\ <<>> \in Seq(QueuedCommand)
    BY EmptySeq
  <2>2. Counts(c, <<>>)
    BY <2>1 DEF Counts
  <2> QED
    BY <2>1, <2>2, CreatesIs
<1>2. ASSUME NEW x \in QueuedCommand
      PROVE  Creates(<<x>>) = Cost(x)
  <2> DEFINE q == <<x>>
             c == [k \in 0..1 |-> IF k = 0 THEN 0 ELSE Cost(x)]
  <2>1. Len(q) = 1 /\ q \in Seq(QueuedCommand) /\ q[1] = x
    OBVIOUS
  <2>2. Cost(x) \in Nat
    BY CostType
  <2> HIDE DEF q
  <2>3. Counts(c, q)
    BY <2>1, <2>2 DEF Counts
  <2>4. c[1] = Cost(x)
    OBVIOUS
  <2> HIDE DEF c
  <2>5. Creates(q) = Cost(x)
    BY <2>1, <2>3, <2>4, CreatesIs
  <2> QED
    BY <2>5 DEF q
<1> QED
  BY <1>1, <1>2

LEMMA CreatesAppend ==
  ASSUME NEW q \in Seq(QueuedCommand), NEW x \in QueuedCommand
  PROVE  Creates(Append(q, x)) = Creates(q) + Cost(x)
<1>1. Append(q, x) = q \o <<x>> /\ <<x>> \in Seq(QueuedCommand)
  BY AppendIsConcat
<1> QED
  BY <1>1, CreatesConcat, CreatesOne

LEMMA CreatesTail ==
  ASSUME NEW q \in Seq(QueuedCommand), q # <<>>
  PROVE  /\ Creates(Tail(q)) \in Nat /\ Cost(Head(q)) \in Nat
         /\ Creates(q) = Cost(Head(q)) + Creates(Tail(q))
<1>1. Head(q) \in QueuedCommand /\ Tail(q) \in Seq(QueuedCommand)
  BY HeadTailProperties
<1>2. q = <<Head(q)>> \o Tail(q)
  <2> DEFINE h == <<Head(q)>>
             t == Tail(q)
  <2>1. h \in Seq(QueuedCommand) /\ Len(h) = 1 /\ h[1] = q[1]
    BY <1>1
  <2>2. Len(t) = Len(q) - 1 /\ \A i \in 1..Len(t) : t[i] = q[i + 1]
    BY HeadTailProperties
  <2>3. Len(q) \in Nat \ {0} /\ t \in Seq(QueuedCommand)
    BY <1>1, EmptySeq
  <2> HIDE DEF h, t
  <2>4. /\ h \o t \in Seq(QueuedCommand) /\ Len(h \o t) = Len(q)
        /\ \A i \in 1..Len(q) : (h \o t)[i] = IF i <= 1 THEN h[i] ELSE t[i - 1]
    <3>1. /\ h \o t \in Seq(QueuedCommand) /\ Len(h \o t) = Len(h) + Len(t)
          /\ \A i \in 1..(Len(h) + Len(t)) :
                (h \o t)[i] = IF i <= Len(h) THEN h[i] ELSE t[i - Len(h)]
      BY <2>1, <2>3, ConcatProperties
    <3>2. Len(h) = 1 /\ Len(h) + Len(t) = Len(q)
      BY <2>1, <2>2, <2>3
    <3> QED
      BY <3>1, <3>2
  <2>5. ASSUME NEW i \in 1..Len(q)
        PROVE  q[i] = (h \o t)[i]
    <3>1. CASE i = 1
      BY <2>1, <2>4, <3>1
    <3>2. CASE i # 1
      <4>1. i - 1 \in 1..Len(t) /\ (i - 1) + 1 = i
        BY <2>2, <2>3, <3>2
      <4>2. t[i - 1] = q[i]
        BY <2>2, <4>1
      <4> QED
        BY <2>3, <2>4, <3>2, <4>2
    <3> QED
      BY <3>1, <3>2
  <2>6. q = h \o t
    BY <2>4, <2>5, SeqEqual
  <2> QED
    BY <2>6 DEF h, t
<1>3. <<Head(q)>> \in Seq(QueuedCommand) /\ Creates(<<Head(q)>>) = Cost(Head(q))
  BY <1>1, CreatesOne
<1> QED
  BY <1>1, <1>2, <1>3, CreatesConcat, CostType

\* Lists of commands that create a step each, or none
LEMMA CreatesFlatten ==
  ASSUME NEW lists \in Seq(Seq(QueuedCommand)), NEW step \in {0, 1},
         \A n \in 1..Len(lists) : Creates(lists[n]) = step
  PROVE  Creates(FlattenSeq(lists)) = IF step = 0 THEN 0 ELSE Len(lists)
<1> DEFINE N == Len(lists)
<1>1. N \in Nat /\ \A n \in 1..N : lists[n] \in Seq(QueuedCommand)
  BY ElementOfSeq, LenProperties
<1>2. PICK f : Flattens(f, QueuedCommand, lists) /\ FlattenSeq(lists) = f[N]
  BY FlattenUnfolds
<1> DEFINE G == {n \in Nat : n \in 0..N => Creates(f[n]) = IF step = 0 THEN 0 ELSE n}
<1>3. 0 \in G
  BY <1>2, CreatesOne DEF Flattens
<1>4. ASSUME NEW n \in 1..N, n - 1 \in G
      PROVE  n \in G
  <2>1. n \in 0..N /\ n - 1 \in 0..N /\ n \in Nat
    BY <1>1
  <2>2. /\ f[n - 1] \in Seq(QueuedCommand) /\ lists[n] \in Seq(QueuedCommand)
        /\ f[n] = f[n - 1] \o lists[n] /\ Creates(lists[n]) = step
    BY <1>1, <1>2, <2>1 DEF Flattens
  <2>3. Creates(f[n]) = Creates(f[n - 1]) + step
    BY <2>2, CreatesConcat
  <2>4. Creates(f[n - 1]) = IF step = 0 THEN 0 ELSE n - 1
    BY <1>4, <2>1
  <2> QED
    BY <2>1, <2>3, <2>4
<1> HIDE DEF G
<1>5. N \in G
  BY <1>1, <1>3, <1>4, UpTo
<1> QED
  BY <1>1, <1>2, <1>5 DEF G

\* A line of a file stands for one step, and a file for as many as it has lines.
LEMMA CreatesImport ==
  ASSUME NEW line \in RecipeLine
  PROVE  Creates(Import(line)) = 1
<1> DEFINE values == IF line.blank THEN Append(line.words, Empty) ELSE line.words
           Set(i) == IF values[i] = Star \/ i \notin Indices THEN <<>>
                     ELSE <<Initialize(i, values[i])>>
           sets == [i \in DOMAIN values |-> Set(i)]
           add == [Command("add", 0) EXCEPT !.value = line.kind]
<1>1. values \in Seq(Values \union {Star})
  <2>1. line.words \in Seq(Values \union {Star})
    BY SeqMonotonic DEF RecipeLine, Values
  <2> QED
    BY <2>1, AppendProperties DEF Values
<1>2. ASSUME NEW i \in DOMAIN values
      PROVE  Set(i) \in Seq(QueuedCommand) /\ Creates(Set(i)) = 0
  <2>1. values[i] \in Values \union {Star}
    BY <1>1
  <2> HIDE DEF values
  <2>2. CASE values[i] = Star \/ i \notin Indices
    BY <2>2, EmptySeq, CreatesOne
  <2>3. CASE values[i] # Star /\ i \in Indices
    <3> DEFINE c == Initialize(i, values[i])
    <3>1. c \in QueuedCommand
      BY <2>1, <2>3, ParameterCommandType
    <3>2. Cost(c) = 0
      BY DEF Cost, Initialize, Command
    <3> HIDE DEF c
    <3>3. <<c>> \in Seq(QueuedCommand) /\ Creates(<<c>>) = 0
      BY <3>1, <3>2, CreatesOne
    <3> QED
      BY <2>3, <3>3 DEF c
  <2> QED
    BY <2>2, <2>3
<1> HIDE DEF values
<1>3. Len(values) \in Nat /\ DOMAIN values = 1..Len(values)
  BY <1>1, LenProperties
<1>4. sets \in [1..Len(values) -> Seq(QueuedCommand)]
  BY <1>2, <1>3
<1>5. sets \in Seq(Seq(QueuedCommand)) /\ Len(sets) = Len(values)
  BY <1>3, <1>4, FunctionIsSeq
<1>6. \A n \in 1..Len(sets) : Creates(sets[n]) = 0
  BY <1>2, <1>3, <1>5
<1>7. Import(line) = <<add>> \o FlattenSeq(sets)
  BY DEF Import, values
<1>8. add \in QueuedCommand /\ Cost(add) = 1
  BY AddCommandType DEF RecipeLine, Cost, Command
<1> HIDE DEF sets, add
<1>9. FlattenSeq(sets) \in Seq(QueuedCommand) /\ Creates(FlattenSeq(sets)) = 0
  BY <1>5, <1>6, CreatesFlatten, Flattened
<1>10. <<add>> \in Seq(QueuedCommand) /\ Creates(<<add>>) = 1
  BY <1>8, CreatesOne
<1> DEFINE first == <<add>>
           others == FlattenSeq(sets)
<1> HIDE DEF first, others
<1>11. Creates(first \o others) = 1 + 0
  BY <1>9, <1>10, CreatesConcat DEF first, others
<1> QED
  BY <1>7, <1>11 DEF first, others

LEMMA CreatesImportAll ==
  ASSUME NEW recipe \in Seq(RecipeLine)
  PROVE  Creates(ImportAll(recipe)) = Len(recipe)
<1> DEFINE lists == [k \in DOMAIN recipe |-> Import(recipe[k])]
<1>1. /\ Len(recipe) \in Nat /\ DOMAIN recipe = 1..Len(recipe)
      /\ \A k \in 1..Len(recipe) : recipe[k] \in RecipeLine
  BY LenProperties, ElementOfSeq
<1>2. lists \in [1..Len(recipe) -> Seq(QueuedCommand)]
  BY <1>1, ImportType
<1>3. lists \in Seq(Seq(QueuedCommand)) /\ Len(lists) = Len(recipe)
  BY <1>1, <1>2, FunctionIsSeq
<1>4. \A k \in 1..Len(lists) : Creates(lists[k]) = 1
  BY <1>1, <1>3, CreatesImport
<1>5. ImportAll(recipe) = FlattenSeq(lists)
  BY DEF ImportAll
<1> HIDE DEF lists
<1> QED
  BY <1>3, <1>4, <1>5, CreatesFlatten

(***************************************************************************)
(* The bounds: the steps there are and those that the queue will create    *)
(***************************************************************************)
Bounds ==
  /\ nextId + Creates(actions) <= MaxSteps + 1
  /\ Len(steps) < nextId
  /\ longest <= MaxSteps
  /\ toggling \in 0..commands /\ commands \in 0..MaxCommands
  /\ loop \in {"sleep", "process"}
  /\ recipeSaved \in BOOLEAN /\ manualMode \in BOOLEAN

LEMMA BoundsInit == Init => Bounds
<1> SUFFICES ASSUME Init PROVE Bounds
  OBVIOUS
<1>1. Creates(actions) = 0 /\ Len(steps) = 0
  BY CreatesOne DEF Init
<1>2. nextId + Creates(actions) <= MaxSteps + 1 /\ Len(steps) < nextId /\ longest <= MaxSteps
  BY <1>1, ConstantsAssumption DEF Init
<1>3. toggling \in 0..commands /\ commands \in 0..MaxCommands
  BY ConstantsAssumption DEF Init
<1> QED
  BY <1>2, <1>3 DEF Init, Bounds

\* Taking a command takes what it creates from what the queue creates.
LEMMA TakenCost ==
  ASSUME TypeInv, actions # <<>>
  PROVE  /\ Creates(Tail(actions)) \in Nat /\ Cost(Head(actions)) \in Nat
         /\ Creates(actions) = Cost(Head(actions)) + Creates(Tail(actions))
BY CreatesTail DEF TypeInv

LEMMA ListBounds ==
  ASSUME TypeInv, TypeInv', Bounds, [Next]_vars
  PROVE  nextId' + Creates(actions') <= MaxSteps + 1 /\ Len(steps') < nextId'
<1>1. /\ Len(steps) \in Nat /\ nextId \in Nat /\ MaxSteps \in Nat
      /\ Creates(actions) \in Nat /\ Creates(actions') \in Nat
  <2>1. actions \in Seq(QueuedCommand) /\ actions' \in Seq(QueuedCommand)
        /\ steps \in Seq(StoredStep)
    BY DEF TypeInv
  <2> QED
    BY <2>1, CreatesConcat, LenProperties, ConstantsAssumption DEF TypeInv
<1>2. CASE UNCHANGED <<steps, nextId, actions>>
  BY <1>2 DEF Bounds
<1>3. CASE UNCHANGED vars \/ ToggleMode \/ Wake \/ Perform
  BY <1>2, <1>3 DEF vars, ToggleMode, Wake, Perform
<1>4. CASE Callback \/ Drop \/ QueueToggle
  <2>1. PICK c : Enqueue(c)
    BY <1>4 DEF Callback, Drop, QueueToggle, Send
  <2> QED
    BY <2>1 DEF Enqueue, Bounds
<1>5. ASSUME actions # <<>>, actions' = Tail(actions), UNCHANGED nextId,
             Len(steps') <= Len(steps), Len(steps') \in Nat
      PROVE  nextId' + Creates(actions') <= MaxSteps + 1 /\ Len(steps') < nextId'
  <2>1. Creates(actions) = Cost(Head(actions)) + Creates(actions') /\ Cost(Head(actions)) \in Nat
    BY <1>5, TakenCost
  <2> QED
    BY <1>1, <1>5, <2>1 DEF Bounds
<1>6. CASE Save \/ Play \/ Stop \/ IgnoreToggle
  BY <1>1, <1>5, <1>6 DEF Save, Play, Stop, IgnoreToggle, Take
<1>7. CASE Load
  <2>1. Head(actions) \in QueuedCommand /\ Cost(Head(actions)) = Len(Head(actions).recipe)
    BY <1>7, TakeTypes DEF Load, Cost
  <2>2. Creates(actions') = Len(Head(actions).recipe)
    BY <1>7, <2>1, CreatesImportAll DEF Load, QueuedCommand
  <2>3. Creates(actions) = Cost(Head(actions)) + Creates(Tail(actions))
        /\ Creates(Tail(actions)) \in Nat
    BY <1>7, TakenCost DEF Load
  <2>4. Len(steps') = 0 /\ nextId' = nextId /\ nextId \in Nat \ {0}
    BY <1>7 DEF Load, TypeInv
  <2> QED
    BY <1>1, <2>1, <2>2, <2>3, <2>4 DEF Bounds
<1>8. CASE Add
  <2>1. Head(actions).name = "add" /\ actions # <<>> /\ actions' = Tail(actions)
        /\ steps' = Append(steps, NewStep(Head(actions).value)) /\ nextId' = nextId + 1
    BY <1>8 DEF Add, Take
  <2>2. Creates(actions) = 1 + Creates(actions')
    BY <2>1, TakenCost DEF Cost
  <2>3. Len(steps') = Len(steps) + 1
    <3>1. Head(actions).value \in Kinds
      BY <2>1, TakeTypes DEF QueuedCommand
    <3>2. NewStep(Head(actions).value) \in StoredStep /\ steps \in Seq(StoredStep)
      BY <3>1, NewStepType DEF TypeInv
    <3> QED
      BY <2>1, <3>2, AppendProperties
  <2> QED
    BY <1>1, <2>1, <2>2, <2>3 DEF Bounds
<1>9. CASE RemoveStep \/ MoveDown \/ MoveUp \/ Swap \/ Parameter \/ InitializeParameter
  <2>1. actions # <<>> /\ actions' = Tail(actions) /\ UNCHANGED nextId
    BY <1>9 DEF RemoveStep, MoveDown, MoveUp, Swap, Parameter, InitializeParameter, Take
  <2>2. /\ steps \in Seq(StoredStep) /\ DOMAIN steps = 1..Len(steps)
        /\ steps' \in Seq(StoredStep)
    BY LenProperties DEF TypeInv
  <2>3. Len(steps') <= Len(steps) /\ Len(steps') \in Nat
    <3>1. CASE steps' = steps
      BY <1>1, <3>1
    <3>2. CASE RemoveStep /\ steps' # steps
      <4>1. steps' = RemoveAt(steps, Index) /\ Index \in 1..Len(steps)
        BY <2>2, <3>2 DEF RemoveStep
      <4>2. Len(steps') = Len(steps) - 1
        BY <2>2, <4>1, Removal
      <4> QED
        BY <1>1, <4>1, <4>2
    <3>3. CASE Swap /\ steps' # steps
      <4> DEFINE i == Index
                 j == Destination
      <4>1. /\ steps' = InsertAt(RemoveAt(steps, i), j, steps[i])
            /\ i \in 1..Len(steps) /\ j \in 1..Len(steps)
        BY <2>2, <3>3 DEF Swap, Moved
      <4> HIDE DEF i, j
      <4>2. Len(steps') = Len(steps)
        BY <2>2, <4>1, Dropped DEF Drops
      <4> QED
        BY <1>1, <4>2
    <3>4. ASSUME DOMAIN steps' = DOMAIN steps
          PROVE  Len(steps') <= Len(steps) /\ Len(steps') \in Nat
      <4>1. DOMAIN steps' = 1..Len(steps') /\ Len(steps') \in Nat
        BY <2>2, LenProperties
      <4>2. 1..Len(steps') = 1..Len(steps)
        BY <2>2, <3>4, <4>1
      <4> HIDE DEF TypeInv
      <4> QED
        BY <1>1, <4>1, <4>2
    <3>5. CASE MoveDown \/ MoveUp \/ Parameter \/ InitializeParameter
      BY <3>1, <3>4, <3>5 DEF MoveDown, MoveUp, Exchange, Parameter, InitializeParameter
    <3> QED
      BY <1>9, <3>1, <3>2, <3>3, <3>5
  <2> QED
    BY <1>5, <2>1, <2>3
<1> QED
  BY <1>3, <1>4, <1>6, <1>7, <1>8, <1>9 DEF Next, Process

LEMMA BoundsStep == TypeInv /\ TypeInv' /\ Bounds /\ [Next]_vars => Bounds'
<1> SUFFICES ASSUME TypeInv, TypeInv', Bounds, [Next]_vars PROVE Bounds'
  OBVIOUS
<1>1. nextId' + Creates(actions)' <= MaxSteps + 1 /\ Len(steps') < nextId'
  <2>1. Creates(actions)' = Creates(actions')
    OBVIOUS
  <2> QED
    BY <2>1, ListBounds
<1>2. longest' <= MaxSteps
  <2>1. CASE UNCHANGED longest
    BY <2>1 DEF Bounds
  <2>2. CASE Perform
    <3> DEFINE M == {longest, Len(steps)}
    <3>1. Len(steps) <= MaxSteps /\ Len(steps) \in Nat /\ longest \in Nat
      <4>1. Creates(actions) \in Nat
        BY CreatesConcat DEF TypeInv
      <4> QED
        BY <4>1, LenProperties, ConstantsAssumption DEF TypeInv, Bounds
    <3>2. M \in SUBSET (0..MaxSteps) /\ M # {}
      BY <3>1, ConstantsAssumption DEF Bounds
    <3>3. longest' = Max(M)
      BY <2>2 DEF Perform
    <3> HIDE DEF M
    <3>4. longest' \in 0..MaxSteps
      BY <3>2, <3>3, ConstantsAssumption, MaxIsIn
    <3> QED
      BY <3>4
  <2>3. CASE Process
    BY <2>1, <2>3 DEF Process, Save, Load, Add, Play, Stop, RemoveStep, MoveDown, MoveUp,
                      Swap, Parameter, InitializeParameter, IgnoreToggle, Take
  <2>4. CASE Callback \/ Drop \/ ToggleMode \/ QueueToggle \/ Wake \/ UNCHANGED vars
    BY <2>1, <2>4 DEF Callback, Drop, Send, Enqueue, ToggleMode, QueueToggle, Wake, vars
  <2> QED
    BY <2>2, <2>3, <2>4 DEF Next
<1>3. toggling' \in 0..commands' /\ commands' \in 0..MaxCommands
  <2> USE ConstantsAssumption DEF Bounds
  <2>1. CASE Process \/ Perform \/ Wake \/ UNCHANGED vars
    BY <2>1 DEF Process, Save, Load, Add, Play, Stop, RemoveStep, MoveDown, MoveUp, Swap,
                Parameter, InitializeParameter, IgnoreToggle, Take, Perform, Wake, vars
  <2>2. CASE Callback \/ Drop
    <3>1. commands < MaxCommands /\ commands' = commands + 1 /\ toggling' = toggling
      BY <2>2 DEF Callback, Drop, Send
    <3> QED
      BY <3>1
  <2>3. CASE ToggleMode \/ QueueToggle
    BY <2>3 DEF ToggleMode, QueueToggle, Enqueue
  <2> QED
    BY <2>1, <2>2, <2>3 DEF Next
<1>4. loop' \in {"sleep", "process"} /\ recipeSaved' \in BOOLEAN /\ manualMode' \in BOOLEAN
  <2> USE DEF Bounds
  <2>1. CASE Process \/ UNCHANGED vars
    BY <2>1 DEF Process, Save, Load, Add, Play, Stop, RemoveStep, MoveDown, MoveUp, Swap,
                Parameter, InitializeParameter, IgnoreToggle, Take, vars
  <2>2. CASE Callback \/ Drop \/ ToggleMode \/ QueueToggle \/ Wake \/ Perform
    BY <2>2 DEF Callback, Drop, Send, Enqueue, ToggleMode, QueueToggle, Wake, Perform
  <2> QED
    BY <2>1, <2>2 DEF Next
<1> QED
  BY <1>1, <1>2, <1>3, <1>4 DEF Bounds

LEMMA TypesSuffice == TypeInv /\ IInv /\ Bounds => TypeOK
<1> SUFFICES ASSUME TypeInv, IInv, Bounds PROVE TypeOK
  OBVIOUS
<1>1. /\ Creates(actions) \in Nat /\ Len(steps) \in Nat /\ DOMAIN steps = 1..Len(steps)
      /\ MaxSteps \in Nat /\ MaxCommands \in Nat
      /\ steps \in [1..Len(steps) -> StoredStep]
  BY CreatesConcat, LenProperties, ConstantsAssumption DEF TypeInv
<1>2. nextId \in 1..(MaxSteps + 1)
  BY <1>1 DEF TypeInv, Bounds
<1>3. steps \in Seq(Step)
  <2>1. ASSUME NEW k \in 1..Len(steps)
        PROVE  steps[k] \in Step
    <3>1. steps[k] \in StoredStep /\ steps[k].id \in 1..(nextId - 1)
      BY <1>1 DEF IInv, WellFormed
    <3>2. steps[k].id \in Ids
      BY <1>1, <1>2, <3>1 DEF Ids
    <3> QED
      BY <3>1, <3>2 DEF StoredStep, Step
  <2>2. steps \in [1..Len(steps) -> Step]
    BY <1>1, <2>1
  <2> QED
    BY <1>1, <2>2, FunctionIsSeq
<1>4. starts \in [Ids -> {0, 1}]
  BY DEF IInv, Running
<1>5. toggling \in 0..MaxCommands /\ longest \in 0..MaxSteps
  BY <1>1 DEF TypeInv, Bounds
<1> QED
  BY <1>2, <1>3, <1>4, <1>5 DEF TypeOK, TypeInv, IInv, Bounds

\* The lists hold what the loop knows, no more steps are created than the
\* commands and files account for, and positions and counts stay in range.
THEOREM TypeCorrect == Spec => []TypeOK
<1>1. Spec => []IInv
  BY InvariantInit, InvariantStep, ListsAreTyped, PTL DEF Spec
<1>2. Spec => []Bounds
  BY BoundsInit, BoundsStep, ListsAreTyped, PTL DEF Spec
<1> QED
  BY <1>1, <1>2, ListsAreTyped, TypesSuffice, PTL

(***************************************************************************)
(* What the commands of a line make of a step                              *)
(***************************************************************************)
\* Commands that set a parameter of a step
Setter == {c \in QueuedCommand : c.index \in Indices /\ c.value \in Values}

Made(s, q) == FoldLeft(LAMBDA t, c : SetParameter(t, c.index, c.value), s, q)

\* r[k] is what the first k commands make of s.
Makes(r, s, q) ==
  /\ r \in [0..Len(q) -> StoredStep] /\ r[0] = s
  /\ \A k \in 1..Len(q) : r[k] = SetParameter(r[k - 1], q[k].index, q[k].value)

LEMMA SetterType ==
  ASSUME NEW s \in StoredStep, NEW c \in Setter
  PROVE  SetParameter(s, c.index, c.value) \in StoredStep
BY SetParameterType DEF Setter

LEMMA MadeUnfolds ==
  ASSUME NEW s \in StoredStep, NEW q \in Seq(Setter)
  PROVE  \E r : Makes(r, s, q) /\ Made(s, q) = r[Len(q)]
<1> DEFINE N == Len(q)
           Result(g, T) ==
             IF T = {} THEN s
             ELSE SetParameter(g[T \ {Max(T)}], q[Max(T)].index, q[Max(T)].value)
           iter == CHOOSE g : g = [T \in SUBSET DOMAIN q |-> Result(g, T)]
           F == [p \in StoredStep \X Setter |-> SetParameter(p[1], p[2].index, p[2].value)]
<1>1. N \in Nat /\ DOMAIN q = 1..N /\ \A n \in 1..N : q[n] \in Setter
  BY ElementOfSeq, LenProperties
<1>2. Made(s, q) = iter[1..N]
  BY <1>1 DEF Made, FoldLeft, MapThenFoldSet
<1>3. \E g : g = [T \in SUBSET DOMAIN q |-> Result(g, T)]
  <2>1. F \in [StoredStep \X Setter -> StoredStep]
    BY SetterType
  <2>2. PICK g : g \in [SUBSET (1..N) -> StoredStep] /\ Folds(g, F, s, q, N)
    BY <2>1, FoldExists
  <2>3. ASSUME NEW T \in SUBSET (1..N)
        PROVE  g[T] = Result(g, T)
    <3>1. CASE T = {}
      BY <2>2, <3>1 DEF Folds
    <3>2. CASE T # {}
      <4>1. T \in SUBSET (0..N)
        BY <1>1
      <4>2. Max(T) \in T
        BY <1>1, <3>2, <4>1, MaxIsIn
      <4> DEFINE m == Max(T)
      <4>3. m \in 1..N /\ T \ {m} \in SUBSET (1..N)
        BY <4>2
      <4>4. g[T] = F[<<g[T \ {m}], q[m]>>]
        BY <2>2, <3>2 DEF Folds
      <4> HIDE DEF m
      <4>5. <<g[T \ {m}], q[m]>> \in StoredStep \X Setter
        BY <1>1, <2>2, <4>3
      <4>6. g[T] = SetParameter(g[T \ {m}], q[m].index, q[m].value)
        BY <4>4, <4>5
      <4> QED
        BY <3>2, <4>6 DEF m
    <3> QED
      BY <3>1, <3>2
  <2>4. g = [T \in SUBSET DOMAIN q |-> g[T]]
    BY <1>1, <2>2
  <2> HIDE DEF Result
  <2>5. g = [T \in SUBSET DOMAIN q |-> Result(g, T)]
    BY <1>1, <2>3, <2>4
  <2> QED
    BY <2>5
<1>4. iter = [T \in SUBSET DOMAIN q |-> Result(iter, T)]
  <2> HIDE DEF Result
  <2> QED
    BY <1>3
<1> HIDE DEF iter, F
<1> DEFINE r == [k \in 0..N |-> iter[1..k]]
<1>5. iter[{}] = s
  BY <1>4
<1>6. ASSUME NEW k \in 1..N
      PROVE  iter[1..k] = SetParameter(iter[1..(k - 1)], q[k].index, q[k].value)
  <2>1. 1..k \in SUBSET DOMAIN q /\ k \in Nat \ {0}
    BY <1>1
  <2> HIDE DEF Result
  <2>2. iter[1..k] = Result(iter, 1..k)
    BY <1>4, <2>1
  <2> USE DEF Result
  <2> QED
    BY <2>1, <2>2, LastAway
<1>7. r[0] = s /\ \A k \in 1..N : r[k] = SetParameter(r[k - 1], q[k].index, q[k].value)
  <2>1. 1..0 = {} /\ \A k \in 1..N : k \in 0..N /\ k - 1 \in 0..N
    BY <1>1
  <2> QED
    BY <1>1, <1>5, <1>6, <2>1
<1>8. r \in [0..N -> StoredStep]
  <2> DEFINE G == {n \in Nat : n \in 0..N => r[n] \in StoredStep}
  <2>1. 0 \in G
    BY <1>7
  <2> SUFFICES ASSUME NEW m \in 0..N PROVE r[m] \in StoredStep
    OBVIOUS
  <2>2. ASSUME NEW n \in 1..m, n - 1 \in G
        PROVE  n \in G
    <3>1. n \in 1..N /\ n - 1 \in 0..N
      BY <1>1
    <3>2. /\ r[n - 1] \in StoredStep /\ q[n] \in Setter
          /\ r[n] = SetParameter(r[n - 1], q[n].index, q[n].value)
      BY <1>1, <1>7, <2>2, <3>1
    <3> HIDE DEF r
    <3> QED
      BY <1>1, <3>1, <3>2, SetterType
  <2> HIDE DEF G
  <2>3. m \in G
    BY <1>1, <2>1, <2>2, UpTo
  <2> QED
    BY <1>1, <2>3 DEF G
<1>9. Made(s, q) = r[N]
  BY <1>1, <1>2
<1> HIDE DEF r
<1>10. Makes(r, s, q)
  BY <1>7, <1>8 DEF Makes
<1> QED
  BY <1>9, <1>10

\* What the commands make of a step is determined, so that one command more
\* changes what the others have made.
LEMMA MadeAppend ==
  ASSUME NEW s \in StoredStep, NEW q \in Seq(Setter), NEW c \in Setter
  PROVE  /\ Made(s, q) \in StoredStep
         /\ Made(s, Append(q, c)) = SetParameter(Made(s, q), c.index, c.value)
<1> DEFINE N == Len(q)
           a == Append(q, c)
<1>1. /\ N \in Nat /\ a \in Seq(Setter) /\ Len(a) = N + 1
      /\ \A k \in 1..N : a[k] = q[k]
      /\ a[N + 1] = c
  BY AppendProperties, LenProperties
<1>2. PICK r : Makes(r, s, q) /\ Made(s, q) = r[N]
  BY MadeUnfolds
<1>3. PICK t : Makes(t, s, a) /\ Made(s, a) = t[N + 1]
  BY <1>1, MadeUnfolds
<1> HIDE DEF a
<1> DEFINE G == {n \in Nat : n \in 0..N => t[n] = r[n]}
<1>4. 0 \in G
  BY <1>2, <1>3 DEF Makes
<1>5. ASSUME NEW n \in 1..N, n - 1 \in G
      PROVE  n \in G
  <2>1. n - 1 \in 0..N /\ n \in Nat /\ n \in 1..(N + 1)
    BY <1>1
  <2>2. /\ r[n] = SetParameter(r[n - 1], q[n].index, q[n].value)
        /\ t[n] = SetParameter(t[n - 1], a[n].index, a[n].value)
    BY <1>1, <1>2, <1>3, <2>1 DEF Makes
  <2>3. a[n] = q[n] /\ t[n - 1] = r[n - 1]
    BY <1>1, <1>5, <2>1
  <2> QED
    BY <2>1, <2>2, <2>3
<1> HIDE DEF G
<1>6. N \in G
  BY <1>1, <1>4, <1>5, UpTo
<1>7. t[N] = r[N]
  BY <1>1, <1>6 DEF G
<1>8. t[N + 1] = SetParameter(t[N], c.index, c.value)
  <2>1. N + 1 \in 1..Len(a) /\ (N + 1) - 1 = N
    BY <1>1
  <2>2. t[N + 1] = SetParameter(t[(N + 1) - 1], a[N + 1].index, a[N + 1].value)
    BY <1>3, <2>1 DEF Makes
  <2> QED
    BY <1>1, <2>1, <2>2
<1>9. r[N] \in StoredStep
  BY <1>1, <1>2 DEF Makes
<1> QED
  BY <1>2, <1>3, <1>7, <1>8, <1>9 DEF a

LEMMA MadeOfNone ==
  ASSUME NEW s \in StoredStep
  PROVE  Made(s, <<>>) = s
<1>1. <<>> \in Seq(Setter) /\ Len(<<>>) = 0
  BY EmptySeq
<1>2. PICK r : Makes(r, s, <<>>) /\ Made(s, <<>>) = r[0]
  BY <1>1, MadeUnfolds
<1> QED
  BY <1>2 DEF Makes

(***************************************************************************)
(* Exporting a step and importing the line                                 *)
(***************************************************************************)
Registered(s) == Max(DOMAIN s.parameters \union {0})

Word(s, i) == IF i \in DOMAIN s.parameters THEN s.parameters[i] ELSE Star

LEMMA RegisteredIs ==
  ASSUME NEW s \in StoredStep
  PROVE  /\ Registered(s) \in DOMAIN s.parameters \union {0}
         /\ Registered(s) \in 0..NrParameters
         /\ \A i \in DOMAIN s.parameters : i \in 1..Registered(s)
<1> DEFINE T == DOMAIN s.parameters \union {0}
<1>1. PICK S \in SUBSET Indices : s.parameters \in [S -> Values]
  BY DEF StoredStep
<1>2. NrParameters \in Nat /\ DOMAIN s.parameters \subseteq 1..NrParameters
  BY <1>1, ConstantsAssumption DEF Indices
<1>3. T \in SUBSET (0..NrParameters) /\ T # {}
  BY <1>2
<1> HIDE DEF T
<1> DEFINE m == Max(T)
<1>4. m \in T /\ \A y \in T : m >= y
  BY <1>2, <1>3, MaxIsIn
<1> HIDE DEF m
<1>5. m \in 0..NrParameters /\ \A i \in DOMAIN s.parameters : i \in 1..m
  BY <1>2, <1>3, <1>4 DEF T
<1>6. Registered(s) = m
  BY DEF Registered, m, T
<1> QED
  BY <1>4, <1>5, <1>6 DEF T

\* A step none of whose values is empty leaves a word for every parameter up
\* to the last that is registered.
LEMMA PlainExport ==
  ASSUME NEW s \in StoredStep, Plain(s)
  PROVE  /\ Export(s).kind = s.kind /\ ~Export(s).blank
         /\ Export(s).words = [i \in 1..Registered(s) |-> Word(s, i)]
         /\ Export(s).words \in Seq(Values \union {Star}) /\ Len(Export(s).words) = Registered(s)
<1> DEFINE last == Registered(s)
           W(i) == IF i \notin DOMAIN s.parameters THEN <<Star>>
                   ELSE IF s.parameters[i] = Empty THEN <<>> ELSE <<s.parameters[i]>>
           w == [i \in 1..last |-> Word(s, i)]
<1>0. PICK S \in SUBSET Indices : s.parameters \in [S -> Values]
  BY DEF StoredStep
<1>1. last \in DOMAIN s.parameters \union {0} /\ last \in Nat
  BY RegisteredIs, ConstantsAssumption
<1>2. Export(s) = [kind |-> s.kind, words |-> FlattenSeq([i \in 1..last |-> W(i)]),
                   blank |-> last # 0 /\ s.parameters[last] = Empty]
  BY DEF Export, Registered
<1> HIDE DEF last
<1>3. ~(last # 0 /\ s.parameters[last] = Empty)
  BY <1>1 DEF Plain
<1>4. w \in Seq(Values \union {Star}) /\ Len(w) = last
  <2>1. w \in [1..last -> Values \union {Star}]
    BY <1>0 DEF Word
  <2> HIDE DEF w
  <2> QED
    BY <1>1, <2>1, FunctionIsSeq
<1>5. [i \in 1..last |-> W(i)] = [i \in 1..Len(w) |-> <<w[i]>>]
  <2>1. ASSUME NEW i \in 1..last
        PROVE  W(i) = <<w[i]>>
    BY DEF Plain, Word
  <2> HIDE DEF W, w
  <2> QED
    BY <1>4, <2>1
<1> HIDE DEF w
<1>6. FlattenSeq([i \in 1..last |-> W(i)]) = w
  BY <1>4, <1>5, FlattenSingletons
<1> HIDE DEF W
<1>7. Export(s).kind = s.kind /\ Export(s).words = w /\ ~Export(s).blank
  <2> DEFINE blank == last # 0 /\ s.parameters[last] = Empty
  <2>1. blank = FALSE
    BY <1>3
  <2> HIDE DEF blank
  <2>2. Export(s) = [kind |-> s.kind, words |-> w, blank |-> blank]
    BY <1>2, <1>6 DEF blank
  <2> QED
    BY <2>1, <2>2
<1> QED
  BY <1>4, <1>7 DEF w, last

\* What the commands of the first n words have made: parameters that were
\* registered are set, and the others have the setting of a new step.
Restores(t, s, n) ==
  /\ t \in StoredStep /\ t.kind = s.kind
  /\ t.settings = [i \in Indices |-> IF i <= n /\ i \in DOMAIN s.parameters
                                     THEN s.parameters[i] ELSE Default]

LEMMA PlainRestored ==
  ASSUME NEW s \in StoredStep, Plain(s), nextId \in Nat
  PROVE  Restored(Export(s)).settings = s.settings
<1> DEFINE line == Export(s)
           N == Registered(s)
           W == Values \union {Star}
<1>1. PICK S \in SUBSET Indices : s.parameters \in [S -> Values]
  BY DEF StoredStep
<1>2. /\ line.kind = s.kind /\ ~line.blank
      /\ line.words = [i \in 1..N |-> Word(s, i)]
      /\ line.words \in Seq(W) /\ Len(line.words) = N
  BY PlainExport
<1>3. /\ N \in Nat /\ DOMAIN line.words = 1..N
      /\ \A i \in DOMAIN s.parameters : i \in 1..N
  BY <1>2, RegisteredIs, LenProperties, ConstantsAssumption
<1> HIDE DEF line, N
<1> DEFINE Set(i) == IF line.words[i] = Star \/ i \notin Indices THEN <<>>
                     ELSE <<Initialize(i, line.words[i])>>
           sets == [i \in 1..N |-> Set(i)]
           add == [Command("add", 0) EXCEPT !.value = line.kind]
<1>4. Import(line) = <<add>> \o FlattenSeq(sets)
  BY <1>2, <1>3 DEF Import
<1>5. ASSUME NEW i \in 1..N
      PROVE  /\ i \in DOMAIN s.parameters
                => /\ i \in Indices /\ s.parameters[i] \in Values
                   /\ Initialize(i, s.parameters[i]) \in Setter
                   /\ Set(i) = <<Initialize(i, s.parameters[i])>>
             /\ i \notin DOMAIN s.parameters => Set(i) = <<>>
  <2>1. line.words[i] = Word(s, i)
    BY <1>2
  <2>2. CASE i \in DOMAIN s.parameters
    <3> DEFINE v == s.parameters[i]
    <3>1. i \in Indices /\ v \in Values /\ v # Star
      BY <1>1, <2>2, ConstantsAssumption DEF Values
    <3> HIDE DEF v
    <3>2. line.words[i] = v
      BY <2>1, <2>2 DEF Word, v
    <3>3. Set(i) = <<Initialize(i, v)>>
      BY <3>1, <3>2
    <3>4. Initialize(i, v) \in QueuedCommand
      BY <3>1, ParameterCommandType
    <3>5. Initialize(i, v).index = i /\ Initialize(i, v).value = v
      BY DEF Initialize, Command
    <3>6. Initialize(i, v) \in Setter
      BY <3>1, <3>4, <3>5 DEF Setter
    <3> HIDE DEF Set
    <3> QED
      BY <2>2, <3>1, <3>3, <3>6 DEF v
  <2>3. CASE i \notin DOMAIN s.parameters
    BY <2>1, <2>3 DEF Word
  <2> QED
    BY <2>2, <2>3
<1> HIDE DEF Set
<1>6. sets \in Seq(Seq(Setter)) /\ Len(sets) = N
  <2>1. ASSUME NEW i \in 1..N
        PROVE  Set(i) \in Seq(Setter)
    <3> DEFINE c == Initialize(i, s.parameters[i])
    <3>1. CASE i \in DOMAIN s.parameters
      <4>1. c \in Setter /\ Set(i) = <<c>>
        BY <1>5, <3>1
      <4> HIDE DEF c
      <4>2. <<c>> \in Seq(Setter)
        BY <4>1
      <4> QED
        BY <4>1, <4>2
    <3>2. CASE i \notin DOMAIN s.parameters
      BY <1>5, <3>2, EmptySeq
    <3> QED
      BY <3>1, <3>2
  <2>2. sets \in [1..N -> Seq(Setter)]
    BY <2>1
  <2> HIDE DEF sets
  <2> QED
    BY <1>3, <2>2, FunctionIsSeq
<1>7. \A i \in 1..N : sets[i] = Set(i)
  OBVIOUS
<1> HIDE DEF sets, add
<1>8. PICK f : Flattens(f, Setter, sets) /\ FlattenSeq(sets) = f[N]
  BY <1>6, FlattenUnfolds
<1> DEFINE new == NewStep(s.kind)
<1>9. new \in StoredStep /\ Restores(new, s, 0)
  <2>1. s.kind \in Kinds
    BY DEF StoredStep
  <2>2. new \in StoredStep
    BY <2>1, NewStepType
  <2>3. new.kind = s.kind /\ new.settings = [i \in Indices |-> Default]
    BY DEF NewStep
  <2>4. \A i \in Indices : ~(i <= 0)
    BY ConstantsAssumption DEF Indices
  <2> HIDE DEF new
  <2> QED
    BY <2>2, <2>3, <2>4 DEF Restores
<1>10. Restored(line) = Made(new, f[N])
  <2>1. Tail(Import(line)) = f[N]
    <3> DEFINE t == f[N]
    <3>1. t \in Seq(Setter)
      BY <1>3, <1>6, <1>8 DEF Flattens
    <3>2. Import(line) = <<add>> \o t
      BY <1>4, <1>8
    <3> HIDE DEF t
    <3>3. Tail(<<add>> \o t) = t
      BY <3>1
    <3> QED
      BY <3>2, <3>3 DEF t
  <2> QED
    BY <1>2, <2>1 DEF Restored, Made
<1> HIDE DEF new
<1> DEFINE G == {n \in Nat : n \in 0..N => Restores(Made(new, f[n]), s, n)}
<1>11. 0 \in G
  <2>1. Made(new, f[0]) = new
    BY <1>8, <1>9, MadeOfNone DEF Flattens
  <2> QED
    BY <1>9, <2>1
<1>12. ASSUME NEW n \in 1..N, n - 1 \in G
       PROVE  n \in G
  <2>1. n - 1 \in 0..N /\ n \in Nat /\ n \in 0..N
    BY <1>3
  <2> DEFINE q == f[n - 1]
             t == Made(new, q)
  <2>2. q \in Seq(Setter) /\ f[n] = q \o Set(n)
    BY <1>6, <1>7, <1>8, <2>1 DEF Flattens
  <2>3. Restores(t, s, n - 1)
    BY <1>12, <2>1
  <2> HIDE DEF q, t
  <2>4. CASE n \notin DOMAIN s.parameters
    <3>1. f[n] = q
      BY <1>5, <2>2, <2>4, ConcatEmptySeq
    <3>2. \A i \in Indices : (i <= n /\ i \in DOMAIN s.parameters)
                              <=> (i <= n - 1 /\ i \in DOMAIN s.parameters)
      BY <2>1, <2>4 DEF Indices
    <3>3. Restores(t, s, n)
      BY <2>3, <3>2 DEF Restores
    <3> QED
      BY <2>1, <3>1, <3>3 DEF t
  <2>5. CASE n \in DOMAIN s.parameters
    <3> DEFINE v == s.parameters[n]
               c == Initialize(n, v)
    <3>1. n \in Indices /\ v \in Values /\ c \in Setter /\ Set(n) = <<c>>
      BY <1>5, <2>5
    <3>2. c.index = n /\ c.value = v
      BY DEF Initialize, Command
    <3>3. <<s.kind, n, v>> \notin Refused
      BY <2>5 DEF Plain
    <3> HIDE DEF c
    <3>4. f[n] = Append(q, c)
      BY <2>2, <3>1, AppendIsConcat
    <3>5. Made(new, f[n]) = SetParameter(t, n, v) /\ t \in StoredStep
      BY <1>9, <2>2, <3>1, <3>2, <3>4, MadeAppend DEF t
    <3> DEFINE u == SetParameter(t, n, v)
    <3>6. u \in StoredStep
      BY <3>1, <3>5, SetParameterType
    <3>7. t.kind = s.kind
      BY <2>3 DEF Restores
    <3>8. u.kind = t.kind /\ u.settings = [t.settings EXCEPT ![n] = v]
      <4>1. t = [id |-> t.id, kind |-> t.kind, parameters |-> t.parameters,
                 settings |-> t.settings]
        BY <3>5 DEF StoredStep
      <4> QED
        BY <3>3, <3>7, <4>1 DEF SetParameter
    <3> HIDE DEF u
    <3>9. u.settings = [i \in Indices |-> IF i <= n /\ i \in DOMAIN s.parameters
                                          THEN s.parameters[i] ELSE Default]
      <4> HIDE DEF v
      <4>1. t.settings = [i \in Indices |-> IF i <= n - 1 /\ i \in DOMAIN s.parameters
                                            THEN s.parameters[i] ELSE Default]
        BY <2>3 DEF Restores
      <4>2. u.settings = [i \in Indices |-> IF i = n THEN v ELSE t.settings[i]]
        BY <3>8, <4>1
      <4>3. ASSUME NEW i \in Indices
            PROVE  (IF i = n THEN v ELSE t.settings[i])
                     = IF i <= n /\ i \in DOMAIN s.parameters THEN s.parameters[i] ELSE Default
        <5>1. i \in Int /\ n \in Int
          BY <2>1 DEF Indices
        <5>2. CASE i = n
          BY <2>5, <5>1, <5>2 DEF v
        <5>3. CASE i # n
          <6>1. i <= n <=> i <= n - 1
            BY <5>1, <5>3
          <6> QED
            BY <4>1, <5>3, <6>1
        <5> QED
          BY <5>2, <5>3
      <4> QED
        BY <4>2, <4>3
    <3>10. Restores(u, s, n)
      BY <3>6, <3>7, <3>8, <3>9 DEF Restores
    <3> QED
      BY <2>1, <3>5, <3>10 DEF u
  <2> QED
    BY <2>4, <2>5
<1> HIDE DEF G
<1>13. N \in G
  BY <1>3, <1>11, <1>12, UpTo
<1>14. Restores(Made(new, f[N]), s, N)
  BY <1>3, <1>13 DEF G
<1>15. s.settings = [i \in Indices |-> IF i <= N /\ i \in DOMAIN s.parameters
                                       THEN s.parameters[i] ELSE Default]
  <2>1. s.settings = [i \in Indices |-> s.settings[i]]
    BY DEF StoredStep
  <2>2. ASSUME NEW i \in Indices
        PROVE  s.settings[i] = IF i <= N /\ i \in DOMAIN s.parameters
                               THEN s.parameters[i] ELSE Default
    <3>1. CASE i \in DOMAIN s.parameters
      <4>1. i <= N
        BY <1>3, <3>1
      <4>2. s.settings[i] = s.parameters[i]
        BY <3>1 DEF Plain, StoredStep
      <4> QED
        BY <3>1, <4>1, <4>2
    <3>2. CASE i \notin DOMAIN s.parameters
      BY <3>2 DEF StoredStep
    <3> QED
      BY <3>1, <3>2
  <2> QED
    BY <2>1, <2>2
<1> QED
  BY <1>10, <1>14, <1>15 DEF Restores, line

\* A recipe that is loaded restores the steps that were saved, with any number
\* of parameters, words and steps, unless a value was empty or refused.
THEOREM PlainStepsAreRestored == Spec => []PlainStepsRestored
<1>1. TypeInv => PlainStepsRestored
  <2> SUFFICES ASSUME TypeInv, NEW k \in DOMAIN steps, Plain(steps[k])
               PROVE  Restored(Export(steps[k])).settings = steps[k].settings
    BY DEF PlainStepsRestored
  <2>1. steps[k] \in StoredStep /\ nextId \in Nat
    BY LenProperties, ElementOfSeq DEF TypeInv
  <2> QED
    BY <2>1, PlainRestored
<1> QED
  BY <1>1, ListsAreTyped, PTL
=============================================================================
