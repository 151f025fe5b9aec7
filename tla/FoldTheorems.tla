----------------------------- MODULE FoldTheorems -----------------------------
(***************************************************************************)
(* What a left fold over a sequence computes, for any operation.  The      *)
(* operation is a parameter of the module, so that a proof instantiates it *)
(* with the step its model folds with: the host replaying a membership     *)
(* journal, a store publishing a batch.                                    *)
(***************************************************************************)
EXTENDS Naturals, SequencesExt, TLAPS, WellFoundedInduction

CONSTANT Op(_, _)

Fold(base, s) == FoldLeft(Op, base, s)

\* f computes the fold of s on the sets of its first n indices.
IsIterator(base, s, n, f) ==
    f = [T \in SUBSET (1..n) |-> IF T = {} THEN base ELSE Op(f[T \ {Max(T)}], s[Max(T)])]

\* f folds one more element at a time.
Steps(base, s, n, f) ==
    /\ f[1..0] = base
    /\ \A k \in Nat : k < n => f[1..(k + 1)] = Op(f[1..k], s[k + 1])

\* A set of naturals that holds zero and every successor holds them all.
LEMMA SetInduction ==
    ASSUME NEW S \in SUBSET Nat, 0 \in S, \A n \in S : n + 1 \in S
    PROVE  S = Nat
<1> SUFFICES ASSUME Nat \ S # {}
             PROVE  FALSE
  OBVIOUS
<1>1. PICK n \in Nat \ S : \A k \in Nat \ S : ~(<<k, n>> \in OpToRel(<, Nat))
  <2>1. Nat \ S \subseteq Nat
    OBVIOUS
  <2> QED  BY <2>1, NatLessThanWellFounded, WFMin
<1>2. \A k \in Nat \ S : ~(k < n)
  BY <1>1, Zenon DEF OpToRel
<1>3. n # 0 /\ n - 1 \in Nat /\ n - 1 \notin Nat \ S
  BY <1>2
<1> QED  BY <1>3

\* The last index of a set that holds it is its maximum.
LEMMA LastIsMax ==
    ASSUME NEW n \in Nat, NEW T \in SUBSET (1..n), n \in T
    PROVE  Max(T) = n
<1>1. n \in T /\ \A y \in T : n >= y
  OBVIOUS
<1>2. Max(T) \in T /\ \A y \in T : Max(T) >= y
  BY <1>1 DEF Max
<1>3. Max(T) \in 1..n
  BY <1>2
<1>4. n >= Max(T) /\ Max(T) >= n
  BY <1>1, <1>2
<1> QED  BY <1>3, <1>4

\* The recursive definition of the fold has a solution.
LEMMA IteratorExists ==
    ASSUME NEW base, NEW s, NEW n \in Nat
    PROVE  \E f : IsIterator(base, s, n, f)
<1> DEFINE S == {k \in Nat : \E f : IsIterator(base, s, k, f)}
<1>1. 0 \in S
  <2> DEFINE f == [T \in SUBSET (1..0) |-> base]
  <2>1. \A T \in SUBSET (1..0) : T = {}
    OBVIOUS
  <2>2. IsIterator(base, s, 0, f)
    BY <2>1 DEF IsIterator
  <2> QED  BY <2>2
<1>2. ASSUME NEW k \in S
      PROVE  k + 1 \in S
  <2>1. k \in Nat
    OBVIOUS
  <2>2. PICK f : IsIterator(base, s, k, f)
    OBVIOUS
  <2> DEFINE g == [T \in SUBSET (1..(k + 1)) |->
                      IF k + 1 \in T THEN Op(f[T \ {k + 1}], s[k + 1]) ELSE f[T]]
  <2>3. ASSUME NEW T \in SUBSET (1..(k + 1))
        PROVE  g[T] = IF T = {} THEN base ELSE Op(g[T \ {Max(T)}], s[Max(T)])
    <3>1. CASE k + 1 \in T
      <4>1. Max(T) = k + 1
        BY <2>1, <3>1, LastIsMax
      <4>2. T \ {k + 1} \in SUBSET (1..(k + 1)) /\ k + 1 \notin T \ {k + 1}
        OBVIOUS
      <4>3. g[T \ {k + 1}] = f[T \ {k + 1}]
        BY <4>2
      <4> QED  BY <3>1, <4>1, <4>3
    <3>2. CASE k + 1 \notin T
      <4>1. T \in SUBSET (1..k)
        BY <2>1, <3>2
      <4>2. T \ {Max(T)} \in SUBSET (1..k) /\ T \ {Max(T)} \in SUBSET (1..(k + 1)) /\ k + 1 \notin T \ {Max(T)}
        BY <3>2, <4>1
      <4>3. g[T] = f[T] /\ g[T \ {Max(T)}] = f[T \ {Max(T)}]
        BY <3>2, <4>2
      <4>4. f[T] = IF T = {} THEN base ELSE Op(f[T \ {Max(T)}], s[Max(T)])
        BY <2>2, <4>1 DEF IsIterator
      <4> HIDE DEF g
      <4> QED  BY <4>3, <4>4
    <3> QED  BY <3>1, <3>2
  <2>4. g = [T \in SUBSET (1..(k + 1)) |-> g[T]]
    OBVIOUS
  <2>5. IsIterator(base, s, k + 1, g)
    <3> HIDE DEF g
    <3> QED  BY <2>3, <2>4 DEF IsIterator
  <2> QED  BY <2>1, <2>5
<1>3. S \in SUBSET Nat
  OBVIOUS
<1> HIDE DEF S
<1>4. S = Nat
  BY <1>1, <1>2, <1>3, SetInduction
<1> QED  BY <1>4 DEF S

\* A solution folds one more element at a time.
LEMMA IteratorSteps ==
    ASSUME NEW base, NEW s, NEW n \in Nat, NEW f, IsIterator(base, s, n, f)
    PROVE  Steps(base, s, n, f)
<1>1. \A T \in SUBSET (1..n) : f[T] = IF T = {} THEN base ELSE Op(f[T \ {Max(T)}], s[Max(T)])
  BY DEF IsIterator
<1>2. f[1..0] = base
  <2>1. 1..0 = {} /\ 1..0 \in SUBSET (1..n)
    OBVIOUS
  <2> QED  BY <1>1, <2>1
<1>3. ASSUME NEW k \in Nat, k < n
      PROVE  f[1..(k + 1)] = Op(f[1..k], s[k + 1])
  <2>1. 1..(k + 1) \in SUBSET (1..n) /\ 1..(k + 1) # {} /\ k + 1 \in 1..(k + 1)
    BY <1>3
  <2>2. Max(1..(k + 1)) = k + 1
    <3>1. k + 1 \in Nat /\ 1..(k + 1) \in SUBSET (1..(k + 1))
      OBVIOUS
    <3> QED  BY <2>1, <3>1, LastIsMax
  <2>3. (1..(k + 1)) \ {k + 1} = 1..k
    OBVIOUS
  <2> QED  BY <1>1, <2>1, <2>2, <2>3
<1> QED  BY <1>2, <1>3 DEF Steps

\* The fold is what a solution computes for all indices.
LEMMA FoldIsIterated ==
    ASSUME NEW base, NEW E, NEW s \in Seq(E)
    PROVE  \E f : IsIterator(base, s, Len(s), f) /\ Fold(base, s) = f[1..Len(s)]
<1> DEFINE f == CHOOSE g : IsIterator(base, s, Len(s), g)
<1>1. DOMAIN s = 1..Len(s) /\ Len(s) \in Nat
  OBVIOUS
<1>2. IsIterator(base, s, Len(s), f)
  BY <1>1, IteratorExists
<1>3. Fold(base, s) = f[1..Len(s)]
  BY <1>1 DEF Fold, FoldLeft, MapThenFoldSet, IsIterator
<1> QED  BY <1>2, <1>3

\* The values of the prefixes lead to the value of the whole.
LEMMA FoldPrefixes ==
    ASSUME NEW base, NEW E, NEW s \in Seq(E)
    PROVE  \E f : Steps(base, s, Len(s), f) /\ Fold(base, s) = f[1..Len(s)]
<1>1. PICK f : IsIterator(base, s, Len(s), f) /\ Fold(base, s) = f[1..Len(s)]
  BY FoldIsIterated
<1>2. Len(s) \in Nat
  OBVIOUS
<1>3. Steps(base, s, Len(s), f)
  BY <1>1, <1>2, IteratorSteps
<1> QED  BY <1>1, <1>3

\* Folding nothing.
LEMMA FoldEmpty == \A base : Fold(base, <<>>) = base
<1> TAKE base
<1>1. <<>> \in Seq({}) /\ Len(<<>>) = 0
  OBVIOUS
<1>2. PICK f : Steps(base, <<>>, Len(<<>>), f) /\ Fold(base, <<>>) = f[1..Len(<<>>)]
  BY <1>1, FoldPrefixes
<1> QED  BY <1>1, <1>2 DEF Steps

\* The fold of a longer sequence is one more step.
LEMMA FoldAppend ==
    ASSUME NEW base, NEW E, NEW s \in Seq(E), NEW e \in E
    PROVE  Fold(base, Append(s, e)) = Op(Fold(base, s), e)
<1> DEFINE t == Append(s, e)
           n == Len(s)
<1>1. /\ t \in Seq(E) /\ n \in Nat /\ Len(t) = n + 1 /\ t[n + 1] = e
      /\ \A k \in 1..n : t[k] = s[k]
  OBVIOUS
<1> HIDE DEF t
<1>2. PICK f : Steps(base, t, Len(t), f) /\ Fold(base, t) = f[1..Len(t)]
  BY <1>1, FoldPrefixes
<1>3. PICK g : Steps(base, s, n, g) /\ Fold(base, s) = g[1..n]
  BY FoldPrefixes
<1> HIDE DEF n
<1>4. /\ f[1..0] = base
      /\ \A k \in Nat : k < n + 1 => f[1..(k + 1)] = Op(f[1..k], t[k + 1])
  BY <1>1, <1>2 DEF Steps
<1>5. /\ g[1..0] = base
      /\ \A k \in Nat : k < n => g[1..(k + 1)] = Op(g[1..k], s[k + 1])
  BY <1>3 DEF Steps
<1> DEFINE S == {k \in Nat : k <= n => f[1..k] = g[1..k]}
<1>6. 0 \in S
  BY <1>4, <1>5
<1>7. ASSUME NEW k \in S
      PROVE  k + 1 \in S
  <2> SUFFICES ASSUME k + 1 <= n
               PROVE  f[1..(k + 1)] = g[1..(k + 1)]
    OBVIOUS
  <2>1. k \in Nat /\ k < n /\ k < n + 1 /\ k <= n /\ k + 1 \in 1..n
    BY <1>1
  <2>2. f[1..k] = g[1..k] /\ t[k + 1] = s[k + 1]
    BY <1>1, <2>1
  <2> QED  BY <1>4, <1>5, <2>1, <2>2
<1>8. S = Nat
  <2>1. S \in SUBSET Nat
    OBVIOUS
  <2> HIDE DEF S
  <2> QED  BY <1>6, <1>7, <2>1, SetInduction
<1>9. f[1..n] = g[1..n]
  BY <1>1, <1>8
<1>10. f[1..(n + 1)] = Op(f[1..n], t[n + 1])
  BY <1>1, <1>4
<1> QED  BY <1>1, <1>2, <1>3, <1>9, <1>10 DEF t

\* A fold whose steps stay in a set ends in it.
LEMMA FoldStays ==
    ASSUME NEW A, NEW base \in A, NEW E, NEW s \in Seq(E),
           \A a \in A, i \in 1..Len(s) : Op(a, s[i]) \in A
    PROVE  Fold(base, s) \in A
<1> DEFINE n == Len(s)
<1>1. n \in Nat
  OBVIOUS
<1>2. PICK f : Steps(base, s, n, f) /\ Fold(base, s) = f[1..n]
  BY FoldPrefixes
<1> HIDE DEF n
<1> DEFINE S == {k \in Nat : k <= n => f[1..k] \in A}
<1>4. 0 \in S
  BY <1>2 DEF Steps
<1>5. ASSUME NEW k \in S
      PROVE  k + 1 \in S
  <2> SUFFICES ASSUME k + 1 <= n
               PROVE  f[1..(k + 1)] \in A
    OBVIOUS
  <2>1. k \in Nat /\ k < n /\ k <= n /\ k + 1 \in 1..n
    BY <1>1
  <2>2. f[1..k] \in A
    BY <2>1
  <2> QED  BY <1>2, <2>1, <2>2 DEF Steps, n
<1>6. S = Nat
  <2>1. S \in SUBSET Nat
    OBVIOUS
  <2> HIDE DEF S
  <2> QED  BY <1>4, <1>5, <2>1, SetInduction
<1> QED  BY <1>1, <1>2, <1>6

\* A fold whose k-th step leads from the k-th set to the next ends in the last.
LEMMA FoldFollows ==
    ASSUME NEW E, NEW s \in Seq(E), NEW A, NEW base \in A[0],
           \A k \in Nat : k < Len(s) => \A a \in A[k] : Op(a, s[k + 1]) \in A[k + 1]
    PROVE  Fold(base, s) \in A[Len(s)]
<1> DEFINE n == Len(s)
<1>1. n \in Nat
  OBVIOUS
<1>2. PICK f : Steps(base, s, n, f) /\ Fold(base, s) = f[1..n]
  BY FoldPrefixes
<1> HIDE DEF n
<1> DEFINE S == {k \in Nat : k <= n => f[1..k] \in A[k]}
<1>3. 0 \in S
  BY <1>2 DEF Steps
<1>4. ASSUME NEW k \in S
      PROVE  k + 1 \in S
  <2> SUFFICES ASSUME k + 1 <= n
               PROVE  f[1..(k + 1)] \in A[k + 1]
    OBVIOUS
  <2>1. k \in Nat /\ k < n /\ k <= n
    BY <1>1
  <2>2. f[1..k] \in A[k]
    BY <2>1
  <2> QED  BY <1>2, <2>1, <2>2 DEF Steps, n
<1>5. S = Nat
  <2>1. S \in SUBSET Nat
    OBVIOUS
  <2> HIDE DEF S
  <2> QED  BY <1>3, <1>4, <2>1, SetInduction
<1> QED  BY <1>1, <1>2, <1>5 DEF n
==============================================================================
