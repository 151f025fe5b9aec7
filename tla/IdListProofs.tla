---------------------------- MODULE IdListProofs -----------------------------
(***************************************************************************)
(* The list as the code keeps it implements ListReplica, for any actors,   *)
(* any budgets and any redelivery; and what that rests on: the private     *)
(* history names only what the list still holds, and what a replica has    *)
(* integrated is in its list or below its certified frontier.              *)
(*                                                                         *)
(* The lemmas about the history speak of its places: the groups of the     *)
(* stack and those waiting for acknowledgement.  Every operation on a      *)
(* history moves groups between places without repeating one.              *)
(***************************************************************************)
EXTENDS IdList, ListReplicaProofs

-----------------------------------------------------------------------------
(* Sequences *)

\* Concatenation, by positions.
LEMMA ConcatAt ==
    ASSUME NEW S, NEW s \in Seq(S), NEW t \in Seq(S)
    PROVE  /\ s \o t \in Seq(S)
           /\ Len(s) \in Nat /\ Len(t) \in Nat /\ Len(s \o t) = Len(s) + Len(t)
           /\ \A i \in 1 .. Len(s) : (s \o t)[i] = s[i]
           /\ \A i \in 1 .. Len(t) : (s \o t)[Len(s) + i] = t[i]
  OBVIOUS

\* A position of a concatenation is one of either part.
LEMMA ConcatPositions ==
    ASSUME NEW S, NEW s \in Seq(S), NEW t \in Seq(S), NEW i \in DOMAIN (s \o t)
    PROVE  \/ i \in 1 .. Len(s) /\ (s \o t)[i] = s[i]
           \/ /\ i \in Nat /\ i > Len(s) /\ i - Len(s) \in 1 .. Len(t)
              /\ (s \o t)[i] = t[i - Len(s)]
  OBVIOUS

\* The first n elements and the others, by positions.
LEMMA SplitAt ==
    ASSUME NEW S, NEW s \in Seq(S), NEW n \in 0 .. Len(s)
    PROVE  /\ SubSeq(s, 1, n) \in Seq(S) /\ Len(SubSeq(s, 1, n)) = n
           /\ \A i \in 1 .. n : SubSeq(s, 1, n)[i] = s[i]
           /\ SubSeq(s, n + 1, Len(s)) \in Seq(S) /\ Len(SubSeq(s, n + 1, Len(s))) = Len(s) - n
           /\ \A i \in 1 .. Len(s) - n : SubSeq(s, n + 1, Len(s))[i] = s[n + i]
<1>1. Len(s) \in Nat /\ n \in Nat /\ n <= Len(s)
  OBVIOUS
<1>2. SubSeq(s, 1, n) \in Seq(S) /\ Len(SubSeq(s, 1, n)) = n /\ \A i \in 1 .. n : SubSeq(s, 1, n)[i] = s[i]
  BY <1>1
<1>3. SubSeq(s, n + 1, Len(s)) \in Seq(S) /\ Len(SubSeq(s, n + 1, Len(s))) = Len(s) - n
  BY <1>1
<1>4. \A i \in 1 .. Len(s) - n : SubSeq(s, n + 1, Len(s))[i] = s[n + i]
  BY <1>1
<1> QED  BY <1>2, <1>3, <1>4

\* InsertAt, by positions.
LEMMA InsertedAt ==
    ASSUME NEW S, NEW s \in Seq(S), NEW k \in 1 .. Len(s) + 1, NEW e \in S
    PROVE  /\ InsertAt(s, k, e) \in Seq(S)
           /\ Len(InsertAt(s, k, e)) = Len(s) + 1
           /\ \A i \in 1 .. k - 1 : InsertAt(s, k, e)[i] = s[i]
           /\ InsertAt(s, k, e)[k] = e
           /\ \A i \in k + 1 .. Len(s) + 1 : InsertAt(s, k, e)[i] = s[i - 1]
<1> DEFINE a == SubSeq(s, 1, k - 1)
           b == SubSeq(s, k, Len(s))
           u == a \o <<e>>
           t == u \o b
<1>0. Len(s) \in Nat /\ k \in Nat
  OBVIOUS
<1>1. a \in Seq(S) /\ Len(a) = k - 1 /\ \A i \in 1 .. k - 1 : a[i] = s[i]
  BY <1>0
<1>2. b \in Seq(S) /\ Len(b) = Len(s) - k + 1 /\ \A i \in 1 .. Len(s) - k + 1 : b[i] = s[k + i - 1]
  BY <1>0
<1> HIDE DEF a, b
<1>3. u \in Seq(S) /\ Len(u) = k /\ (\A i \in 1 .. k - 1 : u[i] = a[i]) /\ u[k] = e
  BY <1>0, <1>1
<1> HIDE DEF u
<1>4. /\ t \in Seq(S) /\ Len(t) = k + Len(b)
      /\ \A i \in 1 .. k : t[i] = u[i]
      /\ \A i \in 1 .. Len(b) : t[k + i] = b[i]
  BY <1>0, <1>2, <1>3
<1> HIDE DEF t
<1>5. ASSUME NEW i \in k + 1 .. Len(s) + 1
      PROVE  t[i] = s[i - 1]
  <2>1. i - k \in 1 .. Len(b) /\ i = k + (i - k) /\ k + (i - k) - 1 = i - 1
    BY <1>0, <1>2
  <2>2. t[i] = b[i - k] /\ b[i - k] = s[k + (i - k) - 1]
    BY <1>2, <1>4, <2>1
  <2> QED  BY <2>1, <2>2
<1>6. InsertAt(s, k, e) = t
  BY DEF InsertAt, t, u, a, b
<1> QED  BY <1>0, <1>1, <1>2, <1>3, <1>4, <1>5, <1>6

\* RemoveAt, by positions.
LEMMA RemovedAt ==
    ASSUME NEW S, NEW s \in Seq(S), NEW k \in 1 .. Len(s)
    PROVE  /\ RemoveAt(s, k) \in Seq(S)
           /\ Len(RemoveAt(s, k)) = Len(s) - 1
           /\ \A i \in 1 .. k - 1 : RemoveAt(s, k)[i] = s[i]
           /\ \A i \in k .. Len(s) - 1 : RemoveAt(s, k)[i] = s[i + 1]
<1> DEFINE a == SubSeq(s, 1, k - 1)
           b == SubSeq(s, k + 1, Len(s))
           t == a \o b
<1>0. Len(s) \in Nat /\ k \in Nat
  OBVIOUS
<1>1. a \in Seq(S) /\ Len(a) = k - 1 /\ \A i \in 1 .. k - 1 : a[i] = s[i]
  BY <1>0
<1>2. b \in Seq(S) /\ Len(b) = Len(s) - k /\ \A i \in 1 .. Len(s) - k : b[i] = s[k + i]
  BY <1>0
<1> HIDE DEF a, b
<1>3. /\ t \in Seq(S) /\ Len(t) = Len(a) + Len(b)
      /\ \A i \in 1 .. Len(a) : t[i] = a[i]
      /\ \A i \in 1 .. Len(b) : t[Len(a) + i] = b[i]
  <2>1. a \in Seq(S) /\ b \in Seq(S)
    BY <1>1, <1>2
  <2> QED  BY <2>1, ConcatAt
<1> HIDE DEF t
<1>4. ASSUME NEW i \in k .. Len(s) - 1
      PROVE  t[i] = s[i + 1]
  <2>1. i - k + 1 \in 1 .. Len(b) /\ i = Len(a) + (i - k + 1) /\ k + (i - k + 1) = i + 1
    BY <1>0, <1>1, <1>2
  <2>2. t[Len(a) + (i - k + 1)] = b[i - k + 1] /\ b[i - k + 1] = s[k + (i - k + 1)]
    BY <1>2, <1>3, <2>1
  <2> QED  BY <2>1, <2>2
<1>5. RemoveAt(s, k) = t
  BY DEF RemoveAt, t, a, b
<1>6. Len(t) = Len(s) - 1
  BY <1>0, <1>1, <1>2, <1>3
<1>7. ASSUME NEW i \in 1 .. k - 1
      PROVE  t[i] = s[i]
  BY <1>0, <1>1, <1>3
<1> QED  BY <1>3, <1>4, <1>5, <1>6, <1>7

\* Kept drops positions and nothing else: its positions correspond one to one to
\* those of the kept elements.
LEMMA KeptAt ==
    ASSUME NEW S, NEW s \in Seq(S), NEW gone
    PROVE  /\ Kept(s, gone) \in Seq(S)
           /\ \E f \in [1 .. Len(Kept(s, gone)) -> 1 .. Len(s)] :
                 /\ \A j, k \in 1 .. Len(Kept(s, gone)) : f[j] = f[k] => j = k
                 /\ \A k \in 1 .. Len(Kept(s, gone)) :
                       Kept(s, gone)[k] = s[f[k]] /\ s[f[k]] \notin gone
                 /\ \A i \in 1 .. Len(s) : s[i] \notin gone =>
                       \E k \in 1 .. Len(Kept(s, gone)) : f[k] = i
<1> DEFINE kept == {i \in DOMAIN s : s[i] \notin gone}
           c(i) == Cardinality(kept \cap (1 .. i))
           passed(k) == {i \in DOMAIN s : c(i) >= k}
           n == Cardinality(kept)
           f == [k \in 1 .. n |-> Min(passed(k))]
           t == [k \in 1 .. n |-> s[Min(passed(k))]]
<1>1. DOMAIN s = 1 .. Len(s) /\ Len(s) \in Nat
  OBVIOUS
<1>2. kept \subseteq 1 .. Len(s) /\ \A i \in 1 .. Len(s) : i \in kept <=> s[i] \notin gone
  BY <1>1
<1>3. Kept(s, gone) = t
  BY DEF Kept
<1> HIDE DEF kept
<1>4. \A i \in Nat : IsFiniteSet(kept \cap (1 .. i)) /\ c(i) \in Nat
  <2>1. \A i \in Nat : IsFiniteSet(1 .. i)
    BY FS_Interval
  <2> QED  BY <2>1, FS_Subset, FS_CardinalityType
<1>5. n \in Nat /\ n = c(Len(s)) /\ c(0) = 0
  <2>1. kept \cap (1 .. Len(s)) = kept
    BY <1>2
  <2>2. kept \cap (1 .. 0) = {}
    OBVIOUS
  <2> QED  BY <1>1, <1>4, <2>1, <2>2, FS_EmptySet
<1>6. ASSUME NEW i \in Nat
      PROVE  c(i + 1) = IF i + 1 \in kept THEN c(i) + 1 ELSE c(i)
  <2>1. 1 .. i + 1 = (1 .. i) \cup {i + 1} /\ i + 1 \notin 1 .. i
    OBVIOUS
  <2>2. CASE i + 1 \in kept
    <3>1. kept \cap (1 .. i + 1) = (kept \cap (1 .. i)) \cup {i + 1} /\ i + 1 \notin kept \cap (1 .. i)
      BY <2>1, <2>2
    <3> QED  BY <1>4, <2>2, <3>1, FS_AddElement
  <2>3. CASE i + 1 \notin kept
    <3>1. kept \cap (1 .. i + 1) = kept \cap (1 .. i)
      BY <2>1, <2>3
    <3> QED  BY <2>3, <3>1
  <2> QED  BY <2>2, <2>3
<1>7. ASSUME NEW i \in Nat, NEW j \in Nat, i <= j
      PROVE  c(i) <= c(j)
  <2>1. kept \cap (1 .. i) \subseteq kept \cap (1 .. j)
    BY <1>7
  <2> QED  BY <1>4, <2>1, FS_Subset
<1> HIDE DEF c, n
<1>8. ASSUME NEW k \in 1 .. n
      PROVE  /\ Min(passed(k)) \in 1 .. Len(s) /\ Min(passed(k)) \in kept
             /\ c(Min(passed(k))) = k
             /\ \A i \in passed(k) : Min(passed(k)) <= i
  <2> DEFINE m == Min(passed(k))
  <2>1. passed(k) \subseteq Nat /\ passed(k) # {} /\ passed(k) \subseteq 1 .. Len(s)
    <3>1. Len(s) \in passed(k)
      <4>1. Len(s) # 0
        BY <1>5
      <4>2. c(Len(s)) >= k
        BY <1>5
      <4> QED  BY <1>1, <4>1, <4>2
    <3> QED  BY <1>1, <3>1
  <2>2. m \in passed(k) /\ \A i \in passed(k) : m <= i
    <3> HIDE DEF passed
    <3> QED  BY <2>1, MinExists, Zenon
  <2>3. m \in 1 .. Len(s) /\ c(m) >= k /\ m - 1 \in Nat /\ m = (m - 1) + 1
    BY <1>1, <2>2
  <2>4. c(m - 1) < k
    <3>1. CASE m = 1
      BY <1>5, <3>1
    <3>2. CASE m # 1
      <4>1. m - 1 \in DOMAIN s /\ ~(m <= m - 1)
        BY <1>1, <2>3, <3>2
      <4>2. m - 1 \notin passed(k)
        BY <2>2, <4>1
      <4>3. c(m - 1) \in Nat
        BY <1>4, <2>3
      <4> QED  BY <4>1, <4>2, <4>3
    <3> QED  BY <3>1, <3>2
  <2> HIDE DEF m, passed
  <2>5. c(m) = IF m \in kept THEN c(m - 1) + 1 ELSE c(m - 1)
    BY <1>6, <2>3
  <2>6. c(m - 1) \in Nat
    BY <1>4, <2>3
  <2> QED  BY <2>2, <2>3, <2>4, <2>5, <2>6 DEF m
<1>9. ASSUME NEW i \in kept
      PROVE  c(i) \in 1 .. n /\ Min(passed(c(i))) = i
  <2>1. i \in 1 .. Len(s) /\ i - 1 \in Nat /\ i = (i - 1) + 1
    BY <1>2
  <2>2. c(i) = c(i - 1) + 1 /\ c(i - 1) \in Nat
    <3>1. c((i - 1) + 1) = c(i - 1) + 1
      BY <1>6, <2>1
    <3> QED  BY <1>4, <2>1, <3>1
  <2>3. c(i) <= n
    BY <1>1, <1>5, <1>7, <2>1
  <2>4. c(i) \in 1 .. n
    BY <1>5, <2>2, <2>3
  <2> DEFINE m == Min(passed(c(i)))
  <2>5. i \in passed(c(i))
    BY <1>1, <2>1, <2>2
  <2>6. m \in 1 .. Len(s) /\ c(m) = c(i) /\ m <= i
    <3> HIDE DEF passed
    <3> QED  BY <1>8, <2>4, <2>5
  <2> HIDE DEF m
  <2>7. ~(m <= i - 1)
    <3>1. m <= i - 1 => c(m) <= c(i - 1)
      BY <1>7, <2>1, <2>6
    <3> QED  BY <2>2, <2>6, <3>1
  <2> QED  BY <2>1, <2>4, <2>6, <2>7 DEF m
<1> HIDE DEF passed
<1>10. f \in [1 .. n -> 1 .. Len(s)] /\ \A k \in 1 .. n : f[k] = Min(passed(k))
  BY <1>8
<1>11. t \in Seq(S) /\ Len(t) = n /\ \A k \in 1 .. n : t[k] = s[f[k]]
  <2>1. \A k \in 1 .. n : s[Min(passed(k))] \in S
    BY <1>8
  <2> QED  BY <1>5, <1>10, <2>1
<1>12. \A j, k \in 1 .. n : f[j] = f[k] => j = k
  BY <1>8, <1>10
<1>13. \A k \in 1 .. n : s[f[k]] \notin gone
  BY <1>2, <1>8, <1>10
<1>14. \A i \in 1 .. Len(s) : s[i] \notin gone => \E k \in 1 .. n : f[k] = i
  <2> SUFFICES ASSUME NEW i \in 1 .. Len(s), s[i] \notin gone
               PROVE  \E k \in 1 .. n : f[k] = i
    OBVIOUS
  <2>1. i \in kept
    BY <1>2
  <2> QED  BY <1>9, <1>10, <2>1
<1> HIDE DEF f, t
<1>15. /\ f \in [1 .. Len(t) -> 1 .. Len(s)]
       /\ \A j, k \in 1 .. Len(t) : f[j] = f[k] => j = k
       /\ \A k \in 1 .. Len(t) : t[k] = s[f[k]] /\ s[f[k]] \notin gone
       /\ \A i \in 1 .. Len(s) : s[i] \notin gone => \E k \in 1 .. Len(t) : f[k] = i
  BY <1>10, <1>11, <1>12, <1>13, <1>14
<1> HIDE DEF passed
<1> QED  BY <1>3, <1>11, <1>15

-----------------------------------------------------------------------------
(* Histories *)

\* Where the groups of a history are.
Places(h) ==
    ({"stack"} \X (1 .. Len(h.stack))) \cup ({"retired"} \X (1 .. Len(h.retired)))

GroupAt(h, p) == IF p[1] = "stack" THEN h.stack[p[2]] ELSE h.retired[p[2]]

\* A place of the redo tail.
IsRedo(h, p) == p[1] = "stack" /\ p[2] > h.cursor

\* What an undo or redo of a group toggles.
Members(g) == g.items \cup g.dels

HistoryShape(h) == h \in History /\ h.cursor <= Len(h.stack)

\* No operation is in two groups.
Apart(h) ==
    \A p, q \in Places(h) : p # q => GroupAt(h, p).ops \cap GroupAt(h, q).ops = {}

\* The group consists of operations in N, among them insertions in O and
\* deletions in D.
GroupOK(g, N, O, D) ==
    Members(g) \subseteq g.ops /\ g.ops \subseteq N /\ g.items \subseteq O /\ g.dels \subseteq D

HistoryOK(h, N, O, D) ==
    /\ HistoryShape(h)
    /\ Apart(h)
    /\ \A p \in Places(h) : GroupOK(GroupAt(h, p), N, O, D)

\* The identities in U are the undone ones.
SidesOK(h, U) ==
    \A p \in Places(h) : p[1] = "stack" =>
        \A id \in Members(GroupAt(h, p)) : id \in U <=> IsRedo(h, p)

\* k holds groups of h, none of them twice; those of the stack of k were in the
\* stack of h, and on the other side of the cursor exactly at the places in X.
Rearranges(k, h, X) ==
    /\ HistoryShape(k)
    /\ \E f \in [Places(k) -> Places(h)] :
        /\ \A p, q \in Places(k) : f[p] = f[q] => p = q
        /\ \A p \in Places(k) :
              /\ GroupAt(k, p) = GroupAt(h, f[p])
              /\ p[1] = "stack" => /\ f[p][1] = "stack"
                                   /\ p \in X <=> (IsRedo(k, p) <=> ~IsRedo(h, f[p]))

\* Groups that change places are still what they were.
LEMMA RearrangedIsOK ==
    ASSUME NEW h, NEW k, NEW X, NEW N, NEW O, NEW D,
           HistoryOK(h, N, O, D), Rearranges(k, h, X)
    PROVE  HistoryOK(k, N, O, D)
<1>1. PICK f \in [Places(k) -> Places(h)] :
        /\ \A p, q \in Places(k) : f[p] = f[q] => p = q
        /\ \A p \in Places(k) : GroupAt(k, p) = GroupAt(h, f[p])
  BY DEF Rearranges
<1>2. \A p \in Places(k) : f[p] \in Places(h)
  OBVIOUS
<1>3. Apart(k)
  BY <1>1, <1>2 DEF HistoryOK, Apart
<1>4. \A p \in Places(k) : GroupOK(GroupAt(k, p), N, O, D)
  BY <1>1, <1>2 DEF HistoryOK
<1> QED  BY <1>3, <1>4 DEF HistoryOK, Rearranges

\* What is done or undone stays so while no group passes the cursor.
LEMMA RearrangedKeepsSides ==
    ASSUME NEW h, NEW k, NEW U, SidesOK(h, U), Rearranges(k, h, {})
    PROVE  SidesOK(k, U)
<1>1. PICK f \in [Places(k) -> Places(h)] :
        \A p \in Places(k) :
              /\ GroupAt(k, p) = GroupAt(h, f[p])
              /\ p[1] = "stack" => f[p][1] = "stack" /\ (IsRedo(k, p) <=> IsRedo(h, f[p]))
  BY DEF Rearranges
<1>2. \A p \in Places(k) : f[p] \in Places(h)
  OBVIOUS
<1> QED  BY <1>1, <1>2 DEF SidesOK

\* When one group passes the cursor its members, and no others, are toggled.
LEMMA PassingKeepsSides ==
    ASSUME NEW h, NEW k, NEW N, NEW O, NEW D, NEW U, NEW V, NEW x \in Places(k),
           HistoryOK(h, N, O, D), SidesOK(h, U), Rearranges(k, h, {x}),
           \A id \in Members(GroupAt(k, x)) : id \in V <=> id \notin U,
           \A id \in N \ Members(GroupAt(k, x)) : id \in V <=> id \in U
    PROVE  SidesOK(k, V)
<1>1. PICK f \in [Places(k) -> Places(h)] :
        \A p \in Places(k) :
              /\ GroupAt(k, p) = GroupAt(h, f[p])
              /\ p[1] = "stack" => /\ f[p][1] = "stack"
                                   /\ p = x <=> (IsRedo(k, p) <=> ~IsRedo(h, f[p]))
  BY DEF Rearranges
<1>2. \A p \in Places(k) : f[p] \in Places(h)
  OBVIOUS
<1>3. HistoryOK(k, N, O, D)
  BY RearrangedIsOK
<1> SUFFICES ASSUME NEW p \in Places(k), p[1] = "stack", NEW id \in Members(GroupAt(k, p))
             PROVE  id \in V <=> IsRedo(k, p)
  BY DEF SidesOK
<1>4. id \in U <=> IsRedo(h, f[p])
  BY <1>1, <1>2 DEF SidesOK
<1>5. CASE p = x
  BY <1>1, <1>4, <1>5
<1>6. CASE p # x
  <2>1. id \in GroupAt(k, p).ops /\ id \in N
    BY <1>3 DEF HistoryOK, GroupOK
  <2>2. Members(GroupAt(k, x)) \subseteq GroupAt(k, x).ops
    BY <1>3 DEF HistoryOK, GroupOK
  <2>3. id \notin Members(GroupAt(k, x))
    BY <1>3, <1>6, <2>1, <2>2 DEF HistoryOK, Apart
  <2> QED  BY <1>1, <1>4, <1>6, <2>1, <2>3
<1> QED  BY <1>5, <1>6

\* A place is a position of the stack or of the retired groups.
LEMMA PlaceParts ==
    ASSUME NEW h, HistoryShape(h)
    PROVE  /\ h.stack \in Seq(Group) /\ h.retired \in Seq(Group) /\ h.cursor \in Nat
           /\ Len(h.stack) \in Nat /\ Len(h.retired) \in Nat /\ h.cursor <= Len(h.stack)
           /\ \A p \in Places(h) :
                 /\ p = <<p[1], p[2]>>
                 /\ \/ p[1] = "stack" /\ p[2] \in 1 .. Len(h.stack)
                    \/ p[1] = "retired" /\ p[2] \in 1 .. Len(h.retired)
           /\ \A i \in 1 .. Len(h.stack) :
                 <<"stack", i>> \in Places(h) /\ GroupAt(h, <<"stack", i>>) = h.stack[i]
           /\ \A i \in 1 .. Len(h.retired) :
                 <<"retired", i>> \in Places(h) /\ GroupAt(h, <<"retired", i>>) = h.retired[i]
<1>1. h.stack \in Seq(Group) /\ h.retired \in Seq(Group) /\ h.cursor \in Nat /\ h.cursor <= Len(h.stack)
  BY DEF HistoryShape, History
<1>2. Len(h.stack) \in Nat /\ Len(h.retired) \in Nat
  BY <1>1
<1>3. ASSUME NEW p \in Places(h)
      PROVE  /\ p = <<p[1], p[2]>>
             /\ \/ p[1] = "stack" /\ p[2] \in 1 .. Len(h.stack)
                \/ p[1] = "retired" /\ p[2] \in 1 .. Len(h.retired)
  BY DEF Places
<1>4. ASSUME NEW i \in 1 .. Len(h.stack)
      PROVE  <<"stack", i>> \in Places(h) /\ GroupAt(h, <<"stack", i>>) = h.stack[i]
  BY DEF Places, GroupAt
<1>5. ASSUME NEW i \in 1 .. Len(h.retired)
      PROVE  <<"retired", i>> \in Places(h) /\ GroupAt(h, <<"retired", i>>) = h.retired[i]
  BY DEF Places, GroupAt
<1> QED  BY <1>1, <1>2, <1>3, <1>4, <1>5

\* A history of which the stack is a rearrangement and the retired groups stay.
LEMMA StackRearranged ==
    ASSUME NEW h, HistoryShape(h), NEW k, HistoryShape(k), k.retired = h.retired,
           NEW m, \A i \in 1 .. Len(k.stack) :
                     m[i] \in 1 .. Len(h.stack) /\ k.stack[i] = h.stack[m[i]],
           \A i, j \in 1 .. Len(k.stack) : m[i] = m[j] => i = j,
           NEW X, X \subseteq {"stack"} \X (1 .. Len(k.stack)),
           \A i \in 1 .. Len(k.stack) :
              <<"stack", i>> \in X <=> (i > k.cursor <=> ~(m[i] > h.cursor))
    PROVE  Rearranges(k, h, X)
<1> DEFINE f == [p \in Places(k) |-> IF p[1] = "stack" THEN <<"stack", m[p[2]]>> ELSE p]
<1>1. ASSUME NEW p \in Places(k)
      PROVE  /\ f[p] \in Places(h)
             /\ GroupAt(k, p) = GroupAt(h, f[p])
             /\ p[1] = "stack" => /\ f[p][1] = "stack"
                                  /\ p \in X <=> (IsRedo(k, p) <=> ~IsRedo(h, f[p]))
  <2>1. CASE p[1] = "stack"
    <3>1. p = <<"stack", p[2]>> /\ p[2] \in 1 .. Len(k.stack)
      BY <2>1, PlaceParts
    <3>2. f[p] = <<"stack", m[p[2]]>>
      BY <2>1
    <3>3. f[p] \in Places(h) /\ GroupAt(k, p) = GroupAt(h, f[p])
      BY <3>1, <3>2, PlaceParts
    <3>4. IsRedo(k, p) <=> p[2] > k.cursor
      BY <2>1 DEF IsRedo
    <3>5. IsRedo(h, f[p]) <=> m[p[2]] > h.cursor
      BY <3>2 DEF IsRedo
    <3>6. p \in X <=> (p[2] > k.cursor <=> ~(m[p[2]] > h.cursor))
      BY <3>1
    <3> QED  BY <3>2, <3>3, <3>4, <3>5, <3>6
  <2>2. CASE p[1] = "retired"
    <3>1. p = <<"retired", p[2]>> /\ p[2] \in 1 .. Len(k.retired) /\ f[p] = p
      BY <2>2, PlaceParts
    <3>2. f[p] \in Places(h) /\ GroupAt(k, p) = GroupAt(h, f[p])
      BY <3>1, PlaceParts
    <3> QED  BY <2>2, <3>2
  <2> QED  BY <2>1, <2>2, PlaceParts
<1>2. ASSUME NEW p \in Places(k), NEW q \in Places(k), f[p] = f[q]
      PROVE  p = q
  <2>1. f[p] = (IF p[1] = "stack" THEN <<"stack", m[p[2]]>> ELSE p)
    OBVIOUS
  <2>2. f[q] = (IF q[1] = "stack" THEN <<"stack", m[q[2]]>> ELSE q)
    OBVIOUS
  <2>3. /\ p = <<p[1], p[2]>> /\ (p[1] = "stack" => p[2] \in 1 .. Len(k.stack))
        /\ q = <<q[1], q[2]>> /\ (q[1] = "stack" => q[2] \in 1 .. Len(k.stack))
    BY PlaceParts
  <2>4. CASE p[1] = "stack" /\ q[1] = "stack"
    BY <1>2, <2>1, <2>2, <2>3, <2>4
  <2>5. CASE p[1] # "stack" /\ q[1] # "stack"
    BY <1>2, <2>1, <2>2, <2>5
  <2>6. CASE p[1] = "stack" /\ q[1] # "stack"
    <3>1. q = <<"stack", m[p[2]]>>
      BY <1>2, <2>1, <2>2, <2>6
    <3> QED  BY <2>6, <3>1
  <2>7. CASE p[1] # "stack" /\ q[1] = "stack"
    <3>1. p = <<"stack", m[q[2]]>>
      BY <1>2, <2>1, <2>2, <2>7
    <3> QED  BY <2>7, <3>1
  <2> QED  BY <2>4, <2>5, <2>6, <2>7
<1>3. f \in [Places(k) -> Places(h)]
  BY <1>1
<1> HIDE DEF f
<1> QED  BY <1>1, <1>2, <1>3 DEF Rearranges

\* The n groups of h behind the first o of its stack are retired in k, and the
\* rest keeps its order and its side.
Retires(h, k, o, n) ==
    /\ n \in 0 .. Len(h.stack) /\ o \in 0 .. Len(h.stack) - n
    /\ Len(k.stack) = Len(h.stack) - n
    /\ \A i \in 1 .. o : k.stack[i] = h.stack[i]
    /\ \A i \in o + 1 .. Len(k.stack) : k.stack[i] = h.stack[n + i]
    /\ Len(k.retired) = Len(h.retired) + n
    /\ \A i \in 1 .. Len(h.retired) : k.retired[i] = h.retired[i]
    /\ \A i \in 1 .. n : k.retired[Len(h.retired) + i] = h.stack[o + i]
    /\ \A i \in 1 .. Len(k.stack) :
          i > k.cursor <=> (IF i <= o THEN i ELSE n + i) > h.cursor

\* Groups of the stack that have been moved behind the retired ones.
LEMMA StackRetired ==
    ASSUME NEW h, HistoryShape(h), NEW k, HistoryShape(k), NEW o, NEW n, Retires(h, k, o, n)
    PROVE  Rearranges(k, h, {})
<1> DEFINE m(i) == IF i <= o THEN i ELSE n + i
           r(i) == IF i <= Len(h.retired) THEN <<"retired", i>>
                   ELSE <<"stack", o + (i - Len(h.retired))>>
           f == [p \in Places(k) |-> IF p[1] = "stack" THEN <<"stack", m(p[2])>> ELSE r(p[2])]
<1>0. /\ Len(h.stack) \in Nat /\ Len(h.retired) \in Nat /\ n \in Nat /\ o \in Nat
      /\ h.cursor \in Nat /\ k.cursor \in Nat /\ Len(k.stack) \in Nat
      /\ Len(k.stack) = Len(h.stack) - n /\ Len(k.retired) = Len(h.retired) + n
      /\ o + n <= Len(h.stack)
  <2>1. n \in 0 .. Len(h.stack) /\ o \in 0 .. Len(h.stack) - n
        /\ Len(k.stack) = Len(h.stack) - n /\ Len(k.retired) = Len(h.retired) + n
    BY DEF Retires
  <2> QED  BY <2>1, PlaceParts
<1>1. ASSUME NEW i \in 1 .. Len(k.stack)
      PROVE  /\ m(i) \in 1 .. Len(h.stack)
             /\ GroupAt(k, <<"stack", i>>) = GroupAt(h, <<"stack", m(i)>>)
  <2>1. m(i) \in 1 .. Len(h.stack)
    BY <1>0
  <2>2. k.stack[i] = h.stack[m(i)]
    <3>1. CASE i <= o
      <4>1. i \in 1 .. o
        BY <1>0, <3>1
      <4> QED  BY <3>1, <4>1 DEF Retires
    <3>2. CASE ~(i <= o)
      <4>1. i \in o + 1 .. Len(k.stack)
        BY <1>0, <3>2
      <4> QED  BY <3>2, <4>1 DEF Retires
    <3> QED  BY <3>1, <3>2
  <2> HIDE DEF m
  <2> QED  BY <2>1, <2>2, PlaceParts
<1>2. ASSUME NEW i \in 1 .. Len(k.retired)
      PROVE  /\ r(i) \in Places(h) /\ GroupAt(k, <<"retired", i>>) = GroupAt(h, r(i))
             /\ i <= Len(h.retired) => r(i) = <<"retired", i>>
             /\ ~(i <= Len(h.retired)) =>
                   /\ r(i) = <<"stack", o + (i - Len(h.retired))>>
                   /\ o + (i - Len(h.retired)) \in o + 1 .. o + n
  <2>1. CASE i <= Len(h.retired)
    <3>1. i \in 1 .. Len(h.retired)
      BY <1>0, <2>1
    <3>2. k.retired[i] = h.retired[i]
      BY <3>1 DEF Retires
    <3>3. r(i) = <<"retired", i>>
      BY <2>1
    <3> HIDE DEF r
    <3> QED  BY <2>1, <3>1, <3>2, <3>3, PlaceParts
  <2>2. CASE ~(i <= Len(h.retired))
    <3> DEFINE j == i - Len(h.retired)
    <3>0. i \in Nat /\ i <= Len(h.retired) + n
      BY <1>0
    <3> HIDE DEF m, r, f
    <3>1. j \in Int /\ i = Len(h.retired) + j /\ 1 <= j /\ j <= n
      BY <1>0, <2>2, <3>0
    <3>1a. j \in 1 .. n /\ o + j \in o + 1 .. o + n /\ o + j \in 1 .. Len(h.stack)
      <4> HIDE DEF j
      <4> QED  BY <1>0, <3>1
    <3> USE DEF r
    <3>2. r(i) = <<"stack", o + j>>
      BY <2>2
    <3>3. k.retired[Len(h.retired) + j] = h.stack[o + j]
      <4> HIDE DEF j
      <4> QED  BY <3>1a DEF Retires
    <3>4. k.retired[i] = h.stack[o + j]
      BY <3>1, <3>3
    <3> HIDE DEF r
    <3>5. r(i) \in Places(h) /\ GroupAt(k, <<"retired", i>>) = GroupAt(h, r(i))
      <4> HIDE DEF j
      <4> QED  BY <3>1a, <3>2, <3>4, PlaceParts
    <3> QED  BY <2>2, <3>1a, <3>2, <3>5
  <2> HIDE DEF r
  <2> QED  BY <2>1, <2>2
<1>3. ASSUME NEW p \in Places(k)
      PROVE  /\ p[1] = "stack" => /\ p = <<"stack", p[2]>> /\ p[2] \in 1 .. Len(k.stack)
                                  /\ f[p] = <<"stack", m(p[2])>>
             /\ p[1] # "stack" => /\ p = <<"retired", p[2]>> /\ p[2] \in 1 .. Len(k.retired)
                                  /\ f[p] = r(p[2])
  <2>1. f[p] = IF p[1] = "stack" THEN <<"stack", m(p[2])>> ELSE r(p[2])
    OBVIOUS
  <2> HIDE DEF f, m, r
  <2> QED  BY <2>1, PlaceParts
<1>4. ASSUME NEW p \in Places(k)
      PROVE  /\ f[p] \in Places(h)
             /\ GroupAt(k, p) = GroupAt(h, f[p])
             /\ p[1] = "stack" => f[p][1] = "stack" /\ (IsRedo(k, p) <=> IsRedo(h, f[p]))
  <2>1. CASE p[1] = "stack"
    <3>1. p = <<"stack", p[2]>> /\ p[2] \in 1 .. Len(k.stack) /\ f[p] = <<"stack", m(p[2])>>
      BY <1>3, <2>1
    <3>2. f[p] \in Places(h) /\ GroupAt(k, p) = GroupAt(h, f[p])
      <4> HIDE DEF f, m
      <4> QED  BY <1>1, <3>1, PlaceParts
    <3>3. IsRedo(k, p) <=> p[2] > k.cursor
      BY <2>1 DEF IsRedo
    <3>4. IsRedo(h, f[p]) <=> m(p[2]) > h.cursor
      BY <3>1 DEF IsRedo
    <3>5. p[2] > k.cursor <=> m(p[2]) > h.cursor
      BY <3>1 DEF Retires
    <3> QED  BY <3>1, <3>2, <3>3, <3>4, <3>5
  <2>2. CASE p[1] # "stack"
    <3>1. p = <<"retired", p[2]>> /\ p[2] \in 1 .. Len(k.retired) /\ f[p] = r(p[2])
      BY <1>3, <2>2
    <3> HIDE DEF f, m, r
    <3> QED  BY <1>2, <2>2, <3>1
  <2> QED  BY <2>1, <2>2
<1>5. ASSUME NEW p \in Places(k), NEW q \in Places(k), f[p] = f[q]
      PROVE  p = q
  <2>1. CASE p[1] = "stack" /\ q[1] = "stack"
    <3>1. <<"stack", m(p[2])>> = <<"stack", m(q[2])>> /\ p[2] \in 1 .. Len(k.stack) /\ q[2] \in 1 .. Len(k.stack)
      BY <1>3, <1>5, <2>1
    <3>2. p[2] = q[2]
      BY <1>0, <3>1
    <3> QED  BY <1>3, <2>1, <3>2
  <2>2. ASSUME NEW x \in Places(k), NEW y \in Places(k), x[1] = "stack", y[1] # "stack"
        PROVE  f[x] # f[y]
    <3>1. x[2] \in 1 .. Len(k.stack) /\ f[x] = <<"stack", m(x[2])>>
      BY <1>3, <2>2
    <3>2. y[2] \in 1 .. Len(k.retired) /\ f[y] = r(y[2])
      BY <1>3, <2>2
    <3> HIDE DEF f, r
    <3>3. CASE y[2] <= Len(h.retired)
      <4>1. f[y] = <<"retired", y[2]>>
        BY <1>2, <3>2, <3>3
      <4> HIDE DEF m
      <4> QED  BY <3>1, <4>1
    <3>4. CASE ~(y[2] <= Len(h.retired))
      <4> DEFINE z == o + (y[2] - Len(h.retired))
      <4>1. f[y] = <<"stack", z>> /\ z \in o + 1 .. o + n
        BY <1>2, <3>2, <3>4
      <4>2. m(x[2]) \notin o + 1 .. o + n
        BY <1>0, <3>1
      <4> HIDE DEF m, z
      <4> QED  BY <3>1, <4>1, <4>2
    <3> QED  BY <3>3, <3>4
  <2>3. CASE p[1] # "stack" /\ q[1] # "stack"
    <3>1. r(p[2]) = r(q[2]) /\ p[2] \in 1 .. Len(k.retired) /\ q[2] \in 1 .. Len(k.retired)
      <4> HIDE DEF f, m, r
      <4> QED  BY <1>3, <1>5, <2>3
    <3>2. p[2] = q[2]
      <4>1. CASE p[2] <= Len(h.retired) /\ q[2] <= Len(h.retired)
        BY <3>1, <4>1
      <4>2. CASE ~(p[2] <= Len(h.retired)) /\ ~(q[2] <= Len(h.retired))
        BY <1>0, <3>1, <4>2
      <4>3. CASE p[2] <= Len(h.retired) /\ ~(q[2] <= Len(h.retired))
        BY <3>1, <4>3
      <4>4. CASE ~(p[2] <= Len(h.retired)) /\ q[2] <= Len(h.retired)
        BY <3>1, <4>4
      <4> QED  BY <4>1, <4>2, <4>3, <4>4
    <3> QED  BY <1>3, <2>3, <3>2
  <2> HIDE DEF f
  <2> QED  BY <1>5, <2>1, <2>2, <2>3
<1>6. f \in [Places(k) -> Places(h)]
  BY <1>4
<1> HIDE DEF f
<1> QED  BY <1>4, <1>5, <1>6 DEF Rearranges

-----------------------------------------------------------------------------
(* The operations on a history *)

\* k is h with a new stack, new retired groups and a new cursor.
Updates(k, h, s, t, c) == k = [h EXCEPT !.stack = s, !.retired = t, !.cursor = c]

\* What an update leaves.
LEMMA UpdatedFields ==
    ASSUME NEW h, HistoryShape(h), NEW s, NEW t, NEW c, NEW k, Updates(k, h, s, t, c)
    PROVE  /\ k.stack = s /\ k.retired = t /\ k.cursor = c /\ k.depth = h.depth
           /\ s \in Seq(Group) /\ t \in Seq(Group) /\ c \in Nat => k \in History
  BY DEF History, HistoryShape, Updates

\* trim_undo_stack moves the oldest groups from the stack to the retired ones.
LEMMA TrimRearranges ==
    ASSUME NEW h, HistoryShape(h)
    PROVE  HistoryShape(Trim(h)) /\ Rearranges(Trim(h), h, {})
<1> DEFINE rest(n) == SubSeq(h.stack, n + 1, Len(h.stack))
           fits(n) == Len(rest(n)) <= h.depth /\ Weight(rest(n)) <= MaxUndoBytes
           ends == {k \in 0 .. Len(h.stack) : k = Len(h.stack) \/ fits(k)}
           n == Min(ends)
           k == [h EXCEPT !.stack = rest(n),
                          !.retired = @ \o SubSeq(h.stack, 1, n),
                          !.cursor = IF @ > n THEN @ - n ELSE 0]
<1>1. /\ h.stack \in Seq(Group) /\ h.retired \in Seq(Group) /\ h.cursor \in Nat
      /\ Len(h.stack) \in Nat /\ Len(h.retired) \in Nat /\ h.cursor <= Len(h.stack)
  BY PlaceParts
<1>2. n \in 0 .. Len(h.stack)
  <2>1. ends \subseteq 0 .. Len(h.stack)
    OBVIOUS
  <2>2. Len(h.stack) \in ends
    <3> HIDE DEF fits
    <3> QED  BY <1>1
  <2> HIDE DEF ends
  <2> QED  BY <1>1, <2>1, <2>2, MinInRange
<1>3. Trim(h) = k
  BY DEF Trim
<1> HIDE DEF ends, n
<1>4. /\ rest(n) \in Seq(Group) /\ Len(rest(n)) = Len(h.stack) - n
      /\ \A i \in 1 .. Len(h.stack) - n : rest(n)[i] = h.stack[n + i]
  BY <1>1, <1>2
<1>5. /\ SubSeq(h.stack, 1, n) \in Seq(Group) /\ Len(SubSeq(h.stack, 1, n)) = n
      /\ \A i \in 1 .. n : SubSeq(h.stack, 1, n)[i] = h.stack[i]
  BY <1>1, <1>2
<1> HIDE DEF rest
<1>6. /\ k.stack = rest(n) /\ k.retired = h.retired \o SubSeq(h.stack, 1, n)
      /\ k.cursor = (IF h.cursor > n THEN h.cursor - n ELSE 0)
  <2> DEFINE c == IF h.cursor > n THEN h.cursor - n ELSE 0
             t == h.retired \o SubSeq(h.stack, 1, n)
  <2>1. Updates(k, h, rest(n), t, c)
    BY DEF Updates
  <2> HIDE DEF k, t, c
  <2>2. k.stack = rest(n) /\ k.retired = t /\ k.cursor = c
    BY <2>1, UpdatedFields
  <2> QED  BY <2>2 DEF t, c
<1>7. /\ k.retired \in Seq(Group) /\ Len(k.retired) = Len(h.retired) + n
      /\ \A i \in 1 .. Len(h.retired) : k.retired[i] = h.retired[i]
      /\ \A i \in 1 .. n : k.retired[Len(h.retired) + i] = h.stack[i]
  <2> DEFINE t == SubSeq(h.stack, 1, n)
  <2>1. /\ h.retired \o t \in Seq(Group) /\ Len(h.retired \o t) = Len(h.retired) + Len(t)
        /\ \A i \in 1 .. Len(h.retired) : (h.retired \o t)[i] = h.retired[i]
        /\ \A i \in 1 .. Len(t) : (h.retired \o t)[Len(h.retired) + i] = t[i]
    <3> HIDE DEF t
    <3> QED  BY <1>1, <1>5, ConcatAt DEF t
  <2> HIDE DEF t, k
  <2> QED  BY <1>5, <1>6, <2>1 DEF t
<1>8. k.cursor \in Nat /\ k.cursor <= Len(k.stack)
  <2> HIDE DEF k
  <2> QED  BY <1>1, <1>2, <1>4, <1>6
<1>9. HistoryShape(k)
  <2>1. k.stack \in Seq(Group)
    <3> HIDE DEF k
    <3> QED  BY <1>4, <1>6
  <2>2. k \in History
    <3> DEFINE c == IF h.cursor > n THEN h.cursor - n ELSE 0
               t == h.retired \o SubSeq(h.stack, 1, n)
    <3>1. rest(n) \in Seq(Group) /\ t \in Seq(Group) /\ c \in Nat
      <4> HIDE DEF k, t, c
      <4> QED  BY <1>4, <1>6, <1>7, <1>8 DEF t, c
    <3>2. Updates(k, h, rest(n), t, c)
      BY DEF Updates
    <3> HIDE DEF k, t, c
    <3> QED  BY <3>1, <3>2, UpdatedFields
  <2> HIDE DEF k
  <2> QED  BY <1>8, <2>2 DEF HistoryShape
<1> HIDE DEF k
<1>10. Retires(h, k, 0, n)
  <2>1. n \in 0 .. Len(h.stack) /\ 0 \in 0 .. Len(h.stack) - n
    BY <1>1, <1>2
  <2>2. ASSUME NEW i \in 1 .. Len(k.stack)
        PROVE  /\ k.stack[i] = h.stack[n + i]
               /\ i > k.cursor <=> (IF i <= 0 THEN i ELSE n + i) > h.cursor
    <3>1. k.stack[i] = h.stack[n + i]
      BY <1>4, <1>6
    <3>2. i \in Nat /\ i > 0 /\ n \in Nat
      BY <1>2
    <3> QED  BY <1>1, <1>6, <3>1, <3>2
  <2>3. \A i \in 0 + 1 .. Len(k.stack) : k.stack[i] = h.stack[n + i]
    BY <2>2
  <2>4. \A i \in 1 .. n : k.retired[Len(h.retired) + i] = h.stack[0 + i]
    <3>1. \A i \in 1 .. n : 0 + i = i
      BY <1>2
    <3> QED  BY <1>7, <3>1
  <2>5. \A i \in 1 .. 0 : k.stack[i] = h.stack[i]
    OBVIOUS
  <2>6. Len(k.stack) = Len(h.stack) - n
    BY <1>4, <1>6
  <2> QED  BY <1>7, <2>1, <2>2, <2>3, <2>4, <2>5, <2>6 DEF Retires
<1> QED  BY <1>3, <1>9, <1>10, StackRetired

\* What a history may name can grow.
LEMMA HistoryGrows ==
    ASSUME NEW h, NEW N, NEW O, NEW D, HistoryOK(h, N, O, D),
           NEW N2, NEW O2, NEW D2, N \subseteq N2, O \subseteq O2, D \subseteq D2
    PROVE  HistoryOK(h, N2, O2, D2)
  BY DEF HistoryOK, GroupOK

\* The groups of a history name what it retains.
LEMMA PlacesRetain ==
    ASSUME NEW h, HistoryShape(h), NEW p \in Places(h)
    PROVE  Members(GroupAt(h, p)) \subseteq Retained(h)
<1>1. GroupAt(h, p) \in ToSet(h.stack) \cup ToSet(h.retired)
  <2>1. DOMAIN h.stack = 1 .. Len(h.stack) /\ DOMAIN h.retired = 1 .. Len(h.retired)
    BY PlaceParts
  <2>2. CASE p[1] = "stack"
    <3>1. p[2] \in DOMAIN h.stack /\ GroupAt(h, p) = h.stack[p[2]]
      BY <2>1, <2>2, PlaceParts DEF GroupAt
    <3> QED  BY <3>1 DEF ToSet
  <2>3. CASE p[1] = "retired"
    <3>1. p[2] \in DOMAIN h.retired /\ GroupAt(h, p) = h.retired[p[2]]
      BY <2>1, <2>3, PlaceParts DEF GroupAt
    <3> QED  BY <3>1 DEF ToSet
  <2> QED  BY <2>2, <2>3, PlaceParts
<1> QED  BY <1>1 DEF Members, Retained

\* The list may lose what the history does not retain.
LEMMA RetainedIsEnough ==
    ASSUME NEW h, NEW N, NEW O, NEW D, HistoryOK(h, N, O, D), NEW O2, NEW D2,
           Retained(h) \cap O \subseteq O2, Retained(h) \cap D \subseteq D2
    PROVE  HistoryOK(h, N, O2, D2)
<1>1. \A p \in Places(h) : Members(GroupAt(h, p)) \subseteq Retained(h)
  BY PlacesRetain DEF HistoryOK
<1> QED  BY <1>1 DEF HistoryOK, GroupOK, Members

\* Only what a history retains matters to its cursor.
LEMMA RetainedKeepsSides ==
    ASSUME NEW h, HistoryShape(h), NEW U, SidesOK(h, U), NEW V,
           \A id \in Retained(h) : id \in V <=> id \in U
    PROVE  SidesOK(h, V)
<1>1. \A p \in Places(h) : Members(GroupAt(h, p)) \subseteq Retained(h)
  BY PlacesRetain
<1> QED  BY <1>1 DEF SidesOK

\* What a history retains are operations of its owner.
LEMMA RetainedIsNamed ==
    ASSUME NEW h, NEW N, NEW O, NEW D, HistoryOK(h, N, O, D)
    PROVE  Retained(h) \subseteq N
<1> SUFFICES ASSUME NEW id \in Retained(h)
             PROVE  id \in N
  OBVIOUS
<1>1. PICK g \in ToSet(h.stack) \cup ToSet(h.retired) : id \in Members(g)
  BY DEF Retained, Members
<1>2. \E p \in Places(h) : g = GroupAt(h, p)
  <2>1. HistoryShape(h)
    BY DEF HistoryOK
  <2>2. DOMAIN h.stack = 1 .. Len(h.stack) /\ DOMAIN h.retired = 1 .. Len(h.retired)
    BY <2>1, PlaceParts
  <2>3. CASE g \in ToSet(h.stack)
    <3>1. PICK i \in 1 .. Len(h.stack) : g = h.stack[i]
      BY <2>2, <2>3 DEF ToSet
    <3> QED  BY <2>1, <3>1, PlaceParts
  <2>4. CASE g \in ToSet(h.retired)
    <3>1. PICK i \in 1 .. Len(h.retired) : g = h.retired[i]
      BY <2>2, <2>4 DEF ToSet
    <3> QED  BY <2>1, <3>1, PlaceParts
  <2> QED  BY <2>3, <2>4
<1> QED  BY <1>1, <1>2 DEF HistoryOK, GroupOK

\* Trimming keeps a history what it was.
LEMMA TrimmedIsOK ==
    ASSUME NEW h, NEW N, NEW O, NEW D, HistoryOK(h, N, O, D), NEW U, SidesOK(h, U)
    PROVE  HistoryOK(Trim(h), N, O, D) /\ SidesOK(Trim(h), U)
<1>1. Rearranges(Trim(h), h, {})
  BY TrimRearranges DEF HistoryOK
<1> QED  BY <1>1, RearrangedIsOK, RearrangedKeepsSides

\* set_max_undo_depth trims to the new depth.
LEMMA DepthIsOK ==
    ASSUME NEW h, NEW N, NEW O, NEW D, HistoryOK(h, N, O, D), NEW U, SidesOK(h, U), NEW d \in Nat
    PROVE  HistoryOK(Trim([h EXCEPT !.depth = d]), N, O, D) /\ SidesOK(Trim([h EXCEPT !.depth = d]), U)
<1> DEFINE k == [h EXCEPT !.depth = d]
<1>1. k \in History /\ k.stack = h.stack /\ k.retired = h.retired /\ k.cursor = h.cursor
  BY DEF HistoryOK, HistoryShape, History
<1> HIDE DEF k
<1>2. HistoryShape(k)
  BY <1>1 DEF HistoryOK, HistoryShape
<1>3. Places(k) = Places(h) /\ \A p : GroupAt(k, p) = GroupAt(h, p) /\ (IsRedo(k, p) <=> IsRedo(h, p))
  BY <1>1 DEF Places, GroupAt, IsRedo
<1>4. HistoryOK(k, N, O, D) /\ SidesOK(k, U)
  BY <1>2, <1>3 DEF HistoryOK, SidesOK, Apart
<1>5. HistoryOK(Trim(k), N, O, D) /\ SidesOK(Trim(k), U)
  BY <1>4, TrimmedIsOK
<1> QED  BY <1>5 DEF k

\* A group is pushed onto a stack without a redo tail.
LEMMA AppendedIsOK ==
    ASSUME NEW h, NEW N, NEW O, NEW D, HistoryOK(h, N, O, D), NEW U, SidesOK(h, U),
           h.cursor = Len(h.stack), NEW g \in Group, GroupOK(g, N \cup g.ops, O, D),
           g.ops \cap N = {}, Members(g) \cap U = {},
           NEW k, HistoryShape(k), k.stack = Append(h.stack, g), k.retired = h.retired,
           k.cursor = h.cursor + 1
    PROVE  HistoryOK(k, N \cup g.ops, O, D) /\ SidesOK(k, U)
<1> DEFINE x == <<"stack", h.cursor + 1>>
<1>1. HistoryShape(h)
  BY DEF HistoryOK
<1>2. /\ Len(h.stack) \in Nat /\ h.cursor \in Nat /\ h.stack \in Seq(Group)
      /\ Len(k.stack) = h.cursor + 1 /\ k.stack[h.cursor + 1] = g
      /\ \A i \in 1 .. Len(h.stack) : k.stack[i] = h.stack[i]
  BY <1>1, PlaceParts
<1>3. x \in Places(k) /\ GroupAt(k, x) = g /\ ~IsRedo(k, x)
  BY <1>2 DEF Places, GroupAt, IsRedo
<1>4. ASSUME NEW p \in Places(k), p # x
      PROVE  /\ p \in Places(h) /\ GroupAt(k, p) = GroupAt(h, p)
             /\ IsRedo(k, p) <=> IsRedo(h, p)
  <2>1. CASE p[1] = "stack"
    <3>1. p = <<"stack", p[2]>> /\ p[2] \in 1 .. h.cursor + 1 /\ p[2] # h.cursor + 1
      BY <1>2, <1>4, <2>1, PlaceParts
    <3>2. p[2] \in 1 .. Len(h.stack)
      BY <1>2, <3>1
    <3>3. p \in Places(h) /\ GroupAt(h, p) = h.stack[p[2]] /\ GroupAt(k, p) = k.stack[p[2]]
      BY <1>1, <3>1, <3>2, PlaceParts DEF GroupAt
    <3>4. ~IsRedo(k, p) /\ ~IsRedo(h, p)
      BY <1>2, <3>1 DEF IsRedo
    <3> QED  BY <1>2, <3>2, <3>3, <3>4
  <2>2. CASE p[1] = "retired"
    <3>1. p = <<"retired", p[2]>> /\ p[2] \in 1 .. Len(h.retired)
      BY <2>2, PlaceParts
    <3>2. p \in Places(h) /\ GroupAt(k, p) = GroupAt(h, p)
      BY <1>1, <2>2, <3>1, PlaceParts DEF GroupAt
    <3> QED  BY <2>2, <3>2 DEF IsRedo
  <2> QED  BY <2>1, <2>2, PlaceParts
<1> HIDE DEF x
<1>5. \A p \in Places(h) : GroupOK(GroupAt(h, p), N, O, D)
  BY DEF HistoryOK
<1>6. \A p \in Places(k) : GroupOK(GroupAt(k, p), N \cup g.ops, O, D)
  BY <1>3, <1>4, <1>5 DEF GroupOK
<1>7. Apart(k)
  <2> SUFFICES ASSUME NEW p \in Places(k), NEW q \in Places(k), p # q
               PROVE  GroupAt(k, p).ops \cap GroupAt(k, q).ops = {}
    BY DEF Apart
  <2>1. \A y \in Places(k) : y # x => GroupAt(k, y).ops \subseteq N
    BY <1>4, <1>5 DEF GroupOK
  <2>2. CASE p = x
    BY <1>3, <2>1, <2>2
  <2>3. CASE q = x
    BY <1>3, <2>1, <2>3
  <2>4. CASE p # x /\ q # x
    BY <1>4, <2>4 DEF HistoryOK, Apart
  <2> QED  BY <2>2, <2>3, <2>4
<1>8. SidesOK(k, U)
  <2> SUFFICES ASSUME NEW p \in Places(k), p[1] = "stack", NEW id \in Members(GroupAt(k, p))
               PROVE  id \in U <=> IsRedo(k, p)
    BY DEF SidesOK
  <2>1. CASE p = x
    BY <1>3, <2>1
  <2>2. CASE p # x
    BY <1>4, <2>2 DEF SidesOK
  <2> QED  BY <2>1, <2>2
<1> QED  BY <1>6, <1>7, <1>8 DEF HistoryOK

\* A new operation drops the redo tail: its groups are retired.
LEMMA TailRetired ==
    ASSUME NEW h, HistoryShape(h), NEW k,
           Updates(k, h, SubSeq(h.stack, 1, h.cursor),
                   h.retired \o SubSeq(h.stack, h.cursor + 1, Len(h.stack)), h.cursor)
    PROVE  /\ HistoryShape(k) /\ Rearranges(k, h, {}) /\ k.cursor = Len(k.stack)
           /\ k.stack = SubSeq(h.stack, 1, h.cursor) /\ k.cursor = h.cursor
           /\ k.retired = h.retired \o SubSeq(h.stack, h.cursor + 1, Len(h.stack))
           /\ k.retired \in Seq(Group)
<1> DEFINE c == h.cursor
           n == Len(h.stack) - c
           done == SubSeq(h.stack, 1, c)
           tail == SubSeq(h.stack, c + 1, Len(h.stack))
           all == h.retired \o tail
<1>1. /\ h.stack \in Seq(Group) /\ h.retired \in Seq(Group) /\ c \in Nat
      /\ Len(h.stack) \in Nat /\ Len(h.retired) \in Nat /\ c <= Len(h.stack)
  BY PlaceParts
<1>2. /\ done \in Seq(Group) /\ Len(done) = c
      /\ \A i \in 1 .. c : done[i] = h.stack[i]
      /\ tail \in Seq(Group) /\ Len(tail) = n
      /\ \A i \in 1 .. n : tail[i] = h.stack[c + i]
  <2>1. c \in 0 .. Len(h.stack)
    BY <1>1
  <2> HIDE DEF c
  <2> QED  BY <1>1, <2>1, SplitAt
<1>3. Updates(k, h, done, all, c)
  OBVIOUS
<1> HIDE DEF done, tail
<1>4. /\ all \in Seq(Group) /\ Len(all) = Len(h.retired) + Len(tail)
      /\ \A i \in 1 .. Len(h.retired) : all[i] = h.retired[i]
      /\ \A i \in 1 .. Len(tail) : all[Len(h.retired) + i] = tail[i]
  <2>1. h.retired \in Seq(Group) /\ tail \in Seq(Group)
    BY <1>1, <1>2
  <2> QED  BY <2>1, ConcatAt
<1> HIDE DEF all, c
<1>5. /\ k.stack = done /\ k.retired = all /\ k.cursor = c
      /\ k \in History /\ HistoryShape(k)
  <2>1. k.stack = done /\ k.retired = all /\ k.cursor = c /\ k \in History
    BY <1>1, <1>2, <1>3, <1>4, UpdatedFields
  <2> QED  BY <1>1, <1>2, <2>1 DEF HistoryShape
<1>6. Retires(h, k, c, n)
  <2>1. n \in 0 .. Len(h.stack) /\ c \in 0 .. Len(h.stack) - n /\ Len(h.stack) - n = c
    BY <1>1
  <2>2. \A i \in 1 .. c : k.stack[i] = h.stack[i]
    BY <1>2, <1>5
  <2>3. Len(k.stack) = c /\ \A i \in c + 1 .. Len(k.stack) : k.stack[i] = h.stack[n + i]
    BY <1>1, <1>2, <1>5
  <2>4. Len(k.retired) = Len(h.retired) + n
    BY <1>2, <1>4, <1>5
  <2>5. /\ \A i \in 1 .. Len(h.retired) : k.retired[i] = h.retired[i]
        /\ \A i \in 1 .. n : k.retired[Len(h.retired) + i] = h.stack[c + i]
    BY <1>2, <1>4, <1>5
  <2>6. \A i \in 1 .. Len(k.stack) : i > k.cursor <=> (IF i <= c THEN i ELSE n + i) > h.cursor
    BY <1>1, <1>5, <2>3 DEF c
  <2> HIDE DEF n
  <2> QED  BY <2>1, <2>2, <2>3, <2>4, <2>5, <2>6 DEF Retires
<1>7. Rearranges(k, h, {})
  <2> HIDE DEF n
  <2> QED  BY <1>5, <1>6, StackRetired
<1> QED  BY <1>2, <1>4, <1>5, <1>7 DEF done, tail, all, c

\* A new operation becomes the last group of the stack; the redo tail is retired
\* (insert_after_resolved, remove_at_resolved).
LEMMA PushedIsOK ==
    ASSUME NEW h, NEW N, NEW O, NEW D, HistoryOK(h, N, O, D), NEW U, SidesOK(h, U),
           NEW g \in Group, GroupOK(g, N \cup g.ops, O, D),
           g.ops \cap N = {}, Members(g) \cap U = {}
    PROVE  HistoryOK(PushGroup(h, g), N \cup g.ops, O, D) /\ SidesOK(PushGroup(h, g), U)
<1> DEFINE done == SubSeq(h.stack, 1, h.cursor)
           all == h.retired \o SubSeq(h.stack, h.cursor + 1, Len(h.stack))
           k == [h EXCEPT !.stack = done, !.retired = all, !.cursor = h.cursor]
           pushed == [h EXCEPT !.stack = Append(done, g), !.retired = all, !.cursor = h.cursor + 1]
<1>1. HistoryShape(h)
  BY DEF HistoryOK
<1>2. Trim(pushed) = PushGroup(h, g)
  BY DEF PushGroup
<1>3. Updates(k, h, done, all, h.cursor) /\ Updates(pushed, h, Append(done, g), all, h.cursor + 1)
  BY DEF Updates
<1>4. /\ HistoryShape(k) /\ Rearranges(k, h, {}) /\ k.cursor = Len(k.stack) /\ k.stack = done
      /\ k.cursor = h.cursor /\ k.retired = all /\ all \in Seq(Group)
  <2> HIDE DEF k, pushed
  <2> QED  BY <1>1, <1>3, TailRetired
<1> HIDE DEF k, pushed, done, all
<1>5. HistoryOK(k, N, O, D) /\ SidesOK(k, U)
  BY <1>4, RearrangedIsOK, RearrangedKeepsSides
<1>6. k.stack \in Seq(Group) /\ k.cursor \in Nat
  BY <1>4, PlaceParts
<1>7. /\ Append(done, g) \in Seq(Group) /\ Len(Append(done, g)) = h.cursor + 1
      /\ h.cursor + 1 \in Nat
  BY <1>4, <1>6
<1>8. /\ pushed.stack = Append(done, g) /\ pushed.retired = all
      /\ pushed.cursor = h.cursor + 1 /\ pushed \in History
  <2> DEFINE top == Append(done, g)
             up == h.cursor + 1
  <2>1. Updates(pushed, h, top, all, up)
    BY <1>3
  <2>2. top \in Seq(Group) /\ all \in Seq(Group) /\ up \in Nat
    BY <1>4, <1>7
  <2> HIDE DEF top, up
  <2>3. pushed.stack = top /\ pushed.retired = all /\ pushed.cursor = up /\ pushed \in History
    BY <1>1, <2>1, <2>2, UpdatedFields
  <2> QED  BY <2>3 DEF top, up
<1>9. HistoryShape(pushed)
  BY <1>7, <1>8 DEF HistoryShape
<1>10. pushed.stack = Append(k.stack, g) /\ pushed.retired = k.retired /\ pushed.cursor = k.cursor + 1
  BY <1>4, <1>8
<1>11. HistoryOK(pushed, N \cup g.ops, O, D) /\ SidesOK(pushed, U)
  BY <1>4, <1>5, <1>9, <1>10, AppendedIsOK
<1> QED  BY <1>2, <1>11, TrimmedIsOK

\* try_undo_group: group i becomes the first of the redo tail, and it alone
\* passes the cursor.
LEMMA UndoneRearranges ==
    ASSUME NEW h, HistoryShape(h), NEW i \in 1 .. h.cursor
    PROVE  /\ HistoryShape(UndoneAt(h, i))
           /\ Rearranges(UndoneAt(h, i), h, {<<"stack", h.cursor>>})
           /\ <<"stack", h.cursor>> \in Places(UndoneAt(h, i))
           /\ GroupAt(UndoneAt(h, i), <<"stack", h.cursor>>) = h.stack[i]
<1> DEFINE c == h.cursor
           s == RemoveAt(h.stack, i)
           t == InsertAt(s, c, h.stack[i])
           m == [j \in 1 .. Len(h.stack) |-> IF j = c THEN i ELSE IF j < i \/ j > c THEN j ELSE j + 1]
           k == UndoneAt(h, i)
<1>1. /\ h.stack \in Seq(Group) /\ h.retired \in Seq(Group) /\ c \in Nat
      /\ Len(h.stack) \in Nat /\ c <= Len(h.stack) /\ i \in 1 .. c /\ i \in 1 .. Len(h.stack)
  BY PlaceParts
<1>2. /\ s \in Seq(Group) /\ Len(s) = Len(h.stack) - 1
      /\ \A j \in 1 .. i - 1 : s[j] = h.stack[j]
      /\ \A j \in i .. Len(h.stack) - 1 : s[j] = h.stack[j + 1]
  BY <1>1, RemovedAt
<1>3. h.stack[i] \in Group
  BY <1>1
<1>4. Updates(k, h, t, h.retired, c - 1)
  <2>1. h = [h EXCEPT !.retired = h.retired]
    BY DEF HistoryShape, History
  <2> QED  BY <2>1 DEF UndoneAt, Updates, HistoryShape, History
<1> HIDE DEF s, k
<1>5. /\ t \in Seq(Group) /\ Len(t) = Len(h.stack)
      /\ \A j \in 1 .. c - 1 : t[j] = s[j]
      /\ t[c] = h.stack[i]
      /\ \A j \in c + 1 .. Len(h.stack) : t[j] = s[j - 1]
  <2>1. c \in 1 .. Len(s) + 1 /\ Len(s) + 1 = Len(h.stack)
    BY <1>1, <1>2
  <2> HIDE DEF c
  <2> QED  BY <1>2, <1>3, <2>1, InsertedAt
<1> HIDE DEF t
<1>6. /\ k.stack = t /\ k.retired = h.retired /\ k.cursor = c - 1
      /\ k \in History /\ HistoryShape(k) /\ Len(k.stack) = Len(h.stack)
  <2>1. k.stack = t /\ k.retired = h.retired /\ k.cursor = c - 1 /\ k \in History
    BY <1>1, <1>4, <1>5, UpdatedFields
  <2> QED  BY <1>1, <1>5, <2>1 DEF HistoryShape
<1>7. ASSUME NEW j \in 1 .. Len(h.stack)
      PROVE  m[j] \in 1 .. Len(h.stack) /\ t[j] = h.stack[m[j]]
  <2>1. m[j] = IF j = c THEN i ELSE IF j < i \/ j > c THEN j ELSE j + 1
    OBVIOUS
  <2> HIDE DEF m
  <2>2. CASE j = c
    BY <1>1, <1>5, <2>1, <2>2
  <2>3. CASE j < i
    <3>1. j \in 1 .. c - 1 /\ j \in 1 .. i - 1 /\ j # c
      BY <1>1, <2>3
    <3> QED  BY <1>2, <1>5, <2>1, <2>3, <3>1
  <2>4. CASE j > c
    <3>1. j \in c + 1 .. Len(h.stack) /\ j - 1 \in i .. Len(h.stack) - 1 /\ (j - 1) + 1 = j /\ j # c
      BY <1>1, <2>4
    <3>2. t[j] = s[j - 1] /\ s[j - 1] = h.stack[(j - 1) + 1]
      BY <1>2, <1>5, <3>1
    <3> QED  BY <2>1, <2>4, <3>1, <3>2
  <2>5. CASE j # c /\ ~(j < i) /\ ~(j > c)
    <3>1. j \in 1 .. c - 1 /\ j \in i .. Len(h.stack) - 1 /\ j + 1 \in 1 .. Len(h.stack)
      BY <1>1, <2>5
    <3> QED  BY <1>2, <1>5, <2>1, <2>5, <3>1
  <2> QED  BY <2>2, <2>3, <2>4, <2>5
<1>8. ASSUME NEW j \in 1 .. Len(h.stack), NEW l \in 1 .. Len(h.stack), m[j] = m[l]
      PROVE  j = l
  BY <1>1, <1>8
<1>9. ASSUME NEW j \in 1 .. Len(h.stack)
      PROVE  j = c <=> (j > c - 1 <=> ~(m[j] > c))
  <2>1. m[j] = IF j = c THEN i ELSE IF j < i \/ j > c THEN j ELSE j + 1
    OBVIOUS
  <2> HIDE DEF m
  <2> QED  BY <1>1, <2>1
<1>10. Rearranges(k, h, {<<"stack", c>>})
  <2> DEFINE X == {<<"stack", c>>}
  <2>1. X \subseteq {"stack"} \X (1 .. Len(k.stack))
    BY <1>1, <1>6
  <2>2. \A j \in 1 .. Len(k.stack) : <<"stack", j>> \in X <=> (j > k.cursor <=> ~(m[j] > h.cursor))
    <3> HIDE DEF m
    <3> QED  BY <1>6, <1>9
  <2>3. \A j \in 1 .. Len(k.stack) : m[j] \in 1 .. Len(h.stack) /\ k.stack[j] = h.stack[m[j]]
    <3> HIDE DEF m
    <3> QED  BY <1>6, <1>7
  <2>4. \A j, l \in 1 .. Len(k.stack) : m[j] = m[l] => j = l
    <3> HIDE DEF m
    <3> QED  BY <1>6, <1>8
  <2> HIDE DEF m, X
  <2>5. Rearranges(k, h, X)
    BY <1>6, <2>1, <2>2, <2>3, <2>4, StackRearranged
  <2> QED  BY <2>5 DEF X
<1>11. <<"stack", c>> \in Places(k) /\ GroupAt(k, <<"stack", c>>) = h.stack[i]
  <2>1. c \in 1 .. Len(k.stack) /\ k.stack[c] = h.stack[i]
    BY <1>1, <1>5, <1>6
  <2> HIDE DEF c
  <2> QED  BY <1>6, <2>1, PlaceParts
<1> QED  BY <1>6, <1>10, <1>11 DEF k

\* try_redo_group: group i of the redo tail becomes the last done one, and it
\* alone passes the cursor.
LEMMA RedoneRearranges ==
    ASSUME NEW h, HistoryShape(h), NEW i \in h.cursor + 1 .. Len(h.stack)
    PROVE  /\ HistoryShape(RedoneAt(h, i))
           /\ Rearranges(RedoneAt(h, i), h, {<<"stack", h.cursor + 1>>})
           /\ <<"stack", h.cursor + 1>> \in Places(RedoneAt(h, i))
           /\ GroupAt(RedoneAt(h, i), <<"stack", h.cursor + 1>>) = h.stack[i]
<1> DEFINE c == h.cursor + 1
           s == RemoveAt(h.stack, i)
           t == InsertAt(s, c, h.stack[i])
           m == [j \in 1 .. Len(h.stack) |-> IF j = c THEN i ELSE IF j < c \/ j > i THEN j ELSE j - 1]
           k == RedoneAt(h, i)
<1>1. /\ h.stack \in Seq(Group) /\ h.retired \in Seq(Group) /\ c \in Nat /\ h.cursor \in Nat
      /\ Len(h.stack) \in Nat /\ c >= 1 /\ c <= i /\ i \in Nat /\ i \in 1 .. Len(h.stack)
  BY PlaceParts
<1>2. /\ s \in Seq(Group) /\ Len(s) = Len(h.stack) - 1
      /\ \A j \in 1 .. i - 1 : s[j] = h.stack[j]
      /\ \A j \in i .. Len(h.stack) - 1 : s[j] = h.stack[j + 1]
  BY <1>1, RemovedAt
<1>3. h.stack[i] \in Group
  BY <1>1
<1>4. Updates(k, h, t, h.retired, c)
  <2>1. h = [h EXCEPT !.retired = h.retired]
    BY DEF HistoryShape, History
  <2> QED  BY <2>1 DEF RedoneAt, Updates, HistoryShape, History
<1> HIDE DEF s, k
<1>5. /\ t \in Seq(Group) /\ Len(t) = Len(h.stack)
      /\ \A j \in 1 .. c - 1 : t[j] = s[j]
      /\ t[c] = h.stack[i]
      /\ \A j \in c + 1 .. Len(h.stack) : t[j] = s[j - 1]
  <2> DEFINE e == h.stack[i]
  <2>1. c \in 1 .. Len(s) + 1 /\ Len(s) + 1 = Len(h.stack) /\ s \in Seq(Group) /\ e \in Group
    BY <1>1, <1>2, <1>3
  <2> HIDE DEF c, e, m
  <2>2. /\ InsertAt(s, c, e) \in Seq(Group) /\ Len(InsertAt(s, c, e)) = Len(s) + 1
        /\ \A j \in 1 .. c - 1 : InsertAt(s, c, e)[j] = s[j]
        /\ InsertAt(s, c, e)[c] = e
        /\ \A j \in c + 1 .. Len(s) + 1 : InsertAt(s, c, e)[j] = s[j - 1]
    BY <2>1, InsertedAt
  <2> QED  BY <2>1, <2>2 DEF e
<1> HIDE DEF t
<1>6. /\ k.stack = t /\ k.retired = h.retired /\ k.cursor = c
      /\ k \in History /\ HistoryShape(k) /\ Len(k.stack) = Len(h.stack)
  <2>1. k.stack = t /\ k.retired = h.retired /\ k.cursor = c /\ k \in History
    BY <1>1, <1>4, <1>5, UpdatedFields
  <2> QED  BY <1>1, <1>5, <2>1 DEF HistoryShape
<1>7. ASSUME NEW j \in 1 .. Len(h.stack)
      PROVE  m[j] \in 1 .. Len(h.stack) /\ t[j] = h.stack[m[j]]
  <2>1. m[j] = IF j = c THEN i ELSE IF j < c \/ j > i THEN j ELSE j - 1
    OBVIOUS
  <2> HIDE DEF m
  <2>2. CASE j = c
    BY <1>1, <1>5, <2>1, <2>2
  <2>3. CASE j < c
    <3>1. j \in 1 .. c - 1 /\ j \in 1 .. i - 1 /\ j # c
      BY <1>1, <2>3
    <3> QED  BY <1>2, <1>5, <2>1, <2>3, <3>1
  <2>4. CASE j > i
    <3>1. j \in c + 1 .. Len(h.stack) /\ j - 1 \in i .. Len(h.stack) - 1 /\ (j - 1) + 1 = j /\ j # c
      BY <1>1, <2>4
    <3>2. t[j] = s[j - 1] /\ s[j - 1] = h.stack[(j - 1) + 1]
      BY <1>2, <1>5, <3>1
    <3> QED  BY <2>1, <2>4, <3>1, <3>2
  <2>5. CASE j # c /\ ~(j < c) /\ ~(j > i)
    <3>1. j \in c + 1 .. Len(h.stack) /\ j - 1 \in 1 .. i - 1 /\ j - 1 \in 1 .. Len(h.stack)
      BY <1>1, <2>5
    <3> QED  BY <1>2, <1>5, <2>1, <2>5, <3>1
  <2> QED  BY <2>2, <2>3, <2>4, <2>5
<1>8. ASSUME NEW j \in 1 .. Len(h.stack), NEW l \in 1 .. Len(h.stack), m[j] = m[l]
      PROVE  j = l
  BY <1>1, <1>8
<1>9. ASSUME NEW j \in 1 .. Len(h.stack)
      PROVE  j = c <=> (j > c <=> ~(m[j] > c - 1))
  <2>1. m[j] = IF j = c THEN i ELSE IF j < c \/ j > i THEN j ELSE j - 1
    OBVIOUS
  <2> HIDE DEF m
  <2> QED  BY <1>1, <2>1
<1>10. Rearranges(k, h, {<<"stack", c>>})
  <2> DEFINE X == {<<"stack", c>>}
  <2>1. X \subseteq {"stack"} \X (1 .. Len(k.stack))
    BY <1>1, <1>6
  <2>2. \A j \in 1 .. Len(k.stack) : <<"stack", j>> \in X <=> (j > k.cursor <=> ~(m[j] > h.cursor))
    <3> HIDE DEF m
    <3>1. h.cursor = c - 1
      BY <1>1 DEF c
    <3> QED  BY <1>6, <1>9, <3>1
  <2>3. \A j \in 1 .. Len(k.stack) : m[j] \in 1 .. Len(h.stack) /\ k.stack[j] = h.stack[m[j]]
    <3> HIDE DEF m
    <3> QED  BY <1>6, <1>7
  <2>4. \A j, l \in 1 .. Len(k.stack) : m[j] = m[l] => j = l
    <3> HIDE DEF m
    <3> QED  BY <1>6, <1>8
  <2> HIDE DEF m, X
  <2>5. Rearranges(k, h, X)
    BY <1>6, <2>1, <2>2, <2>3, <2>4, StackRearranged
  <2> QED  BY <2>5 DEF X
<1>11. <<"stack", c>> \in Places(k) /\ GroupAt(k, <<"stack", c>>) = h.stack[i]
  <2>1. c \in 1 .. Len(k.stack) /\ k.stack[c] = h.stack[i]
    BY <1>1, <1>5, <1>6
  <2> HIDE DEF c
  <2> QED  BY <1>6, <2>1, PlaceParts
<1> QED  BY <1>6, <1>10, <1>11 DEF k, c

\* coalesce_last_undo: the two last done groups become one.
LEMMA CoalescedIsOK ==
    ASSUME NEW h, NEW N, NEW O, NEW D, HistoryOK(h, N, O, D), NEW U, SidesOK(h, U), h.cursor >= 2
    PROVE  HistoryOK(Coalesced(h), N, O, D) /\ SidesOK(Coalesced(h), U)
<1> DEFINE c == h.cursor
           last == h.stack[c]
           prev == h.stack[c - 1]
           both == [prev EXCEPT !.ops = @ \cup last.ops,
                                !.items = @ \cup last.items,
                                !.dels = @ \cup last.dels]
           s == [h.stack EXCEPT ![c - 1] = both]
           t == RemoveAt(s, c)
           k == Coalesced(h)
           x == <<"stack", c - 1>>
           f == [p \in Places(k) |-> IF p[1] = "stack" /\ p[2] >= c THEN <<"stack", p[2] + 1>> ELSE p]
<1>0. HistoryShape(h)
  BY DEF HistoryOK
<1>1. /\ h.stack \in Seq(Group) /\ h.retired \in Seq(Group) /\ c \in Nat
      /\ Len(h.stack) \in Nat /\ c <= Len(h.stack) /\ c >= 2
      /\ c \in 1 .. Len(h.stack) /\ c - 1 \in 1 .. Len(h.stack)
  BY <1>0, PlaceParts
<1>2. last \in Group /\ prev \in Group
  BY <1>1
<1>3. /\ both \in Group /\ both.ops = prev.ops \cup last.ops
      /\ Members(both) = Members(prev) \cup Members(last)
      /\ both.items = prev.items \cup last.items /\ both.dels = prev.dels \cup last.dels
  BY <1>2 DEF Group, Members
<1>4. Updates(k, h, t, h.retired, c - 1)
  BY <1>0 DEF Coalesced, Updates, HistoryShape, History
<1> HIDE DEF last, prev, both, k, f
<1>5. /\ s \in Seq(Group) /\ Len(s) = Len(h.stack) /\ s[c - 1] = both
      /\ \A i \in 1 .. Len(h.stack) : i # c - 1 => s[i] = h.stack[i]
  BY <1>1, <1>3
<1> HIDE DEF s
<1>6. /\ t \in Seq(Group) /\ Len(t) = Len(h.stack) - 1
      /\ \A i \in 1 .. c - 1 : t[i] = s[i]
      /\ \A i \in c .. Len(h.stack) - 1 : t[i] = s[i + 1]
  <2>1. c \in 1 .. Len(s)
    BY <1>1, <1>5
  <2> HIDE DEF c
  <2> QED  BY <1>5, <2>1, RemovedAt
<1> HIDE DEF t
<1>7. /\ k.stack = t /\ k.retired = h.retired /\ k.cursor = c - 1
      /\ k \in History /\ HistoryShape(k)
  <2>1. k.stack = t /\ k.retired = h.retired /\ k.cursor = c - 1 /\ k \in History
    BY <1>0, <1>1, <1>4, <1>6, UpdatedFields
  <2> QED  BY <1>1, <1>6, <2>1 DEF HistoryShape
<1>8. /\ x \in Places(k) /\ GroupAt(k, x) = both /\ ~IsRedo(k, x)
  <2>1. c - 1 \in 1 .. Len(k.stack) /\ k.stack[c - 1] = both
    BY <1>1, <1>5, <1>6, <1>7
  <2> QED  BY <1>1, <1>7, <2>1 DEF Places, GroupAt, IsRedo
<1>9. /\ <<"stack", c>> \in Places(h) /\ GroupAt(h, <<"stack", c>>) = last /\ ~IsRedo(h, <<"stack", c>>)
      /\ x \in Places(h) /\ GroupAt(h, x) = prev /\ ~IsRedo(h, x)
  BY <1>1 DEF Places, GroupAt, IsRedo, last, prev
<1>10. ASSUME NEW p \in Places(k), p # x
       PROVE  /\ f[p] \in Places(h) /\ f[p] # x /\ f[p] # <<"stack", c>>
              /\ GroupAt(k, p) = GroupAt(h, f[p])
              /\ p[1] = "stack" => f[p][1] = "stack" /\ (IsRedo(k, p) <=> IsRedo(h, f[p]))
              /\ p[1] = "stack" => p = <<"stack", p[2]>> /\ p[2] \in Nat
              /\ f[p] = IF p[1] = "stack" /\ p[2] >= c THEN <<"stack", p[2] + 1>> ELSE p
  <2>0. f[p] = IF p[1] = "stack" /\ p[2] >= c THEN <<"stack", p[2] + 1>> ELSE p
    BY DEF f
  <2>1. CASE p[1] = "stack"
    <3>1. p = <<"stack", p[2]>> /\ p[2] \in 1 .. Len(h.stack) - 1 /\ p[2] # c - 1
      BY <1>6, <1>7, <1>10, <2>1, PlaceParts
    <3>2. p[2] \in Nat /\ GroupAt(k, p) = t[p[2]] /\ (IsRedo(k, p) <=> p[2] > c - 1)
      BY <1>7, <2>1, <3>1 DEF GroupAt, IsRedo
    <3>3. CASE p[2] >= c
      <4>1. f[p] = <<"stack", p[2] + 1>>
        BY <2>0, <2>1, <3>3
      <4>2. p[2] + 1 \in 1 .. Len(h.stack) /\ p[2] \in c .. Len(h.stack) - 1 /\ p[2] + 1 # c - 1
        BY <1>1, <3>1, <3>3
      <4>3. t[p[2]] = h.stack[p[2] + 1]
        BY <1>5, <1>6, <4>2
      <4>4. f[p] \in Places(h) /\ GroupAt(h, f[p]) = h.stack[p[2] + 1]
        BY <1>0, <4>1, <4>2, PlaceParts
      <4>5. IsRedo(h, f[p]) /\ p[2] > c - 1 /\ p[2] + 1 # c
        BY <1>1, <3>2, <3>3, <4>1 DEF IsRedo
      <4> QED  BY <2>0, <2>1, <3>1, <3>2, <4>1, <4>2, <4>3, <4>4, <4>5
    <3>4. CASE ~(p[2] >= c)
      <4>1. f[p] = p
        BY <2>0, <2>1, <3>4
      <4>2. p[2] \in 1 .. Len(h.stack) /\ p[2] \in 1 .. c - 1 /\ p[2] # c /\ p[2] < c - 1
        BY <1>1, <3>1, <3>4
      <4>3. t[p[2]] = h.stack[p[2]]
        BY <1>5, <1>6, <3>1, <4>2
      <4>4. p \in Places(h) /\ GroupAt(h, p) = h.stack[p[2]]
        BY <1>0, <3>1, <4>2, PlaceParts
      <4>5. ~IsRedo(h, p) /\ ~(p[2] > c - 1)
        BY <1>1, <3>2, <4>2 DEF IsRedo
      <4>6. p # <<"stack", c>>
        BY <3>1, <4>2
      <4> QED  BY <1>10, <2>0, <2>1, <3>1, <3>2, <4>1, <4>3, <4>4, <4>5, <4>6
    <3> QED  BY <3>3, <3>4
  <2>2. CASE p[1] = "retired"
    <3>1. p = <<"retired", p[2]>> /\ p[2] \in 1 .. Len(h.retired) /\ f[p] = p
      BY <1>7, <2>0, <2>2, PlaceParts
    <3>2. p \in Places(h) /\ GroupAt(k, p) = GroupAt(h, p)
      BY <1>0, <1>7, <2>2, <3>1, PlaceParts DEF GroupAt
    <3> QED  BY <1>10, <2>0, <2>2, <3>1, <3>2
  <2> QED  BY <1>7, <2>1, <2>2, PlaceParts
<1>11. ASSUME NEW p \in Places(k), NEW q \in Places(k), p # x, q # x, p # q
       PROVE  f[p] # f[q]
  <2>1. /\ f[p] = IF p[1] = "stack" /\ p[2] >= c THEN <<"stack", p[2] + 1>> ELSE p
        /\ p[1] = "stack" => p = <<"stack", p[2]>> /\ p[2] \in Nat
    BY <1>10, <1>11
  <2>2. /\ f[q] = IF q[1] = "stack" /\ q[2] >= c THEN <<"stack", q[2] + 1>> ELSE q
        /\ q[1] = "stack" => q = <<"stack", q[2]>> /\ q[2] \in Nat
    BY <1>10, <1>11
  <2>3. CASE (p[1] = "stack" /\ p[2] >= c) /\ (q[1] = "stack" /\ q[2] >= c)
    BY <1>11, <2>1, <2>2, <2>3
  <2>4. CASE ~(p[1] = "stack" /\ p[2] >= c) /\ ~(q[1] = "stack" /\ q[2] >= c)
    BY <1>11, <2>1, <2>2, <2>4
  <2>5. CASE (p[1] = "stack" /\ p[2] >= c) /\ ~(q[1] = "stack" /\ q[2] >= c)
    <3>1. f[p] = <<"stack", p[2] + 1>> /\ f[q] = q /\ p[2] \in Nat
      BY <2>1, <2>2, <2>5
    <3>2. q[1] = "stack" => q[2] # p[2] + 1
      BY <1>1, <2>2, <2>5, <3>1
    <3> QED  BY <3>1, <3>2
  <2>6. CASE ~(p[1] = "stack" /\ p[2] >= c) /\ (q[1] = "stack" /\ q[2] >= c)
    <3>1. f[q] = <<"stack", q[2] + 1>> /\ f[p] = p /\ q[2] \in Nat
      BY <2>1, <2>2, <2>6
    <3>2. p[1] = "stack" => p[2] # q[2] + 1
      BY <1>1, <2>1, <2>6, <3>1
    <3> QED  BY <3>1, <3>2
  <2> QED  BY <2>3, <2>4, <2>5, <2>6
<1>12. \A p, q \in Places(h) : p # q => GroupAt(h, p).ops \cap GroupAt(h, q).ops = {}
  BY DEF HistoryOK, Apart
<1>13. \A p \in Places(h) : GroupOK(GroupAt(h, p), N, O, D)
  BY DEF HistoryOK
<1>14. x # <<"stack", c>>
  BY <1>1
<1> HIDE DEF x, c
<1>15. Apart(k)
  <2>1. ASSUME NEW p \in Places(k), p # x
        PROVE  GroupAt(k, p).ops \cap both.ops = {}
    <3> DEFINE q == f[p]
    <3>1. q \in Places(h) /\ q # x /\ q # <<"stack", c>> /\ GroupAt(k, p) = GroupAt(h, q)
      BY <1>10, <2>1
    <3> HIDE DEF q
    <3>2. GroupAt(h, q).ops \cap prev.ops = {} /\ GroupAt(h, q).ops \cap last.ops = {}
      BY <1>9, <1>12, <3>1
    <3> QED  BY <1>3, <3>1, <3>2
  <2>2. ASSUME NEW p \in Places(k), NEW q \in Places(k), p # q
        PROVE  GroupAt(k, p).ops \cap GroupAt(k, q).ops = {}
    <3>1. CASE p = x
      BY <1>8, <2>1, <2>2, <3>1
    <3>2. CASE q = x
      BY <1>8, <2>1, <2>2, <3>2
    <3>3. CASE p # x /\ q # x
      <4>1. /\ f[p] \in Places(h) /\ GroupAt(k, p) = GroupAt(h, f[p])
            /\ f[q] \in Places(h) /\ GroupAt(k, q) = GroupAt(h, f[q])
        BY <1>10, <3>3
      <4>2. f[p] # f[q]
        BY <1>11, <2>2, <3>3
      <4> QED  BY <1>12, <4>1, <4>2
    <3> QED  BY <3>1, <3>2, <3>3
  <2> QED  BY <2>2 DEF Apart
<1>16. \A p \in Places(k) : GroupOK(GroupAt(k, p), N, O, D)
  <2>1. GroupOK(both, N, O, D)
    <3>1. GroupOK(prev, N, O, D) /\ GroupOK(last, N, O, D)
      BY <1>9, <1>13
    <3> QED  BY <1>3, <3>1 DEF GroupOK
  <2> QED  BY <1>8, <1>10, <1>13, <2>1
<1>17. SidesOK(k, U)
  <2> SUFFICES ASSUME NEW p \in Places(k), p[1] = "stack", NEW id \in Members(GroupAt(k, p))
               PROVE  id \in U <=> IsRedo(k, p)
    BY DEF SidesOK
  <2>1. CASE p = x
    <3>1. id \in Members(prev) \/ id \in Members(last)
      BY <1>3, <1>8, <2>1
    <3>2. x[1] = "stack"
      BY DEF x
    <3> QED  BY <1>8, <1>9, <2>1, <3>1, <3>2 DEF SidesOK
  <2>2. CASE p # x
    BY <1>10, <2>2 DEF SidesOK
  <2> QED  BY <2>1, <2>2
<1>18. HistoryOK(k, N, O, D)
  BY <1>7, <1>15, <1>16 DEF HistoryOK
<1> QED  BY <1>17, <1>18 DEF k

\* acknowledge_undo_retirements: a retired group is dropped.
LEMMA AcknowledgedRearranges ==
    ASSUME NEW h, HistoryShape(h), NEW gid
    PROVE  Rearranges(Acknowledged(h, gid), h, {})
<1> DEFINE gone == {g \in ToSet(h.retired) : g.gid = gid}
           t == Kept(h.retired, gone)
           k == Acknowledged(h, gid)
<1>1. h.stack \in Seq(Group) /\ h.retired \in Seq(Group) /\ h.cursor \in Nat /\ h.cursor <= Len(h.stack)
  BY PlaceParts
<1>2. Updates(k, h, h.stack, t, h.cursor)
  BY DEF Acknowledged, Updates, HistoryShape, History
<1> HIDE DEF gone, k
<1>3. PICK f \in [1 .. Len(t) -> 1 .. Len(h.retired)] :
        /\ \A i, j \in 1 .. Len(t) : f[i] = f[j] => i = j
        /\ \A i \in 1 .. Len(t) : t[i] = h.retired[f[i]]
  <2>1. h.retired \in Seq(Group)
    BY <1>1
  <2> DEFINE u == h.retired
  <2> HIDE DEF u
  <2>2. \E f \in [1 .. Len(Kept(u, gone)) -> 1 .. Len(u)] :
                 /\ \A j, i \in 1 .. Len(Kept(u, gone)) : f[j] = f[i] => j = i
                 /\ \A i \in 1 .. Len(Kept(u, gone)) :
                       Kept(u, gone)[i] = u[f[i]] /\ u[f[i]] \notin gone
    BY <2>1, KeptAt DEF u
  <2> QED  BY <2>2 DEF u
<1>4. t \in Seq(Group)
  BY <1>1, KeptAt
<1> HIDE DEF t
<1>5. /\ k.stack = h.stack /\ k.retired = t /\ k.cursor = h.cursor /\ HistoryShape(k)
  <2>1. k.stack = h.stack /\ k.retired = t /\ k.cursor = h.cursor /\ k \in History
    BY <1>1, <1>2, <1>4, UpdatedFields
  <2> QED  BY <1>1, <2>1 DEF HistoryShape
<1> DEFINE F == [p \in Places(k) |-> IF p[1] = "stack" THEN p ELSE <<"retired", f[p[2]]>>]
<1>6. ASSUME NEW p \in Places(k)
      PROVE  /\ F[p] \in Places(h) /\ GroupAt(k, p) = GroupAt(h, F[p])
             /\ p[1] = "stack" => F[p] = p /\ (IsRedo(k, p) <=> IsRedo(h, F[p]))
             /\ p[1] # "stack" => /\ p = <<"retired", p[2]>> /\ p[2] \in 1 .. Len(t)
                                  /\ F[p] = <<"retired", f[p[2]]>>
  <2>0. F[p] = IF p[1] = "stack" THEN p ELSE <<"retired", f[p[2]]>>
    OBVIOUS
  <2> HIDE DEF F
  <2>1. CASE p[1] = "stack"
    <3>1. p \in Places(h) /\ GroupAt(k, p) = GroupAt(h, p) /\ (IsRedo(k, p) <=> IsRedo(h, p))
      <4>1. p = <<"stack", p[2]>> /\ p[2] \in 1 .. Len(h.stack)
        BY <1>5, <2>1, PlaceParts
      <4> QED  BY <1>5, <2>1, <4>1, PlaceParts DEF GroupAt, IsRedo
    <3> QED  BY <2>0, <2>1, <3>1
  <2>2. CASE p[1] # "stack"
    <3>1. p = <<"retired", p[2]>> /\ p[2] \in 1 .. Len(t)
      BY <1>5, <2>2, PlaceParts
    <3>2. f[p[2]] \in 1 .. Len(h.retired) /\ t[p[2]] = h.retired[f[p[2]]]
      BY <1>3, <3>1
    <3>3. GroupAt(k, p) = t[p[2]]
      BY <1>5, <2>2 DEF GroupAt
    <3> QED  BY <2>0, <2>2, <3>1, <3>2, <3>3, PlaceParts
  <2> QED  BY <2>1, <2>2
<1> HIDE DEF F
<1>7. ASSUME NEW p \in Places(k), NEW q \in Places(k), F[p] = F[q]
      PROVE  p = q
  <2>1. CASE p[1] = "stack" /\ q[1] = "stack"
    BY <1>6, <1>7, <2>1
  <2>2. CASE p[1] # "stack" /\ q[1] # "stack"
    <3>1. <<"retired", f[p[2]]>> = <<"retired", f[q[2]]>> /\ p[2] \in 1 .. Len(t) /\ q[2] \in 1 .. Len(t)
      BY <1>6, <1>7, <2>2
    <3>2. p[2] = q[2]
      BY <1>3, <3>1
    <3> QED  BY <1>6, <2>2, <3>2
  <2>3. CASE p[1] = "stack" /\ q[1] # "stack"
    <3>1. p = <<"retired", f[q[2]]>>
      BY <1>6, <1>7, <2>3
    <3> QED  BY <2>3, <3>1
  <2>4. CASE p[1] # "stack" /\ q[1] = "stack"
    <3>1. q = <<"retired", f[p[2]]>>
      BY <1>6, <1>7, <2>4
    <3> QED  BY <2>4, <3>1
  <2> QED  BY <2>1, <2>2, <2>3, <2>4
<1>8. F \in [Places(k) -> Places(h)]
  BY <1>6 DEF F
<1>9. Rearranges(k, h, {})
  BY <1>5, <1>6, <1>7, <1>8 DEF Rearranges
<1> QED  BY <1>9 DEF k

-----------------------------------------------------------------------------
(* Lists of entries, as sets *)

Deletions(list) == UNION {list[i].deletions : i \in DOMAIN list}

\* The links of a list name what the list holds.
LinksResolve(list) ==
    \A i \in DOMAIN list :
        {list[i].link.parent, list[i].link.rightOrigin} \subseteq {NoId} \cup Origins(list)

\* What a list holds does not depend on its order.
LEMMA ListSets ==
    ASSUME NEW list
    PROVE  /\ Origins(list) = {e.origin : e \in ToSet(list)}
           /\ Deletions(list) = UNION {e.deletions : e \in ToSet(list)}
           /\ Held(list) = Origins(list) \cup Deletions(list)
           /\ LinksResolve(list) <=>
                 \A e \in ToSet(list) :
                    {e.link.parent, e.link.rightOrigin} \subseteq {NoId} \cup Origins(list)
<1>1. Origins(list) = {e.origin : e \in ToSet(list)}
  BY DEF Origins, ToSet
<1>2. Deletions(list) = UNION {e.deletions : e \in ToSet(list)}
  BY DEF Deletions, ToSet
<1>3. Held(list) = Origins(list) \cup Deletions(list)
  BY DEF Held, Origins, Deletions, Names
<1>4. LinksResolve(list) <=>
         \A e \in ToSet(list) :
            {e.link.parent, e.link.rightOrigin} \subseteq {NoId} \cup Origins(list)
  BY DEF LinksResolve, ToSet
<1> QED  BY <1>1, <1>2, <1>3, <1>4

\* The elements of a list with one more.
LEMMA InsertedSet ==
    ASSUME NEW S, NEW s \in Seq(S), NEW k \in 1 .. Len(s) + 1, NEW e \in S
    PROVE  ToSet(InsertAt(s, k, e)) = ToSet(s) \cup {e}
<1> DEFINE t == InsertAt(s, k, e)
<1>0. Len(s) \in Nat /\ DOMAIN s = 1 .. Len(s) /\ k \in Nat /\ k >= 1 /\ k <= Len(s) + 1
  OBVIOUS
<1>1. /\ t \in Seq(S) /\ Len(t) = Len(s) + 1 /\ t[k] = e
      /\ \A i \in 1 .. k - 1 : t[i] = s[i]
      /\ \A i \in k + 1 .. Len(s) + 1 : t[i] = s[i - 1]
  BY InsertedAt
<1> HIDE DEF t
<1>2. DOMAIN t = 1 .. Len(s) + 1
  BY <1>1
<1>3. ASSUME NEW x \in ToSet(t)
      PROVE  x \in ToSet(s) \cup {e}
  <2>1. PICK i \in 1 .. Len(s) + 1 : x = t[i]
    BY <1>2 DEF ToSet
  <2>2. CASE i = k
    BY <1>1, <2>1, <2>2
  <2>3. CASE i < k
    <3>1. i \in 1 .. k - 1 /\ i \in DOMAIN s
      BY <1>0, <2>3
    <3> QED  BY <1>1, <2>1, <3>1 DEF ToSet
  <2>4. CASE i > k
    <3>1. i \in k + 1 .. Len(s) + 1 /\ i - 1 \in DOMAIN s
      BY <1>0, <2>4
    <3> QED  BY <1>1, <2>1, <3>1 DEF ToSet
  <2> QED  BY <1>0, <2>2, <2>3, <2>4
<1>4. ASSUME NEW x \in ToSet(s)
      PROVE  x \in ToSet(t)
  <2>1. PICK i \in 1 .. Len(s) : x = s[i]
    BY <1>0 DEF ToSet
  <2>2. CASE i < k
    <3>1. i \in 1 .. k - 1 /\ i \in DOMAIN t
      BY <1>0, <1>2, <2>2
    <3> QED  BY <1>1, <2>1, <3>1 DEF ToSet
  <2>3. CASE ~(i < k)
    <3>1. i + 1 \in k + 1 .. Len(s) + 1 /\ i + 1 \in DOMAIN t /\ (i + 1) - 1 = i
      BY <1>0, <1>2, <2>3
    <3>2. t[i + 1] = s[(i + 1) - 1]
      BY <1>1, <3>1
    <3> QED  BY <2>1, <3>1, <3>2 DEF ToSet
  <2> QED  BY <2>2, <2>3
<1>5. e \in ToSet(t)
  <2>1. k \in DOMAIN t
    BY <1>0, <1>2
  <2> QED  BY <1>1, <2>1 DEF ToSet
<1>6. ToSet(t) = ToSet(s) \cup {e}
  BY <1>3, <1>4, <1>5
<1> QED  BY <1>6 DEF t

\* An identity of the list is found, and what is found is in the list.
LEMMA FindFinds ==
    ASSUME NEW list \in Seq(Entry), NEW id
    PROVE  Find(list, id) # 0 <=> id \in Origins(list)
<1> DEFINE I == {i \in 1 .. Len(list) : list[i].origin = id}
<1>0. Len(list) \in Nat /\ DOMAIN list = 1 .. Len(list)
  OBVIOUS
<1>1. Find(list, id) = IF I # {} THEN Min(I) ELSE 0
  BY DEF Find, SelectInSeq
<1>2. I # {} => Min(I) \in 1 .. Len(list)
  <2>1. I \subseteq 1 .. Len(list)
    OBVIOUS
  <2> HIDE DEF I
  <2> QED  BY <1>0, <2>1, MinInRange
<1>3. I # {} <=> id \in Origins(list)
  BY <1>0 DEF Origins
<1> HIDE DEF I
<1> QED  BY <1>1, <1>2, <1>3

\* A right origin the list knows has a rank.
LEMMA RankKnows ==
    ASSUME NEW list \in Seq(Entry), NEW id
    PROVE  Rank(list, id) # 0 <=> id \in {NoId} \cup Origins(list)
<1>1. Len(list) + 1 # 0
  <2>1. Len(list) \in Nat
    OBVIOUS
  <2> QED  BY <2>1
<1>2. CASE id = NoId
  BY <1>1, <1>2 DEF Rank
<1>3. CASE id # NoId
  BY <1>3, FindFinds DEF Rank
<1> QED  BY <1>2, <1>3

\* A right scan is refused only for want of a right origin.
LEMMA RightSlotPlaces ==
    ASSUME NEW list \in Seq(Entry), NEW entry, NEW start \in 1 .. Len(list) + 1
    PROVE  /\ RightSlot(list, entry, start) # 0 => Rank(list, entry.link.rightOrigin) # 0
           /\ LinksResolve(list) /\ Rank(list, entry.link.rightOrigin) # 0
                 => RightSlot(list, entry, start) # 0
<1> DEFINE mine      == Rank(list, entry.link.rightOrigin)
           theirs(c) == Rank(list, list[c].link.rightOrigin)
           child(p)  == IF p > Len(list) THEN 0 ELSE TopChild(list, p, entry.link.parent)
           before(c) == \/ mine > theirs(c)
                        \/ mine = theirs(c) /\ IdLess(entry.origin, list[c].origin)
           stop(c)   == c = 0 \/ theirs(c) = 0 \/ before(c)
           known(c)  == c # 0 => theirs(c) # 0
           stops == {p \in start .. Len(list) + 1 : stop(child(p))}
           at == Min(stops)
<1>0. Len(list) \in Nat /\ DOMAIN list = 1 .. Len(list)
  OBVIOUS
<1>1. Len(list) + 1 \in stops
  <2> HIDE DEF theirs, before
  <2> QED OBVIOUS
<1>2. stops \subseteq start .. Len(list) + 1
  OBVIOUS
<1>3. RightSlot(list, entry, start) = IF mine = 0 \/ ~known(child(at)) THEN 0 ELSE at
  BY DEF RightSlot
<1> HIDE DEF stops
<1>4. at \in start .. Len(list) + 1 /\ at # 0
  <2>1. start \in Nat /\ start >= 1 /\ Len(list) + 1 \in Nat /\ stops # {}
    BY <1>0, <1>1
  <2>2. at \in start .. Len(list) + 1
    BY <1>2, <2>1, MinInRange
  <2> HIDE DEF at
  <2> QED  BY <2>1, <2>2
<1> HIDE DEF at
<1>5. child(at) # 0 => child(at) \in DOMAIN list
  <2> DEFINE tops == {p \in Path(list, at) : list[p].link.parent = entry.link.parent}
  <2>1. tops \subseteq DOMAIN list
    BY DEF Path
  <2>2. child(at) = 0 \/ (tops # {} /\ child(at) = CHOOSE p \in tops : TRUE)
    BY DEF TopChild
  <2> HIDE DEF tops, child
  <2> QED  BY <2>1, <2>2
<1>6. LinksResolve(list) => known(child(at))
  <2> HIDE DEF child
  <2>1. SUFFICES ASSUME LinksResolve(list), child(at) # 0
                 PROVE  theirs(child(at)) # 0
    OBVIOUS
  <2>2. list[child(at)].link.rightOrigin \in {NoId} \cup Origins(list)
    BY <1>5, <2>1 DEF LinksResolve
  <2> QED  BY <2>2, RankKnows
<1> HIDE DEF mine, known, child
<1> QED  BY <1>3, <1>4, <1>6 DEF mine

\* An entry that finds a slot has a link the list can resolve.
LEMMA PlacedResolves ==
    ASSUME NEW list \in Seq(Entry), NEW e \in Entry, Slot(list, e) # 0,
           e.link.side = "Left" => e.link.rightOrigin = e.link.parent
    PROVE  {e.link.parent, e.link.rightOrigin} \subseteq {NoId} \cup Origins(list)
<1> DEFINE parent == Find(list, e.link.parent)
           refused == IF e.link.parent = NoId THEN e.link.side = "Left" ELSE parent = 0
<1>0. e.link.side \in {"Left", "Right"} /\ Len(list) \in Nat /\ DOMAIN list = 1 .. Len(list)
  BY DEF Entry, Link
<1>1. CASE FinalAppend(list, e.link)
  <2>1. e.link.rightOrigin = NoId
    BY <1>1 DEF FinalAppend
  <2>2. e.link.parent # NoId => list # <<>> /\ Last(list).origin = e.link.parent
    BY <1>1 DEF FinalAppend
  <2>3. list # <<>> => Len(list) \in DOMAIN list /\ Last(list) = list[Len(list)]
    BY DEF Last
  <2> QED  BY <2>1, <2>2, <2>3 DEF Origins
<1>2. CASE ~FinalAppend(list, e.link)
  <2>1. ~refused /\ (e.link.side = "Right" => RightSlot(list, e, parent + 1) # 0)
    BY <1>2 DEF Slot
  <2>2. parent \in 0 .. Len(list)
    BY FindType
  <2>3. e.link.parent \in {NoId} \cup Origins(list)
    <3>1. e.link.parent = NoId \/ parent # 0
      BY <2>1
    <3> QED  BY <3>1, FindFinds
  <2>4. CASE e.link.side = "Right"
    <3> HIDE DEF parent
    <3>1. parent + 1 \in 1 .. Len(list) + 1
      BY <1>0, <2>2
    <3>2. Rank(list, e.link.rightOrigin) # 0
      BY <2>1, <2>4, <3>1, RightSlotPlaces
    <3> QED  BY <2>3, <3>2, RankKnows
  <2>5. CASE e.link.side = "Left"
    BY <2>3, <2>5
  <2> QED  BY <1>0, <2>4, <2>5
<1> QED  BY <1>1, <1>2

\* A local insertion always finds its slot (mint_link, integrate).
LEMMA MintedIsPlaced ==
    ASSUME NEW list \in Seq(Entry), LinksResolve(list), NEW left \in {NoId} \cup Origins(list),
           NEW e, e.link = MintLink(list, left)
    PROVE  /\ Slot(list, e) # 0
           /\ e.link.side = "Left" => e.link.rightOrigin = e.link.parent
<1> DEFINE after == IF left = NoId THEN 1 ELSE Find(list, left) + 1
           right == IF after > Len(list) THEN NoId ELSE list[after].origin
           parent == Find(list, e.link.parent)
<1>0. Len(list) \in Nat /\ DOMAIN list = 1 .. Len(list)
  OBVIOUS
<1>1. after \in 1 .. Len(list) + 1
  <2>1. Find(list, left) \in 0 .. Len(list)
    BY FindType
  <2> QED  BY <1>0, <2>1
<1> HIDE DEF after
<1>2. right \in {NoId} \cup Origins(list)
  <2>1. after <= Len(list) => after \in DOMAIN list
    BY <1>0, <1>1
  <2> QED  BY <1>0, <1>1, <2>1 DEF Origins
<1>3. \/ right # NoId /\ e.link = [parent |-> right, side |-> "Left", rightOrigin |-> right]
      \/ e.link = [parent |-> left, side |-> "Right", rightOrigin |-> right]
  <2> HIDE DEF right
  <2> QED  BY DEF MintLink, after, right
<1> HIDE DEF right
<1>4. parent \in 0 .. Len(list)
  BY FindType
<1>5. parent + 1 \in 1 .. Len(list) + 1
  <2> HIDE DEF parent
  <2> QED  BY <1>0, <1>4
<1>6. Slot(list, e) = IF FinalAppend(list, e.link) THEN Len(list) + 1
                      ELSE IF IF e.link.parent = NoId THEN e.link.side = "Left" ELSE parent = 0 THEN 0
                      ELSE IF e.link.side = "Right" THEN RightSlot(list, e, parent + 1)
                      ELSE LeftSlot(list, e, parent)
  BY DEF Slot
<1>7. CASE e.link = [parent |-> left, side |-> "Right", rightOrigin |-> right]
  <2>1. e.link.parent = left /\ e.link.side = "Right" /\ e.link.rightOrigin = right
    BY <1>7
  <2>2. e.link.parent # NoId => parent # 0
    BY <2>1, FindFinds
  <2>3. RightSlot(list, e, parent + 1) # 0
    <3>1. Rank(list, e.link.rightOrigin) # 0
      BY <1>2, <2>1, RankKnows
    <3> HIDE DEF parent
    <3> QED  BY <1>5, <3>1, RightSlotPlaces
  <2> HIDE DEF parent
  <2> QED  BY <1>0, <1>6, <2>1, <2>2, <2>3
<1>8. CASE right # NoId /\ e.link = [parent |-> right, side |-> "Left", rightOrigin |-> right]
  <2>1. e.link.parent = right /\ e.link.side = "Left" /\ e.link.rightOrigin = right
    BY <1>8
  <2>2. parent # 0
    BY <1>2, <1>8, <2>1, FindFinds
  <2>3. LeftSlot(list, e, parent) # 0
    <3> HIDE DEF parent
    <3>1. parent \in 1 .. Len(list)
      BY <1>0, <1>4, <2>2
    <3>2. LeftSlot(list, e, parent) \in 1 .. Len(list) + 1
      BY <3>1, LeftSlotType
    <3> QED  BY <3>2
  <2> HIDE DEF parent
  <2> QED  BY <1>0, <1>6, <1>8, <2>1, <2>2, <2>3
<1> HIDE DEF parent
<1> QED  BY <1>3, <1>7, <1>8

\* What integrate does to what a list holds.
LEMMA IntegratedSets ==
    ASSUME NEW list \in Seq(Entry), LinksResolve(list), NEW e \in Entry, Slot(list, e) # 0,
           e.link.side = "Left" => e.link.rightOrigin = e.link.parent
    PROVE  /\ Origins(Integrate(list, e)) = Origins(list) \cup {e.origin}
           /\ Deletions(Integrate(list, e)) = Deletions(list) \cup e.deletions
           /\ LinksResolve(Integrate(list, e))
<1>1. Slot(list, e) \in 1 .. Len(list) + 1
  <2>1. e.link.side \in {"Left", "Right"}
    BY DEF Entry, Link
  <2>2. Slot(list, e) \in 0 .. Len(list) + 1
    BY <2>1, SlotType
  <2> QED  BY <2>2
<1>2. ToSet(Integrate(list, e)) = ToSet(list) \cup {e}
  BY <1>1, InsertedSet DEF Integrate
<1>3. {e.link.parent, e.link.rightOrigin} \subseteq {NoId} \cup Origins(list)
  BY PlacedResolves
<1> DEFINE t == Integrate(list, e)
<1> HIDE DEF t
<1>4. Origins(t) = Origins(list) \cup {e.origin}
  BY <1>2, ListSets DEF t
<1>5. Deletions(t) = Deletions(list) \cup e.deletions
  BY <1>2, ListSets DEF t
<1>6. LinksResolve(t)
  <2>1. \A x \in ToSet(list) : {x.link.parent, x.link.rightOrigin} \subseteq {NoId} \cup Origins(list)
    BY ListSets
  <2>2. \A x \in ToSet(t) : {x.link.parent, x.link.rightOrigin} \subseteq {NoId} \cup Origins(t)
    BY <1>2, <1>3, <1>4, <2>1 DEF t
  <2> QED  BY <2>2, ListSets
<1> QED  BY <1>4, <1>5, <1>6 DEF t

\* What a deletion does to what a list holds.
LEMMA DeletedSets ==
    ASSUME NEW list \in Seq(Entry), NEW target \in Origins(list), NEW del
    PROVE  /\ Origins(Deleted(list, target, del)) = Origins(list)
           /\ Deletions(Deleted(list, target, del)) = Deletions(list) \cup {del}
           /\ LinksResolve(list) => LinksResolve(Deleted(list, target, del))
<1> DEFINE t == Deleted(list, target, del)
<1>1. DOMAIN t = DOMAIN list
  BY DEF Deleted
<1>2. ASSUME NEW i \in DOMAIN list
      PROVE  /\ t[i].origin = list[i].origin /\ t[i].link = list[i].link
             /\ t[i].deletions = IF list[i].origin = target THEN list[i].deletions \cup {del}
                                 ELSE list[i].deletions
  <2>1. list[i] \in Entry
    OBVIOUS
  <2>2. t[i] = IF list[i].origin = target THEN [list[i] EXCEPT !.deletions = @ \cup {del}] ELSE list[i]
    BY DEF Deleted
  <2> HIDE DEF t
  <2> QED  BY <2>1, <2>2 DEF Entry
<1> HIDE DEF t
<1>3. Origins(t) = Origins(list)
  BY <1>1, <1>2 DEF Origins
<1>4. Deletions(t) = Deletions(list) \cup {del}
  <2>1. PICK k \in DOMAIN list : list[k].origin = target
    BY DEF Origins
  <2>2. del \in t[k].deletions /\ k \in DOMAIN t
    BY <1>1, <1>2, <2>1
  <2>3. \A i \in DOMAIN list : /\ i \in DOMAIN t /\ list[i].deletions \subseteq t[i].deletions
                                /\ t[i].deletions \subseteq list[i].deletions \cup {del}
    BY <1>1, <1>2
  <2>4. Deletions(t) \subseteq Deletions(list) \cup {del}
    <3> SUFFICES ASSUME NEW i \in DOMAIN t, NEW d \in t[i].deletions
                 PROVE  d \in Deletions(list) \cup {del}
      BY DEF Deletions
    <3> QED  BY <1>1, <2>3 DEF Deletions
  <2>5. Deletions(list) \subseteq Deletions(t)
    BY <2>3 DEF Deletions
  <2>6. del \in Deletions(t)
    BY <2>2 DEF Deletions
  <2> QED  BY <2>4, <2>5, <2>6
<1>5. LinksResolve(list) => LinksResolve(t)
  <2> SUFFICES ASSUME LinksResolve(list), NEW i \in DOMAIN list
               PROVE  {t[i].link.parent, t[i].link.rightOrigin} \subseteq {NoId} \cup Origins(t)
    BY <1>1 DEF LinksResolve
  <2>1. t[i].link = list[i].link
    BY <1>2
  <2>2. {list[i].link.parent, list[i].link.rightOrigin} \subseteq {NoId} \cup Origins(list)
    BY DEF LinksResolve
  <2> QED  BY <1>3, <2>1, <2>2
<1> QED  BY <1>3, <1>4, <1>5 DEF t

\* The elements that are kept.
LEMMA KeptSet ==
    ASSUME NEW S, NEW s \in Seq(S), NEW gone
    PROVE  ToSet(Kept(s, gone)) = ToSet(s) \ gone
<1> DEFINE t == Kept(s, gone)
<1>1. t \in Seq(S) /\ DOMAIN s = 1 .. Len(s) /\ DOMAIN t = 1 .. Len(t)
  <2>1. t \in Seq(S)
    BY KeptAt
  <2> HIDE DEF t
  <2> QED  BY <2>1
<1>2. PICK f \in [1 .. Len(t) -> 1 .. Len(s)] :
         /\ \A k \in 1 .. Len(t) : t[k] = s[f[k]] /\ s[f[k]] \notin gone
         /\ \A i \in 1 .. Len(s) : s[i] \notin gone => \E k \in 1 .. Len(t) : f[k] = i
  BY KeptAt
<1> HIDE DEF t
<1>3. ASSUME NEW x \in ToSet(t)
      PROVE  x \in ToSet(s) \ gone
  <2>1. PICK k \in 1 .. Len(t) : x = t[k]
    BY <1>1 DEF ToSet
  <2>2. f[k] \in DOMAIN s /\ x = s[f[k]] /\ x \notin gone
    BY <1>1, <1>2, <2>1
  <2> QED  BY <2>2 DEF ToSet
<1>4. ASSUME NEW x \in ToSet(s) \ gone
      PROVE  x \in ToSet(t)
  <2>1. PICK i \in 1 .. Len(s) : x = s[i]
    BY <1>1 DEF ToSet
  <2>2. PICK k \in 1 .. Len(t) : f[k] = i
    BY <1>2, <2>1
  <2>3. x = t[k] /\ k \in DOMAIN t
    BY <1>1, <1>2, <2>1, <2>2
  <2> QED  BY <2>3 DEF ToSet
<1>5. ToSet(t) = ToSet(s) \ gone
  BY <1>3, <1>4
<1> QED  BY <1>5 DEF t

\* What forgetting entries does to what a list holds.
LEMMA KeptSets ==
    ASSUME NEW list \in Seq(Entry), NEW gone, LinksResolve(list),
           \A e \in gone, x \in ToSet(list) :
              x = e \/ e.origin \notin {x.link.parent, x.link.rightOrigin}
    PROVE  /\ Origins(Kept(list, gone)) \subseteq Origins(list)
           /\ Deletions(Kept(list, gone)) \subseteq Deletions(list)
           /\ \A id \in Origins(list) :
                 id \in Origins(Kept(list, gone)) \/ \E e \in gone : e.origin = id
           /\ \A id \in Deletions(list) :
                 id \in Deletions(Kept(list, gone)) \/ \E e \in gone : id \in e.deletions
           /\ LinksResolve(Kept(list, gone))
<1> DEFINE t == Kept(list, gone)
<1>1. ToSet(t) = ToSet(list) \ gone
  BY KeptSet
<1> HIDE DEF t
<1>2. Origins(t) \subseteq Origins(list) /\ Deletions(t) \subseteq Deletions(list)
  BY <1>1, ListSets
<1>3. \A id \in Origins(list) : id \in Origins(t) \/ \E e \in gone : e.origin = id
  BY <1>1, ListSets
<1>4. \A id \in Deletions(list) : id \in Deletions(t) \/ \E e \in gone : id \in e.deletions
  BY <1>1, ListSets
<1>5. LinksResolve(t)
  <2>1. \A x \in ToSet(list) : {x.link.parent, x.link.rightOrigin} \subseteq {NoId} \cup Origins(list)
    BY ListSets
  <2>2. \A x \in ToSet(t) : {x.link.parent, x.link.rightOrigin} \subseteq {NoId} \cup Origins(t)
    BY <1>1, <1>3, <2>1
  <2> QED  BY <2>2, ListSets
<1> QED  BY <1>2, <1>3, <1>4, <1>5 DEF t

-----------------------------------------------------------------------------
(* Undo counts *)

\* No undo event of the map counts above b.
CountsBelow(map, b) == b \in Nat /\ \A u \in map : u.count \in Nat /\ u.count <= b

\* A set of counts with a largest one.
LEMMA LargestCount ==
    ASSUME NEW map, NEW id, NEW n \in Nat,
           \E u \in map : u.edit = id /\ u.count = n,
           \A u \in map : u.edit = id => u.count \in Nat /\ u.count <= n
    PROVE  UndoCount(map, id) = n
<1> DEFINE counts == {e.count : e \in {f \in map : f.edit = id}}
<1>1. n \in counts /\ \A m \in counts : m \in Nat /\ m <= n
  OBVIOUS
<1>2. UndoCount(map, id) = IF counts = {} THEN 0 ELSE CHOOSE k \in counts : \A m \in counts : m <= k
  BY DEF UndoCount
<1> HIDE DEF counts
<1>3. ASSUME NEW k \in counts, \A m \in counts : m <= k
      PROVE  k = n
  <2>1. n <= k /\ k <= n /\ k \in Nat
    BY <1>1, <1>3
  <2> QED  BY <2>1
<1> QED  BY <1>1, <1>2, <1>3

\* The undo count of an identity is its largest count.
LEMMA UndoCountIsMax ==
    ASSUME NEW map, NEW b, CountsBelow(map, b), NEW id
    PROVE  /\ UndoCount(map, id) \in Nat
           /\ \A u \in map : u.edit = id => u.count <= UndoCount(map, id)
<1> DEFINE counts == {e.count : e \in {f \in map : f.edit = id}}
<1>0. \A u \in map : u.count \in Nat /\ u.count <= b
  BY DEF CountsBelow
<1>1. \A m \in counts : m \in Nat /\ m <= b
  BY <1>0
<1>2. UndoCount(map, id) = IF counts = {} THEN 0 ELSE CHOOSE k \in counts : \A m \in counts : m <= k
  BY DEF UndoCount
<1>3. \A u \in map : u.edit = id => u.count \in counts
  OBVIOUS
<1> HIDE DEF counts
<1>4. CASE counts = {}
  BY <1>2, <1>3, <1>4
<1>5. CASE counts # {}
  <2>1. \E x \in counts : \A y \in counts : y <= x
    <3>1. counts \subseteq Nat /\ b \in Nat /\ \A m \in counts : m <= b
      BY <1>1 DEF CountsBelow
    <3> QED  BY <1>5, <3>1, MaxExists
  <2>2. UndoCount(map, id) \in counts /\ \A m \in counts : m <= UndoCount(map, id)
    BY <1>2, <1>5, <2>1
  <2> QED  BY <1>1, <1>3, <2>2
<1> QED  BY <1>4, <1>5

\* What an undo or redo adds to the undo map (try_undo_group, try_redo_group).
ToggleEvents(map, ids, id) ==
    {[edit |-> c.target, undo |-> id, count |-> c.count] :
        c \in {[target |-> t, count |-> NextCount(map, t)] : t \in ids}}

\* The members of an undo operation and its events.
LEMMA ToggleEventParts ==
    ASSUME NEW map, NEW ids, NEW id
    PROVE  /\ \A u \in ToggleEvents(map, ids, id) :
                 u.edit \in ids /\ u.undo = id /\ u.count = NextCount(map, u.edit)
           /\ \A t \in ids : \E u \in ToggleEvents(map, ids, id) :
                 u.edit = t /\ u.count = NextCount(map, t)
<1> DEFINE counts == {[target |-> t, count |-> NextCount(map, t)] : t \in ids}
<1>1. ToggleEvents(map, ids, id)
         = {[edit |-> c.target, undo |-> id, count |-> c.count] : c \in counts}
  BY DEF ToggleEvents
<1>2. /\ \A c \in counts : c.target \in ids /\ c.count = NextCount(map, c.target)
      /\ \A t \in ids : \E c \in counts : c.target = t /\ c.count = NextCount(map, t)
  <2>1. ASSUME NEW c \in counts
        PROVE  c.target \in ids /\ c.count = NextCount(map, c.target)
    <3>1. PICK t \in ids : c = [target |-> t, count |-> NextCount(map, t)]
      OBVIOUS
    <3>2. c.target = t /\ c.count = NextCount(map, t)
      BY <3>1
    <3> QED  BY <3>2
  <2>2. ASSUME NEW t \in ids
        PROVE  \E c \in counts : c.target = t /\ c.count = NextCount(map, t)
    <3> DEFINE c == [target |-> t, count |-> NextCount(map, t)]
    <3>1. c \in counts /\ c.target = t /\ c.count = NextCount(map, t)
      OBVIOUS
    <3> QED  BY <3>1
  <2> QED  BY <2>1, <2>2
<1> HIDE DEF counts
<1>3. ASSUME NEW u \in ToggleEvents(map, ids, id)
      PROVE  u.edit \in ids /\ u.undo = id /\ u.count = NextCount(map, u.edit)
  <2>1. PICK c \in counts : u = [edit |-> c.target, undo |-> id, count |-> c.count]
    BY <1>1
  <2> QED  BY <1>2, <2>1
<1>4. ASSUME NEW t \in ids
      PROVE  \E u \in ToggleEvents(map, ids, id) : u.edit = t /\ u.count = NextCount(map, t)
  <2>1. PICK c \in counts : c.target = t /\ c.count = NextCount(map, t)
    BY <1>2
  <2> DEFINE u == [edit |-> c.target, undo |-> id, count |-> c.count]
  <2>2. u \in ToggleEvents(map, ids, id) /\ u.edit = t /\ u.count = NextCount(map, t)
    BY <1>1, <2>1
  <2> QED  BY <2>2
<1> QED  BY <1>3, <1>4

\* Events about other identities do not count.
LEMMA OtherEvents ==
    ASSUME NEW map, NEW new, NEW id, {u \in map : u.edit = id} = {u \in new : u.edit = id}
    PROVE  /\ UndoCount(new, id) = UndoCount(map, id)
           /\ IsUndone(new, id) <=> IsUndone(map, id)
<1> DEFINE counts(m) == {e.count : e \in {f \in m : f.edit = id}}
           largest(C) == IF C = {} THEN 0 ELSE CHOOSE n \in C : \A m \in C : m <= n
<1>1. UndoCount(map, id) = largest(counts(map)) /\ UndoCount(new, id) = largest(counts(new))
  BY DEF UndoCount
<1>2. counts(map) = counts(new)
  OBVIOUS
<1> HIDE DEF counts, largest
<1>3. UndoCount(new, id) = UndoCount(map, id)
  BY <1>1, <1>2
<1> QED  BY <1>3 DEF IsUndone

\* An undo or redo raises the undo count of its members by one, and no other.
LEMMA ToggledCounts ==
    ASSUME NEW map, NEW b, CountsBelow(map, b), NEW ids, NEW id
    PROVE  /\ \A t \in ids :
                 UndoCount(map \cup ToggleEvents(map, ids, id), t) = UndoCount(map, t) + 1
           /\ \A t : t \notin ids =>
                 UndoCount(map \cup ToggleEvents(map, ids, id), t) = UndoCount(map, t)
<1> DEFINE new == ToggleEvents(map, ids, id)
           both == map \cup new
<1>1. /\ \A u \in new : u.edit \in ids /\ u.count = NextCount(map, u.edit)
      /\ \A t \in ids : \E u \in new : u.edit = t /\ u.count = NextCount(map, t)
  BY ToggleEventParts
<1> HIDE DEF new
<1>2. ASSUME NEW t \in ids
      PROVE  UndoCount(both, t) = UndoCount(map, t) + 1
  <2> DEFINE n == UndoCount(map, t) + 1
  <2>1. /\ UndoCount(map, t) \in Nat
        /\ \A u \in map : u.edit = t => u.count <= UndoCount(map, t)
    BY UndoCountIsMax
  <2>2. \A u \in map : u.count \in Nat
    BY DEF CountsBelow
  <2>3. \A u \in both : u.edit = t => u.count \in Nat /\ u.count <= n
    <3>1. \A u \in map : u.edit = t => u.count \in Nat /\ u.count <= n
      BY <2>1, <2>2
    <3>2. \A u \in new : u.edit = t => u.count = n
      BY <1>1 DEF NextCount
    <3>3. n \in Nat /\ n <= n
      BY <2>1
    <3> HIDE DEF n
    <3> QED  BY <3>1, <3>2, <3>3
  <2>4. \E u \in both : u.edit = t /\ u.count = n
    BY <1>1 DEF NextCount
  <2>5. n \in Nat
    BY <2>1
  <2> HIDE DEF n, both
  <2>6. UndoCount(both, t) = n
    BY <2>3, <2>4, <2>5, LargestCount
  <2> QED  BY <2>6 DEF n
<1>3. ASSUME NEW t, t \notin ids
      PROVE  UndoCount(both, t) = UndoCount(map, t)
  <2>1. {f \in map : f.edit = t} = {f \in both : f.edit = t}
    BY <1>1, <1>3
  <2> HIDE DEF both
  <2> QED  BY <2>1, OtherEvents
<1>4. \A t \in ids : UndoCount(both, t) = UndoCount(map, t) + 1
  BY <1>2
<1>5. \A t : t \notin ids => UndoCount(both, t) = UndoCount(map, t)
  BY <1>3
<1> QED  BY <1>4, <1>5 DEF new

\* An undo or redo turns its members over, and nothing else.
LEMMA ToggledSides ==
    ASSUME NEW map, NEW b, CountsBelow(map, b), NEW ids, NEW id
    PROVE  /\ \A t \in ids :
                 IsUndone(map \cup ToggleEvents(map, ids, id), t) <=> ~IsUndone(map, t)
           /\ \A t : t \notin ids =>
                 (IsUndone(map \cup ToggleEvents(map, ids, id), t) <=> IsUndone(map, t))
<1>1. ASSUME NEW t \in ids
      PROVE  IsUndone(map \cup ToggleEvents(map, ids, id), t) <=> ~IsUndone(map, t)
  <2>1. \A n \in Nat : (n + 1) % 2 = 1 <=> ~(n % 2 = 1)
    OBVIOUS
  <2>2. UndoCount(map, t) \in Nat
    BY UndoCountIsMax
  <2>3. UndoCount(map \cup ToggleEvents(map, ids, id), t) = UndoCount(map, t) + 1
    BY ToggledCounts
  <2>4. (UndoCount(map, t) + 1) % 2 = 1 <=> ~(UndoCount(map, t) % 2 = 1)
    BY <2>1, <2>2
  <2> QED  BY <2>3, <2>4 DEF IsUndone
<1>2. ASSUME NEW t, t \notin ids
      PROVE  IsUndone(map \cup ToggleEvents(map, ids, id), t) <=> IsUndone(map, t)
  BY <1>2, ToggledCounts DEF IsUndone
<1> QED  BY <1>1, <1>2

-----------------------------------------------------------------------------
(* The inductive invariant *)

\* The identities replica r has issued.
OwnIds(r) == {id \in Identity : id.actor = r /\ id.counter < next[r]}

UndoneIds(map) == {id \in Identity : IsUndone(map, id)}

QueuesAreSent ==
    /\ deferred \in [Actor -> Seq(sent)]
    /\ quarantined \in [Actor -> Seq(sent)]
    /\ todo \in Seq(sent)
    /\ phase \in {"idle", "batch", "retry"} /\ progress \in BOOLEAN
    /\ phase # "idle" => busy \in Actor

\* A certified frontier is below every replica's version.
FrontierIsCommon ==
    /\ frontier \in [Actor -> Global]
    /\ \A r, s, a \in Actor : frontier[r][a] <= version[s][a]

\* Nobody knows more of an actor than the actor itself.
AuthorsKnowTheirs ==
    /\ \A s, a \in Actor : version[s][a] <= version[a][a]
    /\ \A o \in sent : \A a \in Actor : o.version[a] <= version[a][a]

\* What an operation refers to was sent before it and is covered by its version.
TargetIsSeen(o, ops) ==
    /\ o.kind = "insert" => (o.link.side = "Left" => o.link.rightOrigin = o.link.parent)
    /\ o.kind = "remove" => /\ Observed(o.version, o.target)
                            /\ \E p \in ops : p.kind = "insert" /\ p.id = o.target
    /\ o.kind = "undo" => \A c \in o.counts :
          /\ c.target.actor = o.id.actor
          /\ Observed(o.version, c.target)
          /\ \E p \in ops : p.kind # "undo" /\ p.id = c.target

TargetsAreSeen == \A o \in sent : TargetIsSeen(o, sent)

\* A document names what its replica has integrated ...
NamesAreIntegrated(r) ==
    /\ \A id \in Origins(entries[r]) : \E o \in applied[r] : o.kind = "insert" /\ o.id = id
    /\ \A id \in Deletions(entries[r]) : \E o \in applied[r] : o.kind = "remove" /\ o.id = id
    /\ \A u \in undoMap[r] :
          /\ \E o \in applied[r] : o.id = u.undo
          /\ Observed(version[r], u.edit)

\* ... and what it has integrated is there, or below the frontier.
HeldOrCovered(r) ==
    \A o \in applied[r] :
        /\ o.kind = "insert" => o.id \in Origins(entries[r]) \/ Covered(frontier[r], o.id)
        /\ o.kind = "remove" => o.id \in Deletions(entries[r]) \/ Covered(frontier[r], o.id)

\* The history names what the list holds, and its cursor tells what is undone.
HistoryInv(r) ==
    /\ HistoryOK(history[r], OwnIds(r), Origins(entries[r]), Deletions(entries[r]))
    /\ SidesOK(history[r], UndoneIds(undoMap[r]))

ReplicaInv(r) ==
    /\ LinksResolve(entries[r])
    /\ NamesAreIntegrated(r)
    /\ HeldOrCovered(r)
    /\ HistoryInv(r)

\* The operation misses a dependency at a replica with version v.
Waits(v, op) == ~Observed(v, op.id) /\ ~ObservedAll(v, op.version)

\* What waits outside a call, and in a pass that changed nothing, waits for a reason.
QueueWaits(r) ==
    \/ phase = "batch" /\ busy = r
    \/ phase = "retry" /\ busy = r /\ progress
    \/ \A i \in DOMAIN deferred[r] : Waits(version[r], deferred[r][i])

SharedInv == FrontierIsCommon /\ AuthorsKnowTheirs /\ TargetsAreSeen

IdInv ==
    /\ ListInv
    /\ SharedInv
    /\ QueuesAreSent
    /\ history \in [Actor -> History]
    /\ \A r \in Actor : ReplicaInv(r) /\ QueueWaits(r)

\* A replica none of whose own state changes.
LEMMA ReplicaKept ==
    ASSUME NEW s \in Actor, ReplicaInv(s), entries'[s] = entries[s], undoMap'[s] = undoMap[s],
           applied'[s] = applied[s], version'[s] = version[s], frontier'[s] = frontier[s],
           history'[s] = history[s], next'[s] = next[s]
    PROVE  ReplicaInv(s)'
<1>1. LinksResolve(entries[s])'
  BY DEF ReplicaInv
<1>2. NamesAreIntegrated(s)'
  BY DEF ReplicaInv, NamesAreIntegrated
<1>3. HeldOrCovered(s)'
  BY DEF ReplicaInv, HeldOrCovered
<1>4. OwnIds(s)' = OwnIds(s)
  BY DEF OwnIds
<1>5. HistoryInv(s)'
  BY <1>4 DEF ReplicaInv, HistoryInv
<1> QED  BY <1>1, <1>2, <1>3, <1>5 DEF ReplicaInv

\* Versions, identities and targets, as the invariant types them.
LEMMA InvTypes ==
    ASSUME IdInv
    PROVE  /\ \A r, a \in Actor : version[r][a] \in Nat
           /\ \A r, a \in Actor : frontier[r][a] \in Nat
           /\ \A r \in Actor : next[r] \in Nat \ {0} /\ version[r] \in Global
           /\ \A r \in Actor : entries[r] \in Seq(Entry) /\ undoMap[r] \subseteq UndoEvent
           /\ \A o \in sent : /\ o \in Operation /\ o.id \in Identity
                              /\ o.id.actor \in Actor /\ o.id.counter \in Nat \ {0}
                              /\ o.version \in Global /\ \A a \in Actor : o.version[a] \in Nat
                              /\ o.kind \in {"insert", "remove", "undo"}
           /\ \A r \in Actor : applied[r] \subseteq sent
<1>1. \A o \in sent : /\ o \in Operation /\ o.id \in Identity
                      /\ o.id.actor \in Actor /\ o.id.counter \in Nat \ {0}
                      /\ o.version \in Global /\ \A a \in Actor : o.version[a] \in Nat
                      /\ o.kind \in {"insert", "remove", "undo"}
  BY OperationFields DEF IdInv, ListInv, CausalInv
<1>2. /\ \A r, a \in Actor : version[r][a] \in Nat
      /\ \A r \in Actor : next[r] \in Nat \ {0} /\ version[r] \in Global
  BY DEF IdInv, ListInv, CausalInv, Global
<1>3. \A r, a \in Actor : frontier[r][a] \in Nat
  BY DEF IdInv, SharedInv, FrontierIsCommon, Global
<1>4. /\ \A r \in Actor : entries[r] \in Seq(Entry) /\ undoMap[r] \subseteq UndoEvent
      /\ \A r \in Actor : applied[r] \subseteq sent
  BY DEF IdInv, ListInv, CausalInv, AppliedIsSent, DocumentInv
<1> QED  BY <1>1, <1>2, <1>3, <1>4

\* A replica covers exactly the operations it has integrated, its own among them.
LEMMA Honest ==
    ASSUME IdInv, NEW r \in Actor, NEW o \in sent
    PROVE  /\ Observed(version[r], o.id) <=> o \in applied[r]
           /\ o.id.actor = r => o \in applied[r]
  BY DEF IdInv, ListInv, CausalInv, CoverageIsHonest, AppliedIsSent

-----------------------------------------------------------------------------
(* What every operation does to the shared state *)

\* Sequences over more.
LEMMA SeqGrows ==
    ASSUME NEW S, NEW T, S \subseteq T, NEW s \in Seq(S)
    PROVE  s \in Seq(T)
  OBVIOUS

\* What waits elsewhere is about what was sent.
LEMMA QueuedIsSent ==
    ASSUME IdInv, NEW r \in Actor
    PROVE  /\ deferred[r] \in Seq(sent) /\ quarantined[r] \in Seq(sent)
           /\ \A i \in DOMAIN deferred[r] : deferred[r][i] \in sent
<1>1. deferred[r] \in Seq(sent) /\ quarantined[r] \in Seq(sent)
  BY DEF IdInv, QueuesAreSent
<1> QED  BY <1>1

\* The values a local operation leaves.
EmitEffect(r, op) ==
    /\ op \in Operation /\ op.id = NewId(r) /\ op.version = version[r]
    /\ version'[r][r] = next[r] /\ \A a \in Actor : a # r => version'[r][a] = version[r][a]
    /\ \A s \in Actor : s # r => version'[s] = version[s]
    /\ next'[r] = next[r] + 1 /\ \A s \in Actor : s # r => next'[s] = next[s]
    /\ sent' = sent \cup {op}
    /\ applied'[r] = applied[r] \cup {op} /\ \A s \in Actor : s # r => applied'[s] = applied[s]

\* A local operation observes itself.
LEMMA EmitsEffect ==
    ASSUME IdInv, NEW r \in Actor, NEW op \in Operation,
           op.id = NewId(r), op.version = version[r], Emit(r, op)
    PROVE  EmitEffect(r, op)
<1>1. /\ op.id.actor = r /\ op.id.counter = next[r] /\ op.id \in Identity
      /\ next[r] \in Nat \ {0}
  BY OperationFields, InvTypes DEF NewId
<1>2. version[r] \in Global /\ version[r][r] < next[r] /\ version \in [Actor -> Global]
  BY DEF IdInv, ListInv, CausalInv, AllocatorIsAhead
<1>3. version' = [version EXCEPT ![r] = Observe(@, op.id)]
  BY DEF Emit
<1>4. Observe(version[r], op.id) = [version[r] EXCEPT ![r] = next[r]]
  BY <1>1, <1>2 DEF Observe, Global
<1>5. version'[r] = [version[r] EXCEPT ![r] = next[r]]
      /\ \A s \in Actor : s # r => version'[s] = version[s]
  BY <1>2, <1>3, <1>4
<1>6. version'[r][r] = next[r] /\ \A a \in Actor : a # r => version'[r][a] = version[r][a]
  BY <1>2, <1>5 DEF Global
<1>7. next'[r] = next[r] + 1 /\ \A s \in Actor : s # r => next'[s] = next[s]
  BY DEF Emit, IdInv, ListInv, CausalInv
<1>8. sent' = sent \cup {op}
  BY DEF Emit
<1>9. applied'[r] = applied[r] \cup {op} /\ \A s \in Actor : s # r => applied'[s] = applied[s]
  BY DEF Emit, IdInv, ListInv, CausalInv
<1> QED  BY <1>5, <1>6, <1>7, <1>8, <1>9 DEF EmitEffect

\* Versions only grow.
LEMMA EmitRaises ==
    ASSUME IdInv, NEW r \in Actor, NEW op, EmitEffect(r, op)
    PROVE  \A s, a \in Actor : version'[s][a] \in Nat /\ version[s][a] <= version'[s][a]
<1>1. \A s, a \in Actor : version[s][a] \in Nat
  BY InvTypes
<1>2. next[r] \in Nat /\ version[r][r] <= next[r]
  BY InvTypes DEF IdInv, ListInv, CausalInv, AllocatorIsAhead
<1>3. ASSUME NEW s \in Actor, NEW a \in Actor
      PROVE  version'[s][a] \in Nat /\ version[s][a] <= version'[s][a]
  <2>1. CASE s = r /\ a = r
    BY <1>2, <2>1 DEF EmitEffect
  <2>2. CASE s # r \/ a # r
    <3>1. version'[s][a] = version[s][a]
      BY <2>2 DEF EmitEffect
    <3> QED  BY <1>1, <3>1
  <2> QED  BY <2>1, <2>2
<1> QED  BY <1>3

\* A local operation keeps what the replicas share.
LEMMA EmitKeepsShared ==
    ASSUME IdInv, NEW r \in Actor, NEW op, EmitEffect(r, op), TargetIsSeen(op, sent),
           UNCHANGED frontier
    PROVE  SharedInv'
<1>1. \A s, a \in Actor : version'[s][a] \in Nat /\ version[s][a] <= version'[s][a]
  BY EmitRaises
<1>2. /\ \A s, a \in Actor : version[s][a] \in Nat /\ frontier[s][a] \in Nat
      /\ \A o \in sent : \A a \in Actor : o.version[a] \in Nat
  BY InvTypes
<1>3. FrontierIsCommon'
  <2>1. frontier' \in [Actor -> Global]
    BY DEF IdInv, SharedInv, FrontierIsCommon
  <2>2. ASSUME NEW q \in Actor, NEW s \in Actor, NEW a \in Actor
        PROVE  frontier'[q][a] <= version'[s][a]
    <3>1. frontier[q][a] <= version[s][a]
      BY DEF IdInv, SharedInv, FrontierIsCommon
    <3>2. version[s][a] <= version'[s][a] /\ version'[s][a] \in Nat
          /\ version[s][a] \in Nat /\ frontier[q][a] \in Nat
      BY <1>1, <1>2
    <3> QED  BY <3>1, <3>2
  <2> QED  BY <2>1, <2>2 DEF FrontierIsCommon
<1>4. AuthorsKnowTheirs'
  <2>1. ASSUME NEW s \in Actor, NEW a \in Actor
        PROVE  version'[s][a] <= version'[a][a]
    <3>1. version[s][a] <= version[a][a] /\ version[a][a] <= version'[a][a]
          /\ version[s][a] \in Nat /\ version[a][a] \in Nat /\ version'[a][a] \in Nat
      BY <1>1, <1>2 DEF IdInv, SharedInv, AuthorsKnowTheirs
    <3>2. version'[s][a] = version[s][a] \/ s = a
      BY DEF EmitEffect
    <3>3. CASE s = a
      BY <1>1, <3>3
    <3> QED  BY <3>1, <3>2, <3>3
  <2>2. ASSUME NEW o \in sent', NEW a \in Actor
        PROVE  o.version[a] <= version'[a][a]
    <3>1. PICK s \in Actor : o = op \/ o \in sent
      BY DEF EmitEffect
    <3>2. CASE o \in sent
      <4>1. o.version[a] <= version[a][a] /\ o.version[a] \in Nat
        BY <1>2, <3>2 DEF IdInv, SharedInv, AuthorsKnowTheirs
      <4>2. version[a][a] <= version'[a][a] /\ version[a][a] \in Nat /\ version'[a][a] \in Nat
        BY <1>1, <1>2
      <4> QED  BY <4>1, <4>2
    <3>3. CASE o = op
      <4>1. o.version[a] = version[r][a] /\ version[r][a] <= version[a][a]
        BY <3>3 DEF EmitEffect, IdInv, SharedInv, AuthorsKnowTheirs
      <4>2. version[a][a] <= version'[a][a] /\ version[a][a] \in Nat /\ version'[a][a] \in Nat
            /\ version[r][a] \in Nat
        BY <1>1, <1>2
      <4> QED  BY <4>1, <4>2
    <3> QED  BY <3>1, <3>2, <3>3
  <2> QED  BY <2>1, <2>2 DEF AuthorsKnowTheirs
<1>5. TargetsAreSeen'
  <2>1. sent' = sent \cup {op} /\ \A o \in sent : TargetIsSeen(o, sent)
    BY DEF EmitEffect, IdInv, SharedInv, TargetsAreSeen
  <2>2. \A o \in sent' : TargetIsSeen(o, sent)
    BY <2>1
  <2>3. \A o : TargetIsSeen(o, sent) => TargetIsSeen(o, sent')
    BY <2>1 DEF TargetIsSeen
  <2> QED  BY <2>2, <2>3 DEF TargetsAreSeen
<1> QED  BY <1>3, <1>4, <1>5 DEF SharedInv

\* A local operation leaves what waits waiting: it is nobody's missing dependency
\* at its own replica.
LEMMA EmitKeepsQueues ==
    ASSUME IdInv, NEW r \in Actor, NEW op, EmitEffect(r, op), phase = "idle",
           UNCHANGED <<deferred, quarantined, callVars>>
    PROVE  QueuesAreSent' /\ \A s \in Actor : QueueWaits(s)'
<1>1. sent \subseteq sent'
  BY DEF EmitEffect
<1>2. QueuesAreSent'
  <2>1. \A s \in Seq(sent) : s \in Seq(sent')
    BY <1>1, SeqGrows
  <2>2. UNCHANGED <<deferred, quarantined, phase, busy, todo, progress>>
    BY DEF callVars
  <2> QED  BY <2>1, <2>2 DEF IdInv, QueuesAreSent
<1>3. ASSUME NEW s \in Actor
      PROVE  QueueWaits(s)'
  <2>1. \A i \in DOMAIN deferred[s] : Waits(version[s], deferred[s][i])
    BY DEF IdInv, QueueWaits
  <2>2. ASSUME NEW i \in DOMAIN deferred[s]
        PROVE  Waits(version'[s], deferred[s][i])
    <3> DEFINE o == deferred[s][i]
    <3>1. o \in sent /\ ~Observed(version[s], o.id) /\ ~ObservedAll(version[s], o.version)
      BY <2>1, QueuedIsSent DEF Waits
    <3> HIDE DEF o
    <3>2. o.id.actor \in Actor /\ o.id.counter \in Nat /\ \A a \in Actor : o.version[a] \in Nat
      BY <3>1, InvTypes
    <3>3. o.id.actor # s
      BY <3>1, Honest
    <3>4. PICK a \in Actor : ~(version[s][a] >= o.version[a])
      BY <3>1 DEF ObservedAll
    <3>5. a # s
      <4>1. o.version[s] <= version[s][s] /\ version[s][s] \in Nat
        BY <3>1, InvTypes DEF IdInv, SharedInv, AuthorsKnowTheirs
      <4> QED  BY <3>2, <3>4, <4>1
    <3>6. version'[s][a] = version[s][a] /\ version'[s][o.id.actor] = version[s][o.id.actor]
      BY <3>2, <3>3, <3>5 DEF EmitEffect
    <3>7. ~Observed(version'[s], o.id)
      BY <3>1, <3>6 DEF Observed
    <3>8. ~ObservedAll(version'[s], o.version)
      BY <3>4, <3>6 DEF ObservedAll
    <3> QED  BY <3>7, <3>8 DEF Waits, o
  <2>3. deferred' = deferred
    OBVIOUS
  <2> QED  BY <2>2, <2>3 DEF QueueWaits
<1> QED  BY <1>2, <1>3

\* The documents of the others do not change.
LEMMA EmitKeepsOthers ==
    ASSUME IdInv, NEW r \in Actor, NEW op, EmitEffect(r, op), UNCHANGED frontier,
           \A s \in Actor : s # r => /\ entries'[s] = entries[s] /\ undoMap'[s] = undoMap[s]
                                     /\ history'[s] = history[s]
    PROVE  \A s \in Actor : s # r => ReplicaInv(s)'
<1>1. ASSUME NEW s \in Actor, s # r PROVE ReplicaInv(s)'
  <2>1. ReplicaInv(s) /\ applied'[s] = applied[s] /\ version'[s] = version[s]
        /\ next'[s] = next[s] /\ frontier'[s] = frontier[s]
    BY <1>1 DEF EmitEffect, IdInv
  <2> QED  BY <1>1, <2>1, ReplicaKept
<1> QED  BY <1>1

-----------------------------------------------------------------------------
(* Local operations *)

\* The new identity: unheard of, and the replica's own from now on.
LEMMA NewIdentity ==
    ASSUME IdInv, NEW r \in Actor, NEW op, EmitEffect(r, op)
    PROVE  /\ NewId(r) \in Identity /\ NewId(r) \notin OwnIds(r)
           /\ OwnIds(r)' = OwnIds(r) \cup {NewId(r)}
           /\ NewId(r) \notin UndoneIds(undoMap[r])
<1>1. next[r] \in Nat \ {0} /\ next'[r] = next[r] + 1 /\ version[r][r] < next[r]
      /\ version[r][r] \in Nat
  BY InvTypes DEF EmitEffect, IdInv, ListInv, CausalInv, AllocatorIsAhead
<1>2. NewId(r) \in Identity /\ NewId(r).actor = r /\ NewId(r).counter = next[r]
  BY <1>1 DEF NewId, Identity
<1>3. \A id \in Identity : id.counter \in Nat /\ id = [counter |-> id.counter, actor |-> id.actor]
  BY DEF Identity
<1>4. \A id \in Identity : (id.actor = r /\ id.counter < next[r] + 1)
         <=> (id.actor = r /\ id.counter < next[r]) \/ id = NewId(r)
  BY <1>1, <1>2, <1>3
<1>5. OwnIds(r)' = OwnIds(r) \cup {NewId(r)}
  BY <1>1, <1>2, <1>4 DEF OwnIds
<1>6. NewId(r) \notin OwnIds(r)
  BY <1>1, <1>2 DEF OwnIds
<1>7. ~IsUndone(undoMap[r], NewId(r))
  <2>1. ASSUME NEW u \in undoMap[r], u.edit = NewId(r) PROVE FALSE
    <3>1. Observed(version[r], NewId(r))
      BY <2>1 DEF IdInv, ReplicaInv, NamesAreIntegrated
    <3> QED  BY <1>1, <1>2, <3>1 DEF Observed
  <2>2. {u \in undoMap[r] : u.edit = NewId(r)} = {u \in {} : u.edit = NewId(r)}
    BY <2>1
  <2>3. IsUndone(undoMap[r], NewId(r)) <=> IsUndone({}, NewId(r))
    BY <2>2, OtherEvents
  <2>4. UndoCount({}, NewId(r)) = 0
    BY DEF UndoCount
  <2>5. ~(0 % 2 = 1)
    OBVIOUS
  <2> QED  BY <2>3, <2>4, <2>5 DEF IsUndone
<1> QED  BY <1>2, <1>5, <1>6, <1>7 DEF UndoneIds

\* The names of a document whose replica gains an operation.
LEMMA EmitKeepsNames ==
    ASSUME IdInv, NEW r \in Actor, NEW op, EmitEffect(r, op), UNCHANGED frontier,
           undoMap'[r] \subseteq UndoEvent,
           Origins(entries[r]) \subseteq Origins(entries'[r]),
           Deletions(entries[r]) \subseteq Deletions(entries'[r]),
           \A id \in Origins(entries'[r]) \ Origins(entries[r]) : op.kind = "insert" /\ op.id = id,
           \A id \in Deletions(entries'[r]) \ Deletions(entries[r]) : op.kind = "remove" /\ op.id = id,
           \A u \in undoMap'[r] \ undoMap[r] : op.id = u.undo /\ Observed(version[r], u.edit),
           op.kind = "insert" => op.id \in Origins(entries'[r]),
           op.kind = "remove" => op.id \in Deletions(entries'[r])
    PROVE  NamesAreIntegrated(r)' /\ HeldOrCovered(r)'
<1>1. NamesAreIntegrated(r) /\ HeldOrCovered(r)
  BY DEF IdInv, ReplicaInv
<1>2. applied'[r] = applied[r] \cup {op}
  BY DEF EmitEffect
<1>3. \A u \in UndoEvent : u.edit \in Identity /\ u.edit.actor \in Actor /\ u.edit.counter \in Nat
  BY DEF UndoEvent, Identity
<1>4. \A u \in undoMap'[r] : Observed(version[r], u.edit)
  BY <1>1 DEF NamesAreIntegrated
<1>5. \A u \in undoMap'[r] : Observed(version'[r], u.edit)
  <2>1. ASSUME NEW u \in undoMap'[r] PROVE Observed(version'[r], u.edit)
    <3>1. u.edit.actor \in Actor /\ u.edit.counter \in Nat
      BY <1>3
    <3>2. /\ version[r][u.edit.actor] <= version'[r][u.edit.actor]
          /\ version'[r][u.edit.actor] \in Nat /\ version[r][u.edit.actor] \in Nat
      BY <3>1, EmitRaises, InvTypes
    <3>3. version[r][u.edit.actor] >= u.edit.counter
      BY <1>4 DEF Observed
    <3>4. version'[r][u.edit.actor] >= u.edit.counter
      BY <3>1, <3>2, <3>3
    <3> QED  BY <3>4 DEF Observed
  <2> QED  BY <2>1
<1>6. NamesAreIntegrated(r)'
  <2>1. \A id \in Origins(entries'[r]) : \E o \in applied'[r] : o.kind = "insert" /\ o.id = id
    BY <1>1, <1>2 DEF NamesAreIntegrated
  <2>2. \A id \in Deletions(entries'[r]) : \E o \in applied'[r] : o.kind = "remove" /\ o.id = id
    BY <1>1, <1>2 DEF NamesAreIntegrated
  <2>3. \A u \in undoMap'[r] : \E o \in applied'[r] : o.id = u.undo
    BY <1>1, <1>2 DEF NamesAreIntegrated
  <2> QED  BY <1>5, <2>1, <2>2, <2>3 DEF NamesAreIntegrated
<1>7. HeldOrCovered(r)'
  BY <1>1, <1>2 DEF HeldOrCovered
<1> QED  BY <1>6, <1>7

\* A new operation becomes a group of the history.
LEMMA RecordKeepsHistory ==
    ASSUME IdInv, NEW r \in Actor, NEW op, EmitEffect(r, op), UNCHANGED undoMap,
           Origins(entries[r]) \subseteq Origins(entries'[r]),
           Deletions(entries[r]) \subseteq Deletions(entries'[r]),
           NEW g \in Group, g.ops = {NewId(r)}, Members(g) \subseteq {NewId(r)},
           g.items \subseteq Origins(entries'[r]), g.dels \subseteq Deletions(entries'[r]),
           history'[r] = PushGroup(history[r], g)
    PROVE  HistoryInv(r)'
<1> DEFINE h == history[r]
           N == OwnIds(r)
           O == Origins(entries'[r])
           D == Deletions(entries'[r])
           U == UndoneIds(undoMap[r])
<1>1. HistoryOK(h, N, O, D)
  <2>1. HistoryOK(h, N, Origins(entries[r]), Deletions(entries[r]))
    BY DEF IdInv, ReplicaInv, HistoryInv
  <2> HIDE DEF h, N
  <2> QED  BY <2>1, HistoryGrows
<1>2. SidesOK(h, U)
  BY DEF IdInv, ReplicaInv, HistoryInv
<1>3. NewId(r) \notin N /\ NewId(r) \notin U /\ OwnIds(r)' = N \cup {NewId(r)}
  BY NewIdentity
<1> HIDE DEF h, N, O, D, U
<1>4. GroupOK(g, N \cup g.ops, O, D)
  BY DEF GroupOK, O, D
<1>5. g.ops \cap N = {} /\ Members(g) \cap U = {}
  BY <1>3
<1>6. HistoryOK(PushGroup(h, g), N \cup g.ops, O, D) /\ SidesOK(PushGroup(h, g), U)
  BY <1>1, <1>2, <1>4, <1>5, PushedIsOK
<1>7. HistoryOK(history'[r], OwnIds(r)', O, D) /\ SidesOK(history'[r], U)
  BY <1>3, <1>6 DEF h
<1>8. UndoneIds(undoMap'[r]) = U
  BY DEF U
<1> QED  BY <1>7, <1>8 DEF HistoryInv, O, D

\* A local step, once its operation and its document are known.
LEMMA EmitKeepsIdInv ==
    ASSUME IdInv, ListInv', NEW r \in Actor, NEW op, EmitEffect(r, op), Local,
           TargetIsSeen(op, sent),
           \A s \in Actor : s # r => entries'[s] = entries[s] /\ undoMap'[s] = undoMap[s],
           NEW h, history' = [history EXCEPT ![r] = h],
           ReplicaInv(r)'
    PROVE  IdInv'
<1>1. phase = "idle" /\ UNCHANGED <<deferred, quarantined, frontier, callVars>>
  BY DEF Local
<1>2. SharedInv'
  BY <1>1, EmitKeepsShared
<1>3. QueuesAreSent' /\ \A s \in Actor : QueueWaits(s)'
  BY <1>1, EmitKeepsQueues
<1>4. \A s \in Actor : s # r => ReplicaInv(s)'
  <2>1. \A s \in Actor : s # r => history'[s] = history[s]
    BY DEF IdInv
  <2> QED  BY <1>1, <2>1, EmitKeepsOthers
<1>5. history' \in [Actor -> History]
  <2>1. history'[r] = h /\ history'[r] \in History
    BY DEF IdInv, ReplicaInv, HistoryInv, HistoryOK, HistoryShape
  <2> QED  BY <2>1 DEF IdInv
<1> QED  BY <1>2, <1>3, <1>4, <1>5 DEF IdInv

\* insert_after_resolved, as ListReplica sees it.
LEMMA LocalInsertImplements ==
    ASSUME NEW r \in Actor, NEW left \in {NoId} \cup Origins(entries[r]), LocalInsert(r, left)
    PROVE  ListNext
<1>1. InsertAfter(r, left)
  BY DEF LocalInsert
<1> QED  BY <1>1 DEF ListNext

\* A local insertion finds its slot and joins the history.
LEMMA LocalInsertKeeps ==
    ASSUME IdInv, ListInv', NEW r \in Actor, NEW left \in {NoId} \cup Origins(entries[r]),
           LocalInsert(r, left)
    PROVE  IdInv'
<1> DEFINE id    == NewId(r)
           link  == MintLink(entries[r], left)
           entry == [origin |-> id, link |-> link, deletions |-> {}]
           op    == [kind |-> "insert", id |-> id, version |-> version[r], link |-> link]
           g     == [gid |-> id, ops |-> {id}, items |-> {id}, dels |-> {}]
<1>1. /\ Local /\ Emit(r, op) /\ UNCHANGED undoMap
      /\ entries' = [entries EXCEPT ![r] = Integrate(@, entry)]
      /\ history' = [history EXCEPT ![r] = PushGroup(@, g)]
  BY DEF LocalInsert, InsertAfter, Record
<1>2. entries[r] \in Seq(Entry) /\ LinksResolve(entries[r]) /\ id \in Identity
      /\ version[r] \in Global
  BY InvTypes DEF IdInv, ReplicaInv, NewId, Identity
<1>3. link \in Link
  BY <1>2, MintLinkType
<1>4. entry \in Entry /\ op \in Operation /\ g \in Group
  BY <1>2, <1>3 DEF Entry, Operation, InsertOp, Group
<1>5. entry.link = link /\ entry.origin = id /\ entry.deletions = {}
      /\ op.id = id /\ op.version = version[r] /\ op.kind = "insert" /\ op.link = link
      /\ g.ops = {id} /\ g.items = {id} /\ g.dels = {}
  OBVIOUS
<1> HIDE DEF entry, op, g
<1>6. Slot(entries[r], entry) # 0 /\ (link.side = "Left" => link.rightOrigin = link.parent)
  BY <1>2, <1>5, MintedIsPlaced DEF link
<1>7. /\ Origins(Integrate(entries[r], entry)) = Origins(entries[r]) \cup {id}
      /\ Deletions(Integrate(entries[r], entry)) = Deletions(entries[r])
      /\ LinksResolve(Integrate(entries[r], entry))
  <2>1. /\ Origins(Integrate(entries[r], entry)) = Origins(entries[r]) \cup {entry.origin}
        /\ Deletions(Integrate(entries[r], entry)) = Deletions(entries[r]) \cup entry.deletions
        /\ LinksResolve(Integrate(entries[r], entry))
    BY <1>2, <1>4, <1>5, <1>6, IntegratedSets
  <2> QED  BY <1>5, <2>1
<1> HIDE DEF link
<1>8. /\ entries'[r] = Integrate(entries[r], entry) /\ undoMap'[r] = undoMap[r]
      /\ history'[r] = PushGroup(history[r], g)
      /\ history' = [history EXCEPT ![r] = PushGroup(history[r], g)]
      /\ \A s \in Actor : s # r => entries'[s] = entries[s] /\ undoMap'[s] = undoMap[s]
  BY <1>1 DEF IdInv, ListInv, DocumentInv
<1>9. EmitEffect(r, op) /\ UNCHANGED frontier
  BY <1>1, <1>4, <1>5, EmitsEffect DEF Local
<1>10. TargetIsSeen(op, sent)
  BY <1>5, <1>6 DEF TargetIsSeen
<1>11. NamesAreIntegrated(r)' /\ HeldOrCovered(r)'
  <2>1. undoMap'[r] \subseteq UndoEvent
    BY DEF ListInv, DocumentInv
  <2> QED  BY <1>5, <1>7, <1>8, <1>9, <2>1, EmitKeepsNames
<1>12. HistoryInv(r)'
  <2>1. Members(g) \subseteq {id} /\ g.items \subseteq Origins(entries'[r])
        /\ g.dels \subseteq Deletions(entries'[r])
    BY <1>5, <1>7, <1>8 DEF Members
  <2> QED  BY <1>1, <1>4, <1>5, <1>7, <1>8, <1>9, <2>1, RecordKeepsHistory
<1>13. ReplicaInv(r)'
  BY <1>7, <1>8, <1>11, <1>12 DEF ReplicaInv
<1> QED  BY <1>1, <1>8, <1>9, <1>10, <1>13, EmitKeepsIdInv

\* A local removal records a deletion against an entry and joins the history.
LEMMA LocalRemoveKeeps ==
    ASSUME IdInv, ListInv', NEW r \in Actor, NEW target \in Origins(entries[r]),
           LocalRemove(r, target)
    PROVE  IdInv'
<1> DEFINE id == NewId(r)
           op == [kind |-> "remove", id |-> id, version |-> version[r], target |-> target]
           g  == [gid |-> id, ops |-> {id}, items |-> {}, dels |-> {id}]
<1>1. /\ Local /\ Emit(r, op) /\ UNCHANGED undoMap
      /\ entries' = [entries EXCEPT ![r] = Deleted(@, target, id)]
      /\ history' = [history EXCEPT ![r] = PushGroup(@, g)]
  BY DEF LocalRemove, RemoveEntry, Record
<1>2. entries[r] \in Seq(Entry) /\ LinksResolve(entries[r]) /\ id \in Identity
      /\ version[r] \in Global
  BY InvTypes DEF IdInv, ReplicaInv, NewId, Identity
<1>3. target \in Identity
  BY <1>2, EntryFields DEF Origins
<1>4. op \in Operation /\ g \in Group
  BY <1>2, <1>3 DEF Operation, RemoveOp, Group
<1>5. op.id = id /\ op.version = version[r] /\ op.kind = "remove" /\ op.target = target
      /\ g.ops = {id} /\ g.items = {} /\ g.dels = {id}
  OBVIOUS
<1> HIDE DEF op, g
<1>6. /\ Origins(Deleted(entries[r], target, id)) = Origins(entries[r])
      /\ Deletions(Deleted(entries[r], target, id)) = Deletions(entries[r]) \cup {id}
      /\ LinksResolve(Deleted(entries[r], target, id))
  BY <1>2, DeletedSets
<1>7. /\ entries'[r] = Deleted(entries[r], target, id) /\ undoMap'[r] = undoMap[r]
      /\ history'[r] = PushGroup(history[r], g)
      /\ history' = [history EXCEPT ![r] = PushGroup(history[r], g)]
      /\ \A s \in Actor : s # r => entries'[s] = entries[s] /\ undoMap'[s] = undoMap[s]
  BY <1>1 DEF IdInv, ListInv, DocumentInv
<1>8. EmitEffect(r, op) /\ UNCHANGED frontier
  BY <1>1, <1>4, <1>5, EmitsEffect DEF Local
<1>9. TargetIsSeen(op, sent)
  <2>1. PICK p \in applied[r] : p.kind = "insert" /\ p.id = target
    BY DEF IdInv, ReplicaInv, NamesAreIntegrated
  <2>2. p \in sent /\ Observed(version[r], target)
    BY <2>1, InvTypes, Honest
  <2> QED  BY <1>5, <2>1, <2>2 DEF TargetIsSeen
<1>10. NamesAreIntegrated(r)' /\ HeldOrCovered(r)'
  <2>1. undoMap'[r] \subseteq UndoEvent
    BY DEF ListInv, DocumentInv
  <2> QED  BY <1>5, <1>6, <1>7, <1>8, <2>1, EmitKeepsNames
<1>11. HistoryInv(r)'
  <2>1. Members(g) \subseteq {id} /\ g.items \subseteq Origins(entries'[r])
        /\ g.dels \subseteq Deletions(entries'[r])
    BY <1>5, <1>6, <1>7 DEF Members
  <2> QED  BY <1>1, <1>4, <1>5, <1>6, <1>7, <1>8, <2>1, RecordKeepsHistory
<1>12. ReplicaInv(r)'
  BY <1>6, <1>7, <1>10, <1>11 DEF ReplicaInv
<1> QED  BY <1>1, <1>7, <1>8, <1>9, <1>12, EmitKeepsIdInv

\* The members of a group are the replica's own edits, and it still holds them.
LEMMA MembersAreUndoable ==
    ASSUME IdInv, NEW r \in Actor, NEW i \in 1 .. Len(history[r].stack)
    PROVE  /\ Members(history[r].stack[i]) \subseteq Undoable(r)
           /\ Members(history[r].stack[i]) \subseteq OwnIds(r)
<1> DEFINE h == history[r]
           g == h.stack[i]
<1>1. HistoryOK(h, OwnIds(r), Origins(entries[r]), Deletions(entries[r]))
  BY DEF IdInv, ReplicaInv, HistoryInv
<1>2. i \in 1 .. Len(h.stack)
  OBVIOUS
<1> HIDE DEF h
<1>3. <<"stack", i>> \in Places(h) /\ GroupAt(h, <<"stack", i>>) = g
  BY <1>1, <1>2, PlaceParts DEF HistoryOK
<1>4. GroupOK(g, OwnIds(r), Origins(entries[r]), Deletions(entries[r]))
  BY <1>1, <1>3 DEF HistoryOK
<1>5. Members(g) \subseteq OwnIds(r)
      /\ Members(g) \subseteq Origins(entries[r]) \cup Deletions(entries[r])
  BY <1>4 DEF GroupOK, Members
<1>6. Held(entries[r]) = Origins(entries[r]) \cup Deletions(entries[r])
  BY ListSets
<1>7. \A id \in OwnIds(r) : id.actor = r
  BY DEF OwnIds
<1> QED  BY <1>5, <1>6, <1>7 DEF Undoable, h

\* What a replica holds of its own was integrated there.
LEMMA UndoableIsSent ==
    ASSUME IdInv, NEW r \in Actor, NEW id \in Undoable(r)
    PROVE  id.actor = r /\ Observed(version[r], id)
           /\ \E p \in sent : p.kind # "undo" /\ p.id = id
<1>1. id \in Origins(entries[r]) \cup Deletions(entries[r]) /\ id.actor = r
  BY ListSets DEF Undoable
<1>2. PICK p \in applied[r] : p.kind # "undo" /\ p.id = id
  <2>1. NamesAreIntegrated(r)
    BY DEF IdInv, ReplicaInv
  <2>2. CASE id \in Origins(entries[r])
    BY <2>1, <2>2 DEF NamesAreIntegrated
  <2>3. CASE id \in Deletions(entries[r])
    BY <2>1, <2>3 DEF NamesAreIntegrated
  <2> QED  BY <1>1, <2>2, <2>3
<1>3. p \in sent /\ Observed(version[r], p.id)
  BY <1>2, InvTypes, Honest
<1> QED  BY <1>1, <1>2, <1>3

\* An undo or redo toggles the members of the group that passes the cursor.
LEMMA PassingKeeps ==
    ASSUME IdInv, ListInv', NEW r \in Actor, NEW i \in 1 .. Len(history[r].stack), Local,
           Toggle(r, Members(history[r].stack[i])),
           NEW k, history' = [history EXCEPT ![r] = k],
           NEW x \in Places(k), Rearranges(k, history[r], {x}),
           GroupAt(k, x) = history[r].stack[i]
    PROVE  IdInv'
<1> DEFINE id     == NewId(r)
           ids    == Members(history[r].stack[i])
           counts == {[target |-> t, count |-> NextCount(undoMap[r], t)] : t \in ids}
           op     == [kind |-> "undo", id |-> id, version |-> version[r], counts |-> counts]
           map    == undoMap[r] \cup ToggleEvents(undoMap[r], ids, id)
<1>1. Emit(r, op) /\ UNCHANGED entries
  BY DEF Toggle
<1>2. undoMap' = [undoMap EXCEPT ![r] = map]
  BY DEF Toggle, ToggleEvents
<1>3. /\ undoMap'[r] = map /\ history'[r] = k
      /\ \A s \in Actor : s # r => entries'[s] = entries[s] /\ undoMap'[s] = undoMap[s]
  BY <1>1, <1>2 DEF IdInv, ListInv, DocumentInv
<1>4. ids \subseteq Undoable(r) /\ ids \subseteq OwnIds(r)
  BY MembersAreUndoable
<1>5. op \in Operation /\ op.id = id /\ op.version = version[r] /\ op.kind = "undo"
      /\ op.counts = counts
  <2>1. ids \subseteq Identity
    BY <1>4 DEF OwnIds
  <2>2. \A t \in ids : NextCount(undoMap[r], t) \in Nat \ {0}
    <3>1. \A t : UndoCount(undoMap[r], t) \in Nat
      BY UndoCountType DEF IdInv
    <3>2. \A n \in Nat : n + 1 \in Nat \ {0}
      OBVIOUS
    <3> QED  BY <3>1, <3>2 DEF NextCount
  <2> HIDE DEF ids
  <2>3. counts \subseteq [target : Identity, count : Nat \ {0}]
    BY <2>1, <2>2
  <2>4. id \in Identity /\ version[r] \in Global
    BY InvTypes DEF NewId, Identity
  <2> HIDE DEF counts, id
  <2> QED  BY <2>3, <2>4 DEF Operation, UndoOp
<1>6. \A c \in counts : c.target \in ids
  OBVIOUS
<1> HIDE DEF op, counts, map, ids
<1>7. EmitEffect(r, op) /\ UNCHANGED frontier
  BY <1>1, <1>5, EmitsEffect DEF Local
<1>8. TargetIsSeen(op, sent)
  <2>1. ASSUME NEW c \in counts
        PROVE  /\ c.target.actor = op.id.actor /\ Observed(op.version, c.target)
               /\ \E p \in sent : p.kind # "undo" /\ p.id = c.target
    <3>1. c.target \in Undoable(r)
      BY <1>4, <1>6
    <3>2. op.id.actor = r /\ op.version = version[r]
      BY <1>5 DEF NewId
    <3> QED  BY <3>1, <3>2, UndoableIsSent
  <2> QED  BY <1>5, <2>1 DEF TargetIsSeen
<1>9. \A u \in undoMap'[r] \ undoMap[r] : op.id = u.undo /\ Observed(version[r], u.edit)
  <2>1. ASSUME NEW u \in ToggleEvents(undoMap[r], ids, id)
        PROVE  op.id = u.undo /\ Observed(version[r], u.edit)
    <3>1. u.edit \in ids /\ u.undo = id
      BY ToggleEventParts
    <3> QED  BY <1>4, <1>5, <3>1, UndoableIsSent
  <2> QED  BY <1>3, <2>1 DEF map
<1>10. NamesAreIntegrated(r)' /\ HeldOrCovered(r)'
  <2>1. undoMap'[r] \subseteq UndoEvent
    BY DEF ListInv, DocumentInv
  <2> QED  BY <1>1, <1>5, <1>7, <1>9, <2>1, EmitKeepsNames
<1>11. HistoryInv(r)'
  <2> DEFINE h == history[r]
             N == OwnIds(r)
             O == Origins(entries[r])
             D == Deletions(entries[r])
             U == UndoneIds(undoMap[r])
             V == UndoneIds(map)
  <2>1. HistoryOK(h, N, O, D) /\ SidesOK(h, U) /\ Rearranges(k, h, {x})
    BY DEF IdInv, ReplicaInv, HistoryInv
  <2>2. OwnIds(r)' = N \cup {id}
    BY <1>7, NewIdentity
  <2>3. Members(GroupAt(k, x)) = ids /\ ids \subseteq Identity /\ N \subseteq Identity
    BY <1>4 DEF ids, OwnIds
  <2>4. CountsBelow(undoMap[r], next[r])
    BY DEF IdInv, ListInv, CausalInv, DocumentInv, UndoCountsAreBounded, UndoEvent,
           Identity, CountsBelow
  <2>5. /\ \A t \in ids : IsUndone(map, t) <=> ~IsUndone(undoMap[r], t)
        /\ \A t : t \notin ids => (IsUndone(map, t) <=> IsUndone(undoMap[r], t))
    BY <2>4, ToggledSides DEF map
  <2>6. /\ \A t \in ids : t \in V <=> t \notin U
        /\ \A t \in N \ ids : t \in V <=> t \in U
    BY <2>3, <2>5 DEF UndoneIds
  <2> HIDE DEF h, N, O, D, U, V
  <2>7. HistoryOK(k, N, O, D)
    BY <2>1, RearrangedIsOK
  <2>8. HistoryOK(k, N \cup {id}, O, D)
    BY <2>7, HistoryGrows
  <2>9. SidesOK(k, V)
    BY <2>1, <2>3, <2>6, PassingKeepsSides
  <2>10. HistoryOK(history'[r], OwnIds(r)', O, D) /\ SidesOK(history'[r], V)
    BY <1>3, <2>2, <2>8, <2>9
  <2>11. UndoneIds(undoMap'[r]) = V /\ O = Origins(entries'[r]) /\ D = Deletions(entries'[r])
    BY <1>1, <1>3 DEF O, D, V
  <2> QED  BY <2>10, <2>11 DEF HistoryInv
<1>12. ReplicaInv(r)'
  BY <1>1, <1>10, <1>11 DEF ReplicaInv, IdInv
<1> QED  BY <1>3, <1>7, <1>8, <1>12, EmitKeepsIdInv

\* Undoing a group toggles edits the replica still holds.
LEMMA UndoGroupToggles ==
    ASSUME IdInv, NEW r \in Actor, NEW i \in DOMAIN history[r].stack,
           UndoGroup(r, i) \/ RedoGroup(r, i)
    PROVE  /\ i \in 1 .. Len(history[r].stack) /\ Toggle(r, Members(history[r].stack[i]))
           /\ Members(history[r].stack[i]) \in SUBSET Undoable(r)
<1>1. history[r].stack \in Seq(Group)
  BY DEF IdInv, History
<1>2. i \in 1 .. Len(history[r].stack)
  BY <1>1
<1>3. Toggle(r, Members(history[r].stack[i]))
  BY DEF UndoGroup, RedoGroup, Members
<1> QED  BY <1>2, <1>3, MembersAreUndoable

\* try_undo_group
LEMMA UndoGroupKeeps ==
    ASSUME IdInv, ListInv', NEW r \in Actor, NEW i \in DOMAIN history[r].stack, UndoGroup(r, i)
    PROVE  IdInv'
<1> DEFINE h == history[r]
<1>1. i \in 1 .. Len(h.stack) /\ Toggle(r, Members(h.stack[i]))
  BY UndoGroupToggles
<1>2. Local /\ i \in 1 .. h.cursor /\ history' = [history EXCEPT ![r] = UndoneAt(h, i)]
  BY DEF UndoGroup
<1>3. HistoryShape(h)
  BY DEF IdInv, ReplicaInv, HistoryInv, HistoryOK
<1> HIDE DEF h
<1>4. /\ Rearranges(UndoneAt(h, i), h, {<<"stack", h.cursor>>})
      /\ <<"stack", h.cursor>> \in Places(UndoneAt(h, i))
      /\ GroupAt(UndoneAt(h, i), <<"stack", h.cursor>>) = h.stack[i]
  BY <1>2, <1>3, UndoneRearranges
<1> QED  BY <1>1, <1>2, <1>4, PassingKeeps DEF h

\* try_redo_group
LEMMA RedoGroupKeeps ==
    ASSUME IdInv, ListInv', NEW r \in Actor, NEW i \in DOMAIN history[r].stack, RedoGroup(r, i)
    PROVE  IdInv'
<1> DEFINE h == history[r]
<1>1. i \in 1 .. Len(h.stack) /\ Toggle(r, Members(h.stack[i]))
  BY UndoGroupToggles
<1>2. Local /\ i \in h.cursor + 1 .. Len(h.stack)
      /\ history' = [history EXCEPT ![r] = RedoneAt(h, i)]
  BY DEF RedoGroup
<1>3. HistoryShape(h)
  BY DEF IdInv, ReplicaInv, HistoryInv, HistoryOK
<1> HIDE DEF h
<1>4. /\ Rearranges(RedoneAt(h, i), h, {<<"stack", h.cursor + 1>>})
      /\ <<"stack", h.cursor + 1>> \in Places(RedoneAt(h, i))
      /\ GroupAt(RedoneAt(h, i), <<"stack", h.cursor + 1>>) = h.stack[i]
  BY <1>2, <1>3, RedoneRearranges
<1> QED  BY <1>1, <1>2, <1>4, PassingKeeps DEF h

\* Only one replica's history changes.
LEMMA HistoryStepKeeps ==
    ASSUME IdInv, NEW r \in Actor, UNCHANGED <<listVars, deferred, quarantined, frontier, callVars>>,
           NEW h, history' = [history EXCEPT ![r] = h],
           HistoryOK(h, OwnIds(r), Origins(entries[r]), Deletions(entries[r])),
           SidesOK(h, UndoneIds(undoMap[r]))
    PROVE  IdInv'
<1>1. UNCHANGED <<entries, version, next, undoMap, sent, applied, deferred, quarantined,
                  frontier, phase, busy, todo, progress>>
  BY DEF listVars, callVars
<1>2. history'[r] = h /\ history' \in [Actor -> History]
      /\ \A s \in Actor : s # r => history'[s] = history[s]
  BY DEF IdInv, HistoryOK, HistoryShape
<1>3. ListInv'
  BY NextKeepsInv DEF IdInv
<1>4. SharedInv'
  BY <1>1 DEF IdInv, SharedInv, FrontierIsCommon, AuthorsKnowTheirs, TargetsAreSeen, TargetIsSeen
<1>5. QueuesAreSent' /\ \A s \in Actor : QueueWaits(s)'
  BY <1>1 DEF IdInv, QueuesAreSent, QueueWaits
<1>6. \A s \in Actor : s # r => ReplicaInv(s)'
  BY <1>1, <1>2, ReplicaKept DEF IdInv
<1>7. ReplicaInv(r)'
  <2>1. OwnIds(r)' = OwnIds(r)
    BY <1>1 DEF OwnIds
  <2>2. HistoryInv(r)'
    BY <1>1, <1>2, <2>1 DEF HistoryInv
  <2>3. NamesAreIntegrated(r)' /\ HeldOrCovered(r)' /\ LinksResolve(entries[r])'
    BY <1>1 DEF IdInv, ReplicaInv, NamesAreIntegrated, HeldOrCovered
  <2> QED  BY <2>2, <2>3 DEF ReplicaInv
<1> QED  BY <1>2, <1>3, <1>4, <1>5, <1>6, <1>7 DEF IdInv

\* coalesce_last_undo, acknowledge_undo_retirements and set_max_undo_depth change
\* a history without losing or repeating a group.
LEMMA PrivateStepKeeps ==
    ASSUME IdInv, NEW r \in Actor,
           \/ CoalesceLastUndo(r)
           \/ \E gid : AcknowledgeRetirement(r, gid)
           \/ \E depth \in Depths : SetMaxUndoDepth(r, depth)
    PROVE  IdInv'
<1> DEFINE h == history[r]
           N == OwnIds(r)
           O == Origins(entries[r])
           D == Deletions(entries[r])
           U == UndoneIds(undoMap[r])
<1>1. HistoryOK(h, N, O, D) /\ SidesOK(h, U)
  BY DEF IdInv, ReplicaInv, HistoryInv
<1>2. HistoryShape(h)
  BY <1>1 DEF HistoryOK
<1>3. UNCHANGED <<listVars, deferred, quarantined, frontier, callVars>>
  BY DEF CoalesceLastUndo, AcknowledgeRetirement, SetMaxUndoDepth, Local
<1>4. ASSUME NEW k, HistoryOK(k, N, O, D), SidesOK(k, U), history' = [history EXCEPT ![r] = k]
      PROVE  IdInv'
  BY <1>3, <1>4, HistoryStepKeeps
<1>5. CASE CoalesceLastUndo(r)
  <2>1. h.cursor >= 2 /\ history' = [history EXCEPT ![r] = Coalesced(h)]
    BY <1>5 DEF CoalesceLastUndo
  <2> HIDE DEF h, N, O, D, U
  <2> QED  BY <1>1, <1>4, <2>1, CoalescedIsOK
<1>6. ASSUME NEW gid, AcknowledgeRetirement(r, gid)
      PROVE  IdInv'
  <2>1. history' = [history EXCEPT ![r] = Acknowledged(h, gid)]
    BY <1>6 DEF AcknowledgeRetirement
  <2> HIDE DEF h, N, O, D, U
  <2>2. Rearranges(Acknowledged(h, gid), h, {})
    BY <1>2, AcknowledgedRearranges
  <2>3. HistoryOK(Acknowledged(h, gid), N, O, D) /\ SidesOK(Acknowledged(h, gid), U)
    BY <1>1, <2>2, RearrangedIsOK, RearrangedKeepsSides
  <2> QED  BY <1>4, <2>1, <2>3
<1>7. ASSUME NEW depth \in Depths, SetMaxUndoDepth(r, depth)
      PROVE  IdInv'
  <2>1. history' = [history EXCEPT ![r] = Trim([h EXCEPT !.depth = depth])] /\ depth \in Nat
    BY <1>7, IdListAssumption DEF SetMaxUndoDepth
  <2> HIDE DEF h, N, O, D, U
  <2> QED  BY <1>1, <1>4, <2>1, DepthIsOK
<1> QED  BY <1>5, <1>6, <1>7

-----------------------------------------------------------------------------
(* Steps that only move operations between queues *)

\* The documents and what the replicas share do not change.
LEMMA QueueStepKeeps ==
    ASSUME IdInv, UNCHANGED <<listVars, history, frontier>>,
           QueuesAreSent', \A s \in Actor : QueueWaits(s)'
    PROVE  IdInv'
<1>1. UNCHANGED <<entries, version, next, undoMap, sent, applied, history, frontier>>
  BY DEF listVars
<1>2. ListInv'
  BY NextKeepsInv DEF IdInv
<1>3. SharedInv'
  BY <1>1 DEF IdInv, SharedInv, FrontierIsCommon, AuthorsKnowTheirs, TargetsAreSeen, TargetIsSeen
<1>4. \A s \in Actor : ReplicaInv(s)'
  BY <1>1, ReplicaKept DEF IdInv
<1> QED  BY <1>1, <1>2, <1>3, <1>4 DEF IdInv

\* What apply_one leaves for later misses a dependency.
LEMMA WaitingWaits ==
    ASSUME IdInv, NEW r \in Actor, NEW op \in sent,
           ~Observed(version[r], op.id), Verdict(r, op) = "wait"
    PROVE  Waits(version[r], op)
<1>1. SUFFICES ASSUME ObservedAll(version[r], op.version) PROVE FALSE
  BY DEF Waits
<1>2. op.kind \in {"insert", "remove", "undo"} /\ \A a \in Actor : op.version[a] \in Nat
  BY InvTypes
<1>3. op.kind = "remove" /\ op.target \notin Origins(entries[r])
      /\ ~Covered(frontier[r], op.target)
  BY <1>1, <1>2 DEF Verdict
<1>4. Observed(op.version, op.target) /\ \E p \in sent : p.kind = "insert" /\ p.id = op.target
  BY <1>3 DEF IdInv, SharedInv, TargetsAreSeen, TargetIsSeen
<1>5. PICK p \in sent : p.kind = "insert" /\ p.id = op.target
  BY <1>4
<1>6. Observed(version[r], p.id)
  <2>1. p.id.actor \in Actor /\ p.id.counter \in Nat
    BY InvTypes
  <2>2. op.version[p.id.actor] >= p.id.counter /\ version[r][p.id.actor] >= op.version[p.id.actor]
        /\ version[r][p.id.actor] \in Nat
    BY <1>1, <1>4, <1>5, <2>1, InvTypes DEF Observed, ObservedAll
  <2> QED  BY <1>2, <2>1, <2>2 DEF Observed
<1>7. p \in applied[r]
  BY <1>6, Honest
<1> QED  BY <1>3, <1>5, <1>7 DEF IdInv, ReplicaInv, HeldOrCovered

\* The replicas whose apply_ops does not run have nothing ready.
LEMMA OthersWait ==
    ASSUME IdInv, NEW r \in Actor, NEW s \in Actor, s # r, phase = "idle" \/ busy = r
    PROVE  \A i \in DOMAIN deferred[s] : Waits(version[s], deferred[s][i])
  BY DEF IdInv, QueueWaits

\* One more operation at the end of a queue.
LEMMA AppendSent ==
    ASSUME NEW S, NEW q \in [Actor -> Seq(S)], NEW r \in Actor, NEW op \in S
    PROVE  [q EXCEPT ![r] = Append(@, op)] \in [Actor -> Seq(S)]
<1>1. Append(q[r], op) \in Seq(S)
  OBVIOUS
<1> QED  BY <1>1

\* Quarantine keeps what it holds, or one more operation.
LEMMA QuarantineSent ==
    ASSUME IdInv, NEW r \in Actor, NEW op \in sent, Quarantine(r, op)
    PROVE  quarantined' \in [Actor -> Seq(sent)]
<1>1. quarantined \in [Actor -> Seq(sent)]
  BY DEF IdInv, QueuesAreSent
<1>2. quarantined[r] \in Seq(sent) /\ Append(quarantined[r], op) \in Seq(sent)
  BY <1>1
<1> QED  BY <1>1, <1>2 DEF Quarantine

\* apply_one that integrates nothing: a duplicate, a deferral, a refusal.
LEMMA DeliverKeeps ==
    ASSUME IdInv, NEW r \in Actor, NEW op \in sent,
           DeliverDuplicate(r, op) \/ DeliverDeferred(r, op) \/ DeliverRejected(r, op)
    PROVE  IdInv'
<1>1. Offered(r, op) /\ UNCHANGED listVars
  BY DEF DeliverDuplicate, DeliverDeferred, DeliverRejected
<1>2. /\ phase = "idle" \/ busy = r
      /\ phase' = "batch" /\ busy' = r /\ UNCHANGED <<history, frontier, todo, progress>>
      /\ UNCHANGED <<version, sent>>
  BY <1>1 DEF Offered, listVars
<1>3. UNCHANGED <<deferred, quarantined>> \/ DeferOrQuarantine(r, op)
  BY DEF DeliverDuplicate, DeliverDeferred, DeliverRejected
<1>4. deferred \in [Actor -> Seq(sent)] /\ quarantined \in [Actor -> Seq(sent)]
  BY DEF IdInv, QueuesAreSent
<1>5. /\ deferred' \in [Actor -> Seq(sent)] /\ quarantined' \in [Actor -> Seq(sent)]
      /\ \A s \in Actor : s # r => deferred'[s] = deferred[s]
  <2>1. CASE UNCHANGED <<deferred, quarantined>>
    BY <1>4, <2>1
  <2>2. CASE deferred' = [deferred EXCEPT ![r] = Append(@, op)] /\ UNCHANGED quarantined
    <3>1. deferred' \in [Actor -> Seq(sent)]
      BY <1>4, <2>2, AppendSent
    <3> QED  BY <1>4, <2>2, <3>1
  <2>3. CASE Quarantine(r, op) /\ UNCHANGED deferred
    BY <1>4, <2>3, QuarantineSent
  <2> QED  BY <1>3, <2>1, <2>2, <2>3 DEF DeferOrQuarantine
<1>6. QueuesAreSent'
  BY <1>2, <1>5 DEF IdInv, QueuesAreSent
<1>7. ASSUME NEW s \in Actor PROVE QueueWaits(s)'
  <2>1. CASE s = r
    BY <1>2, <2>1 DEF QueueWaits
  <2>2. CASE s # r
    <3>1. \A i \in DOMAIN deferred[s] : Waits(version[s], deferred[s][i])
      BY <1>2, <2>2, OthersWait
    <3> QED  BY <1>2, <1>5, <2>2, <3>1 DEF QueueWaits
  <2> QED  BY <2>1, <2>2
<1> QED  BY <1>1, <1>2, <1>6, <1>7, QueueStepKeeps

\* A pass moves the queue aside.
LEMMA StartPassKeeps ==
    ASSUME IdInv, StartPass
    PROVE  IdInv'
<1>1. /\ phase # "idle"
      /\ phase' = "retry" /\ progress' = FALSE /\ todo' = deferred[busy]
      /\ deferred' = [deferred EXCEPT ![busy] = <<>>]
      /\ UNCHANGED <<listVars, history, quarantined, frontier, busy>>
      /\ UNCHANGED <<version, sent>>
  BY DEF StartPass, listVars
<1>2. busy \in Actor /\ deferred \in [Actor -> Seq(sent)]
  BY <1>1 DEF IdInv, QueuesAreSent
<1>3. /\ deferred' \in [Actor -> Seq(sent)] /\ todo' \in Seq(sent)
      /\ deferred'[busy] = <<>> /\ \A s \in Actor : s # busy => deferred'[s] = deferred[s]
  BY <1>1, <1>2
<1>4. QueuesAreSent'
  BY <1>1, <1>2, <1>3 DEF IdInv, QueuesAreSent
<1>5. ASSUME NEW s \in Actor PROVE QueueWaits(s)'
  <2>1. CASE s = busy
    <3>1. DOMAIN deferred'[s] = {}
      BY <1>3, <2>1
    <3> QED  BY <3>1 DEF QueueWaits
  <2>2. CASE s # busy
    <3>1. \A i \in DOMAIN deferred[s] : Waits(version[s], deferred[s][i])
      BY <1>2, <2>2, OthersWait
    <3> QED  BY <1>1, <1>3, <2>2, <3>1 DEF QueueWaits
  <2> QED  BY <2>1, <2>2
<1> QED  BY <1>1, <1>4, <1>5, QueueStepKeeps

\* A pass without progress leaves only what waits.
LEMMA EndRetryKeeps ==
    ASSUME IdInv, EndRetry
    PROVE  IdInv'
<1>1. /\ phase = "retry" /\ ~progress /\ phase' = "idle"
      /\ UNCHANGED <<listVars, history, deferred, quarantined, frontier, todo, progress>>
      /\ UNCHANGED <<version, sent>>
  BY DEF EndRetry, listVars
<1>2. QueuesAreSent'
  BY <1>1 DEF IdInv, QueuesAreSent
<1>3. \A s \in Actor : QueueWaits(s)'
  BY <1>1 DEF IdInv, QueueWaits
<1> QED  BY <1>1, <1>2, <1>3, QueueStepKeeps

\* The entry a pass looks at.
LEMMA ExaminedIsSent ==
    ASSUME IdInv, Examined
    PROVE  /\ busy \in Actor /\ Head(todo) \in sent /\ Tail(todo) \in Seq(sent)
           /\ phase = "retry" /\ phase' = "retry" /\ busy' = busy /\ todo' = Tail(todo)
           /\ UNCHANGED <<history, frontier>>
<1>1. phase = "retry" /\ todo # <<>> /\ todo' = Tail(todo) /\ UNCHANGED <<history, frontier, phase, busy>>
  BY DEF Examined
<1>2. busy \in Actor /\ todo \in Seq(sent)
  BY <1>1 DEF IdInv, QueuesAreSent
<1>3. Head(todo) \in sent /\ Tail(todo) \in Seq(sent)
  BY <1>1, <1>2
<1> QED  BY <1>1, <1>2, <1>3

\* An entry that integrates nothing: applied meanwhile, refused, or still owed.
LEMMA RetryKeeps ==
    ASSUME IdInv, RetryObserved \/ RetryRejected \/ RetryWaits
    PROVE  IdInv'
<1>1. Examined /\ UNCHANGED listVars
  BY DEF RetryObserved, RetryRejected, RetryWaits
<1>2. /\ busy \in Actor /\ Head(todo) \in sent /\ Tail(todo) \in Seq(sent)
      /\ phase = "retry" /\ phase' = "retry" /\ busy' = busy /\ todo' = Tail(todo)
      /\ UNCHANGED <<history, frontier>> /\ UNCHANGED <<version, sent>>
  BY <1>1, ExaminedIsSent DEF listVars
<1>3. deferred \in [Actor -> Seq(sent)] /\ quarantined \in [Actor -> Seq(sent)]
      /\ progress \in BOOLEAN
  BY DEF IdInv, QueuesAreSent
<1>4. \A s \in Actor : s # busy =>
          \A i \in DOMAIN deferred[s] : Waits(version[s], deferred[s][i])
  BY <1>2, OthersWait
<1>5. CASE RetryObserved \/ RetryRejected
  <2>1. progress' = TRUE /\ UNCHANGED deferred
    BY <1>5 DEF RetryObserved, RetryRejected
  <2>2. quarantined' \in [Actor -> Seq(sent)]
    BY <1>2, <1>3, <1>5, QuarantineSent DEF RetryObserved, RetryRejected
  <2>3. QueuesAreSent'
    BY <1>2, <1>3, <2>1, <2>2 DEF QueuesAreSent
  <2>4. \A s \in Actor : QueueWaits(s)'
    BY <1>2, <1>4, <2>1 DEF QueueWaits
  <2> QED  BY <1>1, <1>2, <2>3, <2>4, QueueStepKeeps
<1>6. CASE RetryWaits
  <2> DEFINE op == Head(todo)
  <2>1. /\ ~Observed(version[busy], op.id) /\ Verdict(busy, op) = "wait"
        /\ deferred' = [deferred EXCEPT ![busy] = Append(@, op)]
        /\ UNCHANGED <<quarantined, progress>>
    BY <1>6 DEF RetryWaits
  <2>2. op \in sent
    BY <1>2
  <2> HIDE DEF op
  <2>3. Waits(version[busy], op)
    BY <1>2, <2>1, <2>2, WaitingWaits
  <2>4. /\ deferred' \in [Actor -> Seq(sent)] /\ deferred'[busy] = Append(deferred[busy], op)
        /\ \A s \in Actor : s # busy => deferred'[s] = deferred[s]
    BY <1>2, <1>3, <2>1, <2>2, AppendSent
  <2>5. QueuesAreSent'
    BY <1>2, <1>3, <2>1, <2>4 DEF QueuesAreSent
  <2>6. QueueWaits(busy)'
    <3>1. CASE progress
      BY <1>2, <2>1, <3>1 DEF QueueWaits
    <3>2. CASE ~progress
      <4>1. \A i \in DOMAIN deferred[busy] : Waits(version[busy], deferred[busy][i])
        BY <1>2, <3>2 DEF IdInv, QueueWaits
      <4>2. deferred[busy] \in Seq(sent)
        BY <1>2, <1>3
      <4>3. \A i \in DOMAIN Append(deferred[busy], op) :
               Append(deferred[busy], op)[i] = op
               \/ (i \in DOMAIN deferred[busy]
                   /\ Append(deferred[busy], op)[i] = deferred[busy][i])
        BY <2>2, <4>2
      <4>4. \A i \in DOMAIN deferred'[busy] : Waits(version[busy], deferred'[busy][i])
        BY <2>3, <2>4, <4>1, <4>3
      <4> QED  BY <1>2, <4>4 DEF QueueWaits
    <3> QED  BY <3>1, <3>2
  <2>7. \A s \in Actor : QueueWaits(s)'
    BY <1>2, <1>4, <2>4, <2>6 DEF QueueWaits
  <2> QED  BY <1>1, <1>2, <2>5, <2>7, QueueStepKeeps
<1> QED  BY <1>5, <1>6

-----------------------------------------------------------------------------
(* Operations of other replicas *)

\* An operation whose verdict is "apply" finds what it refers to: its
\* dependencies were integrated, and what was is in the list or below the
\* frontier, where the verdict is "reject" (try_apply, apply_concrete).
LEMMA VerdictIsReceive ==
    ASSUME IdInv, NEW r \in Actor, NEW op \in sent, ~Observed(version[r], op.id),
           Verdict(r, op) = "apply", ApplyConcrete(r, op)
    PROVE  Receive(r, op)
<1>1. ObservedAll(version[r], op.version)
  BY DEF Verdict
<1>2. op.kind \in {"insert", "remove", "undo"} /\ \A a \in Actor : op.version[a] \in Nat
  BY InvTypes
<1>3. Applicable(r, op)
  <2>1. CASE op.kind = "insert"
    BY <1>1, <2>1 DEF Verdict, Applicable
  <2>2. CASE op.kind = "remove"
    BY <1>1, <2>2 DEF Verdict, Applicable
  <2>3. CASE op.kind = "undo"
    <3>1. \A c \in op.counts : ~Covered(frontier[r], c.target)
      BY <1>1, <2>3 DEF Verdict
    <3>2. ASSUME NEW c \in op.counts PROVE c.target \in Held(entries[r])
      <4>1. Observed(op.version, c.target)
            /\ \E p \in sent : p.kind # "undo" /\ p.id = c.target
        BY <2>3 DEF IdInv, SharedInv, TargetsAreSeen, TargetIsSeen
      <4>2. PICK p \in sent : p.kind # "undo" /\ p.id = c.target
        BY <4>1
      <4>3. p.id.actor \in Actor /\ p.id.counter \in Nat /\ p.kind \in {"insert", "remove", "undo"}
        BY InvTypes
      <4>4. op.version[p.id.actor] >= p.id.counter
            /\ version[r][p.id.actor] >= op.version[p.id.actor]
            /\ version[r][p.id.actor] \in Nat
        BY <1>1, <4>1, <4>2, <4>3, InvTypes DEF Observed, ObservedAll
      <4>5. Observed(version[r], p.id)
        BY <1>2, <4>3, <4>4 DEF Observed
      <4>6. p \in applied[r] /\ ~Covered(frontier[r], p.id)
        BY <3>1, <4>2, <4>5, Honest
      <4>7. p.id \in Origins(entries[r]) \cup Deletions(entries[r])
        BY <4>2, <4>3, <4>6 DEF IdInv, ReplicaInv, HeldOrCovered
      <4> QED  BY <4>2, <4>7, ListSets
    <3> QED  BY <2>3, <3>2 DEF Applicable
  <2> QED  BY <1>2, <2>1, <2>2, <2>3
<1> QED  BY <1>1, <1>3 DEF Receive

\* The values apply_concrete leaves.
ApplyEffect(r, op) ==
    /\ version'[r][op.id.actor] = op.id.counter
    /\ \A a \in Actor : a # op.id.actor => version'[r][a] = version[r][a]
    /\ \A s \in Actor : s # r => version'[s] = version[s]
    /\ next'[r] >= next[r] /\ next'[r] \in Nat /\ \A s \in Actor : s # r => next'[s] = next[s]
    /\ sent' = sent
    /\ applied'[r] = applied[r] \cup {op} /\ \A s \in Actor : s # r => applied'[s] = applied[s]

\* apply_concrete observes the operation, and no more: its version is covered already.
LEMMA AppliesEffect ==
    ASSUME IdInv, NEW r \in Actor, NEW op \in sent, Receive(r, op)
    PROVE  ApplyEffect(r, op)
<1> DEFINE author == op.id.actor
<1>1. /\ op.id \in Identity /\ author \in Actor /\ op.id.counter \in Nat \ {0}
      /\ op.version \in Global /\ \A a \in Actor : op.version[a] \in Nat
  BY InvTypes
<1>2. version[r] \in Global /\ version \in [Actor -> Global]
      /\ version[r][author] < op.id.counter /\ ObservedAll(version[r], op.version)
  BY <1>1 DEF IdInv, ListInv, CausalInv, Receive, Observed, Global
<1>3. Observe(version[r], op.id) = [version[r] EXCEPT ![author] = op.id.counter]
  BY <1>1, <1>2 DEF Observe, Global
<1>4. Join(Observe(version[r], op.id), op.version) = [version[r] EXCEPT ![author] = op.id.counter]
  <2>1. \A a \in Actor : op.version[a] <= version[r][a]
    BY <1>1, <1>2 DEF ObservedAll, Global
  <2>2. \A a \in Actor : [version[r] EXCEPT ![author] = op.id.counter][a] >= op.version[a]
    BY <1>1, <1>2, <2>1 DEF Global
  <2>3. Join([version[r] EXCEPT ![author] = op.id.counter], op.version)
          = [version[r] EXCEPT ![author] = op.id.counter]
    BY <1>2, <2>2 DEF Join, Global
  <2> QED  BY <1>3, <2>3
<1>5. version' = [version EXCEPT ![r] = Join(Observe(@, op.id), op.version)]
  BY DEF Receive, ApplyConcrete
<1>6. version'[r] = [version[r] EXCEPT ![author] = op.id.counter]
      /\ \A s \in Actor : s # r => version'[s] = version[s]
  BY <1>2, <1>4, <1>5
<1>7. /\ version'[r][author] = op.id.counter
      /\ \A a \in Actor : a # author => version'[r][a] = version[r][a]
  BY <1>1, <1>2, <1>6 DEF Global
<1>8. /\ next'[r] >= next[r] /\ next'[r] \in Nat
      /\ \A s \in Actor : s # r => next'[s] = next[s]
  BY <1>1 DEF Receive, ApplyConcrete, ObserveRemote, IdInv, ListInv, CausalInv
<1>9. /\ sent' = sent /\ applied'[r] = applied[r] \cup {op}
      /\ \A s \in Actor : s # r => applied'[s] = applied[s]
  BY DEF Receive, ApplyConcrete, IdInv, ListInv, CausalInv
<1> QED  BY <1>6, <1>7, <1>8, <1>9 DEF ApplyEffect

\* Versions only grow, and the author is somebody else who knows the operation.
LEMMA ApplyRaises ==
    ASSUME IdInv, NEW r \in Actor, NEW op \in sent, Receive(r, op)
    PROVE  /\ \A s, a \in Actor : version'[s][a] \in Nat /\ version[s][a] <= version'[s][a]
           /\ op.id.actor # r /\ op.id.counter <= version[op.id.actor][op.id.actor]
<1>1. ApplyEffect(r, op)
  BY AppliesEffect
<1>2. op.id.actor \in Actor /\ op.id.counter \in Nat
  BY InvTypes
<1>3. ~(version[r][op.id.actor] >= op.id.counter)
  BY DEF Receive, Observed
<1>4. \A s, a \in Actor : version[s][a] \in Nat
  BY InvTypes
<1>5. ASSUME NEW s \in Actor, NEW a \in Actor
      PROVE  version'[s][a] \in Nat /\ version[s][a] <= version'[s][a]
  <2>1. CASE s = r /\ a = op.id.actor
    BY <1>1, <1>2, <1>3, <1>4, <2>1 DEF ApplyEffect
  <2>2. CASE s # r \/ a # op.id.actor
    <3>1. version'[s][a] = version[s][a]
      BY <1>1, <2>2 DEF ApplyEffect
    <3> QED  BY <1>4, <3>1
  <2> QED  BY <2>1, <2>2
<1>6. op.id.actor # r
  BY Honest DEF Receive
<1>7. op.id.counter <= version[op.id.actor][op.id.actor]
  <2>1. Observed(version[op.id.actor], op.id)
    BY <1>2, Honest
  <2> QED  BY <1>2, <1>4, <2>1 DEF Observed
<1> QED  BY <1>5, <1>6, <1>7

\* A remote operation keeps what the replicas share.
LEMMA ApplyKeepsShared ==
    ASSUME IdInv, NEW r \in Actor, NEW op \in sent, Receive(r, op), UNCHANGED frontier
    PROVE  SharedInv'
<1>1. ApplyEffect(r, op)
  BY AppliesEffect
<1>2. \A s, a \in Actor : version'[s][a] \in Nat /\ version[s][a] <= version'[s][a]
  BY ApplyRaises
<1>3. /\ \A s, a \in Actor : version[s][a] \in Nat /\ frontier[s][a] \in Nat
      /\ \A o \in sent : \A a \in Actor : o.version[a] \in Nat
  BY InvTypes
<1>4. FrontierIsCommon'
  <2>1. frontier' \in [Actor -> Global]
    BY DEF IdInv, SharedInv, FrontierIsCommon
  <2>2. ASSUME NEW q \in Actor, NEW s \in Actor, NEW a \in Actor
        PROVE  frontier'[q][a] <= version'[s][a]
    <3>1. frontier[q][a] <= version[s][a]
      BY DEF IdInv, SharedInv, FrontierIsCommon
    <3>2. version[s][a] <= version'[s][a] /\ version'[s][a] \in Nat
          /\ version[s][a] \in Nat /\ frontier[q][a] \in Nat
      BY <1>2, <1>3
    <3> QED  BY <3>1, <3>2
  <2> QED  BY <2>1, <2>2 DEF FrontierIsCommon
<1>5. AuthorsKnowTheirs'
  <2>1. ASSUME NEW s \in Actor, NEW a \in Actor
        PROVE  version'[s][a] <= version'[a][a]
    <3>1. version[s][a] <= version[a][a] /\ version[a][a] <= version'[a][a]
          /\ version[s][a] \in Nat /\ version[a][a] \in Nat /\ version'[a][a] \in Nat
      BY <1>2, <1>3 DEF IdInv, SharedInv, AuthorsKnowTheirs
    <3>2. CASE s = r /\ a = op.id.actor
      BY <1>1, <3>1, <3>2, ApplyRaises, InvTypes DEF ApplyEffect
    <3>3. CASE s # r \/ a # op.id.actor
      <4>1. version'[s][a] = version[s][a]
        BY <1>1, <3>3 DEF ApplyEffect
      <4> QED  BY <3>1, <4>1
    <3> QED  BY <3>2, <3>3
  <2>2. ASSUME NEW o \in sent, NEW a \in Actor
        PROVE  o.version[a] <= version'[a][a]
    <3>1. o.version[a] <= version[a][a] /\ o.version[a] \in Nat
      BY <1>3 DEF IdInv, SharedInv, AuthorsKnowTheirs
    <3>2. version[a][a] <= version'[a][a] /\ version[a][a] \in Nat /\ version'[a][a] \in Nat
      BY <1>2, <1>3
    <3> QED  BY <3>1, <3>2
  <2>3. sent' = sent
    BY <1>1 DEF ApplyEffect
  <2> QED  BY <2>1, <2>2, <2>3 DEF AuthorsKnowTheirs
<1>6. TargetsAreSeen'
  <2>1. sent' = sent
    BY <1>1 DEF ApplyEffect
  <2> QED  BY <2>1 DEF IdInv, SharedInv, TargetsAreSeen, TargetIsSeen
<1> QED  BY <1>4, <1>5, <1>6 DEF SharedInv

\* What a remote operation adds to the document, and nothing else.
DocumentEffect(r, op) ==
    /\ LinksResolve(entries'[r])
    /\ Origins(entries'[r])
          = Origins(entries[r]) \cup (IF op.kind = "insert" THEN {op.id} ELSE {})
    /\ Deletions(entries'[r])
          = Deletions(entries[r]) \cup (IF op.kind = "remove" THEN {op.id} ELSE {})
    /\ undoMap[r] \subseteq undoMap'[r]
    /\ \A u \in undoMap'[r] \ undoMap[r] :
          u.undo = op.id /\ u.edit.actor = op.id.actor /\ Observed(op.version, u.edit)
    /\ \A s \in Actor : s # r => entries'[s] = entries[s] /\ undoMap'[s] = undoMap[s]

\* apply_concrete adds what the operation says to the document.
LEMMA AppliesDocument ==
    ASSUME IdInv, NEW r \in Actor, NEW op \in sent, Receive(r, op)
    PROVE  DocumentEffect(r, op)
<1>1. /\ op.id \in Identity /\ op.kind \in {"insert", "remove", "undo"}
      /\ entries[r] \in Seq(Entry) /\ LinksResolve(entries[r]) /\ TargetIsSeen(op, sent)
      /\ ApplyConcrete(r, op) /\ Applicable(r, op)
  BY InvTypes DEF IdInv, ReplicaInv, SharedInv, TargetsAreSeen, Receive
<1>2. op.kind = "insert" => op.link \in Link
  BY OperationFields, InvTypes
<1>3. \A s \in Actor : s # r => entries'[s] = entries[s] /\ undoMap'[s] = undoMap[s]
  BY <1>1 DEF ApplyConcrete, IdInv, ListInv, DocumentInv
<1>4. CASE op.kind = "insert"
  <2> DEFINE e == RemoteEntry(op)
  <2>1. e \in Entry /\ e.origin = op.id /\ e.link = op.link /\ e.deletions = {}
    BY <1>1, <1>2, <1>4 DEF RemoteEntry, Entry
  <2>2. Slot(entries[r], e) # 0
    BY <1>1, <1>4 DEF Applicable
  <2>3. op.link.side = "Left" => op.link.rightOrigin = op.link.parent
    BY <1>1, <1>4 DEF TargetIsSeen
  <2>4. entries'[r] = Integrate(entries[r], e) /\ undoMap'[r] = undoMap[r]
    BY <1>1, <1>4 DEF ApplyConcrete, IdInv, ListInv, DocumentInv
  <2> HIDE DEF e
  <2>5. /\ Origins(Integrate(entries[r], e)) = Origins(entries[r]) \cup {e.origin}
        /\ Deletions(Integrate(entries[r], e)) = Deletions(entries[r]) \cup e.deletions
        /\ LinksResolve(Integrate(entries[r], e))
    BY <1>1, <2>1, <2>2, <2>3, IntegratedSets
  <2> QED  BY <1>3, <1>4, <2>1, <2>4, <2>5 DEF DocumentEffect
<1>5. CASE op.kind = "remove"
  <2>1. entries'[r] = Deleted(entries[r], op.target, op.id) /\ undoMap'[r] = undoMap[r]
    BY <1>1, <1>5 DEF ApplyConcrete, IdInv, ListInv, DocumentInv
  <2>2. op.target \in Origins(entries[r])
    BY <1>1, <1>5 DEF Applicable
  <2>3. /\ Origins(Deleted(entries[r], op.target, op.id)) = Origins(entries[r])
        /\ Deletions(Deleted(entries[r], op.target, op.id)) = Deletions(entries[r]) \cup {op.id}
        /\ LinksResolve(Deleted(entries[r], op.target, op.id))
    BY <1>1, <2>2, DeletedSets
  <2> QED  BY <1>3, <1>5, <2>1, <2>3 DEF DocumentEffect
<1>6. CASE op.kind = "undo"
  <2> DEFINE events == {[edit |-> c.target, undo |-> op.id, count |-> c.count] : c \in op.counts}
  <2>1. entries'[r] = entries[r] /\ undoMap'[r] = undoMap[r] \cup events
    BY <1>1, <1>6 DEF ApplyConcrete, IdInv, ListInv, DocumentInv
  <2>2. ASSUME NEW u \in events
        PROVE  u.undo = op.id /\ u.edit.actor = op.id.actor /\ Observed(op.version, u.edit)
    <3>1. PICK c \in op.counts : u = [edit |-> c.target, undo |-> op.id, count |-> c.count]
      OBVIOUS
    <3>2. c.target.actor = op.id.actor /\ Observed(op.version, c.target)
      BY <1>1, <1>6 DEF TargetIsSeen
    <3>3. u.undo = op.id /\ u.edit = c.target
      BY <3>1
    <3> QED  BY <3>2, <3>3
  <2> HIDE DEF events
  <2> QED  BY <1>1, <1>3, <1>6, <2>1, <2>2 DEF DocumentEffect
<1> QED  BY <1>1, <1>4, <1>5, <1>6

\* A remote operation keeps its replica's document and history: it names nothing
\* of the replica's own.
LEMMA ApplyKeepsReplica ==
    ASSUME IdInv, ListInv', NEW r \in Actor, NEW op \in sent, Receive(r, op),
           UNCHANGED <<history, frontier>>
    PROVE  \A s \in Actor : ReplicaInv(s)'
<1>1. ApplyEffect(r, op) /\ DocumentEffect(r, op)
  BY AppliesEffect, AppliesDocument
<1>2. ASSUME NEW s \in Actor, s # r PROVE ReplicaInv(s)'
  <2>1. /\ entries'[s] = entries[s] /\ undoMap'[s] = undoMap[s] /\ applied'[s] = applied[s]
        /\ version'[s] = version[s] /\ next'[s] = next[s]
        /\ frontier'[s] = frontier[s] /\ history'[s] = history[s] /\ ReplicaInv(s)
    BY <1>1, <1>2 DEF ApplyEffect, DocumentEffect, IdInv
  <2> QED  BY <2>1, ReplicaKept
<1>3. applied'[r] = applied[r] \cup {op} /\ ReplicaInv(r)
  BY <1>1 DEF ApplyEffect, IdInv
<1>4. \A u \in undoMap'[r] : Observed(version'[r], u.edit)
  <2>1. ASSUME NEW u \in undoMap'[r] PROVE Observed(version'[r], u.edit)
    <3>1. u.edit.actor \in Actor /\ u.edit.counter \in Nat
      BY DEF ListInv, DocumentInv, UndoEvent, Identity
    <3>2. /\ version[r][u.edit.actor] <= version'[r][u.edit.actor]
          /\ version'[r][u.edit.actor] \in Nat /\ version[r][u.edit.actor] \in Nat
          /\ op.version[u.edit.actor] \in Nat
      BY <3>1, ApplyRaises, InvTypes
    <3>3. version[r][u.edit.actor] >= u.edit.counter
      <4>1. CASE u \in undoMap[r]
        BY <1>3, <4>1 DEF ReplicaInv, NamesAreIntegrated, Observed
      <4>2. CASE u \notin undoMap[r]
        <5>1. op.version[u.edit.actor] >= u.edit.counter
          BY <1>1, <4>2 DEF DocumentEffect, Observed
        <5>2. version[r][u.edit.actor] >= op.version[u.edit.actor]
          BY <3>1 DEF Receive, ObservedAll
        <5> QED  BY <3>1, <3>2, <5>1, <5>2
      <4> QED  BY <4>1, <4>2
    <3>4. version'[r][u.edit.actor] >= u.edit.counter
      BY <3>1, <3>2, <3>3
    <3> QED  BY <3>4 DEF Observed
  <2> QED  BY <2>1
<1>5. NamesAreIntegrated(r)'
  <2>1. \A id \in Origins(entries'[r]) : \E o \in applied'[r] : o.kind = "insert" /\ o.id = id
    BY <1>1, <1>3 DEF DocumentEffect, ReplicaInv, NamesAreIntegrated
  <2>2. \A id \in Deletions(entries'[r]) : \E o \in applied'[r] : o.kind = "remove" /\ o.id = id
    BY <1>1, <1>3 DEF DocumentEffect, ReplicaInv, NamesAreIntegrated
  <2>3. \A u \in undoMap'[r] : \E o \in applied'[r] : o.id = u.undo
    BY <1>1, <1>3 DEF DocumentEffect, ReplicaInv, NamesAreIntegrated
  <2> QED  BY <1>4, <2>1, <2>2, <2>3 DEF NamesAreIntegrated
<1>6. HeldOrCovered(r)'
  <2>1. \A o \in applied'[r] : o \in applied[r] \/ o = op
    BY <1>3
  <2> QED  BY <1>1, <1>3, <2>1 DEF DocumentEffect, ReplicaInv, HeldOrCovered
<1>7. HistoryInv(r)'
  <2> DEFINE h == history[r]
             N == OwnIds(r)
             O == Origins(entries[r])
             D == Deletions(entries[r])
  <2>1. HistoryOK(h, N, O, D) /\ SidesOK(h, UndoneIds(undoMap[r])) /\ history'[r] = h
    BY <1>3 DEF ReplicaInv, HistoryInv
  <2>2. N \subseteq OwnIds(r)'
    <3>1. next[r] \in Nat /\ next'[r] \in Nat /\ next[r] <= next'[r]
      BY <1>1, InvTypes DEF ApplyEffect
    <3>2. \A id \in Identity : id.counter \in Nat
      BY DEF Identity
    <3> QED  BY <3>1, <3>2 DEF OwnIds
  <2>3. O \subseteq Origins(entries'[r]) /\ D \subseteq Deletions(entries'[r])
    BY <1>1 DEF DocumentEffect
  <2>4. \A id \in N : id \in UndoneIds(undoMap'[r]) <=> id \in UndoneIds(undoMap[r])
    <3>1. ASSUME NEW id \in N
          PROVE  id \in UndoneIds(undoMap'[r]) <=> id \in UndoneIds(undoMap[r])
      <4>1. id.actor = r /\ id \in Identity
        BY DEF OwnIds
      <4>2. op.id.actor # r
        BY ApplyRaises
      <4>3. {u \in undoMap[r] : u.edit = id} = {u \in undoMap'[r] : u.edit = id}
        BY <1>1, <4>1, <4>2 DEF DocumentEffect
      <4> QED  BY <4>1, <4>3, OtherEvents DEF UndoneIds
    <3> QED  BY <3>1
  <2> HIDE DEF h, N, O, D
  <2>5. HistoryOK(h, OwnIds(r)', Origins(entries'[r]), Deletions(entries'[r]))
    BY <2>1, <2>2, <2>3, HistoryGrows
  <2>6. \A id \in Retained(h) : id \in UndoneIds(undoMap'[r]) <=> id \in UndoneIds(undoMap[r])
    BY <2>1, <2>4, RetainedIsNamed
  <2>7. SidesOK(h, UndoneIds(undoMap'[r]))
    BY <2>1, <2>6, RetainedKeepsSides DEF HistoryOK
  <2> QED  BY <2>1, <2>5, <2>7 DEF HistoryInv
<1>8. ReplicaInv(r)'
  BY <1>1, <1>5, <1>6, <1>7 DEF ReplicaInv, DocumentEffect
<1> QED  BY <1>2, <1>8

\* What apply_ops integrates, as ListReplica sees it.
LEMMA DeliverAppliedReceives ==
    ASSUME IdInv, NEW r \in Actor, NEW op \in sent, DeliverApplied(r, op)
    PROVE  Receive(r, op)
  BY VerdictIsReceive DEF DeliverApplied

\* The same for an operation of the deferral queue.
LEMMA RetryAppliedReceives ==
    ASSUME IdInv, RetryApplied
    PROVE  busy \in Actor /\ Head(todo) \in sent /\ Receive(busy, Head(todo))
<1>1. busy \in Actor /\ Head(todo) \in sent
  BY ExaminedIsSent DEF RetryApplied
<1>2. ~Observed(version[busy], Head(todo).id) /\ Verdict(busy, Head(todo)) = "apply"
      /\ ApplyConcrete(busy, Head(todo))
  BY DEF RetryApplied
<1> QED  BY <1>1, <1>2, VerdictIsReceive

\* apply_one integrates an operation of the batch.
LEMMA DeliverAppliedKeeps ==
    ASSUME IdInv, ListInv', NEW r \in Actor, NEW op \in sent, DeliverApplied(r, op)
    PROVE  IdInv'
<1>1. Receive(r, op)
  BY DeliverAppliedReceives
<1>2. /\ phase = "idle" \/ busy = r
      /\ phase' = "batch" /\ busy' = r
      /\ UNCHANGED <<history, frontier, todo, progress, deferred, quarantined>>
  BY DEF DeliverApplied, Offered
<1>3. ApplyEffect(r, op)
  BY <1>1, AppliesEffect
<1>4. SharedInv' /\ \A s \in Actor : ReplicaInv(s)'
  BY <1>1, <1>2, ApplyKeepsShared, ApplyKeepsReplica
<1>5. QueuesAreSent'
  BY <1>2, <1>3 DEF IdInv, QueuesAreSent, ApplyEffect
<1>6. ASSUME NEW s \in Actor PROVE QueueWaits(s)'
  <2>1. CASE s = r
    BY <1>2, <2>1 DEF QueueWaits
  <2>2. CASE s # r
    <3>1. \A i \in DOMAIN deferred[s] : Waits(version[s], deferred[s][i])
      BY <1>2, <2>2, OthersWait
    <3> QED  BY <1>2, <1>3, <2>2, <3>1 DEF QueueWaits, ApplyEffect
  <2> QED  BY <2>1, <2>2
<1> QED  BY <1>2, <1>4, <1>5, <1>6 DEF IdInv

\* retry_deferred integrates an operation of the queue.
LEMMA RetryAppliedKeeps ==
    ASSUME IdInv, ListInv', RetryApplied
    PROVE  IdInv'
<1> DEFINE r == busy
           op == Head(todo)
<1>1. r \in Actor /\ op \in sent /\ Receive(r, op)
  BY RetryAppliedReceives
<1>2. /\ Tail(todo) \in Seq(sent) /\ phase = "retry"
      /\ phase' = "retry" /\ busy' = busy /\ todo' = Tail(todo) /\ progress' = TRUE
      /\ UNCHANGED <<history, frontier, deferred, quarantined>>
  BY ExaminedIsSent DEF RetryApplied
<1> HIDE DEF op
<1>3. ApplyEffect(r, op)
  BY <1>1, AppliesEffect
<1>4. SharedInv' /\ \A s \in Actor : ReplicaInv(s)'
  BY <1>1, <1>2, ApplyKeepsShared, ApplyKeepsReplica
<1>5. QueuesAreSent'
  BY <1>2, <1>3 DEF IdInv, QueuesAreSent, ApplyEffect
<1>6. ASSUME NEW s \in Actor PROVE QueueWaits(s)'
  <2>1. CASE s = r
    BY <1>2, <2>1 DEF QueueWaits
  <2>2. CASE s # r
    <3>1. \A i \in DOMAIN deferred[s] : Waits(version[s], deferred[s][i])
      BY <1>1, <1>2, <2>2, OthersWait
    <3> QED  BY <1>2, <1>3, <2>2, <3>1 DEF QueueWaits, ApplyEffect
  <2> QED  BY <2>1, <2>2
<1> QED  BY <1>2, <1>4, <1>5, <1>6 DEF IdInv

-----------------------------------------------------------------------------
(* Checkpoints and reclamation *)

\* The certified frontier is below every version.
LEMMA CertifiedIsCommon ==
    ASSUME IdInv, NEW s \in Actor
    PROVE  /\ CertifiedFrontier \in Global
           /\ \A a \in Actor : CertifiedFrontier[a] <= version[s][a]
<1>1. ASSUME NEW a \in Actor
      PROVE  CertifiedFrontier[a] \in Nat /\ CertifiedFrontier[a] <= version[s][a]
  <2> DEFINE S == {version[q][a] : q \in Actor}
  <2>1. S \subseteq Nat /\ S # {} /\ version[s][a] \in S
    BY InvTypes
  <2>2. CertifiedFrontier[a] = Min(S)
    BY DEF CertifiedFrontier
  <2> HIDE DEF S
  <2>3. Min(S) \in S /\ \A y \in S : Min(S) <= y
    BY <2>1, MinExists
  <2> QED  BY <2>1, <2>2, <2>3
<1>2. CertifiedFrontier = [a \in Actor |-> CertifiedFrontier[a]]
  BY DEF CertifiedFrontier
<1> QED  BY <1>1, <1>2 DEF Global

\* A restored checkpoint raises the frontier to what every replica has.
LEMMA RestoreKeeps ==
    ASSUME IdInv, NEW r \in Actor, RestoreCheckpoint(r)
    PROVE  IdInv'
<1>1. /\ frontier' = [frontier EXCEPT ![r] = CertifiedFrontier]
      /\ ObservedAll(CertifiedFrontier, frontier[r])
      /\ UNCHANGED <<listVars, history, deferred, quarantined, callVars>>
      /\ UNCHANGED <<entries, version, next, undoMap, sent, applied, phase, busy, todo, progress>>
  BY DEF RestoreCheckpoint, listVars, callVars
<1>2. frontier \in [Actor -> Global] /\ CertifiedFrontier \in Global
      /\ \A s, a \in Actor : CertifiedFrontier[a] <= version[s][a]
  BY CertifiedIsCommon DEF IdInv, SharedInv, FrontierIsCommon
<1>3. frontier' \in [Actor -> Global] /\ frontier'[r] = CertifiedFrontier
      /\ \A s \in Actor : s # r => frontier'[s] = frontier[s]
  BY <1>1, <1>2
<1>4. ListInv'
  BY <1>1, NextKeepsInv DEF IdInv
<1>5. SharedInv'
  <2>1. FrontierIsCommon'
    BY <1>1, <1>2, <1>3 DEF IdInv, SharedInv, FrontierIsCommon
  <2>2. AuthorsKnowTheirs' /\ TargetsAreSeen'
    BY <1>1 DEF IdInv, SharedInv, AuthorsKnowTheirs, TargetsAreSeen, TargetIsSeen
  <2> QED  BY <2>1, <2>2 DEF SharedInv
<1>6. QueuesAreSent' /\ \A s \in Actor : QueueWaits(s)'
  BY <1>1 DEF IdInv, QueuesAreSent, QueueWaits
<1>7. \A s \in Actor : s # r => ReplicaInv(s)'
  BY <1>1, <1>3, ReplicaKept DEF IdInv
<1>8. ReplicaInv(r)'
  <2>1. ReplicaInv(r)
    BY DEF IdInv
  <2>2. \A id : Covered(frontier[r], id) => Covered(frontier'[r], id)
    <3>1. ASSUME NEW id, Covered(frontier[r], id) PROVE Covered(frontier'[r], id)
      <4>1. id \in Identity /\ id.actor \in Actor /\ id.counter \in Nat
            /\ id.counter <= frontier[r][id.actor]
        BY <3>1 DEF Covered, Identity
      <4>2. frontier'[r][id.actor] >= frontier[r][id.actor]
        BY <1>1, <1>3, <4>1 DEF ObservedAll
      <4>3. frontier[r][id.actor] \in Nat /\ frontier'[r][id.actor] \in Nat
        BY <1>2, <1>3, <4>1 DEF Global
      <4>4. id.counter <= frontier'[r][id.actor]
        BY <4>1, <4>2, <4>3
      <4> QED  BY <4>1, <4>4 DEF Covered
    <3> QED  BY <3>1
  <2>3. HeldOrCovered(r)'
    BY <1>1, <2>1, <2>2 DEF ReplicaInv, HeldOrCovered
  <2>4. NamesAreIntegrated(r)' /\ LinksResolve(entries[r])'
    BY <1>1, <2>1 DEF ReplicaInv, NamesAreIntegrated
  <2>5. OwnIds(r)' = OwnIds(r)
    BY <1>1 DEF OwnIds
  <2>6. HistoryInv(r)'
    BY <1>1, <2>1, <2>5 DEF ReplicaInv, HistoryInv
  <2> QED  BY <2>3, <2>4, <2>6 DEF ReplicaInv
<1> QED  BY <1>1, <1>4, <1>5, <1>6, <1>7, <1>8 DEF IdInv

\* What a certified frontier covers every replica has integrated.
LEMMA CoveredIsStable ==
    ASSUME IdInv, NEW r \in Actor, NEW o \in sent, Covered(frontier[r], o.id)
    PROVE  Stable(o.id)
<1>1. ASSUME NEW s \in Actor PROVE \E op \in applied[s] : op.id = o.id
  <2>1. o.id.actor \in Actor /\ o.id.counter \in Nat /\ o.id.counter <= frontier[r][o.id.actor]
    BY InvTypes DEF Covered
  <2>2. frontier[r][o.id.actor] <= version[s][o.id.actor]
        /\ frontier[r][o.id.actor] \in Nat /\ version[s][o.id.actor] \in Nat
    BY <2>1, InvTypes DEF IdInv, SharedInv, FrontierIsCommon
  <2>3. version[s][o.id.actor] >= o.id.counter
    BY <2>1, <2>2
  <2>4. o \in applied[s]
    BY <2>3, Honest DEF Observed
  <2> QED  BY <2>4
<1> QED  BY <1>1 DEF Stable

\* What collect_garbage drops may be forgotten: it is deleted, everybody has
\* integrated it, and nothing that stays is attached to it.
LEMMA ReclaimableIsForgettable ==
    ASSUME IdInv, NEW r \in Actor, NEW pinned, NEW e \in Reclaimable(r, pinned)
    PROVE  e \in ToSet(entries[r]) /\ Forgettable(r, e)
<1>1. /\ e \in ToSet(entries[r]) /\ Tombstone(r, e) /\ ~Linked(r, e)
      /\ \A id \in Names(e) : Covered(frontier[r], id)
      /\ \A u \in undoMap[r] : u.edit \in Names(e) => Covered(frontier[r], u.undo)
  BY DEF Reclaimable
<1>2. NamesAreIntegrated(r) /\ applied[r] \subseteq sent
  BY InvTypes DEF IdInv, ReplicaInv
<1>3. Names(e) \subseteq Origins(entries[r]) \cup Deletions(entries[r])
  BY <1>1, ListSets DEF Names
<1>4. ASSUME NEW id \in Names(e) PROVE Stable(id)
  <2>1. \E o \in applied[r] : o.id = id
    BY <1>2, <1>3 DEF NamesAreIntegrated
  <2> QED  BY <1>1, <1>2, <2>1, CoveredIsStable
<1>5. ASSUME NEW u \in undoMap[r], u.edit \in Names(e) PROVE Stable(u.undo)
  <2>1. \E o \in applied[r] : o.id = u.undo
    BY <1>2 DEF NamesAreIntegrated
  <2> QED  BY <1>1, <1>2, <1>5, <2>1, CoveredIsStable
<1>6. \A i \in DOMAIN entries[r] : entries[r][i] = e \/
         e.origin \notin {entries[r][i].link.parent, entries[r][i].link.rightOrigin}
  BY <1>1 DEF Linked, ToSet
<1> QED  BY <1>1, <1>4, <1>5, <1>6 DEF Forgettable, Tombstone

\* collect_garbage keeps what the histories name and what the links need.
LEMMA CollectKeeps ==
    ASSUME IdInv, ListInv', NEW r \in Actor, NEW pinned, CollectGarbage(r, pinned)
    PROVE  IdInv'
<1> DEFINE gone == Reclaimable(r, pinned)
           dead == UNION {Names(e) : e \in gone}
<1>1. /\ entries' = [entries EXCEPT ![r] = Kept(@, gone)]
      /\ undoMap' = [undoMap EXCEPT ![r] = {u \in @ : u.edit \notin dead}]
      /\ UNCHANGED <<version, next, sent, applied, history, deferred, quarantined, frontier,
                     phase, busy, todo, progress>>
  BY DEF CollectGarbage, Forget, callVars
<1>2. /\ entries'[r] = Kept(entries[r], gone)
      /\ undoMap'[r] = {u \in undoMap[r] : u.edit \notin dead}
      /\ \A s \in Actor : s # r => entries'[s] = entries[s] /\ undoMap'[s] = undoMap[s]
  BY <1>1 DEF IdInv, ListInv, DocumentInv
<1>3. \A e \in gone : /\ \A id \in Names(e) : Covered(frontier[r], id)
                      /\ Names(e) \cap Retained(history[r]) = {}
                      /\ ~Linked(r, e)
  BY DEF Reclaimable
<1> HIDE DEF gone
<1>4. /\ Origins(entries'[r]) \subseteq Origins(entries[r])
      /\ Deletions(entries'[r]) \subseteq Deletions(entries[r])
      /\ \A id \in Origins(entries[r]) : id \in Origins(entries'[r]) \/ \E e \in gone : e.origin = id
      /\ \A id \in Deletions(entries[r]) :
            id \in Deletions(entries'[r]) \/ \E e \in gone : id \in e.deletions
      /\ LinksResolve(entries'[r])
  <2>1. entries[r] \in Seq(Entry) /\ LinksResolve(entries[r])
    BY InvTypes DEF IdInv, ReplicaInv
  <2>2. \A e \in gone, x \in ToSet(entries[r]) :
           x = e \/ e.origin \notin {x.link.parent, x.link.rightOrigin}
    BY <1>3 DEF Linked
  <2> QED  BY <1>2, <2>1, <2>2, KeptSets
<1>5. /\ \A id \in Origins(entries[r]) : id \in Origins(entries'[r]) \/ id \in dead
      /\ \A id \in Deletions(entries[r]) : id \in Deletions(entries'[r]) \/ id \in dead
  BY <1>4 DEF Names
<1>6. (\A id \in dead : Covered(frontier[r], id)) /\ Retained(history[r]) \cap dead = {}
  BY <1>3
<1> HIDE DEF dead
<1>7. SharedInv'
  BY <1>1 DEF IdInv, SharedInv, FrontierIsCommon, AuthorsKnowTheirs, TargetsAreSeen, TargetIsSeen
<1>8. QueuesAreSent' /\ \A s \in Actor : QueueWaits(s)'
  BY <1>1 DEF IdInv, QueuesAreSent, QueueWaits
<1>9. \A s \in Actor : s # r => ReplicaInv(s)'
  BY <1>1, <1>2, ReplicaKept DEF IdInv
<1>10. ReplicaInv(r)'
  <2>1. ReplicaInv(r)
    BY DEF IdInv
  <2>2. NamesAreIntegrated(r)'
    BY <1>1, <1>2, <1>4, <2>1 DEF ReplicaInv, NamesAreIntegrated
  <2>3. HeldOrCovered(r)'
    BY <1>1, <1>5, <1>6, <2>1 DEF ReplicaInv, HeldOrCovered
  <2>4. HistoryInv(r)'
    <3> DEFINE h == history[r]
               N == OwnIds(r)
               O == Origins(entries[r])
               D == Deletions(entries[r])
               U == UndoneIds(undoMap[r])
               V == UndoneIds(undoMap'[r])
    <3>1. HistoryOK(h, N, O, D) /\ SidesOK(h, U) /\ Retained(h) \cap dead = {}
          /\ history'[r] = h /\ OwnIds(r)' = N
      BY <1>1, <1>6, <2>1 DEF ReplicaInv, HistoryInv, OwnIds
    <3>2. \A id : id \notin dead => (id \in V <=> id \in U)
      <4>1. ASSUME NEW id, id \notin dead PROVE id \in V <=> id \in U
        <5>1. {u \in undoMap[r] : u.edit = id} = {u \in undoMap'[r] : u.edit = id}
          BY <1>2, <4>1
        <5>2. IsUndone(undoMap'[r], id) <=> IsUndone(undoMap[r], id)
          BY <5>1, OtherEvents
        <5> QED  BY <5>2 DEF UndoneIds
      <4> QED  BY <4>1
    <3>3. /\ Retained(h) \cap O \subseteq Origins(entries'[r])
          /\ Retained(h) \cap D \subseteq Deletions(entries'[r])
      BY <1>5, <3>1
    <3> HIDE DEF h, N, O, D, U, V
    <3>4. HistoryOK(h, N, Origins(entries'[r]), Deletions(entries'[r]))
      BY <3>1, <3>3, RetainedIsEnough
    <3>5. \A id \in Retained(h) : id \in V <=> id \in U
      BY <3>1, <3>2
    <3>6. SidesOK(h, V)
      BY <3>1, <3>5, RetainedKeepsSides DEF HistoryOK
    <3> QED  BY <3>1, <3>4, <3>6 DEF HistoryInv, V
  <2> QED  BY <1>4, <2>2, <2>3, <2>4 DEF ReplicaInv
<1> QED  BY <1>1, <1>7, <1>8, <1>9, <1>10 DEF IdInv

-----------------------------------------------------------------------------
(* The theorems *)

\* Empty replicas with empty histories satisfy the invariant.
LEMMA InitEstablishesIdInv == Init => IdInv
<1>1. SUFFICES ASSUME Init PROVE IdInv
  OBVIOUS
<1>2. ListInv /\ ListInit
  BY <1>1, InitEstablishesInv DEF Init
<1>3. /\ \A r \in Actor : /\ entries[r] = <<>> /\ undoMap[r] = {} /\ applied[r] = {}
                          /\ version[r] = EmptyGlobal /\ frontier[r] = EmptyGlobal
                          /\ deferred[r] = <<>> /\ next[r] = 1
      /\ sent = {} /\ \A a \in Actor : EmptyGlobal[a] = 0
  BY <1>1, <1>2 DEF Init, ListInit, EmptyGlobal
<1>4. SharedInv
  BY <1>1, <1>3 DEF Init, SharedInv, FrontierIsCommon, AuthorsKnowTheirs, TargetsAreSeen,
                    Global, EmptyGlobal
<1>5. QueuesAreSent
  <2>1. <<>> \in Seq(sent)
    OBVIOUS
  <2> QED  BY <1>1, <2>1 DEF Init, QueuesAreSent
<1>6. \A d \in Depths : EmptyHistory(d) \in History
  BY IdListAssumption DEF EmptyHistory, History
<1>7. history \in [Actor -> History]
  BY <1>1, <1>6 DEF Init
<1>8. ASSUME NEW r \in Actor PROVE ReplicaInv(r) /\ QueueWaits(r)
  <2>1. Origins(entries[r]) = {} /\ Deletions(entries[r]) = {} /\ LinksResolve(entries[r])
    BY <1>3 DEF Origins, Deletions, LinksResolve
  <2>2. NamesAreIntegrated(r) /\ HeldOrCovered(r)
    BY <1>3, <2>1 DEF NamesAreIntegrated, HeldOrCovered
  <2>3. PICK d \in Depths : history[r] = EmptyHistory(d)
    BY <1>1 DEF Init
  <2>4. history[r].stack = <<>> /\ history[r].retired = <<>> /\ history[r].cursor = 0
    BY <2>3 DEF EmptyHistory
  <2>5. Places(history[r]) = {}
    BY <2>4 DEF Places
  <2>6. HistoryShape(history[r])
    BY <1>7, <2>4 DEF HistoryShape
  <2>7. HistoryInv(r)
    BY <2>5, <2>6 DEF HistoryInv, HistoryOK, Apart, SidesOK
  <2>8. QueueWaits(r)
    BY <1>3 DEF QueueWaits
  <2> QED  BY <2>1, <2>2, <2>7, <2>8 DEF ReplicaInv
<1> QED  BY <1>2, <1>4, <1>5, <1>7, <1>8 DEF IdInv

\* Every step of the list is a step of ListReplica, or changes none of its state.
LEMMA StepImplements == IdInv /\ [Next]_vars => [ListNext]_listVars
<1>1. SUFFICES ASSUME IdInv, [Next]_vars PROVE [ListNext]_listVars
  OBVIOUS
<1>2. CASE UNCHANGED vars
  BY <1>2 DEF vars
<1>3. ASSUME NEW r \in Actor, LocalStep(r) PROVE [ListNext]_listVars
  <2>1. ASSUME NEW left \in {NoId} \cup Origins(entries[r]), LocalInsert(r, left) PROVE ListNext
    BY <2>1, LocalInsertImplements
  <2>2. ASSUME NEW target \in Origins(entries[r]), LocalRemove(r, target) PROVE ListNext
    BY <2>2 DEF LocalRemove, ListNext
  <2>3. ASSUME NEW i \in DOMAIN history[r].stack, UndoGroup(r, i) \/ RedoGroup(r, i)
        PROVE  ListNext
    BY <1>1, <2>3, UndoGroupToggles DEF ListNext
  <2>4. ASSUME NEW gid, NEW depth,
               \/ CoalesceLastUndo(r) \/ AcknowledgeRetirement(r, gid) \/ SetMaxUndoDepth(r, depth)
        PROVE  UNCHANGED listVars
    BY <2>4 DEF CoalesceLastUndo, AcknowledgeRetirement, SetMaxUndoDepth
  <2> QED  BY <1>3, <2>1, <2>2, <2>3, <2>4 DEF LocalStep
<1>4. ASSUME NEW r \in Actor, DeliverStep(r) PROVE [ListNext]_listVars
  <2>1. PICK op \in sent : \/ DeliverDuplicate(r, op) \/ DeliverApplied(r, op)
                           \/ DeliverDeferred(r, op) \/ DeliverRejected(r, op)
    BY <1>4 DEF DeliverStep
  <2>2. CASE DeliverApplied(r, op)
    <3>1. Receive(r, op)
      BY <1>1, <2>2, DeliverAppliedReceives
    <3> QED  BY <3>1 DEF ListNext
  <2>3. CASE DeliverDuplicate(r, op) \/ DeliverDeferred(r, op) \/ DeliverRejected(r, op)
    BY <2>3 DEF DeliverDuplicate, DeliverDeferred, DeliverRejected
  <2> QED  BY <2>1, <2>2, <2>3
<1>5. CASE RetryStep
  <2>1. CASE RetryApplied
    <3>1. busy \in Actor /\ Head(todo) \in sent /\ Receive(busy, Head(todo))
      BY <1>1, <2>1, RetryAppliedReceives
    <3> QED  BY <3>1 DEF ListNext
  <2>2. CASE StartPass \/ RetryObserved \/ RetryRejected \/ RetryWaits \/ EndRetry
    BY <2>2 DEF StartPass, RetryObserved, RetryRejected, RetryWaits, EndRetry
  <2> QED  BY <1>5, <2>1, <2>2 DEF RetryStep
<1>6. ASSUME NEW r \in Actor, ReclaimStep(r) PROVE [ListNext]_listVars
  <2>1. ASSUME NEW pinned, CollectGarbage(r, pinned) PROVE ListNext
    <3>1. Forget(r, Reclaimable(r, pinned))
      BY <2>1 DEF CollectGarbage
    <3>2. Reclaimable(r, pinned) \in SUBSET {e \in ToSet(entries[r]) : Forgettable(r, e)}
      BY <1>1, ReclaimableIsForgettable
    <3> QED  BY <3>1, <3>2 DEF ListNext
  <2>2. RestoreCheckpoint(r) => UNCHANGED listVars
    BY DEF RestoreCheckpoint
  <2> QED  BY <1>6, <2>1, <2>2 DEF ReclaimStep
<1> QED  BY <1>1, <1>2, <1>3, <1>4, <1>5, <1>6 DEF Next

\* Every step keeps the invariant.
LEMMA NextKeepsIdInv == IdInv /\ [Next]_vars => IdInv'
<1>1. SUFFICES ASSUME IdInv, [Next]_vars PROVE IdInv'
  OBVIOUS
<1>2. ListInv'
  BY <1>1, StepImplements, NextKeepsInv DEF IdInv
<1>3. CASE UNCHANGED vars
  <2>1. UNCHANGED <<listVars, history, frontier>>
        /\ UNCHANGED <<version, sent, deferred, quarantined, phase, busy, todo, progress>>
    BY <1>3 DEF vars, listVars, callVars
  <2>2. QueuesAreSent' /\ \A s \in Actor : QueueWaits(s)'
    BY <1>1, <2>1 DEF IdInv, QueuesAreSent, QueueWaits
  <2> QED  BY <1>1, <2>1, <2>2, QueueStepKeeps
<1>4. ASSUME NEW r \in Actor, LocalStep(r) PROVE IdInv'
  <2>1. ASSUME NEW left \in {NoId} \cup Origins(entries[r]), LocalInsert(r, left) PROVE IdInv'
    BY <1>1, <1>2, <2>1, LocalInsertKeeps
  <2>2. ASSUME NEW target \in Origins(entries[r]), LocalRemove(r, target) PROVE IdInv'
    BY <1>1, <1>2, <2>2, LocalRemoveKeeps
  <2>3. ASSUME NEW i \in DOMAIN history[r].stack, UndoGroup(r, i) PROVE IdInv'
    BY <1>1, <1>2, <2>3, UndoGroupKeeps
  <2>4. ASSUME NEW i \in DOMAIN history[r].stack, RedoGroup(r, i) PROVE IdInv'
    BY <1>1, <1>2, <2>4, RedoGroupKeeps
  <2>5. ASSUME \/ CoalesceLastUndo(r) \/ \E gid : AcknowledgeRetirement(r, gid)
               \/ \E depth \in Depths : SetMaxUndoDepth(r, depth)
        PROVE  IdInv'
    BY <1>1, <2>5, PrivateStepKeeps
  <2> QED  BY <1>4, <2>1, <2>2, <2>3, <2>4, <2>5 DEF LocalStep
<1>5. ASSUME NEW r \in Actor, DeliverStep(r) PROVE IdInv'
  BY <1>1, <1>2, <1>5, DeliverKeeps, DeliverAppliedKeeps DEF DeliverStep
<1>6. CASE RetryStep
  BY <1>1, <1>2, <1>6, StartPassKeeps, EndRetryKeeps, RetryKeeps, RetryAppliedKeeps DEF RetryStep
<1>7. ASSUME NEW r \in Actor, ReclaimStep(r) PROVE IdInv'
  BY <1>1, <1>2, <1>7, RestoreKeeps, CollectKeeps DEF ReclaimStep
<1> QED  BY <1>1, <1>3, <1>4, <1>5, <1>6, <1>7 DEF Next

\* The inductive invariant holds in every behaviour.
THEOREM IdListInvariance == Spec => []IdInv
BY InitEstablishesIdInv, NextKeepsIdInv, PTL DEF Spec

\* The list as the code keeps it, with deferral, retries, refusals, duplicates,
\* private undo and certified reclamation, does nothing that ListReplica does not
\* allow: what it integrates comes once, after its dependencies, to a list that
\* still holds what it refers to, and what it collects nobody needs.
THEOREM Refinement == Spec => ListSpec
<1>1. Init => ListInit
  BY DEF Init
<1>2. Spec => []IdInv
  BY IdListInvariance
<1> QED  BY <1>1, <1>2, StepImplements, PTL DEF Spec, ListSpec

\* Outside apply_ops every deferred operation misses a dependency: retry_deferred
\* leaves nothing behind that could be applied.
THEOREM NothingReady == Spec => []NothingReadyIsWaiting
<1>1. IdInv => NothingReadyIsWaiting
  <2>1. SUFFICES ASSUME IdInv, NEW r \in Actor, phase = "idle", NEW op \in ToSet(deferred[r])
                 PROVE  ~Observed(version[r], op.id) /\ ~ObservedAll(version[r], op.version)
    BY DEF NothingReadyIsWaiting
  <2>2. \A i \in DOMAIN deferred[r] : Waits(version[r], deferred[r][i])
    BY <2>1 DEF IdInv, QueueWaits
  <2>3. PICK i \in DOMAIN deferred[r] : op = deferred[r][i]
    BY DEF ToSet
  <2> QED  BY <2>2, <2>3 DEF Waits
<1> QED  BY <1>1, IdListInvariance, PTL

\* The undo cursor and the replicated undo counts agree, whatever is undone out of
\* order, coalesced, dropped, trimmed or reclaimed (try_undo_group, is_undone).
THEOREM HistoryAgrees == Spec => []HistoryMatchesUndoMap
<1>1. IdInv => HistoryMatchesUndoMap
  <2>1. SUFFICES ASSUME IdInv, NEW r \in Actor, NEW i \in DOMAIN history[r].stack,
                        NEW id \in history[r].stack[i].items \cup history[r].stack[i].dels
                 PROVE  IsUndone(undoMap[r], id) <=> i > history[r].cursor
    BY DEF HistoryMatchesUndoMap
  <2> DEFINE h == history[r]
             p == <<"stack", i>>
  <2>2. HistoryShape(h) /\ SidesOK(h, UndoneIds(undoMap[r]))
    BY <2>1 DEF IdInv, ReplicaInv, HistoryInv, HistoryOK
  <2>3. h.stack \in Seq(Group)
    BY <2>1 DEF IdInv, History
  <2>4. i \in 1 .. Len(h.stack)
    BY <2>3
  <2>5. Members(h.stack[i]) \subseteq OwnIds(r)
    BY <2>1, <2>4, MembersAreUndoable
  <2> HIDE DEF h
  <2>6. p \in Places(h) /\ GroupAt(h, p) = h.stack[i] /\ p[1] = "stack" /\ p[2] = i
    BY <2>2, <2>4, PlaceParts
  <2>7. id \in Members(h.stack[i])
    BY DEF Members, h
  <2>8. id \in UndoneIds(undoMap[r]) <=> i > h.cursor
    BY <2>2, <2>6, <2>7 DEF SidesOK, IsRedo
  <2>9. id \in Identity
    BY <2>5, <2>7 DEF OwnIds
  <2> QED  BY <2>8, <2>9 DEF UndoneIds, h
<1> QED  BY <1>1, IdListInvariance, PTL

\* No operation is in two undo groups, and the list holds whatever a group of the
\* history would bring back: collection never removes it (collect_garbage).
THEOREM HistoryResolvable == Spec => []HistoryIsResolvable
<1>1. IdInv => HistoryIsResolvable
  <2>1. SUFFICES ASSUME IdInv, NEW r \in Actor
        PROVE  LET all == history[r].stack \o history[r].retired
               IN  /\ \A i, j \in DOMAIN all : i # j => all[i].ops \cap all[j].ops = {}
                   /\ \A g \in ToSet(all) : g.items \subseteq Origins(entries[r])
                   /\ \A g \in ToSet(all) : \A d \in g.dels :
                         \E e \in ToSet(entries[r]) : d \in e.deletions
    BY DEF HistoryIsResolvable
  <2> DEFINE h   == history[r]
             all == h.stack \o h.retired
             at(i) == IF i <= Len(h.stack) THEN <<"stack", i>>
                      ELSE <<"retired", i - Len(h.stack)>>
  <2>2. HistoryOK(h, OwnIds(r), Origins(entries[r]), Deletions(entries[r]))
    BY <2>1 DEF IdInv, ReplicaInv, HistoryInv
  <2> HIDE DEF h
  <2>3. HistoryShape(h)
    BY <2>2 DEF HistoryOK
  <2>4. h.stack \in Seq(Group) /\ h.retired \in Seq(Group)
    BY <2>3, PlaceParts
  <2>5. ASSUME NEW i \in DOMAIN all
        PROVE  \/ i \in 1 .. Len(h.stack) /\ all[i] = h.stack[i]
               \/ /\ i \in Nat /\ i > Len(h.stack) /\ i - Len(h.stack) \in 1 .. Len(h.retired)
                  /\ all[i] = h.retired[i - Len(h.stack)]
    BY <2>4, ConcatPositions
  <2>6. ASSUME NEW i \in DOMAIN all
        PROVE  at(i) \in Places(h) /\ GroupAt(h, at(i)) = all[i]
    <3> HIDE DEF all
    <3>1. CASE i \in 1 .. Len(h.stack) /\ all[i] = h.stack[i]
      <4>1. at(i) = <<"stack", i>>
        BY <3>1
      <4> HIDE DEF at
      <4> QED  BY <2>3, <3>1, <4>1, PlaceParts
    <3>2. CASE /\ i \in Nat /\ i > Len(h.stack) /\ i - Len(h.stack) \in 1 .. Len(h.retired)
               /\ all[i] = h.retired[i - Len(h.stack)]
      <4>1. at(i) = <<"retired", i - Len(h.stack)>>
        BY <2>4, <3>2
      <4> HIDE DEF at
      <4> QED  BY <2>3, <3>2, <4>1, PlaceParts
    <3> QED  BY <2>5, <3>1, <3>2
  <2>7. \A i, j \in DOMAIN all : i # j => at(i) # at(j)
    <3>1. \A i, j \in Nat : at(i)[1] = at(j)[1] /\ at(i)[2] = at(j)[2] => i = j
      BY <2>4
    <3>2. \A i \in DOMAIN all : i \in Nat
      BY <2>5
    <3> HIDE DEF all, at
    <3> QED  BY <3>1, <3>2
  <2> HIDE DEF all, at
  <2>8. \A i, j \in DOMAIN all : i # j => all[i].ops \cap all[j].ops = {}
    BY <2>2, <2>6, <2>7 DEF HistoryOK, Apart
  <2>9. ASSUME NEW g \in ToSet(all)
        PROVE  /\ g.items \subseteq Origins(entries[r])
               /\ \A d \in g.dels : \E e \in ToSet(entries[r]) : d \in e.deletions
    <3>1. PICK i \in DOMAIN all : g = all[i]
      BY DEF ToSet
    <3>2. GroupOK(g, OwnIds(r), Origins(entries[r]), Deletions(entries[r]))
      BY <2>2, <2>6, <3>1 DEF HistoryOK
    <3>3. Deletions(entries[r]) = UNION {e.deletions : e \in ToSet(entries[r])}
      BY ListSets
    <3> QED  BY <3>2, <3>3 DEF GroupOK
  <2> QED  BY <2>8, <2>9 DEF all, h
<1> QED  BY <1>1, IdListInvariance, PTL
==============================================================================
