-------------------------------- MODULE AvlMap --------------------------------
(***************************************************************************)
(* PersistentAvlMap: the immutable, path-copied AVL map behind the origin, *)
(* deletion, node and run indexes.  Nodes are never changed once made, so  *)
(* a map is a value.                                                       *)
(***************************************************************************)
EXTENDS Integers, FiniteSets, SequencesExt, TLC

CONSTANT KeyCount  \* bound: the keys are 1 to KeyCount

ASSUME AvlMapAssumption == KeyCount \in Nat

Keys == 1..KeyCount

VARIABLES
    map,      \* PersistentAvlMap: its root
    content   \* [key -> value]: what it must hold

mapVars == <<map, content>>

-----------------------------------------------------------------------------
(* Nodes *)

Nil == [height |-> 0, count |-> 0]

Larger(a, b) == IF a < b THEN b ELSE a

\* Node(): height and count from the children.
MakeNode(k, x, l, r) ==
    [key |-> k, value |-> x, left |-> l, right |-> r,
     height |-> 1 + Larger(l.height, r.height), count |-> 1 + l.count + r.count]

RotateLeft(n) ==
    MakeNode(n.right.key, n.right.value, MakeNode(n.key, n.value, n.left, n.right.left), n.right.right)
RotateRight(n) ==
    MakeNode(n.left.key, n.left.value, n.left.left, MakeNode(n.key, n.value, n.left.right, n.right))

\* rebalance: a child that leans inwards is rotated outwards first.
LeansIn(outer, inner) == outer.height < inner.height

Rebalance(n) ==
    CASE n.left.height - n.right.height > 1 ->
           RotateRight(IF LeansIn(n.left.left, n.left.right)
                       THEN MakeNode(n.key, n.value, RotateLeft(n.left), n.right) ELSE n)
      [] n.left.height - n.right.height < -1 ->
           RotateLeft(IF LeansIn(n.right.right, n.right.left)
                      THEN MakeNode(n.key, n.value, n.left, RotateRight(n.right)) ELSE n)
      [] OTHER -> n

RECURSIVE InsertKey(_, _, _)
InsertKey(n, k, x) ==
    CASE n = Nil -> MakeNode(k, x, Nil, Nil)
      [] n # Nil /\ k < n.key -> Rebalance(MakeNode(n.key, n.value, InsertKey(n.left, k, x), n.right))
      [] n # Nil /\ k > n.key -> Rebalance(MakeNode(n.key, n.value, n.left, InsertKey(n.right, k, x)))
      [] n # Nil /\ k = n.key -> MakeNode(k, x, n.left, n.right)

RECURSIVE Leftmost(_)
Leftmost(n) == IF n.left = Nil THEN n ELSE Leftmost(n.left)

\* remove: a node with two children is replaced by its successor.
RECURSIVE RemoveKey(_, _)
RemoveKey(n, k) ==
    LET replaced(s) == Rebalance(MakeNode(s.key, s.value, n.left, RemoveKey(n.right, s.key)))
    IN CASE n = Nil -> Nil
         [] n # Nil /\ k < n.key -> Rebalance(MakeNode(n.key, n.value, RemoveKey(n.left, k), n.right))
         [] n # Nil /\ k > n.key -> Rebalance(MakeNode(n.key, n.value, n.left, RemoveKey(n.right, k)))
         [] n # Nil /\ k = n.key -> IF n.left = Nil THEN n.right
                                    ELSE IF n.right = Nil THEN n.left
                                    ELSE replaced(Leftmost(n.right))

\* build_balanced, for from_sorted.
RECURSIVE BuildBalanced(_)
BuildBalanced(entries) ==
    LET middle == (Len(entries) \div 2) + 1
    IN IF entries = <<>> THEN Nil
       ELSE MakeNode(entries[middle][1], entries[middle][2],
                     BuildBalanced(SubSeq(entries, 1, middle - 1)),
                     BuildBalanced(SubSeq(entries, middle + 1, Len(entries))))

-----------------------------------------------------------------------------
(* Queries *)

\* predecessor: the greatest entry whose key is at most k; best so far in `best`.
RECURSIVE Predecessor(_, _, _)
Predecessor(n, k, best) ==
    CASE n = Nil -> best
      [] n # Nil /\ k >= n.key -> Predecessor(n.right, k, <<n.key, n.value>>)
      [] n # Nil /\ k < n.key -> Predecessor(n.left, k, best)

\* lower_bound: the least entry whose key is at least k.
RECURSIVE LowerBound(_, _, _)
LowerBound(n, k, best) ==
    CASE n = Nil -> best
      [] n # Nil /\ k <= n.key -> LowerBound(n.left, k, <<n.key, n.value>>)
      [] n # Nil /\ k > n.key -> LowerBound(n.right, k, best)

RECURSIVE Find(_, _)
Find(n, k) ==
    CASE n = Nil -> <<>>
      [] n # Nil /\ k < n.key -> Find(n.left, k)
      [] n # Nil /\ k > n.key -> Find(n.right, k)
      [] n # Nil /\ k = n.key -> <<n.key, n.value>>

\* visit_from: the entries from k on, in order; subtrees below k are skipped.
RECURSIVE VisitFromMutant(_, _)
VisitFromMutant(n, k) ==
    CASE n = Nil -> <<>>
      [] n # Nil /\ n.key < k -> <<>>
      [] n # Nil /\ n.key >= k ->
           VisitFromMutant(n.left, k) \o <<<<n.key, n.value>>>> \o VisitFromMutant(n.right, k)
RECURSIVE VisitFrom(_, _)
VisitFrom(n, k) ==
    CASE n = Nil -> <<>>
      [] n # Nil /\ n.key < k -> VisitFrom(n.right, k)
      [] n # Nil /\ n.key >= k -> VisitFrom(n.left, k) \o <<<<n.key, n.value>>>> \o VisitFrom(n.right, k)

-----------------------------------------------------------------------------
(* Behaviour *)

SortedKeys(s) == SelectSeq([k \in Keys |-> k], LAMBDA k : k \in s)

\* A derived index rebuilt from a scan of some keys.
MapInit ==
    \E s \in SUBSET Keys :
        /\ content = [k \in s |-> 0]
        /\ map = BuildBalanced([i \in 1..Cardinality(s) |-> <<SortedKeys(s)[i], 0>>])

InsertOrAssign ==
    \E k \in Keys :
        /\ map' = InsertKey(map, k, 1)
        /\ content' = (k :> 1) @@ content

Erase ==
    \E k \in Keys :
        /\ map' = RemoveKey(map, k)
        /\ content' = [x \in DOMAIN content \ {k} |-> content[x]]

MapNext == InsertOrAssign \/ Erase

MapSpec == MapInit /\ [][MapNext]_mapVars

-----------------------------------------------------------------------------
(* Properties *)

\* Sibling heights differ by at most one; the cached heights and sizes are right.
RECURSIVE IsAvl(_)
IsAvl(n) ==
    n # Nil => /\ n.left.height - n.right.height \in -1..1
               /\ n.height = 1 + Larger(n.left.height, n.right.height)
               /\ n.count = 1 + n.left.count + n.right.count
               /\ IsAvl(n.left) /\ IsAvl(n.right)

\* Any sequence of updates of a rebuilt map leaves it an AVL tree, and every
\* lookup the indexes use answers as the plain function would: exact hits,
\* the neighbours of keys that are not there, and ordered visits from any key.
LookupsAgree ==
    /\ IsAvl(map) /\ map.count = Cardinality(DOMAIN content)
    /\ \A k \in Keys :
           LET below == Reverse(SortedKeys({x \in DOMAIN content : x <= k}))
               above == SortedKeys({x \in DOMAIN content : x >= k})
               first(s) == IF s = <<>> THEN <<>> ELSE <<s[1], content[s[1]]>>
           IN /\ Find(map, k) = IF k \in DOMAIN content THEN <<k, content[k]>> ELSE <<>>
              /\ Predecessor(map, k, <<>>) = first(below)
              /\ LowerBound(map, k, <<>>) = first(above)
              /\ VisitFrom(map, k) = [i \in 1..Len(above) |-> <<above[i], content[above[i]]>>]
=============================================================================
