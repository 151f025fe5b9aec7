------------------------------- MODULE SumTree -------------------------------
(***************************************************************************)
(* The copy-on-write B+-tree that holds the fragments of a text, and the   *)
(* directories that find a run in it (NodeDirectory, RunDirectory).  Nodes *)
(* live in a heap because versions of a tree share them: ensure_mutable    *)
(* clones a node that another owner can reach, and every path goes down    *)
(* from the root, so a node's use_count exceeds one exactly when it is     *)
(* reachable from another version.  Every version is compared with the     *)
(* plain sequence it stands for.                                           *)
(***************************************************************************)
EXTENDS Integers, FiniteSets, SequencesExt, TLC

CONSTANTS
    B,            \* the branching factor: a node holds B to 2B entries
    Starts,       \* trees to start with: <<items pushed, rank, items inserted there>>
    Replacements, \* bounds: sizes of the trees splice_range puts in
    LaterRanks,   \* bound: ranks used by the second and later operations
    MaxTreeOps    \* bound: operations on the trees

ASSUME SumTreeAssumption == B >= 2 /\ MaxTreeOps \in Nat

MaxChildren == 2 * B

VARIABLES
    heap,     \* [address -> Node]
    trees,    \* [Version -> SumTree and the directories of its owner]
    lists,    \* [Version -> Seq(Item)]: what each tree must hold
    treeOps,  \* operations done
    lastItem  \* the last item made

treeVars == <<heap, trees, lists, treeOps, lastItem>>

Version == {1, 2}
Rank == 1   \* RetainedRunOffset: every item counts one
Width == 2  \* VisibleOffset: an invisible item counts nothing

-----------------------------------------------------------------------------
(* Nodes *)

Plus(a, b) == <<a[1] + b[1], a[2] + b[2]>>
Total(sums) == FoldLeft(Plus, <<0, 0>>, sums)
ItemSummary(item) == <<1, item.width>>

\* Entries are items in a leaf and addresses above; sums are the summaries the
\* node keeps of them.
Node(id, height, entries, sums) ==
    [id |-> id, height |-> height, entries |-> entries, sums |-> sums, sum |-> Total(sums)]

LeafOf(id, items) ==
    Node(id, 0, items, [i \in 1..Len(items) |-> ItemSummary(items[i])])

\* One operation's view: the heap, the nodes other owners reach, the next node id.
Memory(h, frozen, next) == [h |-> h, frozen |-> frozen, next |-> next]

Put(m, p, node) == [m EXCEPT !.h = (p :> node) @@ @]
Fresh(m) == Cardinality(DOMAIN m.h) + 1

\* make_leaf, make_internal
Make(m, node) ==
    LET p == Fresh(m) IN [m |-> [Put(m, p, node) EXCEPT !.next = @ + 1], p |-> p]

\* ensure_mutable: the clone keeps the node's id.
MutableMutant(m, p) == [m |-> m, p |-> p]
Mutable(m, p) ==
    IF p \in m.frozen THEN [m |-> Put(m, Fresh(m), m.h[p]), p |-> Fresh(m)]
                      ELSE [m |-> m, p |-> p]

RECURSIVE Reach(_, _)
Reach(h, p) ==
    IF p = 0 THEN {}
    ELSE {p} \cup (IF h[p].height = 0 THEN {}
                   ELSE UNION {Reach(h, c) : c \in Range(h[p].entries)})

RECURSIVE ItemsOf(_, _)
ItemsOf(h, p) ==
    IF p = 0 THEN <<>>
    ELSE IF h[p].height = 0 THEN h[p].entries
    ELSE FoldLeft(LAMBDA s, c : s \o ItemsOf(h, c), <<>>, h[p].entries)

-----------------------------------------------------------------------------
(* Building: a result is [m, p, o], the node and the sibling it overflowed into *)

\* Entries back into node p, which splits when they are too many: B to the
\* left, B + 1 to the right.
Part(node, id, entries, sums, from, upto) ==
    Node(id, node.height, SubSeq(entries, from, upto), SubSeq(sums, from, upto))

Overflowed(made, p) == [m |-> made.m, p |-> p, o |-> made.p]

Fill(m, p, entries, sums) ==
    IF Len(entries) <= MaxChildren
    THEN [m |-> Put(m, p, Part(m.h[p], m.h[p].id, entries, sums, 1, Len(entries))), p |-> p, o |-> 0]
    ELSE Overflowed(Make(Put(m, p, Part(m.h[p], m.h[p].id, entries, sums, 1, B)),
                         Part(m.h[p], m.next, entries, sums, B + 1, Len(entries))), p)

\* Node p takes back its i-th child, and behind it what the child overflowed.
ReplaceEntry(s, i, new) == SubSeq(s, 1, i - 1) \o new \o SubSeq(s, i + 1, Len(s))

Attach(r, p, i) ==
    IF r.o = 0 THEN Fill(r.m, p, ReplaceEntry(r.m.h[p].entries, i, <<r.p>>),
                         ReplaceEntry(r.m.h[p].sums, i, <<r.m.h[r.p].sum>>))
    ELSE Fill(r.m, p, ReplaceEntry(r.m.h[p].entries, i, <<r.p, r.o>>),
              ReplaceEntry(r.m.h[p].sums, i, <<r.m.h[r.p].sum, r.m.h[r.o].sum>>))

\* A root that split gets a parent.
Rooted(r) ==
    IF r.o = 0 THEN [m |-> r.m, p |-> r.p]
    ELSE Make(r.m, Node(r.m.next, r.m.h[r.p].height + 1, <<r.p, r.o>>,
                        <<r.m.h[r.p].sum, r.m.h[r.o].sum>>))

\* push_item_recursive; u is the node, made mutable.
RECURSIVE PushItemIn(_, _)
PushItemIn(u, item) ==
    LET node == u.m.h[u.p]
    IN IF node.height = 0
       THEN Fill(u.m, u.p, Append(node.entries, item), Append(node.sums, ItemSummary(item)))
       ELSE Attach(PushItemIn(Mutable(u.m, Last(node.entries)), item), u.p, Len(node.entries))

\* The root, made mutable; an empty tree gets a leaf first.
MutableRoot(m, p) == IF p = 0 THEN Make(m, LeafOf(m.next, <<>>)) ELSE Mutable(m, p)

\* push_item
PushItem(m, p, item) == Rooted(PushItemIn(MutableRoot(m, p), item))

\* combine_adjacent: one node if they fit, else two with half each.
Distributed(m, l, r, entries, sums) ==
    IF Len(entries) <= MaxChildren
    THEN [m |-> Put(m, l, Part(m.h[l], m.h[l].id, entries, sums, 1, Len(entries))), p |-> l, o |-> 0]
    ELSE LET half == Len(entries) \div 2
         IN [m |-> Put(Put(m, l, Part(m.h[l], m.h[l].id, entries, sums, 1, half)),
                       r, Part(m.h[r], m.h[r].id, entries, sums, half + 1, Len(entries))),
             p |-> l, o |-> r]

CombineMutable(l, b) ==
    Distributed(b.m, l, b.p, b.m.h[l].entries \o b.m.h[b.p].entries, b.m.h[l].sums \o b.m.h[b.p].sums)

CombineWith(a, r) == CombineMutable(a.p, Mutable(a.m, r))


Combine(m, l, r) == CombineWith(Mutable(m, l), r)

\* push_tree_right: a shorter tree goes down the right spine.
RECURSIVE PushTreeRight(_, _)
PushTreeRight(u, other) ==
    LET node == u.m.h[u.p]
    IN Attach(IF node.height = u.m.h[other].height + 1
              THEN Combine(u.m, Last(node.entries), other)
              ELSE PushTreeRight(Mutable(u.m, Last(node.entries)), other), u.p, Len(node.entries))

\* push_tree_left: or down the left spine of a taller one.  Which half of a
\* split is the new node does not matter here.
RECURSIVE PushTreeLeft(_, _)
PushTreeLeft(u, other) ==
    LET node == u.m.h[u.p]
    IN Attach(IF node.height = u.m.h[other].height + 1
              THEN Combine(u.m, other, node.entries[1])
              ELSE PushTreeLeft(Mutable(u.m, node.entries[1]), other), u.p, 1)

IsEmpty(h, p) == p = 0 \/ (h[p].height = 0 /\ h[p].entries = <<>>)

\* push_tree
Joined(m, p, other, difference) ==
    CASE difference = 0 -> Combine(m, p, other)
      [] difference > 0 -> PushTreeRight(Mutable(m, p), other)
      [] difference < 0 -> PushTreeLeft(Mutable(m, other), p)

PushTree(m, p, other) ==
    IF IsEmpty(m.h, other) THEN [m |-> m, p |-> p]
    ELSE IF IsEmpty(m.h, p) THEN [m |-> m, p |-> other]
    ELSE Rooted(Joined(m, p, other, m.h[p].height - m.h[other].height))

Extend(m, p, items) ==
    FoldLeft(LAMBDA t, item : PushItem(t.m, t.p, item), [m |-> m, p |-> p], items)

-----------------------------------------------------------------------------
(* Seeking and mutating in place *)

\* The first entry that ends past the target (Left) or at it (Right), 0 if none.
Past(end, target, bias) == IF bias = "left" THEN target < end ELSE end >= target
EndAt(sums, d, base, i) == FoldLeft(LAMBDA n, x : n + x[d], base, SubSeq(sums, 1, i))
FirstPast(sums, d, base, target, bias) ==
    LET past == {i \in 1..Len(sums) : Past(EndAt(sums, d, base, i), target, bias)}
    IN IF past = {} THEN 0 ELSE CHOOSE i \in past : \A k \in past : i <= k

\* insert_item_recursive: before the entry sought, or behind the last one.
RECURSIVE InsertIn(_, _, _, _, _)
InsertIn(u, target, bias, base, item) ==
    LET node == u.m.h[u.p]
        descend(i) == Attach(InsertIn(Mutable(u.m, node.entries[i]), target, bias,
                                      EndAt(node.sums, Rank, base, i - 1), item), u.p, i)
        place(at) == Fill(u.m, u.p, InsertAt(node.entries, at, item),
                          InsertAt(node.sums, at, ItemSummary(item)))
        chosen(found, n) ==
            IF node.height = 0 THEN place(IF found = 0 THEN n + 1 ELSE found)
                               ELSE descend(IF found = 0 THEN n ELSE found)
    IN chosen(FirstPast(node.sums, Rank, base, target, bias), Len(node.entries))

InsertItem(m, p, target, bias, item) == Rooted(InsertIn(MutableRoot(m, p), target, bias, 0, item))

Turned(item) == [item EXCEPT !.width = 1 - @]

\* edit_item_recursive, with an edit that changes the item's visibility.
RECURSIVE EditIn(_, _, _, _)
EditIn(u, target, bias, base) ==
    LET node == u.m.h[u.p]
        edit(i, item) == Fill(u.m, u.p, ReplaceAt(node.entries, i, item),
                              ReplaceAt(node.sums, i, ItemSummary(item)))
        chosen(i) ==
            IF i = 0 THEN [m |-> u.m, p |-> u.p, o |-> 0]
            ELSE IF node.height = 0 THEN edit(i, Turned(node.entries[i]))
            ELSE Attach(EditIn(Mutable(u.m, node.entries[i]), target, bias,
                               EndAt(node.sums, Rank, base, i - 1)), u.p, i)
    IN chosen(FirstPast(node.sums, Rank, base, target, bias))

\* for_each_node_mut: every item, every summary.
RECURSIVE EditAllIn(_)
EditAllIn(u) ==
    LET node == u.m.h[u.p]
        child(r, i) == Attach(EditAllIn(Mutable(r.m, r.m.h[r.p].entries[i])), r.p, i)
    IN IF node.height = 0
       THEN [m |-> Put(u.m, u.p, LeafOf(node.id, [i \in 1..Len(node.entries) |-> Turned(node.entries[i])])),
             p |-> u.p, o |-> 0]
       ELSE FoldLeft(child, [m |-> u.m, p |-> u.p, o |-> 0], [i \in 1..Len(node.entries) |-> i])

\* remove_item_recursive: an emptied child goes too, but a child left with
\* fewer than B entries stays as it is.
RECURSIVE RemoveIn(_, _, _, _)
RemoveIn(u, target, bias, base) ==
    LET node == u.m.h[u.p]
        without(m, i) == Fill(m, u.p, RemoveAt(node.entries, i), RemoveAt(node.sums, i))
        cleaned(child, i) == IF child.m.h[child.p].entries = <<>> THEN without(child.m, i)
                                                                 ELSE Attach(child, u.p, i)
        chosen(i) ==
            IF i = 0 THEN [m |-> u.m, p |-> u.p, o |-> 0]
            ELSE IF node.height = 0 THEN without(u.m, i)
            ELSE cleaned(RemoveIn(Mutable(u.m, node.entries[i]), target, bias,
                                  EndAt(node.sums, Rank, base, i - 1)), i)
    IN chosen(FirstPast(node.sums, Rank, base, target, bias))

\* remove_item: the root shrinks by one level.
Shrunk(r, root) ==
    CASE root.entries = <<>> -> [m |-> r.m, p |-> 0]
      [] root.height > 0 /\ Len(root.entries) = 1 -> [m |-> r.m, p |-> root.entries[1]]
      [] OTHER -> [m |-> r.m, p |-> r.p]
ShrunkRoot(r) == Shrunk(r, r.m.h[r.p])
RemoveItem(m, p, target, bias) == ShrunkRoot(RemoveIn(Mutable(m, p), target, bias, 0))

-----------------------------------------------------------------------------
(* Cursor: the path of (node, index) and the position before its item *)

NoCursor == [stack |-> <<>>, pos |-> 0]
OnTop(c, index) == [c EXCEPT !.stack = Append(Front(@), [Last(@) EXCEPT !.index = index])]

\* descend_left: the first leaf below p.
RECURSIVE DescendLeft(_, _, _)
DescendLeft(h, c, p) ==
    LET here == [c EXCEPT !.stack = Append(@, [node |-> p, index |-> 1])]
    IN IF h[p].height = 0 THEN here ELSE DescendLeft(h, here, h[p].entries[1])

\* ascend: the parent moves past the child that is finished.
Ascend(c) ==
    LET up == [c EXCEPT !.stack = Front(@)]
    IN IF up.stack = <<>> THEN up ELSE OnTop(up, Last(up.stack).index + 1)

\* settle_at_leaf and advance_to_next_leaf: from an inner node to the first
\* leaf of its current child, over exhausted nodes.
RECURSIVE SettleAtLeaf(_, _)
SettleAtLeaf(h, c) ==
    IF c.stack = <<>> \/ h[Last(c.stack).node].height = 0 THEN c
    ELSE LET top == Last(c.stack)
             children == h[top.node].entries
         IN IF top.index <= Len(children) THEN DescendLeft(h, c, children[top.index])
                                          ELSE SettleAtLeaf(h, Ascend(c))

\* seek_internal
RECURSIVE SeekIn(_, _, _, _, _, _)
SeekIn(h, c, p, d, target, bias) ==
    LET node == h[p]
        here(i) == [stack |-> Append(c.stack, [node |-> p, index |-> i]),
                    pos |-> EndAt(node.sums, d, c.pos, i - 1)]
        chosen(i) ==
            IF i = 0 THEN [c EXCEPT !.pos = @ + node.sum[d]]
            ELSE IF node.height = 0 THEN here(i)
            ELSE SeekIn(h, here(i), node.entries[i], d, target, bias)
    IN chosen(FirstPast(node.sums, d, c.pos, target, bias))

Seek(h, p, d, target, bias) ==
    IF p = 0 THEN NoCursor ELSE SeekIn(h, NoCursor, p, d, target, bias)

\* next
CursorNextMutant(h, c, d) ==
    LET top == Last(c.stack)
        on == [OnTop(c, top.index + 1) EXCEPT !.pos = @ + h[top.node].sums[top.index][d]]
    IN IF top.index < Len(h[top.node].entries) THEN on ELSE SettleAtLeaf(h, Ascend(c))
CursorNext(h, c, d) ==
    LET top == Last(c.stack)
        on == [OnTop(c, top.index + 1) EXCEPT !.pos = @ + h[top.node].sums[top.index][d]]
    IN IF top.index < Len(h[top.node].entries) THEN on ELSE SettleAtLeaf(h, Ascend(on))

\* item and position, here and at every stop to the end.
Here(h, c) ==
    IF c.stack = <<>> THEN <<>>
    ELSE [item |-> h[Last(c.stack).node].entries[Last(c.stack).index], pos |-> c.pos]

RECURSIVE Walk(_, _, _)
Walk(h, c, d) ==
    IF c.stack = <<>> THEN <<>> ELSE <<Here(h, c)>> \o Walk(h, CursorNext(h, c, d), d)

\* slice and suffix: the entries that end by the target go to the result, a
\* leaf's one by one and whole subtrees by pointer; a node that straddles the
\* target is entered.
\* The last entry of a node, from `from` on, that ends by the target.
Fitting(sums, d, from, pos, target) ==
    LET fits == {i \in from..Len(sums) :
                    \A k \in (from + 1)..i :
                        EndAt(SubSeq(sums, from + 1, k), d, pos, k - from) <= target}
    IN Max(fits)

Taken(m, t, node, from, upto) ==
    LET take(r, e) == IF node.height = 0 THEN PushItem(r.m, r.p, e) ELSE PushTree(r.m, r.p, e)
    IN FoldLeft(take, [m |-> m, p |-> t], SubSeq(node.entries, from + 1, upto))

RECURSIVE Slice(_, _, _, _, _)
Slice(m, c, t, d, target) ==
    LET top == Last(c.stack)
        node == m.h[top.node]
        moved(upto) == [OnTop(c, upto + 1) EXCEPT
                            !.pos = EndAt(SubSeq(node.sums, top.index, upto), d, @, upto + 1 - top.index)]
        onward(r, on, upto) ==
            IF upto = Len(node.sums) THEN Slice(r.m, Ascend(on), r.p, d, target)
            ELSE IF node.height = 0 THEN [m |-> r.m, c |-> on, t |-> r.p]
            ELSE Slice(r.m, DescendLeft(r.m.h, on, node.entries[upto + 1]), r.p, d, target)
        past(upto) == onward(Taken(m, t, node, top.index - 1, upto), moved(upto), upto)
    IN IF c.stack = <<>> \/ c.pos >= target THEN [m |-> m, c |-> SettleAtLeaf(m.h, c), t |-> t]
       ELSE past(Fitting(node.sums, d, top.index - 1, c.pos, target))

AtStart(h, p) == IF p = 0 THEN NoCursor ELSE DescendLeft(h, NoCursor, p)

-----------------------------------------------------------------------------
(* splice_range *)

\* split_range_node: the whole subtrees and cut leaves on either side.
AddPrefix(parts, p) == [parts EXCEPT !.prefix = Append(@, p)]
AddSuffix(parts, p) == [parts EXCEPT !.suffix = Append(@, p)]
\* append_leaf_items
AddLeaf(parts, items, add(_, _)) ==
    LET made(r) == add([parts EXCEPT !.m = r.m], r.p)
    IN IF items = <<>> THEN parts ELSE made(Make(parts.m, LeafOf(parts.m.next, items)))

RECURSIVE SplitRange(_, _, _, _, _)
SplitRange(parts, p, begin, end, base) ==
    LET node == parts.m.h[p]
        n == Len(node.sums)
        side(ps, e, from, upto) ==
            CASE upto <= begin -> AddPrefix(ps, e)
              [] from >= end /\ upto > begin -> AddSuffix(ps, e)
              [] begin <= from /\ upto <= end /\ from < end -> ps
              [] OTHER -> SplitRange(ps, e, begin, end, from)
        child(ps, i) == side(ps, node.entries[i], EndAt(node.sums, Rank, base, i - 1),
                             EndAt(node.sums, Rank, base, i))
        within(from, upto) == SubSeq(node.entries, from + 1, upto)
    IN IF node.height > 0 THEN FoldLeft(child, parts, [i \in 1..n |-> i])
       ELSE AddLeaf(AddLeaf(parts, within(0, Max({0, begin - base})), AddPrefix),
                    within(Min({n, end - base}), n), AddSuffix)

\* splice_range, in range: the parts stay shared with the source, and with the
\* vectors that name them, while they are joined.
RangeParts(m, p, begin, end) ==
    LET none == [m |-> m, prefix |-> <<>>, suffix |-> <<>>]
    IN CASE p = 0 \/ (begin = 0 /\ m.h[p].sum[Rank] = end) -> none
         [] p # 0 /\ m.h[p].sum[Rank] <= begin -> AddPrefix(none, p)
         [] p # 0 /\ m.h[p].sum[Rank] > begin /\ end = 0 -> AddSuffix(none, p)
         [] OTHER -> SplitRange(none, p, begin, end, 0)

JoinedParts(parts, replacement) ==
    FoldLeft(LAMBDA r, q : PushTree(r.m, r.p, q),
             [m |-> [parts.m EXCEPT !.frozen = @ \cup Range(parts.prefix) \cup Range(parts.suffix)],
              p |-> 0],
             parts.prefix \o <<replacement>> \o parts.suffix)

SpliceRange(m, p, begin, end, replacement) ==
    IF begin = end /\ IsEmpty(m.h, replacement) THEN [m |-> m, p |-> p]
    ELSE JoinedParts(RangeParts(m, p, begin, end), replacement)

-----------------------------------------------------------------------------
(* NodeDirectory and RunDirectory: non-owning, refreshed along a path *)

NoDirectory == [nodes |-> <<>>, runs |-> <<>>]

\* visit_node_path: the nodes from the root to the item at a rank.
RECURSIVE PathTo(_, _, _, _, _, _)
PathTo(h, p, parent, slot, target, base) ==
    LET node == h[p]
        i == FirstPast(node.sums, Rank, base, target, "left")
        here == <<[node |-> p, parent |-> parent, slot |-> slot]>>
    IN IF node.height = 0 \/ i = 0 THEN here
       ELSE here \o PathTo(h, node.entries[i], node.id, i, target, EndAt(node.sums, Rank, base, i - 1))

Children(h, p) ==
    IF h[p].height = 0 THEN {}
    ELSE {[node |-> h[p].entries[i], parent |-> h[p].id, slot |-> i] : i \in DOMAIN h[p].entries}

Recorded(h, places) ==
    [id \in {h[x.node].id : x \in places} |-> CHOOSE x \in places : h[x.node].id = id]

\* refresh_path: the path and the children of its nodes.
RefreshPath(h, p, nodes, target) ==
    LET path == Range(PathTo(h, p, 0, 0, target, 0))
    IN Recorded(h, path \cup UNION {Children(h, x.node) : x \in path}) @@ nodes

\* for_each_leaf_near_path: the leaf and its siblings.
LeavesNear(h, p, target) ==
    LET path == PathTo(h, p, 0, 0, target, 0)
    IN IF Len(path) = 1 THEN {p} ELSE Range(h[path[Len(path) - 1].node].entries)

Located(h, leaves) ==
    LET at == {<<q, i>> \in leaves \X (1..MaxChildren) : i <= Len(h[q].entries)}
        idOf(x) == h[x[1]].entries[x[2]].id
    IN [id \in {idOf(x) : x \in at} |->
            LET x == CHOOSE y \in at : idOf(y) = id IN [leaf |-> h[x[1]].id, slot |-> x[2]]]

\* rebuild_from, as set_fragments calls it.
Rebuilt(h, p) ==
    LET all == Reach(h, p)
        root == IF p = 0 THEN {} ELSE {[node |-> p, parent |-> 0, slot |-> 0]}
    IN [nodes |-> Recorded(h, root \cup UNION {Children(h, q) : q \in all}),
        runs |-> Located(h, {q \in all : h[q].height = 0})]

\* rank_of_item: up the recorded parents, each edge checked against the node
\* it claims; -1 when an edge is stale.
ChildIsMutant(parent, slot, node) == slot <= Len(parent.entries)
ChildIs(parent, slot, node) == slot <= Len(parent.entries) /\ parent.entries[slot] = node

RECURSIVE Climb(_, _, _, _, _, _)
Climb(h, live, root, nodes, p, rank) ==
    LET id == h[p].id
        place == nodes[id]
        up == nodes[place.parent]
        parent == h[up.node]
    IN IF id \notin DOMAIN nodes \/ place.node # p THEN -1
       ELSE IF place.parent = 0 THEN (IF p = root THEN rank ELSE -1)
       ELSE IF \/ place.parent \notin DOMAIN nodes
               \/ up.node \notin live
               \/ parent.id # place.parent \/ parent.height = 0
               \/ ~ChildIs(parent, place.slot, p) THEN -1
       ELSE Climb(h, live, root, nodes, up.node, rank + EndAt(parent.sums, Rank, 0, place.slot - 1))

\* Buffer::retained_rank_for_run: the run's leaf and slot must still show the
\* run before its rank is composed.
RankForRun(h, live, tree, run) ==
    LET at == tree.dir.runs[run]
        place == tree.dir.nodes[at.leaf]
        leaf == h[place.node]
    IN IF \/ run \notin DOMAIN tree.dir.runs
          \/ at.leaf \notin DOMAIN tree.dir.nodes
          \/ place.node \notin live
          \/ leaf.id # at.leaf \/ leaf.height # 0
          \/ at.slot > Len(leaf.entries) \/ leaf.entries[at.slot].id # run THEN -1
       ELSE Climb(h, live, tree.root, tree.dir.nodes, place.node, at.slot - 1)

-----------------------------------------------------------------------------
(* Behaviour *)

Item(n) == [id |-> n, width |-> n % 2]
Items(first, n) == [i \in 1..n |-> Item(first + i)]

Empty == [root |-> 0, next |-> 1, dir |-> NoDirectory, full |-> TRUE]

\* The directories after an insertion or append at a rank.
RefreshedDir(dir, r, rank) ==
    IF dir = NoDirectory THEN dir
    ELSE [nodes |-> RefreshPath(r.m.h, r.p, dir.nodes, rank),
          runs |-> Located(r.m.h, LeavesNear(r.m.h, r.p, rank)) @@ dir.runs]

\* A tree as set_fragments builds it, with push_item and rebuilt directories,
\* and then some insertions at one rank.
Built(t, items) == [m |-> t.m, p |-> t.p, dir |-> Rebuilt(t.m.h, t.p), list |-> items]

InsertedAt(t, r, rank, item) ==
    [m |-> r.m, p |-> r.p, dir |-> RefreshedDir(t.dir, r, rank), list |-> InsertAt(t.list, rank + 1, item)]

StartWith(t) ==
    /\ heap = t.m.h
    /\ trees = <<[root |-> t.p, next |-> t.m.next, dir |-> t.dir, full |-> TRUE], Empty>>
    /\ lists = <<t.list, <<>>>>
    /\ lastItem = Len(t.list)

TreeInit ==
    /\ treeOps = 0
    /\ \E start \in Starts :
          LET insert(t, i) ==
                  InsertedAt(t, InsertItem(t.m, t.p, start[2], "left", Item(i)), start[2], Item(i))
          IN StartWith(FoldLeft(insert, Built(Extend(Memory(<<>>, {}, 1), 0, Items(0, start[1])),
                                              Items(0, start[1])),
                                [i \in 1..start[3] |-> start[1] + i]))

Other(v) == 3 - v
Size(v) == Len(lists[v])
Ranks(v) == IF treeOps = 0 THEN 0..Size(v) ELSE LaterRanks \cap (0..Size(v))

\* What other owners reach while version v changes: the other version, and v
\* itself when the caller works on a copy it publishes afterwards.
Owned(v, copied) ==
    Memory(heap, Reach(heap, trees[Other(v)].root)
                     \cup (IF copied THEN Reach(heap, trees[v].root) ELSE {}), trees[v].next)

\* The result r becomes version v with directories dir.
Publish(v, r, list, dir, full) ==
    /\ treeOps < MaxTreeOps
    /\ treeOps' = treeOps + 1
    /\ heap' = r.m.h
    /\ trees' = [trees EXCEPT ![v] = [root |-> r.p, next |-> r.m.next, dir |-> dir, full |-> full]]
    /\ lists' = [lists EXCEPT ![v] = list]

\* A copy of a tree shares its root.
Copy(v) ==
    /\ treeOps < MaxTreeOps
    /\ treeOps' = treeOps + 1
    /\ trees' = [trees EXCEPT ![Other(v)] = trees[v]]
    /\ lists' = [lists EXCEPT ![Other(v)] = lists[v]]
    /\ UNCHANGED <<heap, lastItem>>

\* try_append_fragment
AppendItem(v) ==
    LET r == PushItem(Owned(v, TRUE), trees[v].root, Item(lastItem + 1))
    IN /\ Publish(v, r, Append(lists[v], Item(lastItem + 1)), RefreshedDir(trees[v].dir, r, Size(v)), trees[v].full)
       /\ lastItem' = lastItem + 1

\* try_insert_fragment_at_rank
InsertAtRank(v) ==
    \E rank \in Ranks(v) :
        LET r == InsertItem(Owned(v, TRUE), trees[v].root, rank, "left", Item(lastItem + 1))
        IN /\ Publish(v, r, InsertAt(lists[v], rank + 1, Item(lastItem + 1)),
                      RefreshedDir(trees[v].dir, r, rank), trees[v].full)
           /\ lastItem' = lastItem + 1

\* edit_item on a copy (a deletion) or in place (recompute_visibility_for),
\* then refresh_path; the runs stay where they are.
EditAtRank(v) ==
    \E rank \in Ranks(v) \ {Size(v)}, copied \in BOOLEAN :
        LET e == EditIn(Mutable(Owned(v, copied), trees[v].root), rank, "left", 0)
            dir == trees[v].dir
        IN /\ Publish(v, e, ReplaceAt(lists[v], rank + 1, Turned(lists[v][rank + 1])),
                      IF dir = NoDirectory THEN dir
                      ELSE [dir EXCEPT !.nodes = RefreshPath(e.m.h, e.p, @, rank)], trees[v].full)
           /\ UNCHANGED lastItem

\* for_each_mut, then NodeDirectory::rebuild_from.
EditAll(v) ==
    /\ trees[v].root # 0
    /\ LET r == EditAllIn(Mutable(Owned(v, FALSE), trees[v].root))
           dir == trees[v].dir
       IN Publish(v, r, [i \in 1..Size(v) |-> Turned(lists[v][i])],
                  IF dir = NoDirectory THEN dir ELSE [dir EXCEPT !.nodes = Rebuilt(r.m.h, r.p).nodes],
                  trees[v].full)
    /\ UNCHANGED lastItem

\* remove_item, which gives up the minimum occupancy.
RemoveAtRank(v) ==
    \E rank \in Ranks(v) \ {0} :
        /\ Publish(v, RemoveItem(Owned(v, FALSE), trees[v].root, rank, "right"),
                   RemoveAt(lists[v], rank), NoDirectory, FALSE)
        /\ UNCHANGED lastItem

\* splice_range of v, kept as the other version.
Splice(v) ==
    \E begin, end \in Ranks(v), n \in Replacements :
        /\ begin <= end
        /\ LET new == Extend(Owned(v, TRUE), 0, Items(lastItem, n))
           IN /\ Publish(Other(v), SpliceRange(new.m, trees[v].root, begin, end, new.p),
                         SubSeq(lists[v], 1, begin) \o Items(lastItem, n)
                             \o SubSeq(lists[v], end + 1, Size(v)), NoDirectory, trees[v].full)
              /\ lastItem' = lastItem + n

\* UndoMap::insert and OperationQueue: slice, push, skip a slice, suffix, kept
\* as the other version.
SlicedThenPushed(m, p, upto, item) ==
    LET pushed(r) == [r EXCEPT !.m = PushItem(r.m, r.t, item).m, !.t = PushItem(r.m, r.t, item).p]
    IN pushed(Slice(m, AtStart(m.h, p), 0, Rank, upto))

Resumed(r, from, size) ==
    LET rest(skipped) == Slice(skipped.m, skipped.c, 0, Rank, size + 1)
        joined(last) == PushTree(last.m, r.t, last.t)
    IN joined(rest(Slice(r.m, r.c, 0, Rank, from)))

Reassemble(v) ==
    \E upto \in Ranks(v) : \E from \in {upto, upto + 3} \cap (0..Size(v)) :
        /\ Publish(Other(v), Resumed(SlicedThenPushed(Owned(v, TRUE), trees[v].root, upto,
                                                      Item(lastItem + 1)), from, Size(v)),
                   Append(SubSeq(lists[v], 1, upto), Item(lastItem + 1))
                       \o SubSeq(lists[v], from + 1, Size(v)), NoDirectory, trees[v].full)
        /\ lastItem' = lastItem + 1

TreeNext ==
    \E v \in Version :
        \/ Copy(v) \/ AppendItem(v) \/ InsertAtRank(v) \/ EditAtRank(v) \/ EditAll(v)
        \/ RemoveAtRank(v) \/ Splice(v) \/ Reassemble(v)

TreeSpec == TreeInit /\ [][TreeNext]_treeVars

-----------------------------------------------------------------------------
(* Properties *)

\* has_valid_summaries: every cached summary is the sum of what it stands for.
RECURSIVE SummariesValid(_, _)
SummariesValid(h, p) ==
    LET node == h[p]
        of(e) == IF node.height = 0 THEN ItemSummary(e) ELSE h[e].sum
    IN /\ node.sums = [i \in 1..Len(node.entries) |-> of(node.entries[i])]
       /\ node.sum = Total(node.sums)
       /\ node.height > 0 => \A c \in Range(node.entries) : SummariesValid(h, c)

\* has_valid_occupancy: every node but the root has between B and 2B entries,
\* and all leaves are at one depth.
RECURSIVE OccupancyValid(_, _, _)
OccupancyValid(h, p, least) ==
    LET node == h[p]
    IN /\ Len(node.entries) \in least..MaxChildren
       /\ node.height > 0 => \A c \in Range(node.entries) :
              h[c].height + 1 = node.height /\ OccupancyValid(h, c, B)

\* Every version holds exactly its own sequence, in a valid tree: mutating,
\* splicing or slicing one version never shows through the nodes it shares
\* with the other, no item is lost, repeated or moved by a split or a join of
\* trees of any heights, the summaries a mutation leaves behind are right at
\* every level, and so is the occupancy unless remove_item was used.
VersionsHoldTheirItems ==
    \A v \in Version :
        /\ ItemsOf(heap, trees[v].root) = lists[v]
        /\ trees[v].root # 0 =>
              /\ SummariesValid(heap, trees[v].root)
              /\ trees[v].full => OccupancyValid(heap, trees[v].root, 1)

NoStop == [at |-> <<>>]
Stops(list, d) ==
    LET stop(s, item) ==
            LET from == IF s = <<>> THEN 0 ELSE Last(s).end
            IN Append(s, [at |-> [item |-> item, pos |-> from], end |-> from + ItemSummary(item)[d]])
    IN FoldLeft(stop, <<>>, list)

\* A cursor finds, by rank or by visible width and with either bias, the item
\* the plain sequence has there, and visits the rest of the sequence with the
\* right positions, whatever shape the tree has and however many invisible
\* items lie at the target.
CursorsAgree ==
    \A v \in Version, d \in {Rank, Width} : \A stops \in {Stops(lists[v], d)} :
        LET n == Len(stops)
            first(target, bias) ==
                Min({n + 1} \cup {i \in 1..n : Past(stops[i].end, target, bias)})
        IN /\ \A target \in 0..n, bias \in {"left", "right"} :
                  Here(heap, Seek(heap, trees[v].root, d, target, bias))
                      = Head(Append(SubSeq(stops, first(target, bias), n), NoStop)).at
           /\ \A target \in {0, n \div 2} :
                  Walk(heap, Seek(heap, trees[v].root, d, target, "right"), d)
                      = [i \in 1..(n + 1 - first(target, "right")) |->
                            stops[i - 1 + first(target, "right")].at]

\* NodeDirectory.h: a stale directory cannot turn into a plausible but
\* incorrect rank.  Directories are refreshed only along the changed path
\* while splits move other nodes; the rank composed through them is the run's
\* place in this version or nothing.
RanksAreTrue ==
    \A v \in Version :
        LET live == Reach(heap, trees[1].root) \cup Reach(heap, trees[2].root)
        IN \A run \in DOMAIN trees[v].dir.runs :
               LET rank == RankForRun(heap, live, trees[v], run)
               IN rank = -1 \/ (rank < Len(lists[v]) /\ lists[v][rank + 1].id = run)
=============================================================================
