--------------------------- MODULE SequenceOrder ---------------------------
(***************************************************************************)
(* FugueMax placement (crdt/SequenceOrder.cpp, crdt/Placement.h).          *)
(*                                                                         *)
(* A list is a sequence of entries.  Each entry has the identity "origin"  *)
(* and a "link": the parent it hangs from (NoId is the virtual root), the  *)
(* side of that parent, and the right origin (NoId is the end of the list) *)
(* it had when it was minted.  Entries are runs of one item, which is what *)
(* an IdList stores; a text fragment is a chain of such items, so the run  *)
(* skipping of the code is a shortcut over the same item positions.        *)
(*                                                                         *)
(* The operators take the list as an argument and are total functions of   *)
(* it.  A position is an index of the sequence, 0 means "not found" and    *)
(* Len + 1 is the end of the list.                                         *)
(***************************************************************************)
EXTENDS Clock, Sequences, SequencesExt

Link == [parent : Identity \cup {NoId}, side : {"Left", "Right"},
         rightOrigin : Identity \cup {NoId}]

\* Index::find, find_item
Find(list, id) == SelectInSeq(list, LAMBDA e : e.origin = id)

\* The entries met when climbing from position x towards the root: x itself,
\* then parents for as long as they are in the list.  The fold bounds the
\* climb as the code's guard does, so a cycle cannot loop.
Path(list, x) ==
    LET up(p)       == IF p = 0 THEN 0 ELSE Find(list, list[p].link.parent)
        climb(S, e) == UNION {{p, up(p)} : p \in S}
    IN  FoldLeft(climb, {x}, list) \cap DOMAIN list

\* Walker::top_child : the ancestor-or-self of x that is a direct child of
\* "ancestor", or 0 when x is not below it.
TopChild(list, x, ancestor) ==
    LET tops == {p \in Path(list, x) : list[p].link.parent = ancestor}
    IN  IF tops = {} THEN 0 ELSE CHOOSE p \in tops : TRUE

Descendant(list, x, ancestor) == TopChild(list, x, ancestor) # 0

\* Walker::rank : where a right origin sits; the end of the list sorts last
\* and 0 means the origin is not in the list.
Rank(list, rightOrigin) ==
    IF rightOrigin = NoId THEN Len(list) + 1 ELSE Find(list, rightOrigin)

\* Mutant of MintLink: the right child of the virtual root is overlooked.
MintRightOfRoot(list, left) ==
    LET after == IF left = NoId THEN 1 ELSE Find(list, left) + 1
        right == IF after > Len(list) THEN NoId ELSE list[after].origin
    IN  IF left # NoId /\ right # NoId /\ Descendant(list, after, left)
        THEN [parent |-> right, side |-> "Left", rightOrigin |-> right]
        ELSE [parent |-> left, side |-> "Right", rightOrigin |-> right]

\* mint_link : the link of a new entry that must sit immediately after "left"
\* (the start of the list for NoId).
MintLink(list, left) ==
    LET after == IF left = NoId THEN 1 ELSE Find(list, left) + 1
        right == IF after > Len(list) THEN NoId ELSE list[after].origin
        hasRightChild ==
            right # NoId /\ (left = NoId \/ Descendant(list, after, left))
    IN  IF hasRightChild
        THEN [parent |-> right, side |-> "Left", rightOrigin |-> right]
        ELSE [parent |-> left, side |-> "Right", rightOrigin |-> right]

\* Mutant of FinalAppend: any right child with END as its right origin.
AppendWithoutParent(list, link) == link.side = "Right" /\ link.rightOrigin = NoId

\* has_final_append_preconditions
FinalAppend(list, link) ==
    /\ link.side = "Right"
    /\ link.rightOrigin = NoId
    /\ IF link.parent = NoId THEN list = <<>>
       ELSE list # <<>> /\ Last(list).origin = link.parent

\* integrate_impl, right side: the right children of the parent are consecutive
\* subtrees from "start" on.  The code walks them a subtree at a time
\* (skip_subtree) and stops before the first child the incoming entry precedes:
\* later right origin first, then lower identity.  All the items of a subtree
\* have the same top child, so the stop is the first position whose top child
\* the entry precedes, or the first position outside the parent's subtree.
\* 0 when the entry's right origin, or one the walk compares with, is missing.
RightSlot(list, entry, start) ==
    LET mine      == Rank(list, entry.link.rightOrigin)
        theirs(c) == Rank(list, list[c].link.rightOrigin)
        child(p)  == IF p > Len(list) THEN 0 ELSE TopChild(list, p, entry.link.parent)
        before(c) == \/ mine > theirs(c)
                     \/ mine = theirs(c) /\ IdLess(entry.origin, list[c].origin)
        stop(c)   == c = 0 \/ theirs(c) = 0 \/ before(c)
        known(c)  == c # 0 => theirs(c) # 0
        slot(at)  == IF mine = 0 \/ ~known(child(at)) THEN 0 ELSE at
    IN  slot(Min({p \in start .. Len(list) + 1 : stop(child(p))}))

\* integrate_impl, left side: the left subtrees of the parent end immediately
\* before it and are ordered by identity.
LeftSlot(list, entry, parent) ==
    LET child(p) == TopChild(list, p, entry.link.parent)
        start == Min({p \in 1 .. parent : \A q \in p .. parent - 1 : child(q) # 0})
    IN  Min({p \in start .. parent :
                p = parent \/ IdLess(entry.origin, list[child(p)].origin)})

\* integrate_impl : the slot the entry is inserted at, 0 when it is refused
\* because something its link names is not in the list.
Slot(list, entry) ==
    LET link    == entry.link
        parent  == Find(list, link.parent)
        refused == IF link.parent = NoId THEN link.side = "Left" ELSE parent = 0
    IN  IF FinalAppend(list, link) THEN Len(list) + 1
        ELSE IF refused THEN 0
        ELSE IF link.side = "Right" THEN RightSlot(list, entry, parent + 1)
        ELSE LeftSlot(list, entry, parent)

\* integrate : a refused entry leaves the list as it was.
Integrate(list, entry) ==
    IF Slot(list, entry) = 0 THEN list
    ELSE InsertAt(list, Slot(list, entry), entry)

\* The list without some of its entries: its k-th entry is at the first position
\* where k of the kept entries have been passed.
Kept(list, gone) ==
    LET kept   == {i \in DOMAIN list : list[i] \notin gone}
        kth(k) == Min({i \in DOMAIN list : Cardinality(kept \cap (1 .. i)) >= k})
    IN  [k \in 1 .. Cardinality(kept) |-> list[kth(k)]]

\* check_consistency : what a restored list must satisfy.
Consistent(list) ==
    \A i \in DOMAIN list :
        LET link   == list[i].link
            parent == Find(list, link.parent)
            ro     == Find(list, link.rightOrigin)
        IN  /\ link.parent = NoId => link.side = "Right"
            /\ link.parent # NoId /\ link.side = "Right" => parent \in 1 .. i-1
            /\ link.side = "Left" =>
                 parent > i /\ link.rightOrigin = link.parent
            /\ link.rightOrigin # NoId =>
                 ro # 0 /\ (link.side = "Right" => i < ro)
=============================================================================
