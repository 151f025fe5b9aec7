----------------------------- MODULE TextBuffer -----------------------------
(***************************************************************************)
(* The text engine (crdt/Buffer.cpp, crdt/Fragment.h): a document is a     *)
(* sequence of fragments, runs of consecutive items of one operation, with *)
(* indexes from identities to fragments.  A local edit is tried on direct  *)
(* paths that change a few fragments and their index rows; when all refuse *)
(* it takes the general path, which mints, deletes and integrates on a     *)
(* copy of the sequence.  A remote edit has two direct paths of its own.   *)
(*                                                                         *)
(* An item is one scalar of one byte, so byte offsets count items; the     *)
(* text is the sequence of the visible items.  A run id is named by the    *)
(* identity its origin row starts at: a row is looked up by that start,    *)
(* and no two rows share one.  "located" holds the runs whose location     *)
(* (leaf and slot) the directories resolve; the leaves refreshed around an *)
(* edited rank hold the whole of the small documents checked here.         *)
(***************************************************************************)
EXTENDS LocalHistory

CONSTANTS
    Seeder,       \* seed_actor: the actor derived from the seed's content
    SeedLength,   \* items of the seed operation, which every replica applies
    Lengths,      \* lengths of an inserted text; 0 for a plain deletion
    MaxDeferred,  \* m_deferred_budget.max_operations
    MaxQuarantined, \* m_quarantine_budget.max_operations
    Plans         \* bounds: what the replicas do, see Plan

\* Local edits, undos and redos of each replica; collections, restored
\* checkpoints and gaps, and the replicas these happen at.
Feature == {"ranges", "markers", "gaps", "mistaken", "collect", "restore"}
Plan == [edits : [Actor -> Nat], toggles : [Actor -> Nat], upkeep : Nat,
         upkept : SUBSET Actor, features : SUBSET Feature]

ASSUME TextAssumption ==
    /\ Seeder \in Actor
    /\ SeedLength \in Nat \ {0} /\ Lengths \subseteq Nat
    /\ MaxDeferred \in Nat /\ MaxQuarantined \in Nat /\ Plans \subseteq Plan

VARIABLES
    buffer,  \* replica -> its Buffer
    sent,    \* every operation and counter gap ever published
    texts,   \* history: version -> the text a replica had at it
    agreed,  \* history: direct paths gave what the general path gives
    upkeep,  \* how many of plan.upkeep have happened
    plan     \* the plan of this behaviour

vars == <<buffer, sent, texts, agreed, upkeep, plan>>

-----------------------------------------------------------------------------
(* Fragments *)

Later(id, k) == [id EXCEPT !.counter = @ + k]

\* Fragment::item_at, link_at
ItemAt(f, k) == Later(f.origin, k)
LinkAt(f, k) ==
    IF k = 0 THEN f.link
    ELSE [parent |-> ItemAt(f, k - 1), side |-> "Right", rightOrigin |-> f.link.rightOrigin]

Within(f, id) ==
    /\ id.actor = f.origin.actor
    /\ id.counter \in f.origin.counter .. f.origin.counter + f.length - 1

\* Fragment::split_off, at every offset of "cuts": the pieces in order.
Pieces(f, cuts) ==
    LET end(starts, j) == IF j = Len(starts) THEN f.length ELSE starts[j + 1]
        cut(starts) == [j \in DOMAIN starts |->
            [f EXCEPT !.origin = ItemAt(f, starts[j]), !.link = LinkAt(f, starts[j]),
                      !.length = end(starts, j) - starts[j]]]
    IN  cut(SetToSortSeq({0} \cup (cuts \cap 1 .. f.length - 1), <))

NewRun(origin, link, length, marker) ==
    [origin |-> origin, link |-> link, length |-> length, deletions |-> {},
     visible |-> TRUE, marker |-> marker]

\* UndoMap::undo_count and is_undone; was_undone counts only what v observed.
Highest(counts) == IF counts = {} THEN 0 ELSE Max(counts)
UndoCount(undo, id) == Highest({u.count : u \in {w \in undo : w.edit = id}})
IsUndone(undo, id) == UndoCount(undo, id) % 2 = 1
WasUndone(undo, id, v) ==
    Highest({u.count : u \in {w \in undo : w.edit = id /\ Observed(v, w.by)}}) % 2 = 1

\* Fragment::compute_visible
ComputeVisible(undo, f) ==
    ~IsUndone(undo, f.origin) /\ \A d \in f.deletions : IsUndone(undo, d)

\* Mutant of WasVisibleAt: deletions are taken as they are undone now.
WasVisibleNow(undo, f, v) ==
    /\ Observed(v, f.origin) /\ ~WasUndone(undo, f.origin, v)
    /\ \A d \in f.deletions : Observed(v, d) => IsUndone(undo, d)

\* Fragment::was_visible_at
WasVisibleAt(undo, f, v) ==
    /\ Observed(v, f.origin) /\ ~WasUndone(undo, f.origin, v)
    /\ \A d \in f.deletions : Observed(v, d) => WasUndone(undo, d, v)

\* The summary of a fragment and the prefix sums a cursor seeks by.
Bytes(f) == IF f.visible /\ ~f.marker THEN f.length ELSE 0
Before(frags, i) == FoldLeft(LAMBDA n, f : n + Bytes(f), 0, SubSeq(frags, 1, i - 1))
VisibleLength(frags) == Before(frags, Len(frags) + 1)

\* cursor<VisibleOffset>.seek(off, Left) : the first fragment that ends beyond
\* the offset, or 0.
Seek(frags, off) ==
    LET beyond == {i \in DOMAIN frags : Before(frags, i + 1) > off}
    IN  IF beyond = {} THEN 0 ELSE Min(beyond)

\* The items of the document in order, with the fragment that holds each.
Items(frags) ==
    FlattenSeq([i \in DOMAIN frags |->
        [k \in 1 .. frags[i].length |->
            [origin |-> ItemAt(frags[i], k - 1), link |-> LinkAt(frags[i], k - 1),
             run |-> i, offset |-> k - 1, deletions |-> frags[i].deletions,
             visible |-> frags[i].visible, marker |-> frags[i].marker]]])

\* Buffer::text, as identities
Text(frags) ==
    LET origins(items) == [i \in DOMAIN items |-> items[i].origin]
    IN  origins(SelectSeq(Items(frags), LAMBDA e : e.visible /\ ~e.marker))

\* visible_element_before, visible_element_before_tree
ElementBefore(frags, off) == IF off = 0 THEN NoId ELSE Text(frags)[off]

Splice(frags, i, pieces) ==
    SubSeq(frags, 1, i - 1) \o pieces \o SubSeq(frags, i + 1, Len(frags))

\* split_at_visible_offset
SplitAtVisible(frags, off) ==
    LET split(i) == IF i = 0 THEN frags
                    ELSE Splice(frags, i, Pieces(frags[i], {off - Before(frags, i)}))
    IN  split(Seek(frags, off))

InsertIn(frags, item, run) ==
    LET cut == Pieces(frags[item.run], {item.offset})
    IN  IF item.offset = 0 THEN InsertAt(frags, item.run, run)
        ELSE Splice(frags, item.run, <<cut[1], run, cut[2]>>)

\* SequenceOrder::integrate over fragments: the run goes before the item its
\* first item precedes, splitting the fragment that holds it; << >> is refusal.
IntegrateRun(frags, run) ==
    LET insert(items, slot) ==
            IF slot = 0 THEN << >>
            ELSE IF slot > Len(items) THEN Append(frags, run)
            ELSE InsertIn(frags, items[slot], run)
    IN  insert(Items(frags), Slot(Items(frags), run))

-----------------------------------------------------------------------------
(* Index rows: m_origin_index, m_deletion_index, m_run_directory.          *)

Row(f) == [first |-> f.origin, end |-> f.origin.counter + f.length]
Rows(fs) == {Row(f) : f \in fs}
Incidences(fs) ==
    UNION {{[deletion |-> d, first |-> f.origin, end |-> Row(f).end] : d \in f.deletions} : f \in fs}

\* OriginIndex::locate : the rows (at most one) that contain the identity.
Containing(b, id) ==
    {row \in b.origins : /\ row.first.actor = id.actor
                         /\ row.first.counter <= id.counter /\ id.counter < row.end}

\* retained_rank_for_run, locate_retained_identity : the fragment is reached
\* through its row, its run's location and the leaf that still holds it.
Resolves(b, f) == b.valid /\ Row(f) \in b.origins /\ f.origin \in b.located

Locate(b, id) ==
    LET at == {i \in DOMAIN b.frags : Within(b.frags[i], id) /\ Resolves(b, b.frags[i])}
    IN  IF at = {} THEN 0 ELSE CHOOSE i \in at : TRUE

\* Mutant of Publish: the new fragments get no rows for their deletions.
PublishMutant(b, frags, gone, new) ==
    [b EXCEPT !.frags   = frags,
              !.origins = (@ \ Rows(gone)) \cup Rows(new),
              !.dels    = @ \ Incidences(gone),
              !.located = {f.origin : f \in ToSet(frags)}]

\* The staged publication at the end of every direct path: the rows of the
\* fragments that are gone are erased, those of the new ones inserted, and the
\* locations around them refreshed.
Publish(b, frags, gone, new) ==
    [b EXCEPT !.frags   = frags,
              !.origins = (@ \ Rows(gone)) \cup Rows(new),
              !.dels    = (@ \ Incidences(gone)) \cup Incidences(new),
              !.located = {f.origin : f \in ToSet(frags)}]

\* set_fragments : visibility is recomputed; the indexes take the difference
\* when they account for every old fragment, and are rebuilt when they do not.
SetFragments(b, staged) ==
    LET frags   == [i \in DOMAIN staged |->
                      [staged[i] EXCEPT !.visible = ComputeVisible(b.undo, staged[i])]]
        old     == ToSet(b.frags)
        new     == ToSet(frags)
        same(f, g) == f.origin = g.origin /\ f.length = g.length /\ f.deletions = g.deletions
        gone    == {f \in old : \A g \in new : ~same(f, g)}
        fresh   == {g \in new : \A f \in old : ~same(f, g)}
        delta   == b.valid /\ Rows(old) \subseteq b.origins /\ Incidences(gone) \subseteq b.dels
    IN  [b EXCEPT !.frags   = frags,
                  !.origins = IF delta THEN (@ \ Rows(gone)) \cup Rows(fresh) ELSE Rows(new),
                  !.dels    = IF delta THEN (@ \ Incidences(gone)) \cup Incidences(fresh)
                              ELSE Incidences(new),
                  !.located = {f.origin : f \in new},
                  !.valid   = TRUE]

\* recompute_visibility_for : the fragments the rows of the targets lead to, or
\* all of them when the indexes are invalid or one of the runs is stale.
RecomputeVisibility(b, targets) ==
    LET reached(id) ==
            IF Containing(b, id) # {} THEN {row.first : row \in Containing(b, id)}
            ELSE {row.first : row \in {w \in b.dels : w.deletion = id}}
        affected == UNION {reached(id) : id \in targets}
        all == ~b.valid \/ ~(affected \subseteq b.located)
    IN  [b EXCEPT !.frags = [i \in DOMAIN @ |->
            IF all \/ @[i].origin \in affected
            THEN [b.frags[i] EXCEPT !.visible = ComputeVisible(b.undo, b.frags[i])]
            ELSE b.frags[i]]]

-----------------------------------------------------------------------------
(* Direct paths of a local edit.  A path returns the new buffer and the     *)
(* deletion runs and link it puts into the operation, or No.                *)

No == [ok |-> FALSE]
OrElse(first, second) == IF first.ok THEN first ELSE second
Placed(b, link, runs) == [ok |-> TRUE, b |-> b, link |-> link, runs |-> runs]

\* is_descendant_identity : climb through located parents; an identity of the
\* ancestor's own actor that is older than it ends the climb.
ProvedDescendant(b, item, ancestor) ==
    LET items == Items(b.frags)
        older(id) == id.actor = ancestor.actor /\ id.counter < ancestor.counter
        up(seen, e) ==
            LET id == Last(seen) IN
            IF id = NoId \/ older(id) \/ Locate(b, id) = 0 THEN Append(seen, NoId)
            ELSE Append(seen, items[Find(items, id)].link.parent)
    IN  ancestor \in ToSet(FoldLeft(up, <<item>>, items))

\* Mutant of MiddleLink: the successor is never looked at as a child of the left.
MiddleLinkMutant(b, left, right) ==
    IF left = NoId
    THEN [parent |-> right, side |-> "Left", rightOrigin |-> right]
    ELSE [parent |-> left, side |-> "Right", rightOrigin |-> right]

\* simple_middle_insertion : the link of an insertion at a fragment boundary,
\* proved from the neighbours in the retained sequence.
MiddleLink(b, left, right) ==
    IF left = NoId \/ (right # NoId /\ ProvedDescendant(b, right, left))
    THEN [parent |-> right, side |-> "Left", rightOrigin |-> right]
    ELSE [parent |-> left, side |-> "Right", rightOrigin |-> right]

\* Its rank: the left neighbour must end the fragment that holds it.
Middle(b, off) ==
    LET next(rank) == IF rank = Len(b.frags) THEN NoId ELSE b.frags[rank + 1].origin
        boundary(left, i) ==
            IF \/ ~b.valid \/ off >= VisibleLength(b.frags)
               \/ left # NoId /\ (i = 0 \/ ItemAt(b.frags[i], b.frags[i].length - 1) # left)
            THEN No
            ELSE [ok |-> TRUE, rank |-> i, link |-> MiddleLink(b, left, next(i))]
        after(left) == boundary(left, Locate(b, left))
    IN  after(ElementBefore(b.frags, off))

\* try_append_fragment
AppendRun(b, run) ==
    LET tail == Last(b.frags)
    IN  IF /\ b.valid /\ run.link.side = "Right" /\ run.link.rightOrigin = NoId
           /\ run.link.parent = IF b.frags = << >> THEN NoId ELSE ItemAt(tail, tail.length - 1)
        THEN LET seen == [run EXCEPT !.visible = ComputeVisible(b.undo, run)]
             IN  Placed(Publish(b, Append(b.frags, seen), {}, {seen}), run.link, {})
        ELSE No

\* try_insert_fragment_at_rank, with the placement Middle proves
InsertRun(b, off, origin, n) ==
    LET insert(rank, run) ==
            Placed(Publish(b, InsertAt(b.frags, rank + 1, run), {}, {run}), run.link, {})
        at(place) == IF place.ok THEN insert(place.rank, NewRun(origin, place.link, n, FALSE)) ELSE No
    IN  at(Middle(b, off))

\* The deletion descriptors of an operation: identities in order, packed into
\* runs of consecutive counters of one actor.
Pack(segments) ==
    LET sorted == SortSeq(segments, LAMBDA x, y : IdLess(x.first, y.first))
        join(runs, x) ==
            IF runs # << >> /\ Later(Last(runs).first, Last(runs).count) = x.first
            THEN [runs EXCEPT ![Len(runs)].count = @ + x.count]
            ELSE Append(runs, x)
    IN  ToSet(FoldLeft(join, << >>, sorted))

\* collect_covered_visible_runs : the fragments that hold text of the range, with
\* the part of each that is in it.
CoveredRuns(b, from, to) ==
    LET start(i) == Before(b.frags, i)
        part(i)  == [at    |-> i,
                     first |-> IF from > start(i) THEN from - start(i) ELSE 0,
                     last  |-> IF to < start(i + 1) THEN to - start(i) ELSE b.frags[i].length]
        inside   == {i \in DOMAIN b.frags : start(i) < to /\ start(i + 1) > from /\ start(i + 1) > start(i)}
        order    == SetToSortSeq(inside, <)
    IN  [j \in DOMAIN order |-> part(order[j])]

Segments(b, covered) ==
    [j \in DOMAIN covered |->
        [first |-> ItemAt(b.frags[covered[j].at], covered[j].first),
         count |-> covered[j].last - covered[j].first]]

\* A fragment with one more deletion, and the row that indexes it.
Dead(b, f, del) ==
    LET g == [f EXCEPT !.deletions = @ \cup {del}]
    IN  [g EXCEPT !.visible = ComputeVisible(b.undo, g)]

DeletionRow(f, del) == [deletion |-> del, first |-> f.origin, end |-> Row(f).end]

\* The pieces of one covered fragment: kept prefix, tombstone, kept suffix.
Tombstoned(b, part, del) ==
    LET f == b.frags[part.at]
        mark(pieces) ==
            [k \in DOMAIN pieces |->
                IF pieces[k].origin = ItemAt(f, part.first) THEN Dead(b, pieces[k], del) ELSE pieces[k]]
    IN  mark(Pieces(f, {part.first, part.last}))

\* publish_visible_run_deletions : every covered fragment is replaced by its
\* pieces and one run may be inserted at a rank of the old sequence.
PublishDeletions(b, covered, del, inserted, rank) ==
    LET at(i)  == {j \in DOMAIN covered : covered[j].at = i}
        pieces == [i \in DOMAIN b.frags |->
                     IF at(i) = {} THEN <<b.frags[i]>>
                     ELSE Tombstoned(b, covered[CHOOSE j \in at(i) : TRUE], del)]
        publish(new, gone) ==
            Publish(b, IF inserted = << >> THEN FlattenSeq(new)
                       ELSE InsertAt(FlattenSeq(new), rank + 1, inserted[1]),
                    {b.frags[i] : i \in gone},
                    UNION {ToSet(new[i]) : i \in gone} \cup ToSet(inserted))
    IN  publish(pieces, {covered[j].at : j \in DOMAIN covered})

AllResolve(b, covered) == \A part \in ToSet(covered) : Resolves(b, b.frags[part.at])
Whole(b, part) == part.first = 0 /\ part.last = b.frags[part.at].length

\* Where the replacement of covered text goes: inside the first fragment, before
\* its first deleted item, or where Middle proves it, not after that fragment.
HeadPlace(b, from, head) ==
    LET inside(first) == [parent |-> first, side |-> "Left", rightOrigin |-> first]
        before(place) == IF place.ok /\ place.rank <= head.at - 1 THEN place ELSE No
    IN  IF head.first > 0
        THEN [ok |-> TRUE, rank |-> head.at, link |-> inside(ItemAt(b.frags[head.at], head.first))]
        ELSE before(Middle(b, from))

\* try_replace_exact_visible_run : one whole fragment gets the deletion in place.
ReplaceExact(b, covered, place, origin, n, del) ==
    LET at  == covered[1].at
        run == NewRun(origin, place.link, n, FALSE)
        struck == [b EXCEPT !.frags = Splice(@, at, <<Dead(b, b.frags[at], del)>>),
                            !.dels = @ \cup {DeletionRow(b.frags[at], del)}]
    IN  IF Len(covered) # 1 \/ ~AllResolve(b, covered) \/ ~Whole(b, covered[1]) \/ ~place.ok THEN No
        ELSE Placed(Publish(struck, InsertAt(struck.frags, place.rank + 1, run), {}, {run}),
                    place.link, Pack(Segments(b, covered)))

\* try_replace_visible_runs : any covered fragments are split.
ReplaceRuns(b, covered, place, origin, n, del) ==
    IF covered = << >> \/ ~AllResolve(b, covered) \/ ~place.ok THEN No
    ELSE Placed(PublishDeletions(b, covered, del, <<NewRun(origin, place.link, n, FALSE)>>, place.rank),
                place.link, Pack(Segments(b, covered)))

\* try_replace_partial_visible_run : the same for part of one fragment.
ReplacePartial(b, covered, place, origin, n, del) ==
    IF Len(covered) # 1 THEN No ELSE ReplaceRuns(b, covered, place, origin, n, del)

ReplaceText(b, from, to, origin, n, del) ==
    LET try(covered, place) ==
            OrElse(ReplaceExact(b, covered, place, origin, n, del),
                   OrElse(ReplacePartial(b, covered, place, origin, n, del),
                          ReplaceRuns(b, covered, place, origin, n, del)))
        replace(covered) == IF covered = << >> THEN No
                            ELSE try(covered, HeadPlace(b, from, covered[1]))
    IN  replace(CoveredRuns(b, from, to))

\* try_delete_exact_visible_runs : whole fragments only, and only when their
\* intervals do not interleave; it gives fragments a deletion in place.
DeleteExact(b, from, to, del) ==
    LET interval(part) == LET f == b.frags[part.at] IN f.origin.counter .. Row(f).end - 1
        apart(parts)  == \A p, q \in parts : p # q => interval(p) \cap interval(q) = {}
        strike(at)    == [i \in DOMAIN b.frags |->
                            IF i \in at THEN Dead(b, b.frags[i], del) ELSE b.frags[i]]
        delete(covered, at) ==
            IF \/ covered = << >> \/ ~apart(ToSet(covered)) \/ ~AllResolve(b, covered)
               \/ \E p \in ToSet(covered) : ~Whole(b, p)
            THEN No
            ELSE Placed([b EXCEPT !.frags = strike(at),
                                  !.dels = @ \cup {DeletionRow(b.frags[i], del) : i \in at}],
                        NoId, Pack(Segments(b, covered)))
        exact(covered) == delete(covered, {p.at : p \in ToSet(covered)})
    IN  exact(CoveredRuns(b, from, to))

\* try_delete_visible_runs
DeleteRuns(b, from, to, del) ==
    LET delete(covered) ==
            IF covered = << >> \/ ~AllResolve(b, covered) THEN No
            ELSE Placed(PublishDeletions(b, covered, del, << >>, 0), NoId, Pack(Segments(b, covered)))
    IN  delete(CoveredRuns(b, from, to))

-----------------------------------------------------------------------------
(* The general path: everything is minted against the old sequence, the    *)
(* deletions are made from right to left, the new runs are integrated.     *)

DeleteRange(frags, e, del) ==
    LET strike(cut) ==
            [i \in DOMAIN cut |->
                IF Bytes(cut[i]) > 0 /\ Before(cut, i) >= e.from /\ Before(cut, i + 1) <= e.to
                THEN [cut[i] EXCEPT !.deletions = @ \cup {del}, !.visible = FALSE] ELSE cut[i]]
    IN  strike(SplitAtVisible(SplitAtVisible(frags, e.from), e.to))

GeneralEdit(b, edits, origin, del) ==
    LET offset(j) == FoldLeft(LAMBDA n, e : n + e.n, 0, SubSeq(edits, 1, j - 1))
        minted(j) == NewRun(Later(origin, offset(j)),
                            MintLink(Items(b.frags), ElementBefore(b.frags, edits[j].from)),
                            edits[j].n, FALSE)
        minting   == SelectSeq([j \in DOMAIN edits |-> minted(j)], LAMBDA run : run.length > 0)
        striking  == FoldLeft(LAMBDA fs, e : IF e.from < e.to THEN DeleteRange(fs, e, del) ELSE fs,
                              b.frags, Reverse(edits))
        dead(fs)  == SelectSeq(Items(fs), LAMBDA e : del \in e.deletions)
        packed(es) == Pack([i \in DOMAIN es |-> [first |-> es[i].origin, count |-> 1]])
        edited(new, struck) ==
            [b    |-> SetFragments(b, FoldLeft(IntegrateRun, struck, new)),
             new  |-> new,
             runs |-> packed(dead(struck))]
    IN  edited(minting, striking)

\* The order in which try_apply_validated_local_edit tries the direct paths.
DirectEdit(b, e, origin, del) ==
    LET end  == VisibleLength(b.frags)
        tail == Last(b.frags)
        link == [parent |-> IF b.frags = << >> THEN NoId ELSE ItemAt(tail, tail.length - 1),
                 side |-> "Right", rightOrigin |-> NoId]
        appended == IF /\ e.from = end /\ e.to = end
                       /\ b.frags = << >> \/ (tail.visible /\ ~tail.marker)
                    THEN AppendRun(b, NewRun(origin, link, e.n, FALSE)) ELSE No
    IN  CASE e.from = e.to /\ e.n > 0 -> OrElse(appended, InsertRun(b, e.from, origin, e.n))
          [] e.from < e.to /\ e.n > 0 -> ReplaceText(b, e.from, e.to, origin, e.n, del)
          [] e.from < e.to /\ e.n = 0 -> OrElse(DeleteExact(b, e.from, e.to, del),
                                               DeleteRuns(b, e.from, e.to, del))
          [] OTHER -> No

\* What two buffers must have in common: the items, their links and deletions and
\* what is visible, wherever the fragment boundaries are.
Shape(b) ==
    LET shape(items) ==
            [i \in DOMAIN items |->
                LET e == items[i]
                IN  [origin |-> e.origin, link |-> e.link, deletions |-> e.deletions,
                     visible |-> e.visible, marker |-> e.marker]]
    IN  shape(Items(b.frags))

Expanded(runs) == UNION {{Later(run.first, k) : k \in 0 .. run.count - 1} : run \in runs}

-----------------------------------------------------------------------------
(* Local operations *)

NewIdentity(r, n) == [counter |-> buffer[r].next + n, actor |-> r]

Key(b) == [version |-> b.version, gaps |-> b.gaps]

\* One replica takes a step; the text it reaches is remembered the first time.
Becomes(r, b) ==
    /\ buffer' = [buffer EXCEPT ![r] = b]
    /\ texts' = IF Key(b) \in DOMAIN texts THEN texts ELSE texts @@ (Key(b) :> Text(b.frags))

Published(r, kind) == Cardinality({op \in sent : op.id.actor = r /\ op.kind = kind})
MayEdit(r) == Published(r, "edit") < plan.edits[r]
MayToggle(r) == Published(r, "undo") < plan.toggles[r]

\* The tail of a local operation: its identity is observed, its group recorded
\* (commit_local_history) and it is published.
Commit(r, b, op, items) ==
    LET group == [gid |-> op.id, ops |-> {op.id}, items |-> items,
                  dels |-> IF op.runs = {} THEN {} ELSE {op.id}]
        commit(history) ==
            /\ WithinBudget(history)
            /\ Becomes(r, [b EXCEPT !.version = Observe(@, op.id), !.next = op.id.counter + 1,
                                    !.history = history])
    IN  /\ commit(PushGroup(b.history, group))
        /\ sent' = sent \cup {op}
        /\ UNCHANGED upkeep

\* Its own counters run from the next one, that of its first item, to id.
EditOp(r, id, new, runs, marker) ==
    [kind |-> "edit", id |-> id, first |-> NewIdentity(r, 0), version |-> buffer[r].version,
     new |-> new, runs |-> runs, marker |-> marker]

ItemsOf(new) == UNION {{ItemAt(run, k) : k \in 0 .. run.length - 1} : run \in ToSet(new)}

\* try_apply_local_edit and try_apply_validated_local_edit
LocalEdit(r, edits) ==
    LET b      == buffer[r]
        n      == FoldLeft(LAMBDA k, e : k + e.n, 0, edits)
        origin == NewIdentity(r, 0)
        alike(direct, general) ==
            /\ Shape(direct.b) = Shape(general.b)
            /\ direct.new = general.new
            /\ Expanded(direct.runs) = Expanded(general.runs)
        minted(direct) ==
            IF direct.ok
            THEN [ok |-> TRUE, b |-> direct.b, runs |-> direct.runs,
                  new |-> IF n = 0 THEN << >> ELSE <<NewRun(origin, direct.link, n, FALSE)>>]
            ELSE direct
        commit(id, direct, general) ==
            LET result == IF direct.ok THEN direct ELSE general
            IN  /\ Commit(r, result.b, EditOp(r, id, result.new, result.runs, FALSE), ItemsOf(result.new))
                /\ agreed' = (agreed /\ (direct.ok => alike(direct, general)))
        edit(id) ==
            commit(id, minted(IF Len(edits) = 1 THEN DirectEdit(b, edits[1], origin, id) ELSE No),
                   GeneralEdit(b, edits, origin, id))
    IN  edit(NewIdentity(r, n))

\* try_insert_item : text or a marker immediately after a retained item.
InsertItem(r, left, n, marker) ==
    LET b      == buffer[r]
        atEnd  == left = IF b.frags = << >> THEN NoId
                         ELSE ItemAt(Last(b.frags), Last(b.frags).length - 1)
        append == [parent |-> left, side |-> "Right", rightOrigin |-> NoId]
        commit(run, direct, general) ==
            /\ Commit(r, IF direct.ok THEN direct.b ELSE general,
                      EditOp(r, NewIdentity(r, n), <<run>>, {}, marker), ItemsOf(<<run>>))
            /\ agreed' = (agreed /\ (direct.ok => Shape(direct.b) = Shape(general)))
        insert(run) ==
            commit(run, IF atEnd THEN AppendRun(b, [run EXCEPT !.link = append]) ELSE No,
                   SetFragments(b, IntegrateRun(b.frags, run)))
    IN  insert(NewRun(NewIdentity(r, 0), MintLink(Items(b.frags), left), n, marker))

InsertMarker(r, off) == InsertItem(r, ElementBefore(buffer[r].frags, off), 1, TRUE)

\* try_insert_relative : the gap before or after a visible marker.
InsertRelative(r, i, side, n) ==
    LET frags == buffer[r].frags
        prior == IF i = 1 THEN NoId ELSE ItemAt(frags[i - 1], frags[i - 1].length - 1)
    IN  /\ frags[i].marker /\ frags[i].visible
        /\ InsertItem(r, IF side = "before" THEN prior ELSE frags[i].origin, n, FALSE)

\* try_remove_marker
RemoveMarker(r, i) ==
    LET b  == buffer[r]
        id == NewIdentity(r, 0)
    IN  /\ b.frags[i].marker /\ b.frags[i].visible
        /\ Commit(r, SetFragments(b, Splice(b.frags, i, <<[b.frags[i] EXCEPT !.deletions = @ \cup {id}]>>)),
                  EditOp(r, id, << >>, {[first |-> b.frags[i].origin, count |-> 1]}, TRUE), {})
        /\ UNCHANGED agreed

\* The common part of try_undo_group and try_redo_group: one event for each
\* identity of the group, with the next count.
Toggle(r, group, history) ==
    LET b       == buffer[r]
        id      == NewIdentity(r, 0)
        targets == group.items \cup group.dels
        counts  == {[edit |-> t, count |-> UndoCount(b.undo, t) + 1] : t \in targets}
        marked  == [b EXCEPT !.undo = @ \cup {[edit |-> c.edit, by |-> id, count |-> c.count] : c \in counts}]
    IN  /\ Becomes(r, [RecomputeVisibility(marked, targets) EXCEPT
                          !.version = Observe(@, id), !.next = @ + 1, !.history = history])
        /\ sent' = sent \cup {[kind |-> "undo", id |-> id, first |-> id, version |-> b.version,
                               counts |-> counts]}
        /\ UNCHANGED <<agreed, upkeep>>

UndoGroup(r, i) ==
    /\ i <= buffer[r].history.cursor
    /\ Toggle(r, buffer[r].history.stack[i], UndoneAt(buffer[r].history, i))

RedoGroup(r, i) ==
    /\ i > buffer[r].history.cursor
    /\ Toggle(r, buffer[r].history.stack[i], RedoneAt(buffer[r].history, i))

-----------------------------------------------------------------------------
(* Remote operations *)

\* The identities of a deletion run up to the first that is not retained.
Reached(frags, run) ==
    LET held(k) == \E f \in ToSet(frags) : Within(f, Later(run.first, k))
        stop == Min({k \in 0 .. run.count : k = run.count \/ ~held(k)})
    IN  Expanded({[run EXCEPT !.count = stop]})

Strike(frags, ids, del) ==
    LET hit(f, k) == ItemAt(f, k) \in ids
        cuts(f) == {k \in 1 .. f.length - 1 : hit(f, k) # hit(f, k - 1)}
        mark(f) == IF f.origin \in ids THEN [f EXCEPT !.deletions = @ \cup {del}] ELSE f
        marked(pieces) == [k \in DOMAIN pieces |-> mark(pieces[k])]
    IN  FlattenSeq([i \in DOMAIN frags |-> marked(Pieces(frags[i], cuts(frags[i])))])

\* apply_deletion_runs : all targets are resolved through the indexes first; when
\* the indexes are invalid, or lead to a run that is not there, the runs are
\* found by scanning and the indexes are given up.
ApplyDeletionRuns(b, runs, del) ==
    LET rows  == UNION {Containing(b, id) : id \in Expanded(runs)}
        stale == ~b.valid \/ \E row \in rows : row.first \notin b.located
        order == SetToSortSeq(runs, LAMBDA x, y : IdLess(x.first, y.first))
    IN  IF stale
        THEN [valid |-> FALSE,
              frags |-> FoldLeft(LAMBDA fs, run : Strike(fs, Reached(fs, run), del), b.frags, order)]
        ELSE [valid |-> b.valid,
              frags |-> Strike(b.frags, UNION {Reached(b.frags, run) : run \in runs}, del)]

Step(verdict, b) == [verdict |-> verdict, b |-> b]

\* The tail of an applied operation: observe_remote and the version.
Observing(b, op) ==
    [b EXCEPT !.version = Join(Observe(@, op.id), op.version),
              !.next = IF @ > op.id.counter THEN @ ELSE op.id.counter + 1]

\* The direct path of apply_remote_edit for one whole fragment of text.
DeletesWhole(b, op) ==
    {i \in DOMAIN b.frags :
        /\ op.new = << >> /\ ~op.marker /\ ~b.frags[i].marker
        /\ op.runs = {[first |-> b.frags[i].origin, count |-> b.frags[i].length]}
        /\ Resolves(b, b.frags[i])}

DeleteWhole(b, i, del) ==
    [b EXCEPT !.frags = Splice(@, i, <<Dead(b, b.frags[i], del)>>),
              !.dels = @ \cup {DeletionRow(b.frags[i], del)}]

\* A marker removal must name a marker, and any other deletion none.
TypeConfused(b, op) ==
    \E id \in Expanded(op.runs) :
        LET held == {f \in ToSet(b.frags) : Within(f, id)}
        IN  IF op.marker THEN held = {} \/ \E f \in held : ~f.marker
            ELSE \E f \in held : f.marker

ApplyRemoteEdit(b, op) ==
    LET place(fs, run) == IF fs = << >> /\ b.frags # << >> THEN << >> ELSE IntegrateRun(fs, run)
        settle(struck, placed) ==
            IF placed = << >> /\ (struck.frags # << >> \/ op.new # << >>)
            THEN Step("malformed", [b EXCEPT !.valid = struck.valid])
            ELSE Step("applied", Observing(SetFragments([b EXCEPT !.valid = struck.valid], placed), op))
        integrate(struck) == settle(struck, FoldLeft(place, struck.frags, op.new))
        apply(appended, whole) ==
            IF appended.ok THEN Step("applied", Observing(appended.b, op))
            ELSE IF whole # {}
            THEN Step("applied", Observing(DeleteWhole(b, CHOOSE i \in whole : TRUE, op.id), op))
            ELSE IF TypeConfused(b, op) THEN Step("malformed", b)
            ELSE integrate(ApplyDeletionRuns(b, op.runs, op.id))
    IN  IF Observed(b.version, op.id) THEN Step("applied", b)
        ELSE IF ~ObservedAll(b.version, op.version) THEN Step("not_ready", b)
        ELSE apply(IF op.runs = {} /\ Len(op.new) = 1 THEN AppendRun(b, op.new[1]) ELSE No,
                   DeletesWhole(b, op))

ApplyRemoteUndo(b, op) ==
    LET targets == {c.edit : c \in op.counts}
        marked  == [b EXCEPT !.undo = @ \cup {[edit |-> c.edit, by |-> op.id, count |-> c.count] : c \in op.counts}]
    IN  IF Observed(b.version, op.id) THEN Step("applied", b)
        ELSE IF ~ObservedAll(b.version, op.version) THEN Step("not_ready", b)
        ELSE IF \E t \in targets : Covered(b.frontier, t) THEN Step("malformed", b)
        ELSE Step("applied", Observing(RecomputeVisibility(marked, targets), op))

TryApply(b, op) == IF op.kind = "edit" THEN ApplyRemoteEdit(b, op) ELSE ApplyRemoteUndo(b, op)

\* enqueue_deferred : the queue is kept in timestamp order.
Enqueue(queue, op) ==
    LET n == Cardinality({i \in DOMAIN queue : IdLess(queue[i].id, op.id)})
    IN  InsertAt(queue, n + 1, op)

\* The diagnostic copy of a refused operation, while its own budget lasts.
Quarantine(b, op) ==
    IF Len(b.quarantined) >= MaxQuarantined THEN b ELSE [b EXCEPT !.quarantined = Append(@, op)]

\* defer_or_quarantine
DeferOrQuarantine(b, op) ==
    IF Len(b.deferred) >= MaxDeferred THEN Quarantine(b, op)
    ELSE [b EXCEPT !.deferred = Enqueue(@, op)]

\* CounterGapLedger::overlaps and contains
Overlaps(gaps, first, last) ==
    \E gap \in gaps : /\ gap.first.actor = first.actor
                      /\ first.counter <= gap.id.counter /\ gap.first.counter <= last
InGap(gaps, id) == Overlaps(gaps, id, id.counter)

\* Mutant of GapConflicts: only the operation's own counters are looked at.
OwnGapConflicts(gaps, op) == Overlaps(gaps, op.first, op.id.counter)

\* gap_conflicts : the operation's own counters, or something it names.
GapConflicts(gaps, op) ==
    \/ Overlaps(gaps, op.first, op.id.counter)
    \/ /\ op.kind = "edit"
       /\ \/ \E run \in ToSet(op.new) : InGap(gaps, run.link.parent) \/ InGap(gaps, run.link.rightOrigin)
          \/ \E run \in op.runs : Overlaps(gaps, run.first, run.first.counter + run.count - 1)
    \/ op.kind = "undo" /\ \E c \in op.counts : InGap(gaps, c.edit)

\* apply_one : later operations of an actor wait behind its earliest deferred
\* one, an earlier one may be what they wait for.
ApplyOne(b, op) ==
    LET behind == \E i \in DOMAIN b.deferred :
                     /\ b.deferred[i].id.actor = op.id.actor
                     /\ b.deferred[i].id.counter <= op.id.counter
        settle(step) == IF step.verdict = "not_ready" THEN DeferOrQuarantine(b, op) ELSE step.b
    IN  IF GapConflicts(b.gaps, op) \/ Observed(b.version, op.id) THEN b
        ELSE IF ~ObservedAll(b.version, op.version) \/ behind THEN DeferOrQuarantine(b, op)
        ELSE settle(TryApply(b, op))

\* retry_deferred looks at one operation: what still waits blocks the rest of its
\* actor; what applied leaves the queue, and so does what proved malformed, of
\* which a copy is kept.
RetryOne(acc, op) ==
    LET settle(step) ==
            IF op.id.actor \in acc.blocked \/ step.verdict = "not_ready"
            THEN [b |-> [acc.b EXCEPT !.deferred = Append(@, op)],
                  blocked |-> acc.blocked \cup {op.id.actor}]
            ELSE [acc EXCEPT !.b = IF step.verdict = "malformed" THEN Quarantine(step.b, op)
                                   ELSE step.b]
    IN  settle(TryApply(acc.b, op))

\* One pass over the queue.
RetryPass(b, pass) ==
    FoldLeft(RetryOne, [b |-> [b EXCEPT !.deferred = << >>], blocked |-> {}], b.deferred).b

\* retry_deferred : passes until one makes no progress; a pass that makes none
\* leaves the buffer as it was.
RetryDeferred(b) == FoldLeft(RetryPass, b, b.deferred)

\* apply_ops, for a batch of one or two operations.  An operation that was
\* deferred is not offered again (DocumentSession remembers its token).
Deliver(r, batch) ==
    LET b == buffer[r]
    IN  /\ \A op \in ToSet(batch) : op \in sent \ ToSet(b.deferred) /\ op.kind # "gap"
        /\ Becomes(r, RetryDeferred(FoldLeft(ApplyOne, b, batch)))
        /\ UNCHANGED <<sent, agreed, upkeep>>

\* Mutant of GapApplied: what waits for the gap is not retried.
GapAppliedMutant(b, gap) == Observing([b EXCEPT !.gaps = @ \cup {gap}], gap)

GapApplied(b, gap) == RetryDeferred(Observing([b EXCEPT !.gaps = @ \cup {gap}], gap))

\* The operations a buffer holds without having applied them.
Held(b) == ToSet(b.deferred) \cup ToSet(b.quarantined)

\* apply_counter_gap, CounterGapLedger::check and commit
Bridge(r, gap) ==
    LET b == buffer[r]
    IN  /\ ~Overlaps(b.gaps, gap.first, gap.id.counter)
        /\ b.version[gap.id.actor] < gap.first.counter
        /\ ObservedAll(b.version, gap.version)
        /\ \A op \in Held(b) : ~GapConflicts({gap}, op)
        /\ Becomes(r, GapApplied(b, gap))

ApplyGap(r, gap) == Bridge(r, gap) /\ UNCHANGED <<sent, agreed, upkeep>>

-----------------------------------------------------------------------------
(* Checkpoints, reclamation, change sets *)

\* restore_checkpoint_state, on the checkpoint_state b of a replica r: its checks
\* of clocks, gaps, undo events, fragments, links, waiting and quarantined
\* operations and history.  Those of one operation by itself (validate_operation,
\* valid_identity) are left out: what is published here is well formed.
SnapshotAccepted(r, b) ==
    LET known(id) == Observed(b.version, id) /\ ~InGap(b.gaps, id)
        frags  == ToSet(b.frags)
        apart(id, i) == /\ \A op \in ToSet(b.deferred) : op.id # id
                        /\ \A j \in 1 .. i - 1 : b.quarantined[j].id # id
    IN  /\ ObservedAll(b.version, b.frontier)
        /\ b.version[r] < b.next
        /\ Len(b.deferred) <= MaxDeferred /\ Len(b.quarantined) <= MaxQuarantined
        /\ \A gap \in b.gaps :
              /\ Observed(b.version, gap.id) /\ ObservedAll(b.version, gap.version)
              /\ ~Overlaps(b.gaps \ {gap}, gap.first, gap.id.counter)
        /\ \A u \in b.undo : known(u.edit) /\ known(u.by)
        /\ \A f \in frags :
              /\ \A k \in 0 .. f.length - 1 : known(ItemAt(f, k))
              /\ \A id \in ({f.link.parent, f.link.rightOrigin} \ {NoId}) \cup f.deletions : known(id)
              /\ f.marker => f.length = 1
        /\ \A f, g \in frags : f # g => ~Within(f, g.origin)
        /\ Consistent(Items(b.frags))
        /\ \A i \in DOMAIN b.deferred :
              /\ ~Observed(b.version, b.deferred[i].id)
              /\ ~GapConflicts(b.gaps, b.deferred[i])
              /\ i > 1 => IdLess(b.deferred[i - 1].id, b.deferred[i].id)
        /\ \A i \in DOMAIN b.quarantined :
              /\ ~Observed(b.version, b.quarantined[i].id)
              /\ ~GapConflicts(b.gaps, b.quarantined[i])
              /\ apart(b.quarantined[i].id, i)
        /\ HistoryAccepted(b.history, r, b.version[r], b.history.depth)

Upkeep(r) == r \in plan.upkept /\ upkeep < plan.upkeep /\ upkeep' = upkeep + 1

\* checkpoint_state, then restore_checkpoint_state into a new Buffer: the indexes
\* start empty and are filled by set_fragments.
RestoreCheckpoint(r) ==
    LET b == buffer[r]
        rebuilt == [b EXCEPT !.frags = << >>, !.origins = {}, !.dels = {}, !.located = {},
                             !.valid = TRUE]
    IN  /\ Upkeep(r)
        /\ SnapshotAccepted(r, b)
        /\ Becomes(r, SetFragments(rebuilt, b.frags))
        /\ UNCHANGED <<sent, agreed>>

Replica == Actor \ {Seeder}

CertifiedFrontier == [a \in Actor |-> Min({buffer[q].version[a] : q \in Replica})]

\* The fragments collect_garbage may drop: covered tombstones that no history,
\* pin, link or uncovered undo event names.
Reclaimable(b, pinned) ==
    LET frags == ToSet(b.frags)
        names(f, id) == Within(f, id) \/ id \in f.deletions
    IN  {f \in frags :
            /\ ~f.visible /\ f.deletions # {}
            /\ \A id \in f.deletions \cup {ItemAt(f, f.length - 1)} : Covered(b.frontier, id)
            /\ \A id \in Retained(b.history) \cup pinned : ~names(f, id)
            /\ \A g \in frags \ {f} : ~Within(f, g.link.parent) /\ ~Within(f, g.link.rightOrigin)
            /\ \A u \in b.undo : names(f, u.edit) => Covered(b.frontier, u.by)}

\* collect_garbage under a newly installed frontier.  The tree, the undo map and
\* the node directory are rebuilt, so that no run's old location resolves; the
\* identity indexes are left as they are.  What the certificate's verifier must
\* establish is assumed: no operation still to be delivered predates the cutoff.
CollectGarbage(r, pinned) ==
    LET cutoff == CertifiedFrontier
        b      == [buffer[r] EXCEPT !.frontier = cutoff]
        gone   == Reclaimable(b, pinned)
        undo   == {u \in b.undo : \A f \in gone : ~Within(f, u.edit) /\ u.edit \notin f.deletions}
        kept   == SelectSeq(b.frags, LAMBDA f : f \notin gone)
    IN  /\ Upkeep(r)
        /\ \A op \in sent : ~Observed(cutoff, op.id) => ObservedAll(op.version, cutoff)
        /\ \A q \in Replica : buffer[q].deferred = << >>
        /\ gone # {}
        /\ Becomes(r, [b EXCEPT
                !.frags = [i \in DOMAIN kept |->
                             [kept[i] EXCEPT !.visible = ComputeVisible(undo, kept[i])]],
                !.undo = undo, !.located = {}])
        /\ UNCHANGED <<sent, agreed>>

\* edits_since : one walk over the fragments; changed fragments between two
\* unchanged visible ones become one replacement of old text.
EditsSince(b, v) ==
    LET flush(acc) ==
            IF acc.edit = << >> \/ (acc.edit[1].from = acc.edit[1].to /\ acc.edit[1].new = << >>)
            THEN [acc EXCEPT !.edit = << >>]
            ELSE [acc EXCEPT !.edits = Append(@, acc.edit[1]), !.edit = << >>]
        opened(acc) == IF acc.edit # << >> THEN acc
                       ELSE [acc EXCEPT !.edit = <<[from |-> acc.old, to |-> acc.old, new |-> << >>]>>]
        width(f) == IF f.marker THEN 0 ELSE f.length
        ids(f) == [k \in 1 .. width(f) |-> ItemAt(f, k - 1)]
        visit(acc, f) ==
            LET was == WasVisibleAt(b.undo, f, v)
            IN  CASE was /\ f.visible -> [flush(acc) EXCEPT !.old = @ + width(f)]
                  [] was /\ ~f.visible -> [opened(acc) EXCEPT !.edit[1].to = @ + width(f), !.old = @ + width(f)]
                  [] ~was /\ f.visible -> [opened(acc) EXCEPT !.edit[1].new = @ \o ids(f)]
                  [] OTHER -> acc
    IN  flush(FoldLeft(visit, [old |-> 0, edit |-> << >>, edits |-> << >>], b.frags)).edits

-----------------------------------------------------------------------------
(* The specification *)

\* op_for_seed, applied by every replica as it joins.
Seeded(r) ==
    LET run  == NewRun([counter |-> 1, actor |-> Seeder],
                       [parent |-> NoId, side |-> "Right", rightOrigin |-> NoId], SeedLength, FALSE)
    IN  [frags |-> <<run>>, undo |-> {}, next |-> SeedLength + 2,
         version |-> [EmptyGlobal EXCEPT ![Seeder] = SeedLength + 1],
         origins |-> {Row(run)}, dels |-> {}, located |-> {run.origin}, valid |-> TRUE,
         history |-> EmptyHistory(MaxRetiredGroups), deferred |-> << >>, quarantined |-> << >>,
         gaps |-> {}, frontier |-> EmptyGlobal]

Init ==
    /\ buffer = [r \in Replica |-> Seeded(r)]
    /\ sent = {}
    /\ texts = [k \in {Key(Seeded(r)) : r \in Replica} |->
                  Text(Seeded(CHOOSE r \in Replica : TRUE).frags)]
    /\ agreed = TRUE
    /\ upkeep = 0
    /\ plan \in Plans

\* validate_local_edit : one range, or two that do not overlap; of the pairs, an
\* insertion with a deletion to its right.
Ranges(r) ==
    LET end == VisibleLength(buffer[r].frags)
        one == {e \in UNION {[from : {i}, to : i .. end, n : Lengths] : i \in 0 .. end} :
                   e.from < e.to \/ e.n > 0}
        pairs == {e \in one : e.from = e.to} \X {e \in one : e.n = 0}
    IN  {<<e>> : e \in one}
        \cup (IF "ranges" \in plan.features
              THEN {p \in pairs : p[1].to <= p[2].from} ELSE {})

LocalStep(r) ==
    \/ /\ MayEdit(r)
       /\ \E edits \in Ranges(r) : LocalEdit(r, edits)
    \/ /\ MayEdit(r) /\ "markers" \in plan.features
       /\ \/ \E off \in 0 .. VisibleLength(buffer[r].frags) : InsertMarker(r, off)
          \/ \E i \in DOMAIN buffer[r].frags :
                \/ \E side \in {"before", "after"}, n \in Lengths \ {0} : InsertRelative(r, i, side, n)
                \/ RemoveMarker(r, i)
    \/ /\ MayToggle(r)
       /\ \E i \in DOMAIN buffer[r].history.stack : UndoGroup(r, i) \/ RedoGroup(r, i)

UpkeepStep(r) ==
    \/ "restore" \in plan.features /\ RestoreCheckpoint(r)
    \/ /\ "collect" \in plan.features
       /\ \E pinned \in {{}} \cup {{f.origin} : f \in {g \in ToSet(buffer[r].frags) : ~g.visible}} : CollectGarbage(r, pinned)

Offerable(r) == {op \in sent : op.kind # "gap" /\ ~Observed(buffer[r].version, op.id)}

DeliverStep(r) ==
    \/ \E a, c \in Offerable(r) : Deliver(r, IF a = c THEN <<a>> ELSE <<a, c>>)
    \/ \E gap \in sent : gap.kind = "gap" /\ ApplyGap(r, gap)

\* A counter was reserved and the operation it was for is lost in a crash: the host
\* commits the evidence, and applies it, before the replica writes again.
DeclareGap(r) ==
    LET id  == NewIdentity(r, 0)
        gap == [kind |-> "gap", id |-> id, first |-> id, version |-> buffer[r].version]
    IN  /\ "gaps" \in plan.features /\ Upkeep(r)
        /\ Bridge(r, gap)
        /\ sent' = sent \cup {gap}
        /\ UNCHANGED agreed

\* The evidence is wrong: the operation it declares lost was read by a peer, or
\* is still on its way, as after a power loss that took only the local record.
MisdeclareGap(r) ==
    /\ "mistaken" \in plan.features /\ Upkeep(r)
    /\ \E op \in sent :
          /\ op.id.actor = r /\ op.kind # "gap"
          /\ sent' = sent \cup {[kind |-> "gap", id |-> op.id, first |-> op.first,
                                 version |-> op.version]}
    /\ UNCHANGED <<buffer, texts, agreed>>

Next ==
    /\ plan' = plan
    /\ \E r \in Replica :
          \/ LocalStep(r) \/ DeliverStep(r) \/ UpkeepStep(r)
          \/ DeclareGap(r) \/ MisdeclareGap(r)

Spec == Init /\ [][Next]_vars

-----------------------------------------------------------------------------
(* Properties *)

\* Every direct path of a local edit gives the items, placement, visibility and
\* operation that the general path gives from the same state
\* (try_apply_validated_local_edit, try_insert_item): what peers integrate is
\* what the author sees, whatever shortcut the fragment layout allowed.
DirectPathsAgree == agreed

\* The text is a function of what was observed: replicas with the same version
\* show the same text whatever the order of delivery, and no checkpoint,
\* collection or coalescing changes it.
TextFollowsVersion ==
    \A r \in Replica : Text(buffer[r].frags) = texts[Key(buffer[r])]

\* The text after the edits of a change set, last first.
Transformed(text, edits) ==
    FoldLeft(LAMBDA t, e : SubSeq(t, 1, e.from) \o e.new \o SubSeq(t, e.to + 1, Len(t)),
             text, Reverse(edits))

\* The change set since an earlier version turns the text of that version
\* into the present text (edits_since), across undo, redo, splits and
\* collection, for every version not below the reclamation cutoff.
EditsSinceTransform ==
    \A r \in Replica : \A k \in DOMAIN texts :
        LET b == buffer[r]
        IN  /\ ObservedAll(b.version, k.version) /\ ObservedAll(k.version, b.frontier)
            /\ k.gaps = {g \in b.gaps : Observed(k.version, g.id)}
            => Transformed(texts[k], EditsSince(b, k.version)) = Text(b.frags)

\* No deferred operation has all it waits for: the order of the queue and the
\* blocking of an actor's later operations never hide one that is ready
\* (enqueue_deferred, retry_deferred).
NothingReadyIsWaiting ==
    \A r \in Replica : \A op \in ToSet(buffer[r].deferred) :
        ~ObservedAll(buffer[r].version, op.version)

\* A diagnostic copy has outlived its refusal: the operation was offered again
\* and has been applied, waits after all, or was refused and copied once more.
Outlived(b) ==
    \E i \in DOMAIN b.quarantined :
        LET id == b.quarantined[i].id
        IN  \/ Observed(b.version, id) /\ ~InGap(b.gaps, id)
            \/ \E op \in ToSet(b.deferred) : op.id = id
            \/ \E j \in 1 .. i - 1 : b.quarantined[j].id = id

Drained(b) == [b EXCEPT !.quarantined = << >>]

\* A replica's own checkpoint is accepted back, whatever waits, was refused or is
\* declared lost: no operation applied, waiting or copied lies in an accepted
\* counter gap or names something in one, in any order of arrival
\* (apply_counter_gap, apply_one).  Excepted are buffers with a copy that has
\* outlived its refusal, which the code does not accept back: there the state
\* without the copies (take_quarantined) is.
RestoresOwnCheckpoint ==
    \A r \in Replica :
        LET b == buffer[r]
        IN  SnapshotAccepted(r, IF Outlived(b) THEN Drained(b) ELSE b)
=============================================================================
