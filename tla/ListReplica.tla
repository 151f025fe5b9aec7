---------------------------- MODULE ListReplica ----------------------------
(***************************************************************************)
(* What a replicated list (crdt/IdList.cpp) promises: several replicas of  *)
(* one list, each changed by local operations, by operations of others in  *)
(* causal order and exactly once, and by forgetting entries that every     *)
(* replica agrees are gone.                                                *)
(*                                                                         *)
(* The document of a replica and the functions that change it are the      *)
(* code's.  How a replica gets to apply an operation at the right moment   *)
(* (deferral, retries, quarantine, duplicates), which groups its user may  *)
(* undo, and how it learns what may be forgotten are left open here; they  *)
(* are the business of IdList, which implements this specification.        *)
(***************************************************************************)
EXTENDS SequenceOrder

CONSTANT MaxOps   \* bound: how many operations of each kind are ever sent

ASSUME MaxOpsAssumption == MaxOps \in [{"insert", "remove", "undo"} -> Nat]

VARIABLES
    entries,      \* m_entry_tree : the entries in list order, tombstones included
    version,      \* m_version
    next,         \* the allocator's next counter
    undoMap,      \* m_undo_map
    sent,         \* every operation ever emitted
    applied       \* history variable: the operations a replica has integrated

listVars == <<entries, version, next, undoMap, sent, applied>>

InsertOp == [kind : {"insert"}, id : Identity, version : Global, link : Link]
RemoveOp == [kind : {"remove"}, id : Identity, version : Global, target : Identity]
UndoOp   == [kind : {"undo"}, id : Identity, version : Global,
             counts : SUBSET [target : Identity, count : Nat \ {0}]]
Operation == InsertOp \cup RemoveOp \cup UndoOp

Entry == [origin : Identity, link : Link, deletions : SUBSET Identity]
UndoEvent == [edit : Identity, undo : Identity, count : Nat \ {0}]

\* Every variable keeps its type: links name identities or nothing, undo counts
\* are positive (insert_after_resolved, apply_concrete, UndoMap::insert).
ListTypeOK ==
    /\ entries \in [Actor -> Seq(Entry)]
    /\ version \in [Actor -> Global]
    /\ next \in [Actor -> Nat \ {0}]
    /\ undoMap \in [Actor -> SUBSET UndoEvent]
    /\ sent \subseteq Operation
    /\ applied \in [Actor -> SUBSET Operation]

ListInit ==
    /\ entries = [r \in Actor |-> <<>>]
    /\ version = [r \in Actor |-> EmptyGlobal]
    /\ next = [r \in Actor |-> 1]
    /\ undoMap = [r \in Actor |-> {}]
    /\ sent = {}
    /\ applied = [r \in Actor |-> {}]

-----------------------------------------------------------------------------
(* Visibility *)

\* UndoMap::undo_count
UndoCount(map, id) ==
    LET counts == {e.count : e \in {f \in map : f.edit = id}}
    IN  IF counts = {} THEN 0 ELSE CHOOSE n \in counts : \A m \in counts : m <= n

\* UndoMap::is_undone
IsUndone(map, id) == UndoCount(map, id) % 2 = 1

\* IdListEntry::compute_visible, which set_entries runs over every entry.
IsVisible(map, e) ==
    ~IsUndone(map, e.origin) /\ \A d \in e.deletions : IsUndone(map, d)

\* ids() : what a reader of the list sees.
VisibleIds(list, map) ==
    LET shown == SelectSeq(list, LAMBDA e : IsVisible(map, e))
    IN  [i \in DOMAIN shown |-> shown[i].origin]

Origins(list) == {list[i].origin : i \in DOMAIN list}

-----------------------------------------------------------------------------
(* Local operations.  Each one reserves the next counter, records the      *)
(* version it was made at, and observes itself.                            *)

NewId(r) == [counter |-> next[r], actor |-> r]

\* The part every local operation shares.
Emit(r, op) ==
    /\ Cardinality({o \in sent : o.kind = op.kind}) < MaxOps[op.kind]
    /\ next' = [next EXCEPT ![r] = @ + 1]
    /\ version' = [version EXCEPT ![r] = Observe(@, op.id)]
    /\ sent' = sent \cup {op}
    /\ applied' = [applied EXCEPT ![r] = @ \cup {op}]

\* try_insert_after, insert_after_resolved
InsertAfter(r, left) ==
    LET id    == NewId(r)
        link  == MintLink(entries[r], left)
        entry == [origin |-> id, link |-> link, deletions |-> {}]
    IN  /\ left \in {NoId} \cup Origins(entries[r])
        /\ entries' = [entries EXCEPT ![r] = Integrate(@, entry)]
        /\ Emit(r, [kind |-> "insert", id |-> id, version |-> version[r], link |-> link])
        /\ UNCHANGED undoMap

\* The list with a deletion recorded against one entry.
Deleted(list, target, del) ==
    [i \in DOMAIN list |->
        IF list[i].origin = target
        THEN [list[i] EXCEPT !.deletions = @ \cup {del}]
        ELSE list[i]]

\* try_remove_at, remove_at_resolved
RemoveEntry(r, target) ==
    LET id == NewId(r)
    IN  /\ target \in Origins(entries[r])
        /\ entries' = [entries EXCEPT ![r] = Deleted(@, target, id)]
        /\ Emit(r, [kind |-> "remove", id |-> id, version |-> version[r], target |-> target])
        /\ UNCHANGED undoMap

\* The undo count the next undo or redo gives an identity.
NextCount(map, id) == UndoCount(map, id) + 1

\* The common body of try_undo_group and try_redo_group : raise the undo count
\* of every identity of a group by one.
Toggle(r, ids) ==
    LET id     == NewId(r)
        counts == {[target |-> t, count |-> NextCount(undoMap[r], t)] : t \in ids}
    IN  /\ undoMap' = [undoMap EXCEPT ![r] = @ \cup
               {[edit |-> c.target, undo |-> id, count |-> c.count] : c \in counts}]
        /\ Emit(r, [kind |-> "undo", id |-> id, version |-> version[r], counts |-> counts])
        /\ UNCHANGED entries

-----------------------------------------------------------------------------
(* Operations of other replicas *)

\* Everything an entry stands for.
Names(e) == {e.origin} \cup e.deletions

Held(list) == UNION {Names(list[i]) : i \in DOMAIN list}

\* The entry a remote insert integrates.
RemoteEntry(op) == [origin |-> op.id, link |-> op.link, deletions |-> {}]

\* The list still holds what the operation refers to.
Applicable(r, op) ==
    CASE op.kind = "insert" -> Slot(entries[r], RemoteEntry(op)) # 0
      [] op.kind = "remove" -> op.target \in Origins(entries[r])
      [] op.kind = "undo"   -> \A c \in op.counts : c.target \in Held(entries[r])

\* Mutant of ObserveRemote: the allocator ignores remote counters.
IgnoreRemote(counter, id) == counter

\* observe_remote : the allocator's next counter is raised above a remote one.
ObserveRemote(counter, id) ==
    IF id.counter >= counter THEN id.counter + 1 ELSE counter

\* The state changes of apply_concrete: the document, then the allocator, then
\* the operation is observed together with its version.
ApplyConcrete(r, op) ==
    /\ entries' = [entries EXCEPT ![r] =
           CASE op.kind = "insert" -> Integrate(@, RemoteEntry(op))
             [] op.kind = "remove" -> Deleted(@, op.target, op.id)
             [] op.kind = "undo"   -> @]
    /\ undoMap' = [undoMap EXCEPT ![r] =
           IF op.kind # "undo" THEN @
           ELSE @ \cup {[edit |-> c.target, undo |-> op.id, count |-> c.count] :
                           c \in op.counts}]
    /\ version' = [version EXCEPT ![r] = Join(Observe(@, op.id), op.version)]
    /\ next' = [next EXCEPT ![r] = ObserveRemote(@, op.id)]
    /\ applied' = [applied EXCEPT ![r] = @ \cup {op}]
    /\ UNCHANGED sent

\* An operation is integrated once, after everything it depends on.
Receive(r, op) ==
    /\ op \in sent
    /\ ~Observed(version[r], op.id)
    /\ ObservedAll(version[r], op.version)
    /\ Applicable(r, op)
    /\ ApplyConcrete(r, op)

-----------------------------------------------------------------------------
(* Reclamation *)

\* Every replica has integrated the operation with this identity.
Stable(id) == \A s \in Actor : \E op \in applied[s] : op.id = id

\* Deleted entries and their undo events may be forgotten once every replica
\* knows of them, as long as nothing that stays is attached to them.
Forgettable(r, e) ==
    LET list == entries[r]
    IN  /\ ~IsVisible(undoMap[r], e)
        /\ e.deletions # {}
        /\ \A id \in Names(e) : Stable(id)
        /\ \A u \in undoMap[r] : u.edit \in Names(e) => Stable(u.undo)
        /\ \A i \in DOMAIN list : list[i] = e \/
              e.origin \notin {list[i].link.parent, list[i].link.rightOrigin}

Forget(r, gone) ==
    /\ entries' = [entries EXCEPT ![r] = Kept(@, gone)]
    /\ undoMap' = [undoMap EXCEPT ![r] =
           {u \in @ : u.edit \notin UNION {Names(e) : e \in gone}}]
    /\ UNCHANGED <<version, next, sent, applied>>

-----------------------------------------------------------------------------

\* What a replica may undo or redo: its own edits, if it still holds them.
Undoable(r) == {id \in Held(entries[r]) : id.actor = r}

ListNext ==
    \E r \in Actor :
        \/ \E left \in {NoId} \cup Origins(entries[r]) : InsertAfter(r, left)
        \/ \E target \in Origins(entries[r]) : RemoveEntry(r, target)
        \/ \E ids \in SUBSET Undoable(r) : Toggle(r, ids)
        \/ \E op \in sent : Receive(r, op)
        \/ \E gone \in SUBSET {e \in ToSet(entries[r]) : Forgettable(r, e)} :
               Forget(r, gone)

ListSpec == ListInit /\ [][ListNext]_listVars

-----------------------------------------------------------------------------
(* Properties *)

\* A version vector covers an operation exactly when the replica has integrated
\* it: deferral, rejection, quarantine, out-of-order and repeated delivery never
\* advance coverage over an operation that did not happen, and never lose one
\* (apply_one and retry_deferred test m_version alone).
CoverageIsHonest ==
    \A r \in Actor : \A op \in sent :
        Observed(version[r], op.id) <=> op \in applied[r]

\* Two replicas that have integrated the same operations show the same list,
\* whatever order the operations came in and whatever either has reclaimed
\* (SequenceOrder::integrate, UndoMap, collect_garbage).
Convergence ==
    \A r, s \in Actor :
        applied[r] = applied[s] =>
            VisibleIds(entries[r], undoMap[r]) = VisibleIds(entries[s], undoMap[s])

\* The order the FugueMax tree prescribes for the entries at positions i and j:
\* an in-order traversal in which left children are ordered by identity and
\* right children by later right origin, then identity.  path[k] is the climb
\* from position k.
TreeBefore(list, path, i, j) ==
    LET kid(k, p) == CHOOSE c \in path[k] :
                        list[c].link.parent = (IF p = 0 THEN NoId ELSE list[p].origin)
        above(k)  == (path[k] \cup {0}) \ {k}
        common    == above(i) \cap above(j)
        lca       == CHOOSE p \in common : \A q \in common : q = 0 \/ (p # 0 /\ q \in path[p])
        a == list[kid(i, lca)]
        b == list[kid(j, lca)]
    IN  CASE i \in above(j) -> list[kid(j, i)].link.side = "Right"
          [] j \in above(i) -> list[kid(i, j)].link.side = "Left"
          [] OTHER ->
               \/ a.link.side = "Left" /\ b.link.side = "Right"
               \/ /\ a.link.side = "Left" /\ b.link.side = "Left"
                  /\ IdLess(a.origin, b.origin)
               \/ /\ a.link.side = "Right" /\ b.link.side = "Right"
                  /\ \/ Rank(list, a.link.rightOrigin) > Rank(list, b.link.rightOrigin)
                     \/ /\ Rank(list, a.link.rightOrigin) = Rank(list, b.link.rightOrigin)
                        /\ IdLess(a.origin, b.origin)

\* The flat list each replica keeps is the in-order traversal of the FugueMax
\* tree its links describe: the incremental walks of integrate_impl (append
\* shortcut, sibling scan, subtree skipping) agree with the reference order of
\* the whole tree after any sequence of local and remote insertions.
TraversalOrder ==
    \A list \in {entries[r] : r \in Actor} :
        \A path \in {[k \in DOMAIN list |-> Path(list, k)]} :
            \A i, j \in DOMAIN list : i < j => TreeBefore(list, path, i, j)

\* A link minted from any reachable list places the new entry immediately after
\* the entry it was typed after, tombstones and concurrent siblings included
\* (mint_link followed by integrate_impl; the code asserts only "placed").
LocalInsertIsAdjacent ==
    \A r \in Actor : \A left \in {NoId} \cup Origins(entries[r]) :
        Slot(entries[r], [origin |-> NewId(r), link |-> MintLink(entries[r], left),
                          deletions |-> {}])
            = (IF left = NoId THEN 1 ELSE Find(entries[r], left) + 1)

\* Causality agrees with the identity order: an operation's identity is above
\* every operation its author had integrated (observe_remote raises the
\* allocator), so ties are broken the way authors saw them.
IdentityFollowsCausality ==
    \A o, p \in sent : o # p =>
        /\ o.id # p.id
        /\ Observed(p.version, o.id) => IdLess(o.id, p.id)

=============================================================================
