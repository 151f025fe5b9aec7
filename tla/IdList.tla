------------------------------- MODULE IdList -------------------------------
(***************************************************************************)
(* The replicated list as the code keeps it (crdt/IdList.cpp): the         *)
(* documents of ListReplica, plus what each replica needs to change its    *)
(* own at the right moments.                                               *)
(*                                                                         *)
(* Each actor owns one replica.  A local operation changes the owner's     *)
(* replica at once and is put into "sent"; the network may offer any sent  *)
(* operation to any replica, at any time, in any order, any number of      *)
(* times, or never.  A replica takes what it is offered in batches         *)
(* (apply_ops): every operation of the batch goes through apply_one and    *)
(* then retry_deferred runs over the deferral queue until a pass makes no  *)
(* progress.  A call of apply_ops is synchronous and replicas share        *)
(* nothing, so the model runs one call at a time; its steps are separate   *)
(* so that the loop itself is checked.                                     *)
(***************************************************************************)
EXTENDS ListReplica, LocalHistory

CONSTANTS
    Depths,         \* the undo depths a consumer may configure
    MaxDeferred,    \* m_deferred_budget.max_operations
    MaxQuarantine,  \* m_quarantine_budget.max_operations
    Redeliver,      \* which operations a consumer offers again: ones it was
                    \* told are applied, deferred or rejected
    Certify         \* is a reclamation certificate ever issued?

ASSUME IdListAssumption ==
    /\ Depths \subseteq Nat
    /\ MaxDeferred \in Nat /\ MaxQuarantine \in Nat
    /\ Redeliver \subseteq {"applied", "deferred", "rejected"}
    /\ Certify \in BOOLEAN

VARIABLES
    history,      \* m_undo_stack, m_undo_cursor, m_retired_undo_entries
    deferred,     \* m_deferred_queue
    quarantined,  \* m_quarantined
    frontier,     \* m_reclamation.operation_frontier
    phase,        \* where the running apply_ops is, "idle" when none runs
    busy,         \* the replica whose apply_ops runs
    todo,         \* the queue entries this retry pass has still to look at
    progress      \* the retry loop's flag

callVars == <<phase, busy, todo, progress>>
vars     == <<listVars, history, deferred, quarantined, frontier, callVars>>

Init ==
    /\ ListInit
    /\ history \in [Actor -> {EmptyHistory(d) : d \in Depths}]
    /\ deferred = [r \in Actor |-> <<>>]
    /\ quarantined = [r \in Actor |-> <<>>]
    /\ frontier = [r \in Actor |-> EmptyGlobal]
    /\ phase = "idle" /\ busy = 0
    /\ todo = <<>> /\ progress = FALSE

-----------------------------------------------------------------------------
(* Local operations *)

\* A local call changes nothing that belongs to remote operations.
Local == phase = "idle" /\ UNCHANGED <<deferred, quarantined, frontier, callVars>>

\* The group a new operation becomes; refused when the retirement budget is
\* exhausted, before anything is reserved.
Record(r, group) ==
    /\ WithinBudget(PushGroup(history[r], group))
    /\ history' = [history EXCEPT ![r] = PushGroup(@, group)]

LocalInsert(r, left) ==
    LET id == NewId(r)
    IN  /\ Local
        /\ InsertAfter(r, left)
        /\ Record(r, [gid |-> id, ops |-> {id}, items |-> {id}, dels |-> {}])

LocalRemove(r, target) ==
    LET id == NewId(r)
    IN  /\ Local
        /\ RemoveEntry(r, target)
        /\ Record(r, [gid |-> id, ops |-> {id}, items |-> {}, dels |-> {id}])

\* try_undo_group
UndoGroup(r, i) ==
    LET group == history[r].stack[i]
    IN  /\ Local
        /\ i \in 1 .. history[r].cursor
        /\ Toggle(r, group.items \cup group.dels)
        /\ history' = [history EXCEPT ![r] = UndoneAt(@, i)]

\* try_redo_group
RedoGroup(r, i) ==
    LET group == history[r].stack[i]
    IN  /\ Local
        /\ i \in history[r].cursor + 1 .. Len(history[r].stack)
        /\ Toggle(r, group.items \cup group.dels)
        /\ history' = [history EXCEPT ![r] = RedoneAt(@, i)]

CoalesceLastUndo(r) ==
    /\ Local
    /\ history[r].cursor >= 2
    /\ history' = [history EXCEPT ![r] = Coalesced(@)]
    /\ UNCHANGED listVars

AcknowledgeRetirement(r, gid) ==
    /\ Local
    /\ \E g \in ToSet(history[r].retired) : g.gid = gid
    /\ history' = [history EXCEPT ![r] = Acknowledged(@, gid)]
    /\ UNCHANGED listVars

SetMaxUndoDepth(r, depth) ==
    LET trimmed == Trim([history[r] EXCEPT !.depth = depth])
    IN  /\ Local
        /\ depth <= MaxRetiredGroups
        /\ WithinBudget(trimmed)
        /\ history' = [history EXCEPT ![r] = trimmed]
        /\ UNCHANGED listVars

-----------------------------------------------------------------------------
(* Remote operations *)

\* What an insert's link needs that the list does not hold.
MissingLinks(r, op) ==
    {d \in {op.link.parent, op.link.rightOrigin} \ {NoId} : Find(entries[r], d) = 0}

\* try_apply and apply_concrete, as a verdict: "wait" leaves the operation
\* owed, "reject" is m_apply_error.
Verdict(r, op) ==
    IF ~ObservedAll(version[r], op.version) THEN "wait"
    ELSE CASE op.kind = "insert" ->
                IF \/ \E d \in MissingLinks(r, op) : Covered(frontier[r], d)
                   \/ Slot(entries[r], RemoteEntry(op)) = 0
                THEN "reject" ELSE "apply"
           [] op.kind = "remove" ->
                IF op.target \in Origins(entries[r]) THEN "apply"
                ELSE IF Covered(frontier[r], op.target) THEN "reject" ELSE "wait"
           [] op.kind = "undo" ->
                IF \E c \in op.counts : Covered(frontier[r], c.target)
                THEN "reject" ELSE "apply"

\* Quarantine is bounded and drops what does not fit.
Quarantine(r, op) ==
    quarantined' = [quarantined EXCEPT ![r] =
        IF Len(@) < MaxQuarantine THEN Append(@, op) ELSE @]

\* defer_or_quarantine
DeferOrQuarantine(r, op) ==
    IF Len(deferred[r]) < MaxDeferred
    THEN /\ deferred' = [deferred EXCEPT ![r] = Append(@, op)]
         /\ UNCHANGED quarantined
    ELSE /\ Quarantine(r, op)
         /\ UNCHANGED deferred

\* The operations the consumer will not offer to r again.
Withheld(r) ==
    (IF "applied" \in Redeliver THEN {} ELSE applied[r])
        \cup (IF "deferred" \in Redeliver THEN {} ELSE ToSet(deferred[r]))
        \cup (IF "rejected" \in Redeliver THEN {} ELSE ToSet(quarantined[r]))

\* The four outcomes of apply_one, for an operation of the current batch.
Offered(r, op) ==
    /\ op \in sent \ Withheld(r)
    /\ phase = "idle" \/ (phase = "batch" /\ busy = r)
    /\ phase' = "batch" /\ busy' = r
    /\ UNCHANGED <<history, frontier, todo, progress>>

DeliverDuplicate(r, op) ==
    /\ Offered(r, op)
    /\ Observed(version[r], op.id)
    /\ UNCHANGED <<listVars, deferred, quarantined>>

DeliverApplied(r, op) ==
    /\ Offered(r, op)
    /\ ~Observed(version[r], op.id)
    /\ Verdict(r, op) = "apply"
    /\ ApplyConcrete(r, op)
    /\ UNCHANGED <<deferred, quarantined>>

DeliverDeferred(r, op) ==
    /\ Offered(r, op)
    /\ ~Observed(version[r], op.id)
    /\ Verdict(r, op) = "wait"
    /\ DeferOrQuarantine(r, op)
    /\ UNCHANGED listVars

DeliverRejected(r, op) ==
    /\ Offered(r, op)
    /\ ~Observed(version[r], op.id)
    /\ Verdict(r, op) = "reject"
    /\ UNCHANGED <<listVars, deferred, quarantined>>

\* apply_ops reaches retry_deferred, or retry_deferred starts another pass.
\* A pass moves the queue aside and rebuilds it from what still waits.
StartPass ==
    /\ \/ phase = "batch"
       \/ phase = "retry" /\ todo = <<>> /\ progress
    /\ phase' = "retry"
    /\ todo' = deferred[busy]
    /\ deferred' = [deferred EXCEPT ![busy] = <<>>]
    /\ progress' = FALSE
    /\ UNCHANGED <<listVars, history, quarantined, frontier, busy>>

\* Mutant of EndRetry: one pass, whatever it changed.
EndAfterOnePass ==
    /\ phase = "retry" /\ todo = <<>>
    /\ phase' = "idle" /\ busy' = 0
    /\ UNCHANGED <<listVars, history, deferred, quarantined, frontier, todo, progress>>

\* A pass without progress ends the call.
EndRetry ==
    /\ phase = "retry" /\ todo = <<>> /\ ~progress
    /\ phase' = "idle" /\ busy' = 0
    /\ UNCHANGED <<listVars, history, deferred, quarantined, frontier, todo, progress>>

\* One entry of the pass is taken from the queue.
Examined ==
    /\ phase = "retry" /\ todo # <<>>
    /\ todo' = Tail(todo)
    /\ UNCHANGED <<history, frontier, phase, busy>>

\* Applied while it waited: dropped from the queue.
RetryObserved ==
    /\ Examined
    /\ Observed(version[busy], Head(todo).id)
    /\ progress' = TRUE
    /\ UNCHANGED <<listVars, deferred, quarantined>>

\* Mutant of RetryApplied: what was applied while it waited is applied again.
RetryAppliedTwice ==
    /\ Examined
    /\ Verdict(busy, Head(todo)) = "apply"
    /\ ApplyConcrete(busy, Head(todo))
    /\ progress' = TRUE
    /\ UNCHANGED <<deferred, quarantined>>

RetryApplied ==
    /\ Examined
    /\ ~Observed(version[busy], Head(todo).id)
    /\ Verdict(busy, Head(todo)) = "apply"
    /\ ApplyConcrete(busy, Head(todo))
    /\ progress' = TRUE
    /\ UNCHANGED <<deferred, quarantined>>

RetryRejected ==
    /\ Examined
    /\ ~Observed(version[busy], Head(todo).id)
    /\ Verdict(busy, Head(todo)) = "reject"
    /\ Quarantine(busy, Head(todo))
    /\ progress' = TRUE
    /\ UNCHANGED <<listVars, deferred>>

\* Mutant of RetryWaits: an entry that waits counts as progress.
RetryWaitsBusily ==
    /\ Examined
    /\ ~Observed(version[busy], Head(todo).id)
    /\ Verdict(busy, Head(todo)) = "wait"
    /\ deferred' = [deferred EXCEPT ![busy] = Append(@, Head(todo))]
    /\ progress' = TRUE
    /\ UNCHANGED <<listVars, quarantined>>

\* Still owed: back into the queue.
RetryWaits ==
    /\ Examined
    /\ ~Observed(version[busy], Head(todo).id)
    /\ Verdict(busy, Head(todo)) = "wait"
    /\ deferred' = [deferred EXCEPT ![busy] = Append(@, Head(todo))]
    /\ UNCHANGED <<listVars, quarantined, progress>>

-----------------------------------------------------------------------------
(* Checkpoints and reclamation *)

\* Global::coverage_intersection over every replica: the frontier a GC
\* certificate names covers only what all members have.
CertifiedFrontier == [a \in Actor |-> Min({version[s][a] : s \in Actor})]

\* restore_checkpoint_state applied to the replica's own checkpoint_state:
\* every check it makes on the snapshot.
SnapshotAccepted(r) ==
    LET known(id)  == Observed(version[r], id)
        waiting    == deferred[r] \o quarantined[r]
    IN  /\ ObservedAll(version[r], frontier[r])
        /\ version[r][r] < next[r]
        /\ Len(deferred[r]) <= MaxDeferred /\ Len(quarantined[r]) <= MaxQuarantine
        /\ \A e \in undoMap[r] : known(e.edit) /\ known(e.undo)
        /\ Cardinality(Origins(entries[r])) = Len(entries[r])
        /\ \A e \in ToSet(entries[r]) :
              \A id \in ({e.origin, e.link.parent, e.link.rightOrigin} \cup e.deletions)
                            \ {NoId} : known(id)
        /\ Consistent(entries[r])
        /\ \A i \in DOMAIN waiting : ~known(waiting[i].id)
        /\ \A i, j \in DOMAIN waiting : waiting[i].id = waiting[j].id => i = j
        /\ HistoryAccepted(history[r], r, version[r][r], history[r].depth)

\* A checkpoint of this replica, bound to a certified frontier, is restored into
\* it.  The restored state is the state that was captured; the frontier never
\* moves backwards.
RestoreCheckpoint(r) ==
    /\ Certify
    /\ phase = "idle"
    /\ SnapshotAccepted(r)
    /\ ObservedAll(CertifiedFrontier, frontier[r])
    /\ frontier' = [frontier EXCEPT ![r] = CertifiedFrontier]
    /\ UNCHANGED <<listVars, history, deferred, quarantined, callVars>>

\* Mutant of Tombstone: a deletion that was undone counts.
EverDeleted(r, e) == e.deletions # {}

\* An entry only its deletions keep out of sight.
Tombstone(r, e) == ~IsVisible(undoMap[r], e) /\ e.deletions # {}

\* Mutant of Linked: parents are not looked at.
LinkedAsRightOrigin(r, e) ==
    \E f \in ToSet(entries[r]) : f # e /\ e.origin = f.link.rightOrigin

\* Another entry's placement needs this one.
Linked(r, e) ==
    \E f \in ToSet(entries[r]) :
        f # e /\ e.origin \in {f.link.parent, f.link.rightOrigin}

\* The entries collect_garbage may drop: tombstones, covered with all their
\* deletions and undo events, that neither the local history, nor a pin, nor
\* another entry's link needs.
Reclaimable(r, pinned) ==
    LET events(e) == {u \in undoMap[r] : u.edit \in Names(e)}
    IN  {e \in ToSet(entries[r]) :
            /\ Tombstone(r, e)
            /\ \A id \in Names(e) : Covered(frontier[r], id)
            /\ Names(e) \cap Retained(history[r]) = {}
            /\ e.origin \notin pinned
            /\ ~Linked(r, e)
            /\ \A u \in events(e) : Covered(frontier[r], u.undo)}

CollectGarbage(r, pinned) ==
    /\ phase = "idle"
    /\ frontier[r] # EmptyGlobal
    /\ ObservedAll(version[r], frontier[r])
    /\ Reclaimable(r, pinned) # {}
    /\ Forget(r, Reclaimable(r, pinned))
    /\ UNCHANGED <<history, deferred, quarantined, frontier, callVars>>

-----------------------------------------------------------------------------

LocalStep(r) ==
    \/ \E left \in {NoId} \cup Origins(entries[r]) : LocalInsert(r, left)
    \/ \E target \in Origins(entries[r]) : LocalRemove(r, target)
    \/ \E i \in DOMAIN history[r].stack : UndoGroup(r, i)
    \/ \E i \in DOMAIN history[r].stack : RedoGroup(r, i)
    \/ CoalesceLastUndo(r)
    \/ \E g \in ToSet(history[r].retired) : AcknowledgeRetirement(r, g.gid)
    \/ \E depth \in Depths : SetMaxUndoDepth(r, depth)

DeliverStep(r) ==
    \E op \in sent :
        \/ DeliverDuplicate(r, op)
        \/ DeliverApplied(r, op)
        \/ DeliverDeferred(r, op)
        \/ DeliverRejected(r, op)

RetryStep ==
    \/ StartPass
    \/ RetryObserved
    \/ RetryApplied
    \/ RetryRejected
    \/ RetryWaits
    \/ EndRetry

ReclaimStep(r) ==
    \/ RestoreCheckpoint(r)
    \/ \E pinned \in {{}} \cup {{id} : id \in Origins(entries[r])} :
           CollectGarbage(r, pinned)

Next ==
    \/ \E r \in Actor : LocalStep(r) \/ DeliverStep(r) \/ ReclaimStep(r)
    \/ RetryStep

Spec == Init /\ [][Next]_vars

\* A step that is DeliverApplied at r, told from what it adds to "applied": no other
\* step adds an operation of "sent" while its phase is "idle" or "batch".
Integrates(r) ==
    \E op \in sent \ Withheld(r) :
        /\ phase = "idle" \/ (phase = "batch" /\ busy = r)
        /\ ~Observed(version[r], op.id)
        /\ Verdict(r, op) = "apply"
        /\ applied' = [applied EXCEPT ![r] = @ \cup {op}]

\* What the scheduling of a consumer provides: a transport keeps offering what
\* was not accepted, and apply_ops runs to its end once it is called.
Fairness ==
    /\ WF_vars(RetryStep)
    /\ \A r \in Actor : SF_applied(Integrates(r))

FairSpec == Spec /\ Fairness

-----------------------------------------------------------------------------
(* Properties *)

\* When a replica is not inside apply_ops, every operation left in its deferral
\* queue misses a causal dependency: retry_deferred runs to a fixed point, so
\* nothing applicable is left waiting for a wake-up that will not come.
NothingReadyIsWaiting ==
    \A r \in Actor : phase = "idle" =>
        \A op \in ToSet(deferred[r]) :
            ~Observed(version[r], op.id) /\ ~ObservedAll(version[r], op.version)

\* The undo cursor and the replicated undo counts tell the same story: the
\* identities of the groups below the cursor are live and those of the redo
\* tail are undone, through undo, redo, coalescing, truncation and trimming.
HistoryMatchesUndoMap ==
    \A r \in Actor : \A i \in DOMAIN history[r].stack :
        \A id \in history[r].stack[i].items \cup history[r].stack[i].dels :
            IsUndone(undoMap[r], id) <=> i > history[r].cursor

\* An operation belongs to at most one undo group, so no undo can take it back
\* twice, and what the groups name can still be found in the list: collection
\* never removes an entry that a local undo or redo would bring back.
HistoryIsResolvable ==
    \A r \in Actor :
        LET all == history[r].stack \o history[r].retired
        IN  /\ \A i, j \in DOMAIN all : i # j => all[i].ops \cap all[j].ops = {}
            /\ \A g \in ToSet(all) : g.items \subseteq Origins(entries[r])
            /\ \A g \in ToSet(all) : \A d \in g.dels :
                  \E e \in ToSet(entries[r]) : d \in e.deletions

\* A replica's own checkpoint is one it would accept back: restore_checkpoint_state
\* refuses nothing that checkpoint_state captures between two calls.
RestoresOwnCheckpoint ==
    \A r \in Actor : phase = "idle" => SnapshotAccepted(r)

\* Every operation reaches every replica as long as the transport keeps offering
\* it (only boundedly many are ever sent), even when the deferral queue is full:
\* a full queue refuses later operations but never the missing prerequisite, and
\* the retry loop gives the queue back (defer_or_quarantine, retry_deferred).
EventuallyIntegrated == <>[](\A r \in Actor : applied[r] = sent)
=============================================================================
