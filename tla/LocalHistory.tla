---------------------------- MODULE LocalHistory ----------------------------
(***************************************************************************)
(* The private undo history of one replica (crdt/IdList.cpp; Buffer keeps  *)
(* the same structure).  A history is a record                             *)
(*                                                                         *)
(*   stack    the undo groups, oldest first                                *)
(*   cursor   how many of them are done; the rest is the redo tail         *)
(*   retired  groups dropped from the stack and not yet acknowledged       *)
(*   depth    the configured m_max_undo_depth                              *)
(*                                                                         *)
(* A group names the operations it stands for: "gid" its first one, "ops"  *)
(* all of them, "items" the identities it inserted and "dels" the          *)
(* deletions it made.  The order of the members inside a group is never    *)
(* looked at, so they are sets.  Byte sizes are counted in operations: the *)
(* code charges each member a fixed number of bytes.                       *)
(***************************************************************************)
EXTENDS SequenceOrder

CONSTANTS
    MaxUndoBytes,       \* m_max_undo_bytes, in operations
    MaxRetiredGroups,   \* kMaxPendingUndoRetirementGroups
    MaxRetiredBytes     \* kMaxPendingUndoRetirementBytes, in operations

ASSUME HistoryLimitsAssumption ==
    /\ MaxUndoBytes \in Nat
    /\ MaxRetiredGroups \in Nat
    /\ MaxRetiredBytes \in Nat

Group == [gid : Identity, ops : SUBSET Identity,
          items : SUBSET Identity, dels : SUBSET Identity]

History == [stack : Seq(Group), cursor : Nat, retired : Seq(Group), depth : Nat]

EmptyHistory(depth) ==
    [stack |-> <<>>, cursor |-> 0, retired |-> <<>>, depth |-> depth]

\* recalculate_undo_bytes, local_undo_retirement_charge
Weight(groups) == FoldSeq(LAMBDA g, n : Cardinality(g.ops) + n, 0, groups)

\* trim_undo_stack : retire the oldest groups until the stack fits its limits.
Trim(h) ==
    LET rest(n) == SubSeq(h.stack, n + 1, Len(h.stack))
        fits(n) == Len(rest(n)) <= h.depth /\ Weight(rest(n)) <= MaxUndoBytes
        n == Min({k \in 0 .. Len(h.stack) : k = Len(h.stack) \/ fits(k)})
    IN  [h EXCEPT !.stack = rest(n),
                  !.retired = @ \o SubSeq(h.stack, 1, n),
                  !.cursor = IF @ > n THEN @ - n ELSE 0]

\* The tail of insert_after_resolved and remove_at_resolved : drop the redo
\* tail, push the new group, trim.
PushGroup(h, g) ==
    Trim([h EXCEPT !.stack = Append(SubSeq(@, 1, h.cursor), g),
                   !.retired = @ \o SubSeq(h.stack, h.cursor + 1, Len(h.stack)),
                   !.cursor = @ + 1])

\* check_retirement_budget_for_limits, check_retirement_budget_for_new_entry :
\* they simulate the change and refuse it when the result h would hold more
\* than the code is willing to keep.
WithinBudget(h) ==
    /\ Len(h.stack) + Len(h.retired) <= MaxRetiredGroups
    /\ Weight(h.retired) <= MaxRetiredBytes

\* Mutant of UndoneAt: the group stays where it is.
UndoneInPlace(h, i) == [h EXCEPT !.cursor = @ - 1]

\* try_undo_group : group i (one of the done ones) becomes the first of the
\* redo tail.
UndoneAt(h, i) ==
    [h EXCEPT !.stack = InsertAt(RemoveAt(@, i), h.cursor, h.stack[i]),
              !.cursor = @ - 1]

\* try_redo_group : group i (one of the redo tail) becomes the last done one.
RedoneAt(h, i) ==
    [h EXCEPT !.stack = InsertAt(RemoveAt(@, i), h.cursor + 1, h.stack[i]),
              !.cursor = @ + 1]

\* coalesce_last_undo : the last done group is merged into the one before it.
Coalesced(h) ==
    LET last == h.stack[h.cursor]
        prev == h.stack[h.cursor - 1]
        both == [prev EXCEPT !.ops = @ \cup last.ops,
                             !.items = @ \cup last.items,
                             !.dels = @ \cup last.dels]
    IN  [h EXCEPT !.stack = RemoveAt([@ EXCEPT ![h.cursor - 1] = both], h.cursor),
                  !.cursor = @ - 1]

\* acknowledge_undo_retirements, for one pending group
Acknowledged(h, gid) ==
    [h EXCEPT !.retired = Kept(@, {g \in ToSet(@) : g.gid = gid})]

\* restore_local_history : the snapshot h is accepted by an owner whose own
\* operations are known up to "through".
HistoryAccepted(h, owner, through, depth) ==
    /\ h.cursor <= Len(h.stack)
    /\ Len(h.stack) <= depth
    /\ Len(h.stack) + Len(h.retired) <= MaxRetiredGroups
    /\ Weight(h.stack) <= MaxUndoBytes
    /\ Weight(h.retired) <= MaxRetiredBytes
    /\ \A g \in ToSet(h.stack) \cup ToSet(h.retired) :
          /\ g.ops # {}
          /\ \A id \in {g.gid} \cup g.ops \cup g.items \cup g.dels :
                id.actor = owner /\ id.counter <= through

\* Mutant of Retained: groups waiting for acknowledgement are forgotten.
RetainedByStack(h) == UNION {g.items \cup g.dels : g \in ToSet(h.stack)}

\* Every identity some group of the history still needs.
Retained(h) ==
    UNION {g.items \cup g.dels : g \in ToSet(h.stack) \cup ToSet(h.retired)}
=============================================================================
