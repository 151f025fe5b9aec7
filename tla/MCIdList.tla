------------------------------ MODULE MCIdList ------------------------------
(***************************************************************************)
(* Bounded instances of IdList.  The bounds count the operations of each   *)
(* kind over the whole behaviour, so every interleaving of their creation  *)
(* and delivery is explored.                                               *)
(***************************************************************************)
EXTENDS IdList

\* Chains of dependent operations of two replicas, delivered in any order and
\* through queues that may be too short for them.
DeliveryOps == [insert |-> 3, remove |-> 0, undo |-> 0]

\* Insert, remove and undo together, with reclamation.
ReclaimOps == [insert |-> 2, remove |-> 1, undo |-> 1]

\* One long private history: undo, redo, coalescing and retirement.
HistoryOps == [insert |-> 2, remove |-> 1, undo |-> 3]
=============================================================================
