--------------------------- MODULE MCListReplica ---------------------------
(***************************************************************************)
(* A bounded instance of ListReplica.  A behaviour has a budget for the    *)
(* inserts of each author and for the other kinds of operation; every way  *)
(* to create and deliver that many operations is explored.                 *)
(***************************************************************************)
EXTENDS ListReplica

VARIABLE budget

Budget(insert, remove, undo) == [insert |-> insert, remove |-> remove, undo |-> undo]

\* Insertion only, for the shapes of concurrent siblings, with the chain of two
\* at the lowest or at the highest identity; then insertion, removal, undo and
\* reclamation.
Budgets ==
    {Budget(<<2, 1, 1>>, 0, 0), Budget(<<1, 1, 2>>, 0, 0),
     Budget(<<1, 1, 0>>, 1, 0), Budget(<<2, 0, 0>>, 1, 0), Budget(<<1, 0, 0>>, 1, 2)}

MCMaxOps == [insert |-> 4, remove |-> 1, undo |-> 2]

MCInit == ListInit /\ budget \in Budgets

Made(kind, r) == {o \in sent' : o.kind = kind /\ o.id.actor = r}

MCNext ==
    /\ budget' = budget /\ ListNext
    /\ \A r \in Actor : Cardinality(Made("insert", r)) <= budget.insert[r]
    /\ \A kind \in {"remove", "undo"} :
          Cardinality(UNION {Made(kind, r) : r \in Actor}) <= budget[kind]

MCSpec == MCInit /\ [][MCNext]_<<budget, listVars>>
=============================================================================
