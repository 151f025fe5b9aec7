------------------------------ MODULE MCSumTree ------------------------------
(* SumTree and AvlMap in one run: a behaviour belongs to one of them. *)
EXTENDS SumTree, AvlMap

VARIABLE which  \* the structure of this behaviour

MCStarts == {<<0, 0, 0>>, <<5, 0, 0>>, <<11, 0, 0>>, <<10, 3, 5>>}

\* The structure that is not explored stays as it starts.
MCInit ==
    /\ which \in {"tree", "map"}
    /\ TreeInit /\ MapInit
    /\ which = "map" => lists[1] = <<>>
    /\ which = "tree" => content = <<>>

MCNext ==
    /\ which' = which
    /\ \/ which = "tree" /\ TreeNext /\ UNCHANGED mapVars
       \/ which = "map" /\ MapNext /\ UNCHANGED treeVars

MCSpec == MCInit /\ [][MCNext]_<<which, treeVars, mapVars>>
=============================================================================
