---------------------------- MODULE MCTextBuffer ----------------------------
(* TextBuffer on a seed of two items and two replicas. *)
EXTENDS TextBuffer

Each(a, b) == [x \in Actor |-> CASE x = 1 -> a [] x = 2 -> b [] OTHER -> 0]

Editing(edits, features) ==
    [edits |-> edits, toggles |-> Each(0, 0), upkeep |-> 0, upkept |-> {}, features |-> features]

\* Edits on every direct path: two against a concurrent one, and pairs with
\* markers and two-range edits, by one replica and by two.  Then one edit each
\* with undo and redo and, at the first replica, a collection, a restored
\* checkpoint or a counter gap.  Then a gap declared by mistake for an operation
\* of a replica that toggles one edit three times, or makes two and toggles one:
\* the other replica's queue overflows, and refused operations name the gap.
MCPlans ==
    {Editing(Each(2, 1), {}),
     Editing(Each(2, 0), {"markers", "ranges"}),
     Editing(Each(1, 1), {"markers", "ranges"}),
     [edits |-> Each(1, 1), toggles |-> Each(2, 0), upkeep |-> 1, upkept |-> {1},
      features |-> {"gaps", "collect", "restore"}],
     [edits |-> Each(1, 0), toggles |-> Each(3, 0), upkeep |-> 1, upkept |-> {1},
      features |-> {"mistaken"}],
     [edits |-> Each(2, 0), toggles |-> Each(1, 0), upkeep |-> 1, upkept |-> {1},
      features |-> {"mistaken"}]}
=============================================================================
