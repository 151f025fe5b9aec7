-------------------------- MODULE DurableDirectory --------------------------
(***************************************************************************)
(* One directory whose files are only ever replaced as a whole, with       *)
(* replace_atomically.  `now` is what a process reads, `may` the images a   *)
(* power failure can leave: a rename whose directory fsync was not          *)
(* confirmed may or may not be in them, independently of the others.        *)
(* A file is <<>> or <<contents>>.                                          *)
(***************************************************************************)
EXTENDS Naturals, Sequences

NewDirectory(names) ==
    LET empty == [n \in names |-> <<>>] IN [now |-> empty, may |-> {empty}]

\* What replace_atomically returns: done; failed before the rename, which
\* leaves the old file; or renamed with the directory fsync unconfirmed.
ReplaceResults == {"ok", "io_error", "commit_uncertain"}

Replace(d, name, contents, result) ==
    LET new(x) == [x EXCEPT ![name] = <<contents>>]
    IN CASE result = "ok" -> [now |-> new(d.now), may |-> {new(d.now)}]
         [] result = "io_error" -> d
         [] result = "commit_uncertain" ->
                [now |-> new(d.now), may |-> d.may \cup {new(x) : x \in d.may}]

\* sync_directory: every name the directory shows is durable.
SyncDirectory(d, result) == IF result = "ok" THEN [d EXCEPT !.may = {d.now}] ELSE d

PowerLost(d) == {[now |-> x, may |-> {x}] : x \in d.may}

IsDurable(d, name) == \A x \in d.may : x[name] = d.now[name]
=============================================================================
