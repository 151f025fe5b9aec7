------------------------------ MODULE RecordLog ------------------------------
(***************************************************************************)
(* What a producer's log promises to whoever reads it, whatever files it   *)
(* is kept in.  Records are numbered; record n holds what the caller gave  *)
(* the token n, so a number stands for its bytes.  The log only grows at   *)
(* its end, by the next records or by a repetition of the last one (a      *)
(* retry after a failure that was not one).  A power loss may take records *)
(* from its end, never one whose push had returned success.                *)
(*                                                                         *)
(* docs/specs/vnext-transport.md, sections 1 and 2; the consumers that     *)
(* refuse anything else are FileOpStream::replay_all, ::replay_producer,   *)
(* ::poll and the scan of the own log in ::push.                           *)
(***************************************************************************)
EXTENDS Naturals, Sequences

VARIABLES
    log,        \* the records a reader that starts from the beginning finds
    confirmed   \* the last record whose durable push returned success

logVars == <<log, confirmed>>

LastOf(l) == IF l = << >> THEN 0 ELSE l[Len(l)]

LogInit == log = << >> /\ confirmed = 0

\* new continues old, each of its records the last one again or the next.
Continues(new, old) ==
    /\ Len(new) > Len(old) /\ SubSeq(new, 1, Len(old)) = old
    /\ \A i \in (Len(old) + 1) .. Len(new) :
         LET r == LastOf(SubSeq(new, 1, i - 1)) IN new[i] \in {r, r + 1} \ {0}

Grow == Continues(log', log) /\ UNCHANGED confirmed

Confirm ==
    /\ confirmed' \in (confirmed + 1) .. LastOf(log)
    /\ UNCHANGED log

\* new is what is left of old, and still holds the record n.
Keeps(new, old, n) == Len(new) < Len(old) /\ new = SubSeq(old, 1, Len(new)) /\ LastOf(new) >= n

Lose == Keeps(log', log, confirmed) /\ UNCHANGED confirmed

LogNext == Grow \/ Confirm \/ Lose

LogSpec == LogInit /\ [][LogNext]_logVars
==============================================================================
