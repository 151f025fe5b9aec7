--------------------------- MODULE DurableJournal ---------------------------
(***************************************************************************)
(* The line journals MembershipStore and RetentionState keep: numbered,    *)
(* checksummed lines appended through DurableAppendFile and read back as a *)
(* whole.  A file remembers which of its lines an fsync has covered, and   *)
(* whether the fsync of its directory has covered its name.                *)
(***************************************************************************)
EXTENDS Naturals, Sequences

\* What one append or sync can meet: nothing, a write that fails outright, a
\* short write, a failed fsync of the file, a failed fsync of the directory.
AppendFaults == {"none", "write", "torn", "sync", "dirsync"}
SyncFaults == {"none", "sync", "dirsync"}

NewJournal == [lines |-> <<>>, torn |-> FALSE, durable |-> 0, named |-> FALSE]

\* A line that fails its checksum: bytes of a short write run into the next
\* record.
Garbage == [seq |-> 0]

\* The write reaches the file: after a short write the new record continues
\* the broken line.
Written(f, r) ==
    [f EXCEPT !.lines = Append(@, IF f.torn THEN Garbage ELSE r), !.torn = FALSE]

\* DurableAppendFile::sync: the file, then its directory.  Every handle still
\* owes the directory its fsync.
SyncedJournal(f, fault) ==
    CASE fault = "sync" -> f
      [] fault = "dirsync" -> [f EXCEPT !.durable = Len(f.lines)]
      [] fault = "none" -> [f EXCEPT !.durable = Len(f.lines), !.named = TRUE]

\* DurableAppendFile::append: the write, then sync.
AppendedJournal(f, r, fault) ==
    CASE fault = "write" -> f
      [] fault = "torn" -> [f EXCEPT !.torn = TRUE]
      [] OTHER -> SyncedJournal(Written(f, r), fault)

\* The error an append or sync returns: only the directory step is reported
\* as a publication whose outcome is unknown.
JournalError(fault) ==
    CASE fault = "none" -> "ok"
      [] fault = "dirsync" -> "commit_uncertain"
      [] OTHER -> "io_error"

\* recover(): the whole journal or an error.  A tail without its newline, a
\* bad checksum and a wrong sequence number are all corruption.
Readable(f) ==
    /\ ~f.torn
    /\ \A i \in 1..Len(f.lines) : f.lines[i].seq = i

\* What a power failure can leave of a file: any prefix that holds the lines
\* an fsync covered, perhaps followed by part of the next line.
AfterPowerLoss(f) ==
    LET left(n, t) == [lines |-> SubSeq(f.lines, 1, n), torn |-> t, durable |-> n, named |-> TRUE]
        kept == (IF f.named THEN f.durable ELSE 0)..Len(f.lines)
    IN {left(n, FALSE) : n \in kept}
       \cup {left(n, TRUE) : n \in {k \in kept : k < Len(f.lines) \/ f.torn}}
=============================================================================
