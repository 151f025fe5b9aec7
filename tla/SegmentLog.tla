----------------------------- MODULE SegmentLog ------------------------------
(***************************************************************************)
(* One producer's directory of log segments: the SegmentWriter that fills  *)
(* it on behalf of FileOpStream::push, the files it leaves at every point  *)
(* where it can be interrupted, its recovery, and a SegmentReader of       *)
(* another process that follows the directory.                             *)
(*                                                                         *)
(* A segment NNN is NNN.open while it grows and NNN.seg.zst once sealed;   *)
(* sealing publishes the sealed file by atomic replacement and only then   *)
(* removes the open one.  Records are their sequence numbers (equal        *)
(* numbers have equal bytes); 0 is a line that no longer decodes.          *)
(* FileOps calls are the atomic steps; each may fail, the process may be   *)
(* killed between any two, and the machine may lose power.                 *)
(***************************************************************************)
EXTENDS Integers, FiniteSets, FiniteSetsExt, Sequences, SequencesExt

CONSTANTS
    MaxRecords,    \* bound: sequence numbers pushed
    TailCapacity,  \* max_tail_bytes, in records
    MaxPending,    \* max_pending_bytes, in records
    ReadLimit,     \* kMaxBatchRecords
    MaxEvents,     \* bound: failures, kills, power losses and reads elsewhere
    UseAfterFailedSeal \* whether the owner keeps pushing after close or tick failed

ASSUME SegmentBounds ==
    /\ {MaxRecords, TailCapacity, MaxPending, ReadLimit} \subseteq Nat \ {0}
    /\ MaxEvents \in Nat
    /\ UseAfterFailedSeal \in BOOLEAN

VARIABLES
    disk,      \* the directory, and what of it a power loss can undo
    w,         \* the SegmentWriter and the WriterState around it
    step,      \* the file operation the running call has reached
    confirmed, \* last sequence whose durable push returned success
    reader,    \* a SegmentReader, its cursor file and its consumer
    events     \* how many of MaxEvents have happened

vars == <<disk, w, step, confirmed, reader, events>>

Record  == 0 .. MaxRecords
NoFiles == [id \in {} |-> << >>]
Idle    == [at |-> "idle", call |-> "none", recs |-> << >>, id |-> 0]
NoCursor == [lastSealed |-> 0, openId |-> 0, prefix |-> << >>]

----------------------------------------------------------------------------
(* The directory.  sealed: id -> records; open: id -> file; temps: the     *)
(* NNN.seg.zst.tmp files.  unnamed: sealed ids whose rename the directory  *)
(* does not yet hold durably; ghosts: removed open files it may still have.*)
EmptyDisk == [sealed |-> NoFiles, open |-> NoFiles, temps |-> {},
              unnamed |-> {}, ghosts |-> {}]

OpenFile(recs, torn, synced, named) ==
    [recs |-> recs, torn |-> torn, synced |-> synced, named |-> named]

Put(files, id, f) == [i \in DOMAIN files \union {id} |-> IF i = id THEN f ELSE files[i]]
Drop(files, ids)  == [i \in DOMAIN files \ ids |-> files[i]]

HighestSealed(d) == Max(DOMAIN d.sealed \union {0})

\* sync_directory: every name of the directory is durable afterwards.
DirSync(d) ==
    [d EXCEPT !.unnamed = {}, !.ghosts = {},
              !.open = [i \in DOMAIN d.open |-> [d.open[i] EXCEPT !.named = TRUE]]]

RemoveOpen(d, id) ==
    IF id \in DOMAIN d.open
    THEN [d EXCEPT !.open = Drop(d.open, {id}),
                   !.ghosts = @ \union {[id |-> id, file |-> d.open[id]]}]
    ELSE d

RemoveTemp(d, t) == [d EXCEPT !.temps = @ \ {t}]

\* The call that made a temporary has ended without it (its name has a nonce).
LeaveTemps(d) == [d EXCEPT !.temps = {[t EXCEPT !.left = TRUE] : t \in @}]

\* An append lands behind whatever the file ends with: behind a torn line the
\* two become one line that does not decode.
AppendLine(f, r) ==
    [f EXCEPT !.recs = Append(@, IF f.torn THEN 0 ELSE r), !.torn = FALSE]

\* What a machine may find after losing power: renames not yet synchronised
\* undone, temporaries missing or back, removed and new open files back or
\* missing, unsynchronised lines cut, also mid-line.  The file system orders the
\* updates of one directory: neither a removal nor a temporary outlives an
\* earlier update of the same segment.
Cuts(f) ==
    {OpenFile(SubSeq(f.recs, 1, n), t, n, TRUE) :
        n \in f.synced .. Len(f.recs),
        t \in IF f.synced = Len(f.recs) THEN {f.torn} ELSE BOOLEAN}

PowerLossOf(d) ==
    LET opens   == [i \in DOMAIN d.open \union {g.id : g \in d.ghosts} |->
                      IF i \in DOMAIN d.open THEN d.open[i]
                      ELSE (CHOOSE g \in d.ghosts : g.id = i).file]
        temps   == LeaveTemps(d).temps \union
                               {[id |-> i, recs |-> d.sealed[i], whole |-> TRUE, left |-> TRUE] : i \in d.unnamed}
        removed == DOMAIN opens \ DOMAIN d.open
        free    == removed \union {i \in DOMAIN d.open : ~d.open[i].named}
        found(undo, t, keep) ==
            { [EmptyDisk EXCEPT !.sealed = Drop(d.sealed, undo), !.temps = t, !.open = f] :
                f \in {g \in [keep -> UNION {Cuts(opens[i]) : i \in keep}] :
                          \A i \in keep : g[i] \in Cuts(opens[i])} }
    IN UNION { found(c.undo, c.temps, DOMAIN opens \ c.gone) :
                 c \in {c \in [undo : SUBSET d.unnamed, temps : SUBSET temps, gone : SUBSET free] :
                          /\ \A t \in c.temps : t \in LeaveTemps(d).temps \/ t.id \in c.undo
                          /\ removed \intersect c.undo \intersect c.gone = {}
                          /\ {t.id : t \in c.temps} \intersect c.gone \subseteq removed} }

----------------------------------------------------------------------------
(* SegmentReader::read_new over the names a directory scan returned.       *)
LaterExists(list, id) == \E i \in list.sealed \union list.open : i > id

\* Mutant: an open segment read to its end counts as done.
CursorAfterMutant(c, last, prefix) ==
    IF prefix # << >> THEN [NoCursor EXCEPT !.lastSealed = last + 1]
    ELSE IF last = c.lastSealed THEN c
    ELSE [NoCursor EXCEPT !.lastSealed = last]

\* The cursor behind a batch that exhausts the segments up to last and leaves
\* off in the next one behind prefix.
CursorAfter(c, last, prefix) ==
    IF prefix # << >> THEN [lastSealed |-> last, openId |-> last + 1, prefix |-> prefix]
    ELSE IF last = c.lastSealed THEN c
    ELSE [NoCursor EXCEPT !.lastSealed = last]

ReadNew(d, list, c) ==
    LET through == Max({c.lastSealed} \union
                       {k \in list.sealed : \A i \in (c.lastSealed + 1) .. k : i \in list.sealed})
        tail     == through + 1
        hasTail  == tail \in list.open
        vanished == hasTail /\ tail \notin DOMAIN d.open
        content(i) == IF i \in list.sealed THEN d.sealed[i]
                      ELSE IF i = tail /\ hasTail /\ ~vanished THEN d.open[i].recs ELSE << >>
        skip(i)  == IF c.openId = i /\ IsPrefix(c.prefix, content(i)) THEN Len(c.prefix) ELSE 0
        unread(i) == SubSeq(content(i), skip(i) + 1, Len(content(i)))
        upTo(k)  == FlattenSeq([i \in 1 .. (k - c.lastSealed) |-> unread(c.lastSealed + i)])
        inSealed == Len(upTo(through))
        all      == IF inSealed >= ReadLimit \/ ~hasTail THEN upTo(through) ELSE upTo(tail)
        n        == Min({Len(all), ReadLimit})
        last     == Max({c.lastSealed} \union
                        {k \in (c.lastSealed + 1) .. through : Len(upTo(k)) <= n})
        read     == IF last < tail THEN skip(last + 1) + n - Len(upTo(last)) ELSE 0
    IN [records |-> SubSeq(all, 1, n),
        gap     |-> \/ vanished
                    \/ inSealed < ReadLimit /\ Len(all) > ReadLimit
                    \/ ~hasTail /\ inSealed < ReadLimit /\ LaterExists(list, tail),
        cursor  |-> CursorAfter(c, last, SubSeq(content(last + 1), 1, read))]

Listing(d) == [sealed |-> DOMAIN d.sealed, open |-> DOMAIN d.open]

\* A scan from the beginning, batch after batch, as FileOpStream does it: it
\* gives up at the first gap.
Scan(d) ==
    LET more(batch, i) ==
            IF batch.gap THEN batch
            ELSE LET next == ReadNew(d, Listing(d), batch.cursor)
                 IN [next EXCEPT !.records = batch.records \o IF next.gap THEN << >> ELSE @]
    IN FoldLeft(more, [records |-> << >>, gap |-> FALSE, cursor |-> NoCursor],
                [i \in 1 .. (MaxRecords * 2) |-> i])

\* The records of the directory, the limit on one batch aside.
Readable(d) ==
    LET through == Max({0} \union {k \in DOMAIN d.sealed : \A i \in 1 .. k : i \in DOMAIN d.sealed})
    IN FlattenSeq([i \in 1 .. through |-> d.sealed[i]])
       \o IF through + 1 \in DOMAIN d.open THEN d.open[through + 1].recs ELSE << >>

LastRecord(l) == IF l = << >> THEN 0 ELSE l[Len(l)]

----------------------------------------------------------------------------
(* The writer.  handle: no DurableAppendFile, or one that has (named) or   *)
(* has not yet synchronised the directory.  failed is m_failure.           *)
NoWriter == [status |-> "down", scanned |-> FALSE, next |-> 1, pending |-> << >>,
             openId |-> 0, openRecs |-> << >>, handle |-> "none"]

Return == step' = Idle
Goto(where) == step' = [step EXCEPT !.at = where]
Begin(call) == step' = [Idle EXCEPT !.at = "flush", !.call = call]
Working(where) == step.at = where
Quiet == UNCHANGED <<confirmed, reader>>
Event == events < MaxEvents /\ events' = events + 1

\* The destructor ignores errors and a failed start leaves no writer.  After a
\* failed close or tick the object still accepts calls.
Left(after) ==
    IF step.call \in {"destroy", "start"} THEN NoWriter
    ELSE IF step.call \in {"close", "tick"} /\ ~UseAfterFailedSeal THEN [after EXCEPT !.status = "failed"]
    ELSE after

\* A file operation of the running call fails and the call returns its error;
\* a failed append or barrier also sets m_failure.
CallFails(after) ==
    /\ Event
    /\ w' = Left(after)
    /\ Return /\ Quiet

Poisoned == [w EXCEPT !.status = "failed"]

Seal == step' = [step EXCEPT !.at = "create", !.id = w.openId, !.recs = w.openRecs]

\* FileOpStream::push of the next token: queue the record (SegmentWriter::append
\* refuses when the queue is full); a durable push then flushes.
Push(durable) ==
    /\ step = Idle /\ w.status = "up" /\ w.scanned /\ w.next <= MaxRecords
    /\ Len(w.pending) < MaxPending
    /\ w' = [w EXCEPT !.pending = Append(@, w.next), !.next = @ + IF durable THEN 0 ELSE 1]
    /\ IF durable THEN Begin("push") ELSE UNCHANGED step
    /\ Quiet /\ UNCHANGED <<disk, events>>

\* FileOpStream::flush, and ::push of a token that is in the log or queued.
Flush ==
    /\ step = Idle /\ w.status = "up" /\ w.scanned
    /\ Begin("flush")
    /\ Quiet /\ UNCHANGED <<disk, w, events>>

\* The first push of a process scans the producer's own log for its next token.
ScanOwnLog ==
    /\ step = Idle /\ w.status = "up" /\ ~w.scanned
    /\ LET scan == Scan(disk) IN
         /\ ~scan.gap
         /\ w' = [w EXCEPT !.scanned = TRUE, !.next = LastRecord(scan.records) + 1]
    /\ Quiet /\ UNCHANGED <<disk, step, events>>

\* SegmentWriter::tick, when the tail is old or large enough to be sealed.
Tick ==
    /\ step = Idle /\ w.status = "up" /\ w.openRecs # << >>
    /\ Begin("tick")
    /\ Quiet /\ UNCHANGED <<disk, w, events>>

\* SegmentWriter::close; the destructor flushes and never seals.
Close ==
    /\ step = Idle /\ w.status = "up"
    /\ Begin("close")
    /\ Quiet /\ UNCHANGED <<disk, w, events>>

Destroy ==
    /\ step = Idle /\ w.status \in {"up", "failed"}
    /\ IF w.status = "failed" THEN w' = NoWriter /\ UNCHANGED step
                              ELSE Begin("destroy") /\ UNCHANGED w
    /\ Quiet /\ UNCHANGED <<disk, events>>

----------------------------------------------------------------------------
(* flush_pending_to_open_: one record at a time.                           *)
TailFull == w.openRecs # << >> /\ Len(w.openRecs) >= TailCapacity
ToWrite  == Working("flush") /\ w.pending # << >>

FlushDone ==
    /\ Working("flush") /\ w.pending = << >>
    /\ Goto(IF w.handle = "none" \/ step.call = "tick" THEN "flushed" ELSE "sync")
    /\ Quiet /\ UNCHANGED <<disk, w, events>>

BeginSeal ==
    /\ ToWrite /\ TailFull
    /\ Seal
    /\ Quiet /\ UNCHANGED <<disk, w, events>>

NextSegmentId(d) ==
    1 + Max({0} \union DOMAIN d.sealed \union DOMAIN d.open \union {t.id : t \in d.temps})

\* open_new_segment_ assigns m_open_id before it opens the file.
OpenNewSegment ==
    /\ ToWrite /\ ~TailFull /\ w.openId = 0
    /\ LET new(h) == [w EXCEPT !.openId = NextSegmentId(disk), !.openRecs = << >>, !.handle = h] IN
       \/ /\ w' = new("unnamed")
          /\ disk' = [disk EXCEPT !.open = Put(@, NextSegmentId(disk), OpenFile(<< >>, FALSE, 0, FALSE))]
          /\ Quiet /\ UNCHANGED <<step, events>>
       \/ CallFails(new("none")) /\ UNCHANGED disk

\* DurableAppendFile::append: the write, or the half-written line of a failed
\* one.
WriteRecord ==
    /\ ToWrite /\ ~TailFull /\ w.openId # 0 /\ w.handle # "none"
    /\ \/ /\ disk' = [disk EXCEPT !.open[w.openId] = AppendLine(@, Head(w.pending))]
          /\ Goto("syncRecord")
          /\ Quiet /\ UNCHANGED <<w, events>>
       \/ /\ \E torn \in BOOLEAN : disk' = [disk EXCEPT !.open[w.openId].torn = @ \/ torn]
          /\ CallFails(Poisoned)

\* The same with m_open_id set and no file: the code dereferences an empty
\* optional.  Undefined; taken as an append to a closed descriptor, which
\* fails, or as the end of the process.
WriteWithoutFile ==
    /\ ToWrite /\ ~TailFull /\ w.openId # 0 /\ w.handle = "none"
    /\ w' \in {Left(Poisoned), NoWriter}
    /\ Return
    /\ Quiet /\ UNCHANGED <<disk, events>>

SyncedTail ==
    [disk EXCEPT !.open[w.openId].synced = Len(disk.open[w.openId].recs)]

\* DurableAppendFile::sync: the file, and the directory the first time.  A
\* failure of the directory leaves the file synchronised.
SyncTail(after, where) ==
    \/ /\ disk' = IF w.handle = "unnamed" THEN DirSync(SyncedTail) ELSE SyncedTail
       /\ w' = [after EXCEPT !.handle = "named"]
       /\ Goto(where) /\ Quiet /\ UNCHANGED events
    \/ /\ disk' \in {disk} \union IF w.handle = "unnamed" THEN {SyncedTail} ELSE {}
       /\ CallFails(Poisoned)

SyncRecord ==
    /\ Working("syncRecord")
    /\ SyncTail([w EXCEPT !.openRecs = Append(@, Head(w.pending)), !.pending = Tail(@)], "flush")

\* The barrier at the end of SegmentWriter::flush.
FinalSync == Working("sync") /\ SyncTail(w, "flushed")

\* The flush has succeeded: its caller returns, or close or tick goes on to seal.
FlushReturns ==
    /\ Working("flushed")
    /\ IF step.call \in {"close", "tick"} /\ w.openRecs # << >>
       THEN Seal /\ UNCHANGED <<w, confirmed>>
       ELSE /\ Return
            /\ w' = CASE step.call = "push"  -> [w EXCEPT !.next = @ + 1]
                      [] step.call \in {"flush", "tick"} -> w
                      [] OTHER -> NoWriter
            /\ confirmed' = IF step.call \in {"push", "flush"}
                            THEN Max({confirmed, w'.next - 1}) ELSE confirmed
    /\ UNCHANGED <<disk, reader, events>>

----------------------------------------------------------------------------
(* replace_atomically(NNN.seg.zst) for seal_open_ and for a recovery that  *)
(* republishes: a temporary is created, written and synchronised, renamed  *)
(* over the target, and the directory synchronised.                        *)
Temp(whole) ==
    [id |-> step.id, recs |-> IF whole THEN step.recs ELSE << >>, whole |-> whole, left |-> FALSE]

\* Before the rename a failure removes the temporary, if it can.
ReplaceFails ==
    /\ disk' \in {LeaveTemps(disk)} \union
                {RemoveTemp(disk, t) : t \in disk.temps \intersect {Temp(FALSE), Temp(TRUE)}}
    /\ CallFails(w)

ReplaceCreates ==
    /\ Working("create")
    /\ disk' = [disk EXCEPT !.temps = @ \union {Temp(FALSE)}]
    /\ Goto("fill") /\ Quiet /\ UNCHANGED <<w, events>>

ReplaceFills ==
    /\ Working("fill")
    /\ \/ /\ disk' = [disk EXCEPT !.temps = (@ \ {Temp(FALSE)}) \union {Temp(TRUE)}]
          /\ Goto("rename") /\ Quiet /\ UNCHANGED <<w, events>>
       \/ ReplaceFails

ReplaceRenames ==
    /\ Working("rename")
    /\ \/ /\ disk' = [disk EXCEPT !.temps = @ \ {Temp(TRUE)},
                                  !.sealed = Put(@, step.id, step.recs),
                                  !.unnamed = @ \union ({step.id} \ DOMAIN disk.sealed)]
          /\ Goto("published") /\ Quiet /\ UNCHANGED <<w, events>>
       \/ ReplaceFails

\* Without the directory barrier the replacement is commit_uncertain and the
\* caller stops.  With it a seal closes the open file, which may fail, and drops
\* it.
ReplaceSyncs ==
    /\ Working("published")
    /\ \/ /\ disk' = DirSync(disk)
          /\ w' = [w EXCEPT !.handle = "none"]
          /\ Goto(IF step.call = "start" THEN "dropTemp" ELSE "dropOpen")
          /\ Quiet /\ UNCHANGED events
       \/ CallFails(w) /\ disk' \in {disk, DirSync(disk)}

\* remove_durable(NNN.open), the end of seal_open_.
SealDropsOpen ==
    /\ Working("dropOpen")
    /\ \/ /\ disk' = DirSync(RemoveOpen(disk, step.id))
          /\ LET sealed == [w EXCEPT !.openId = 0, !.openRecs = << >>] IN
             IF w.pending # << >> THEN w' = sealed /\ Goto("flush")
             ELSE w' = (IF step.call = "close" THEN NoWriter ELSE sealed) /\ Return
          /\ Quiet /\ UNCHANGED events
       \/ /\ disk' \in {disk, RemoveOpen(disk, step.id)}
          /\ CallFails(w)

----------------------------------------------------------------------------
(* SegmentWriter::start and recover_.                                      *)
Start ==
    /\ step = Idle /\ w.status = "down"
    /\ step' = [Idle EXCEPT !.at = "recover", !.call = "start"]
    /\ Quiet /\ UNCHANGED <<disk, w, events>>

\* A whole temporary of a seal is published again, then removed.
RepublishTemp ==
    /\ Working("recover")
    /\ \E t \in disk.temps :
         /\ t.whole /\ t.left
         /\ step' = [step EXCEPT !.at = "create", !.id = t.id, !.recs = t.recs]
    /\ Quiet /\ UNCHANGED <<disk, w, events>>

DropTemp ==
    /\ Working("dropTemp")
    /\ \E t \in disk.temps \intersect {[Temp(TRUE) EXCEPT !.left = TRUE]} :
         \/ disk' = DirSync(RemoveTemp(disk, t)) /\ Goto("recover") /\ Quiet /\ UNCHANGED <<w, events>>
         \/ disk' \in {disk, RemoveTemp(disk, t)} /\ CallFails(w)

\* A partial one is dropped, if the open file it was made from is there.
DropPartialTemp ==
    /\ Working("recover")
    /\ \E t \in disk.temps :
         /\ ~t.whole
         /\ IF t.id \notin DOMAIN disk.open
            THEN Return /\ w' = NoWriter /\ Quiet /\ UNCHANGED <<disk, events>>
            ELSE \/ /\ disk' = DirSync(RemoveTemp(disk, t))
                    /\ Quiet /\ UNCHANGED <<w, step, events>>
                 \/ disk' \in {disk, RemoveTemp(disk, t)} /\ CallFails(w)

Covered   == {id \in DOMAIN disk.open : id <= HighestSealed(disk)}
Uncovered == DOMAIN disk.open \ Covered

DropCoveredOpen ==
    /\ Working("recover") /\ disk.temps = {}
    /\ \E id \in Covered :
         \/ disk' = DirSync(RemoveOpen(disk, id)) /\ Quiet /\ UNCHANGED <<w, step, events>>
         \/ disk' \in {disk, RemoveOpen(disk, id)} /\ CallFails(w)

\* Mutant: a torn line stays in the file the writer appends to.
WithoutTornLineMutant(d, id) == d

\* A torn line is cut off by replacing the file.
WithoutTornLine(d, id) ==
    IF d.open[id].torn
    THEN DirSync([d EXCEPT !.open[id] = OpenFile(@.recs, FALSE, Len(@.recs), TRUE)])
    ELSE d

\* What is left is the tail.
RecoverTail ==
    /\ Working("recover") /\ disk.temps = {} /\ Covered = {}
    /\ Return
    /\ \/ Uncovered = {} /\ w' = [NoWriter EXCEPT !.status = "up"] /\ UNCHANGED <<disk, events>>
       \/ \E id \in Uncovered :
            IF Cardinality(Uncovered) > 1 \/ 0 \in Range(disk.open[id].recs)
            THEN w' = NoWriter /\ UNCHANGED <<disk, events>>
            ELSE \/ /\ disk' = WithoutTornLine(disk, id)
                    /\ w' = [NoWriter EXCEPT !.status = "up", !.openId = id,
                                             !.openRecs = disk.open[id].recs, !.handle = "unnamed"]
                    /\ UNCHANGED events
                 \/ Event /\ w' = NoWriter /\ UNCHANGED disk
    /\ Quiet

----------------------------------------------------------------------------
(* A SegmentReader elsewhere.  A scan of the directory and the reads of    *)
(* its files are separate steps.  Its consumer takes the records of a      *)
(* batch in order, ignores those it has, stores its checkpoint, and the    *)
(* reader stores the cursor that belongs to it (commit_durable).           *)
NoReader == [listing |-> [sealed |-> {}, open |-> {}], listed |-> FALSE, cursor |-> NoCursor,
             have |-> 0, skipped |-> FALSE]

----------------------------------------------------------------------------
(* The process is killed: its memory is gone, the directory is as it was.  *)
(* A power loss also takes what no barrier had covered; a reader starts    *)
(* anew after it.                                                          *)
Crash(d) ==
    /\ Event
    /\ w' = NoWriter /\ step' = Idle
    /\ disk' \in d
    /\ UNCHANGED confirmed

Kill ==
    /\ w # NoWriter \/ step # Idle
    /\ Crash({LeaveTemps(disk)})
    /\ UNCHANGED reader

PowerLoss == Crash(PowerLossOf(disk)) /\ reader' = NoReader

----------------------------------------------------------------------------
ReaderLists ==
    /\ ~reader.listed /\ Event
    /\ reader' = [reader EXCEPT !.listing = Listing(disk), !.listed = TRUE]
    /\ UNCHANGED <<disk, w, step, confirmed>>

ReaderReads ==
    /\ reader.listed
    /\ LET batch == ReadNew(disk, [reader.listing EXCEPT !.sealed = @ \intersect DOMAIN disk.sealed],
                            reader.cursor)
           have  == Max({reader.have} \union Range(batch.records))
       IN reader' = [NoReader EXCEPT
            !.cursor = batch.cursor, !.have = have,
            !.skipped = reader.skipped \/ ~(reader.have + 1 .. have \subseteq Range(batch.records))]
    /\ UNCHANGED <<disk, w, step, confirmed, events>>

\* Killed after the checkpoint and before the cursor: the stored cursor names an
\* older checkpoint and the reader starts from the beginning (load_cursor_).
\* Killed elsewhere it goes on where it was.
ReaderRestarts ==
    /\ reader.cursor # NoCursor /\ Event
    /\ reader' = [NoReader EXCEPT !.have = reader.have, !.skipped = reader.skipped]
    /\ UNCHANGED <<disk, w, step, confirmed>>

----------------------------------------------------------------------------
Init ==
    /\ disk = EmptyDisk /\ w = NoWriter /\ step = Idle
    /\ confirmed = 0 /\ reader = NoReader /\ events = 0

Next ==
    \/ \E durable \in BOOLEAN : Push(durable)
    \/ Flush \/ Tick \/ ScanOwnLog \/ Close \/ Destroy
    \/ FlushDone \/ BeginSeal \/ OpenNewSegment \/ WriteRecord \/ WriteWithoutFile
    \/ SyncRecord \/ FinalSync \/ FlushReturns
    \/ ReplaceCreates \/ ReplaceFills \/ ReplaceRenames \/ ReplaceSyncs \/ SealDropsOpen
    \/ Start \/ RepublishTemp \/ DropTemp \/ DropPartialTemp \/ DropCoveredOpen \/ RecoverTail
    \/ Kill \/ PowerLoss
    \/ ReaderLists \/ ReaderReads \/ ReaderRestarts

Spec == Init /\ [][Next]_vars

----------------------------------------------------------------------------
(* Properties.                                                             *)

\* The directory with its open, sealed, temporary and half-removed files is
\* the log its readers rely on: sealing, recovery and their interruption never
\* show, and what a durable push confirmed survives all of them.
RefinedLog == INSTANCE RecordLog WITH log <- Readable(disk), confirmed <- confirmed
IsRecordLog == RefinedLog!LogSpec

\* A reader that follows the directory through seals, recoveries and its own
\* restarts never passes over a record (the open_prefix_hash of its cursor, the
\* recovery point stored with it).
ReaderNeverSkips == ~reader.skipped

\* docs/specs/vnext-transport.md:66-67: "`durable`: success means the complete
\* delivery can be recovered after the transport process restarts".
ConfirmedIsRecoverable == confirmed <= LastRecord(Readable(disk))
==============================================================================
