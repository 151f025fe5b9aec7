------------------------------ MODULE Session ------------------------------
(***************************************************************************)
(* How one device publishes its own operations (DocumentSession.cpp,       *)
(* storage/LocalHistoryLog.cpp, identity/ReplicaState.cpp, the push side   *)
(* of crdt/StreamSync.cpp).                                                *)
(*                                                                         *)
(* A local operation takes five durable writes: its identity is reserved,  *)
(* an intent is stored (envelope number, operation and the undo history    *)
(* that results from it), the envelope is appended to the device's log,    *)
(* the history snapshot is stored, and the intent is cleared.  Each write  *)
(* may fail, the process may be killed and the power may be lost between   *)
(* any two of them; opening the session again repeats what the intent      *)
(* asks for.                                                               *)
(*                                                                         *)
(* The private directory holds the identity counter, the snapshot and the  *)
(* intent.  Its files are replaced atomically; a replacement whose         *)
(* directory could not be synchronised is visible but may be undone by a   *)
(* power loss, until a later synchronisation of the same directory.  The   *)
(* log is shared: what it holds may have been read by other devices, also  *)
(* what is not yet synchronised.                                           *)
(*                                                                         *)
(* The document is abstracted to the set of own operations it contains and *)
(* the counters of the peers' operations; an operation is an edit or an    *)
(* undo (redo) that toggles the edits of a group.                          *)
(***************************************************************************)
EXTENDS LocalHistory

CONSTANTS
    Owner,         \* the device's actor
    Depth,         \* DocumentSessionConfig::max_undo_steps
    MaxLocal,      \* bound on the identities the device reserves
    MaxFaults,     \* bound on the durable writes that fail
    Failures,      \* pairs <<write, how it may fail>>
    Authorize,     \* answers of authorize_local_mutation to a pending intent
    PeerCounters   \* the identity counters peers may use

ASSUME SessionAssumption ==
    /\ Owner \in Actor
    /\ Depth \in Nat /\ MaxLocal \in Nat /\ MaxFaults \in Nat
    /\ Failures \subseteq
          ({"counter", "pending", "snapshot", "clear"} \X {"failed", "uncertain"})
             \cup ({"push"} \X {"refused", "queued", "failed"})
    /\ Authorize \subseteq BOOLEAN
    /\ PeerCounters \subseteq Nat \ {0}

VARIABLES
    disk,        \* the private directory: now, and what a power loss may leave
    log,         \* the records of the device's log
    synced,      \* how many of them a power loss cannot take away
    peers,       \* counters of the operations in the peers' logs
    status,      \* "down", "opening" or "open"
    step,        \* the durable write the running call makes next
    call,        \* who runs it, and the intent it works on
    mem,         \* the session's memory
    writer,      \* FileOpStream's WriterState and its SegmentWriter
    faults,      \* how many writes have failed
    published,   \* history: every record the log has ever shown
    succeeded,   \* history: operations whose call returned success
    acknowledged,\* history: edits whose retirement was acknowledged
    overwritten  \* history: a session that was not ready has changed the snapshot

diskVars  == <<disk, log, synced>>
ghostVars == <<published, succeeded, acknowledged, overwritten>>
vars == <<diskVars, peers, status, step, call, mem, writer, faults, ghostVars>>

Op     == [id : Identity, toggles : SUBSET Identity, seen : SUBSET Nat]
Record == [seq : Nat \ {0}, op : Op]
NoIntent == [seq |-> 0]
Idle     == [caller |-> "none", intent |-> NoIntent]

\* The memory of a session that has read nothing yet, with the stored counter
Fresh(next) ==
    [ops |-> {}, seen |-> {}, history |-> EmptyHistory(Depth), next |-> next,
     envelope |-> 1, poisoned |-> FALSE, blocked |-> FALSE, complete |-> FALSE,
     stuck |-> FALSE]

NoWriter == [started |-> FALSE, failed |-> FALSE, queue |-> <<>>, known |-> {}]

Init ==
    /\ disk = LET empty == [counter |-> 1, snapshot |-> <<>>, pending |-> <<>>]
              IN  [now |-> empty, may |-> {empty}]
    /\ log = <<>> /\ synced = 0
    /\ peers = {}
    /\ status = "down" /\ step = "idle" /\ call = Idle
    /\ mem = Fresh(1) /\ writer = NoWriter
    /\ faults = 0
    /\ published = {} /\ succeeded = {} /\ acknowledged = {}
    /\ overwritten = FALSE

-----------------------------------------------------------------------------
(* Durable writes *)

\* How a write can end: "ok", or a failure while the bound allows one.
Outcomes(write) ==
    {"ok"} \cup {f[2] : f \in {g \in Failures : g[1] = write /\ faults < MaxFaults}}

Cost(outcome) == IF outcome = "ok" THEN 0 ELSE 1

\* replace_atomically on one file of the private directory: confirmed for the
\* whole directory, renamed without confirmation, or not done.
Replaced(d, file, value, outcome) ==
    LET new(x) == [x EXCEPT ![file] = value]
    IN  CASE outcome = "ok"        -> [now |-> new(d.now), may |-> {new(d.now)}]
          [] outcome = "uncertain" -> [now |-> new(d.now),
                                       may |-> d.may \cup {new(x) : x \in d.may}]
          [] outcome = "failed"    -> d

\* The envelope number the log continues with.
NextSequence(records) == Cardinality({r.seq : r \in records}) + 1

\* replay_all, and the scan of push: envelopes are numbered without gaps, and only
\* an exact copy of the previous one may repeat it.
Readable(records) ==
    \A i \in DOMAIN records :
        LET before == SubSeq(records, 1, i - 1)
        IN  \/ records[i].seq = NextSequence(ToSet(before))
            \/ i > 1 /\ records[i] = records[i - 1]

\* The writer as push finds it: the first push of a session reads the log.
Writer == IF writer.started THEN writer
          ELSE [NoWriter EXCEPT !.started = TRUE, !.known = ToSet(log)]

\* push takes an envelope it knows already, or the next one.
Pushable(w, rec) ==
    /\ Readable(log)
    /\ rec \in w.known \/ rec.seq = NextSequence(w.known)

LogBecomes(records) ==
    /\ log' = records
    /\ published' = published \cup ToSet(records)

\* append and flush_pending_to_open_: the queue and the envelope are written to the
\* segment, where others can read them.
Written(rec) ==
    LET w == Writer
    IN  /\ Pushable(w, rec) /\ ~w.failed
        /\ LogBecomes(log \o w.queue \o (IF rec \in w.known THEN <<>> ELSE <<rec>>))
        /\ writer' = [w EXCEPT !.queue = <<>>]
        /\ UNCHANGED <<synced, faults>>

\* Mutant of Flushed: the segment is not synchronised.
FlushedUnsynced(rec) ==
    /\ writer' = [writer EXCEPT !.known = @ \cup {rec}]
    /\ UNCHANGED <<log, synced, published, faults>>

\* The rest of flush, and what push remembers of an envelope it has published
Flushed(rec) ==
    /\ synced' = Len(log)
    /\ writer' = [writer EXCEPT !.known = @ \cup {rec}]
    /\ UNCHANGED <<log, published, faults>>

\* Any part of a queue gets into the segment, none of it surely.
SomeWritten(queue) == \E k \in 0 .. Len(queue) : LogBecomes(log \o SubSeq(queue, 1, k))

\* A write or sync of the segment fails; the writer refuses everything from now on.
SegmentFails(w) ==
    /\ SomeWritten(w.queue)
    /\ writer' = [w EXCEPT !.queue = <<>>, !.failed = TRUE]
    /\ UNCHANGED synced

\* A queue that could not be written is kept for the next flush; when the session
\* is destroyed, the writer's destructor tries once more.
KeepQueue(w, destroyed) ==
    /\ IF destroyed THEN SomeWritten(w.queue) /\ writer' = NoWriter
       ELSE UNCHANGED <<log, published>> /\ writer' = w
    /\ UNCHANGED synced

\* push fails before the flush: the writer refuses, nothing is appended, the
\* envelope stays queued because a full segment could not be sealed, or the segment
\* fails.
WriteFails(rec) ==
    LET w      == Writer
        queued == [w EXCEPT !.queue = IF rec \in w.known THEN @ ELSE Append(@, rec)]
    IN  \/ /\ w.failed \/ ~Pushable(w, rec)
           /\ writer' = w
           /\ UNCHANGED <<log, synced, faults, published>>
        \/ /\ Pushable(w, rec) /\ ~w.failed
           /\ faults' = faults + 1
           /\ \E outcome \in Outcomes("push") \ {"ok"} :
                 \/ outcome = "refused" /\ writer' = w
                       /\ UNCHANGED <<log, synced, published>>
                 \/ outcome = "queued" /\ KeepQueue(queued, call.caller = "open")
                 \/ outcome = "failed" /\ SegmentFails(queued)

-----------------------------------------------------------------------------
(* Local operations *)

\* DocumentSession::Impl::ready
Ready == status = "open" /\ step = "idle" /\ mem.complete /\ ~mem.poisoned

\* ReplicaAllocator::reserve_run and ReplicaState::persist: the counter is stored
\* before it is used and stays consumed when storing it failed.
Reserved(outcome) ==
    /\ ~mem.stuck
    /\ mem.next <= MaxLocal
    /\ disk' = Replaced(disk, "counter", mem.next + 1, outcome)
    /\ faults' = faults + Cost(outcome)

NewOp(toggles) ==
    [id |-> [counter |-> mem.next, actor |-> Owner], toggles |-> toggles,
     seen |-> mem.seen]

\* The engine applies the operation and publish_local begins with the history
\* that results from it.
BeginPublish(op, history) ==
    /\ Ready
    /\ Reserved("ok")
    /\ mem' = [mem EXCEPT !.ops = @ \cup {op}, !.history = history, !.next = @ + 1]
    /\ step' = "store_pending"
    /\ call' = [caller |-> "local",
                intent |-> [seq |-> mem.envelope, op |-> op, history |-> history]]
    /\ UNCHANGED <<log, synced, peers, status, writer, ghostVars>>

ApplyLocal ==
    LET op    == NewOp({})
        group == [gid |-> op.id, ops |-> {op.id}, items |-> {op.id}, dels |-> {}]
    IN  /\ WithinBudget(PushGroup(mem.history, group))
        /\ BeginPublish(op, PushGroup(mem.history, group))

Undo ==
    LET h == mem.history
    IN  /\ h.cursor > 0
        /\ BeginPublish(NewOp(h.stack[h.cursor].items), UndoneAt(h, h.cursor))

Redo ==
    LET h == mem.history
    IN  /\ h.cursor < Len(h.stack)
        /\ BeginPublish(NewOp(h.stack[h.cursor + 1].items), RedoneAt(h, h.cursor + 1))

\* The reservation fails: nothing else has happened, but the allocator refuses
\* every later one.
ReserveFails ==
    /\ Ready
    /\ \E outcome \in Outcomes("counter") \ {"ok"} : Reserved(outcome)
    /\ mem' = [mem EXCEPT !.next = @ + 1, !.stuck = TRUE]
    /\ UNCHANGED <<log, synced, peers, status, step, call, writer, ghostVars>>

-----------------------------------------------------------------------------
(* The steps of publish_local and of reconcile_pending_history *)

\* Mutant of CallFails: the session stays usable.
CallFailsQuietly ==
    /\ step' = "idle" /\ call' = Idle
    /\ IF call.caller = "open"
       THEN status' = "down" /\ mem' = Fresh(1)
       ELSE UNCHANGED <<status, mem>>

\* An error ends the call.  After publish_local the operation is in memory and the
\* session is poisoned; open returns no session; recover leaves the session as it
\* was.
CallFails ==
    /\ step' = "idle" /\ call' = Idle
    /\ CASE call.caller = "local"   -> /\ mem' = [mem EXCEPT !.poisoned = TRUE]
                                       /\ UNCHANGED status
         [] call.caller = "open"    -> status' = "down" /\ mem' = Fresh(1)
         [] call.caller = "recover" -> UNCHANGED <<status, mem>>

Continue(s) == step' = s /\ UNCHANGED <<call, status>>

\* Mutant of StorePending: the intent is not stored.
StorePendingLater ==
    /\ step = "store_pending"
    /\ Continue("push")
    /\ UNCHANGED <<disk, log, synced, peers, mem, writer, faults, ghostVars>>

StorePending ==
    /\ step = "store_pending"
    /\ \E outcome \in Outcomes("pending") :
          /\ disk' = Replaced(disk, "pending", <<call.intent>>, outcome)
          /\ faults' = faults + Cost(outcome)
          /\ IF outcome = "ok" THEN Continue("push") /\ UNCHANGED mem ELSE CallFails
    /\ UNCHANGED <<log, synced, peers, writer, ghostVars>>

Envelope(intent) == [seq |-> intent.seq, op |-> intent.op]

PushWrites ==
    /\ step = "push"
    /\ Written(Envelope(call.intent))
    /\ Continue("flush")
    /\ UNCHANGED <<disk, peers, mem, succeeded, acknowledged, overwritten>>

\* With caller "open" the writer is destroyed together with the session.
PushError ==
    /\ \/ step = "push" /\ WriteFails(Envelope(call.intent))
       \/ step = "flush" /\ "failed" \in Outcomes("push")
             /\ SegmentFails(writer) /\ faults' = faults + 1
    /\ CallFails
    /\ UNCHANGED <<disk, peers, succeeded, acknowledged, overwritten>>

PushFlushes ==
    /\ step = "flush"
    /\ Flushed(Envelope(call.intent))
    /\ mem' = IF call.caller = "local" THEN [mem EXCEPT !.envelope = @ + 1] ELSE mem
    /\ Continue("store_snapshot")
    /\ UNCHANGED <<disk, peers, succeeded, acknowledged, overwritten>>

StoreSnapshot ==
    /\ step = "store_snapshot"
    /\ \E outcome \in Outcomes("snapshot") :
          /\ disk' = Replaced(disk, "snapshot", <<call.intent.history>>, outcome)
          /\ faults' = faults + Cost(outcome)
          /\ IF outcome = "ok" THEN Continue("clear_pending") /\ UNCHANGED mem
             ELSE CallFails
    /\ UNCHANGED <<log, synced, peers, writer, ghostVars>>

\* The last step: publish_local returns the operation, reconciliation goes on to
\* replay.
ClearPending ==
    /\ step = "clear_pending"
    /\ \E outcome \in Outcomes("clear") :
          /\ disk' = Replaced(disk, "pending", <<>>, outcome)
          /\ faults' = faults + Cost(outcome)
          /\ \/ /\ outcome # "ok" /\ CallFails
                /\ UNCHANGED succeeded
             \/ /\ outcome = "ok" /\ call.caller = "local"
                /\ step' = "idle" /\ call' = Idle
                /\ succeeded' = succeeded \cup {call.intent.op}
                /\ UNCHANGED <<status, mem>>
             \/ /\ outcome = "ok" /\ call.caller # "local"
                /\ Continue("replay")
                /\ mem' = [mem EXCEPT !.blocked = FALSE]
                /\ UNCHANGED succeeded
    /\ UNCHANGED <<log, synced, peers, writer, published, acknowledged, overwritten>>

-----------------------------------------------------------------------------
(* Opening and recovering *)

\* reconcile_pending_history, begun by open or recover with the memory m: no
\* intent, an intent that membership does not allow to be published now, or one
\* that is published like a local operation.
Reconcile(caller, m) ==
    LET pending == disk.now.pending
    IN  \/ /\ pending = <<>>
           /\ mem' = [m EXCEPT !.blocked = FALSE]
           /\ step' = "replay"
           /\ call' = [caller |-> caller, intent |-> NoIntent]
        \/ /\ pending # <<>> /\ FALSE \in Authorize
           /\ mem' = [m EXCEPT !.blocked = TRUE, !.complete = FALSE]
           /\ step' = "replay"
           /\ call' = [caller |-> caller, intent |-> NoIntent]
        \/ /\ pending # <<>> /\ TRUE \in Authorize
           /\ mem' = m
           /\ step' = "push"
           /\ call' = [caller |-> caller, intent |-> pending[1]]

Open ==
    /\ status = "down"
    /\ status' = "opening"
    /\ Reconcile("open", Fresh(disk.now.counter))
    /\ writer' = NoWriter
    /\ UNCHANGED <<diskVars, peers, faults, ghostVars>>

Recover ==
    /\ status = "open" /\ step = "idle"
    /\ Reconcile("recover", mem)
    /\ UNCHANGED <<diskVars, peers, status, writer, faults, ghostVars>>

\* The largest own counter among some operations.
Through(ops) == Max({0} \cup {o.id.counter : o \in ops})

Ops(records) == {r.op : r \in ToSet(records)}

\* ReplicaAllocator::observe
Observing(m, counters) ==
    IF m.stuck THEN m.next ELSE Max({m.next} \cup {c + 1 : c \in counters})

\* Mutant of Replayed: the allocator is not raised over what is replayed.
ReplayedUnobserved(m) ==
    [m EXCEPT !.ops = @ \cup Ops(log), !.seen = peers,
              !.envelope = Max({@, NextSequence(ToSet(log))})]

\* replay_all with replay_delivery: all of the own log and of the peers' logs.  The
\* allocator observes every counter; own records move the next envelope.
Replayed(m) ==
    [m EXCEPT !.ops = @ \cup Ops(log), !.seen = peers,
              !.next = Observing(m, peers \cup {Through(Ops(log))}),
              !.envelope = Max({@, NextSequence(ToSet(log))})]

\* update_completeness
Completed(m) == [m EXCEPT !.complete = ~m.poisoned /\ ~m.blocked]

\* restore_local_history of the stored snapshot, if there is one
Restorable(snapshot, ops) ==
    snapshot # <<>> => HistoryAccepted(snapshot[1], Owner, Through(ops), Depth)

Replay ==
    LET m        == Replayed(mem)
        snapshot == disk.now.snapshot
    IN  /\ step = "replay"
        /\ Readable(log)
        /\ Restorable(snapshot, m.ops)
        /\ mem' = Completed(IF snapshot = <<>> THEN m
                            ELSE [m EXCEPT !.history = snapshot[1]])
        /\ status' = "open" /\ step' = "idle" /\ call' = Idle
        /\ UNCHANGED <<diskVars, peers, writer, faults, ghostVars>>

\* Replay or the history is refused: open returns an error, recover leaves what was
\* replayed.
ReplayFails ==
    /\ step = "replay"
    /\ ~Readable(log) \/ ~Restorable(disk.now.snapshot, Replayed(mem).ops)
    /\ step' = "idle" /\ call' = Idle
    /\ IF call.caller = "open"
       THEN status' = "down" /\ mem' = Fresh(1)
       ELSE mem' = Replayed(mem) /\ UNCHANGED status
    /\ UNCHANGED <<diskVars, peers, writer, faults, ghostVars>>

-----------------------------------------------------------------------------
(* The other calls of a session *)

\* Calls that store the history right after changing it in memory.
StoreHistory(history) ==
    /\ \E outcome \in Outcomes("snapshot") :
          /\ disk' = Replaced(disk, "snapshot", <<history>>, outcome)
          /\ faults' = faults + Cost(outcome)
          /\ mem' = [mem EXCEPT !.history = history, !.poisoned = outcome # "ok"]
    /\ UNCHANGED <<log, synced, peers, status, step, call, writer>>

AcknowledgeUndoRetirements ==
    /\ Ready
    /\ \E g \in ToSet(mem.history.retired) :
          /\ StoreHistory(Acknowledged(mem.history, g.gid))
          /\ acknowledged' = acknowledged \cup g.ops
    /\ UNCHANGED <<published, succeeded, overwritten>>

CoalesceLastUndo ==
    /\ Ready
    /\ mem.history.cursor >= 2
    /\ StoreHistory(Coalesced(mem.history))
    /\ UNCHANGED ghostVars

\* poll, for one operation of a peer that can be applied
Poll ==
    /\ status = "open" /\ step = "idle"
    /\ \E c \in peers \ mem.seen :
          mem' = Completed([mem EXCEPT !.seen = @ \cup {c}, !.next = Observing(mem, {c})])
    /\ UNCHANGED <<diskVars, peers, status, step, call, writer, faults, ghostVars>>

\* transport->flush fails: the writer has failed before, or does now, or the queue
\* could not be written again.
FlushFails(destroyed) ==
    /\ writer.started
    /\ \/ writer.failed /\ UNCHANGED <<log, synced, writer, published, faults>>
       \/ /\ ~writer.failed
          /\ faults' = faults + 1
          /\ \/ "failed" \in Outcomes("push") /\ SegmentFails(writer)
             \/ /\ "queued" \in Outcomes("push") /\ writer.queue # <<>>
                /\ KeepQueue(writer, destroyed)
    /\ UNCHANGED disk

\* transport->flush succeeds.
QueueFlushed ==
    /\ ~writer.failed
    /\ IF writer.started
       THEN LogBecomes(log \o writer.queue) /\ synced' = Len(log')
       ELSE UNCHANGED <<log, published, synced>>
    /\ writer' = [writer EXCEPT !.queue = <<>>]

\* save: flush the log, store the history, store the counter.
SaveSucceeds ==
    /\ QueueFlushed
    /\ disk' = Replaced(Replaced(disk, "snapshot", <<mem.history>>, "ok"),
                        "counter", mem.next, "ok")
    /\ UNCHANGED faults

\* Flushed, but one of the two files could not be stored.
SaveFails ==
    /\ QueueFlushed
    /\ faults' = faults + 1
    /\ \/ \E outcome \in Outcomes("snapshot") \ {"ok"} :
             disk' = Replaced(disk, "snapshot", <<mem.history>>, outcome)
       \/ \E outcome \in Outcomes("counter") \ {"ok"} :
             disk' = Replaced(Replaced(disk, "snapshot", <<mem.history>>, "ok"),
                              "counter", mem.next, outcome)

\* Whether the stored history changes although the session is not ready
NotesOverwriting ==
    LET stored(d) == IF d.now.snapshot = <<>> THEN EmptyHistory(Depth)
                     ELSE d.now.snapshot[1]
    IN  overwritten' = (overwritten \/ (~Ready /\ stored(disk') # stored(disk)))

Save ==
    /\ status = "open" /\ step = "idle"
    /\ FlushFails(FALSE) \/ SaveSucceeds \/ SaveFails
    /\ NotesOverwriting
    /\ UNCHANGED <<peers, status, step, call, mem, succeeded, acknowledged>>

\* close, and the destructor, which closes a session that is still open and then
\* drops it whatever close answered.
Close ==
    /\ status = "open" /\ step = "idle"
    /\ FlushFails(TRUE) \/ SaveSucceeds \/ SaveFails
    /\ NotesOverwriting
    /\ status' = "down" /\ mem' = Fresh(1)
    /\ UNCHANGED <<peers, step, call, succeeded, acknowledged>>

-----------------------------------------------------------------------------
(* The environment *)

PeerPublishes ==
    /\ \E c \in PeerCounters \ peers : peers' = peers \cup {c}
    /\ UNCHANGED <<diskVars, status, step, call, mem, writer, faults, ghostVars>>

Stopped ==
    /\ status' = "down" /\ step' = "idle" /\ call' = Idle
    /\ mem' = Fresh(1) /\ writer' = NoWriter
    /\ UNCHANGED <<peers, faults, ghostVars>>

\* The process ends: what is in memory is lost, files stay as they look.
Kill == status # "down" /\ Stopped /\ UNCHANGED diskVars

\* The machine stops: unconfirmed replacements and appends may be undone.
PowerLoss ==
    /\ Stopped
    /\ \E d \in disk.may : disk' = [now |-> d, may |-> {d}]
    /\ \E n \in synced .. Len(log) : log' = SubSeq(log, 1, n) /\ synced' = n

Next ==
    \/ ApplyLocal \/ Undo \/ Redo \/ ReserveFails
    \/ StorePending \/ PushWrites \/ PushFlushes \/ PushError \/ StoreSnapshot \/ ClearPending
    \/ Open \/ Recover \/ Replay \/ ReplayFails
    \/ AcknowledgeUndoRetirements \/ CoalesceLastUndo
    \/ Poll \/ Save \/ Close
    \/ PeerPublishes \/ Kill \/ PowerLoss

Spec == Init /\ [][Next]_vars

-----------------------------------------------------------------------------
(* Properties *)

\* An operation whose call returned success is never lost: it is in the part of the
\* log that a power loss cannot take away (publish_local, push).
SucceededIsDurable ==
    \A op \in succeeded : \E i \in 1 .. synced : log[i].op = op

\* Across failures, crashes and retries, an envelope number is never used for two
\* operations that another device may have read, and no operation is published
\* under two numbers or identities (next_envelope, reserve_run, reconciliation).
OneTokenPerOperation ==
    \A p, q \in published : p.seq = q.seq \/ p.op.id = q.op.id => p = q

\* An own operation is above everything its author had integrated, although
\* observed counters are not stored and the allocator starts again from the stored
\* one (observe_remote, replay_delivery).
IdentityAboveSeen ==
    \A p \in published : \A c \in p.op.seen : p.op.id.counter > c

\* What opening finds in a directory d and in a log is what it accepts, whichever
\* way membership answers about a pending intent.
Opens(d, records) ==
    /\ Readable(records)
    /\ d.pending = <<>> \/ FALSE \in Authorize => Restorable(d.snapshot, Ops(records))
    /\ d.pending # <<>> /\ TRUE \in Authorize =>
          LET rec == Envelope(d.pending[1])
          IN  /\ rec \in ToSet(records) \/ rec.seq = NextSequence(ToSet(records))
              /\ Restorable(<<d.pending[1].history>>, Ops(records) \cup {rec.op})

\* Whatever fails and whenever the device stops, the session can be opened again
\* (publish_local: "reopen to reconcile").
Reopenable ==
    \A d \in disk.may : \A n \in synced .. Len(log) : Opens(d, SubSeq(log, 1, n))

\* The same of a device that has never let save, close or the destructor change
\* the stored history while the session was poisoned or blocked.
ReopenableUnlessOverwritten == ~overwritten => Reopenable

\* On such a device, a session that accepts edits has in memory what its log holds,
\* and its history accounts for it: every edit can be undone or redone, or waits for
\* (or has) an acknowledged retirement; what is above the cursor is undone in the
\* document and what is below is not (publish_local, reconcile_pending_history).
HistoryAccountsForLog ==
    LET h == mem.history
        named == UNION {g.ops : g \in ToSet(h.stack) \cup ToSet(h.retired)}
        toggled(id) == Cardinality({o \in mem.ops : id \in o.toggles}) % 2
    IN  Ready /\ ~overwritten =>
          /\ mem.ops = Ops(log)
          /\ \A o \in mem.ops : o.toggles = {} => o.id \in named \cup acknowledged
          /\ \A i \in DOMAIN h.stack : \A id \in h.stack[i].items :
                toggled(id) = (IF i <= h.cursor THEN 0 ELSE 1)
=============================================================================
