------------------------------- MODULE Inbound -------------------------------
(***************************************************************************)
(* How a DocumentSession takes in the deliveries of the shared folder: the *)
(* replay when it opens, the polls of FileOpStream with the session's      *)
(* handler, the receipts, the checkpoints it publishes and restores, and   *)
(* the reclamation it may do with a certificate.                           *)
(*                                                                         *)
(* A delivery is <<producer, sequence>>; producers' logs arrive in the     *)
(* folder in any order relative to each other and in order within one.     *)
(* The text engine is reduced to the sets of operations it has applied and *)
(* of those that wait.  The owner's own edits are one step here; Session   *)
(* has their steps and failures.                                           *)
(***************************************************************************)
EXTENDS Integers, FiniteSets, FiniteSetsExt, Sequences, SequencesExt

CONSTANTS
    Self,          \* the owner's actor
    Peer,          \* the other producers
    MaxSequence,   \* bound: producer -> deliveries it publishes
    PeerNeeds(_),  \* a peer's delivery -> the deliveries in its causal past
    Malformed,     \* deliveries that do not decode or name another actor
    MaxWaiting,    \* the engine's deferral budget
    MaxQuarantine, \* max_quarantined_deliveries
    MaxEvents,     \* bound: kills, failed writes, changes of membership
    MaxCheckpoints \* bound: checkpoints published

Producer == Peer \union {Self}

ASSUME InboundConstants ==
    /\ Self \notin Peer /\ IsFiniteSet(Peer)
    /\ MaxSequence \in [Producer -> Nat]
    /\ {MaxWaiting, MaxQuarantine, MaxEvents, MaxCheckpoints} \subseteq Nat

VARIABLES
    log,         \* producer -> length of its log in the shared folder
    past,        \* the causal past of each of the owner's own deliveries
    receipts,    \* the receipt files: peer -> sequence
    store,       \* the checkpoint the store would recover
    s,           \* the open session, or Closed
    authorized,  \* the producers the membership provider admits
    events       \* how many of MaxEvents have happened

vars == <<log, past, receipts, store, s, authorized, events>>

Delivery == UNION {{<<p, n>> : n \in 1 .. MaxSequence[p]} : p \in Producer}
Nowhere  == [p \in Producer |-> 0]
Logged   == {d \in Delivery : d[2] <= log[d[1]]}
Event    == events < MaxEvents /\ events' = events + 1

\* The version vector an operation carries, as the set of operations below it.
Needs(d) ==
    IF d[1] = Self THEN past[d[2]]
    ELSE PeerNeeds(d) \union UNION {past[n] : n \in {m \in DOMAIN past : <<Self, m>> \in PeerNeeds(d)}}

----------------------------------------------------------------------------
(* The engine: Buffer::apply_one, then retry_deferred.  waiting is the     *)
(* deferred queue, an operation once for every time it was deferred.       *)
RetryOne(x, d) ==
    IF Needs(d) \subseteq x.applied THEN [x EXCEPT !.applied = @ \union {d}]
                                    ELSE [x EXCEPT !.waiting = Append(@, d)]

RetryAll(x, pass) == FoldLeft(RetryOne, [x EXCEPT !.waiting = << >>], x.waiting)

\* As many passes as could still apply something.
Drain(e) == FoldLeft(RetryAll, e, e.waiting)

\* The outcome of offering delivery d, and the engine behind it.
Offered(e, d) ==
    IF d \in e.applied THEN [kind |-> "duplicate", engine |-> e]
    ELSE IF Needs(d) \subseteq e.applied
    THEN [kind |-> "applied", engine |-> Drain([e EXCEPT !.applied = @ \union {d}])]
    ELSE IF Len(e.waiting) >= MaxWaiting THEN [kind |-> "rejected", engine |-> e]
    ELSE [kind |-> "deferred", engine |-> [e EXCEPT !.waiting = Append(@, d)]]

----------------------------------------------------------------------------
(* The session.  tokens: deferred_tokens; known: replayed_payload_hashes;  *)
(* covered: checkpointed_delivery_frontiers; rejected: report.rejected > 0;*)
(* whole: quarantine_snapshot_complete; frontier: the transport's receipts *)
(* in memory; latest: the checkpoint last published or restored;           *)
(* cutoff: the installed reclamation frontier; collected: what was removed;*)
(* floor: history_floor; unsure: a manifest write of unknown outcome.      *)
Closed == [open |-> FALSE]

EmptyEngine == [applied |-> {}, waiting |-> << >>]

NoCheckpoint == [id |-> 0, engine |-> EmptyEngine, quarantined |-> {}, covered |-> Nowhere,
                 cutoff |-> {}, collected |-> {}]

NewSession ==
    [open |-> TRUE, engine |-> EmptyEngine, tokens |-> {}, known |-> {}, covered |-> Nowhere,
     quarantined |-> {}, whole |-> TRUE, rejected |-> FALSE,
     frontier |-> receipts, latest |-> 0, cutoff |-> {}, collected |-> {},
     floor |-> {}, unsure |-> FALSE]

\* retain_quarantine, and quarantine with the count it adds.
Retain(x, d) ==
    IF d \in x.quarantined THEN x
    ELSE IF Cardinality(x.quarantined) >= MaxQuarantine THEN [x EXCEPT !.whole = FALSE]
    ELSE [x EXCEPT !.quarantined = @ \union {d}]

Quarantine(x, d) == Retain([x EXCEPT !.rejected = TRUE], d)

\* Session input is complete (update_completeness, ready).
Complete(x) == x.engine.waiting = << >> /\ ~x.rejected

Refused(d) == d[1] \notin authorized \/ d \in Malformed

----------------------------------------------------------------------------
(* Replay.                                                                 *)

\* Mutant: a delivery refused during replay is skipped without a trace.
ReplayDeliveryMutant(x, d) ==
    LET out   == Offered(x.engine, d)
        after == [x EXCEPT !.engine = out.engine]
    IN IF Refused(d) \/ d \in x.known THEN x
       ELSE CASE out.kind = "rejected" -> Quarantine(after, d)
              [] out.kind = "deferred" -> [after EXCEPT !.known = @ \union {d}, !.tokens = @ \union {d}]
              [] OTHER -> [after EXCEPT !.known = @ \union {d}]

\* replay_delivery, the visitor of every replay.
ReplayDelivery(x, d) ==
    LET out   == Offered(x.engine, d)
        after == [x EXCEPT !.engine = out.engine]
    IN IF d[1] \notin authorized THEN Quarantine(x, d)
       ELSE IF d \in x.known THEN x
       ELSE IF d \in Malformed THEN Quarantine(x, d)
       ELSE CASE out.kind = "rejected" -> Quarantine(after, d)
              [] out.kind = "deferred" -> [after EXCEPT !.known = @ \union {d}, !.tokens = @ \union {d}]
              [] OTHER -> [after EXCEPT !.known = @ \union {d}]

\* FileOpStream::replay_all and ::replay_uncovered: producer by producer in the
\* order of the directory, each log from its beginning, what is covered skipped.
TokensAfter(p, n) == [i \in 1 .. (log[p] - n) |-> <<p, n + i>>]

ReplayLog(x, start) == FoldLeft(ReplayDelivery, x, TokensAfter(start[1], start[2]))

Replay(x, order, from) ==
    FoldLeft(ReplayLog, x, [i \in DOMAIN order |-> <<order[i], from[order[i]]>>])

DirectoryOrder == SetToSeqs(Producer)

\* Mutant: what the checkpoint says of waiting deliveries is not remembered.
RestoreMutant(c) ==
    LET x == [NewSession EXCEPT
                !.engine = c.engine, !.tokens = Range(c.engine.waiting),
                !.covered = c.covered,
                !.latest = c.id, !.cutoff = c.cutoff, !.collected = c.collected,
                !.floor = c.engine.applied]
    IN FoldLeft(Quarantine, x, SetToSeq(c.quarantined))

\* restore_checkpoint_if_available.
Restore(c) ==
    LET x == [NewSession EXCEPT
                !.engine = c.engine, !.tokens = Range(c.engine.waiting),
                !.known = Range(c.engine.waiting), !.covered = c.covered,
                !.latest = c.id, !.cutoff = c.cutoff, !.collected = c.collected,
                !.floor = c.engine.applied]
    IN FoldLeft(Quarantine, x, SetToSeq(c.quarantined))

\* Mutant: the checkpoint's tokens survive the reset.
ResetForFullReplayMutant(x) == [NewSession EXCEPT !.known = x.known]

\* reset_for_full_replay.
ResetForFullReplay(x) == [NewSession EXCEPT !.frontier = x.frontier]

\* DocumentSession::open: the checkpoint and the rest of the logs; the whole
\* logs when the checkpoint is refused, and when that replay fails on the way.
Open ==
    /\ s = Closed
    /\ \E order \in DirectoryOrder :
         LET restored == Replay(Restore(store), order, store.covered) IN
         \/ store.id # 0 /\ s' = restored /\ UNCHANGED events
         \/ store.id = 0 /\ s' = Replay(NewSession, order, Nowhere) /\ UNCHANGED events
         \/ store.id # 0 /\ s' = Replay(NewSession, order, Nowhere) /\ Event
         \/ store.id # 0 /\ s' = Replay(ResetForFullReplay(restored), order, Nowhere) /\ Event
    /\ UNCHANGED <<log, past, receipts, store, authorized>>

\* DocumentSession::recover: the whole logs once more, into the open session.
Recover ==
    /\ s.open
    /\ \E order \in DirectoryOrder : s' = Replay(s, order, Nowhere)
    /\ UNCHANGED <<log, past, receipts, store, authorized, events>>

----------------------------------------------------------------------------
(* Polling.                                                                *)

\* Mutant: a delivery that waited is retried for ever.
HandleMutant(x, d) ==
    LET out  == Offered(x.engine, d)
        next == [x EXCEPT !.engine = out.engine, !.known = @ \union {d}] IN
    IF Refused(d) THEN [session |-> Quarantine(x, d), decision |-> "quarantine"]
    ELSE IF d \in x.tokens THEN [session |-> x, decision |-> "retry"]
    ELSE CASE out.kind \in {"applied", "duplicate"} -> [session |-> next, decision |-> "commit"]
           [] out.kind = "deferred" ->
                [session |-> [next EXCEPT !.tokens = @ \union {d}], decision |-> "retry"]
           [] OTHER -> [session |-> Quarantine(x, d), decision |-> "quarantine"]

\* The handler the session subscribes.
Handle(x, d) ==
    LET out  == Offered(x.engine, d)
        next == [x EXCEPT !.engine = out.engine, !.known = @ \union {d}] IN
    IF Refused(d) THEN [session |-> Quarantine(x, d), decision |-> "quarantine"]
    ELSE IF d \in x.tokens
    THEN IF d \in x.engine.applied
         THEN [session |-> [x EXCEPT !.tokens = @ \ {d}, !.known = @ \union {d}], decision |-> "commit"]
         ELSE [session |-> x, decision |-> "retry"]
    ELSE CASE out.kind \in {"applied", "duplicate"} -> [session |-> next, decision |-> "commit"]
           [] out.kind = "deferred" ->
                [session |-> [next EXCEPT !.tokens = @ \union {d}], decision |-> "retry"]
           [] OTHER -> [session |-> Quarantine(x, d), decision |-> "quarantine"]

\* FileOpStream::poll, one record of one peer: the handler, then the receipt
\* file, then the frontier in memory.  A failed replacement of the receipt may
\* have reached the disk.
Deliver(p) ==
    /\ s.open /\ s.frontier[p] < log[p]
    /\ LET n == s.frontier[p] + 1
           h == Handle(s, <<p, n>>) IN
       IF h.decision = "commit"
       THEN \/ /\ s' = [h.session EXCEPT !.frontier[p] = n]
               /\ receipts' = [receipts EXCEPT ![p] = n]
               /\ UNCHANGED events
            \/ /\ s' = h.session /\ Event
               /\ receipts' \in {receipts, [receipts EXCEPT ![p] = n]}
       ELSE s' = h.session /\ UNCHANGED <<receipts, events>>
    /\ UNCHANGED <<log, past, store, authorized>>

----------------------------------------------------------------------------
(* The folder, the owner and the membership provider.                      *)

\* A peer's delivery becomes visible, perhaps before what it depends on.
Arrive(p) ==
    /\ log[p] < MaxSequence[p]
    /\ \A d \in PeerNeeds(<<p, log[p] + 1>>) : d[1] = Self => d[2] <= log[Self]
    /\ log' = [log EXCEPT ![p] = @ + 1]
    /\ UNCHANGED <<past, receipts, store, s, authorized, events>>

\* apply_local and publish_local, when they succeed.
Edit ==
    /\ s.open /\ Complete(s) /\ Self \in authorized
    /\ log[Self] < MaxSequence[Self]
    /\ LET d == <<Self, log[Self] + 1>> IN
       /\ past' = Append(past, s.engine.applied)
       /\ s' = [s EXCEPT !.engine.applied = @ \union {d}, !.known = @ \union {d}]
    /\ log' = [log EXCEPT ![Self] = @ + 1]
    /\ UNCHANGED <<receipts, store, authorized, events>>

\* authorize_inbound_delivery and authorize_local_mutation ask the provider,
\* whose answer for a producer may change.
ChangeMembership ==
    /\ Event
    /\ \E p \in Producer :
         authorized' = IF p \in authorized THEN authorized \ {p} ELSE authorized \union {p}
    /\ UNCHANGED <<log, past, receipts, store, s>>

\* The process ends, by close or by being killed.
Stop ==
    /\ s.open /\ Event /\ s' = Closed
    /\ UNCHANGED <<log, past, receipts, store, authorized>>

----------------------------------------------------------------------------
(* Checkpoints.                                                            *)

\* checkpoint_core's outstanding deliveries.
Outstanding(x) == (x.tokens \ x.engine.applied) \union x.quarantined

\* Mutant: a delivery still waiting counts as represented.
RepresentedMutant(x, d) ==
    d \notin x.quarantined /\ (d[2] <= x.covered[d[1]] \/ d \in x.known)

\* What of the logs the engine's state stands for (checkpoint_core's scan).
Represented(x, d) ==
    d \notin Outstanding(x) /\ (d[2] <= x.covered[d[1]] \/ d \in x.known)

Coverage(x) ==
    [p \in Producer |->
       Max({0} \union {n \in 1 .. log[p] : \A m \in 1 .. n : Represented(x, <<p, m>>)})]

\* capture_checkpoint and the deferred section's encoder, which refuses a
\* delivery that is there twice.
CanCapture(x) ==
    /\ x.open /\ x.whole
    /\ (x.tokens \ x.engine.applied) \intersect x.quarantined = {}

Capture(x, old) ==
    [id |-> old.id + 1,
     engine |-> [applied |-> x.engine.applied,
                 waiting |-> SetToSeq(x.tokens \ x.engine.applied)],
     quarantined |-> x.quarantined, covered |-> Coverage(x),
     cutoff |-> x.cutoff, collected |-> x.collected]

\* publish_checkpoint after the manifest names capture c.
Published(x, c) ==
    [x EXCEPT !.latest = c.id, !.covered = c.covered, !.unsure = FALSE]

\* persist_checkpoint_receipts: the producers whose receipt it rewrites.
ReceiptsAfter(x, c) == {p \in Peer : c.covered[p] > 0 /\ x.frontier[p] <= c.covered[p]}

\* publish_checkpoint of session state x over disk d: success; success with only
\* some receipts written; a manifest write of unknown outcome; nothing stored.
\* back is the session when nothing was; bad counts the failures.
Publications(x, back, d) ==
    LET c   == Capture(x, d.store)
        all == ReceiptsAfter(x, c)
        move(f, some) == [p \in Producer |-> IF p \in some THEN c.covered[p] ELSE f[p]]
        named(some) == [s |-> [Published(x, c) EXCEPT !.frontier = move(@, some)],
                        store |-> c, receipts |-> move(d.receipts, some),
                        bad |-> IF some = all THEN 0 ELSE 1]
    IN IF ~CanCapture(x) THEN {[d EXCEPT !.s = back, !.bad = 1]}
       ELSE {named(some) : some \in SUBSET all} \union
            {[d EXCEPT !.s = [x EXCEPT !.unsure = TRUE], !.store = m, !.bad = 1] : m \in {d.store, c}}
            \union {[d EXCEPT !.s = back, !.bad = 1]}

Disk == [s |-> s, store |-> store, receipts |-> receipts, bad |-> 0]

Become(o) ==
    /\ o.store.id <= MaxCheckpoints
    /\ s' = o.s /\ store' = o.store /\ receipts' = o.receipts
    /\ IF o.bad = 0 THEN UNCHANGED events ELSE Event
    /\ UNCHANGED <<log, past, authorized>>

PublishCheckpoint ==
    /\ s.open /\ CanCapture(s)
    /\ \E o \in Publications(s, s, Disk) : Become(o)

\* validate_reclamation_frontier, for a certificate that names the session's
\* latest checkpoint (external: its frontier lies within what that one holds).
CanReclaim(frontier) ==
    /\ s.open /\ s.latest # 0 /\ s.latest = store.id
    /\ Complete(s) /\ s.tokens = {} /\ s.quarantined = {}
    /\ frontier \subseteq s.engine.applied

Certified == {store.engine.applied, store.cutoff} \ {{}}

\* install_reclamation_frontier after its checks: the binding, its checkpoint,
\* and the old binding back when nothing was stored.
Installations(frontier) == Publications([s EXCEPT !.cutoff = frontier], s, Disk)

InstallFrontier ==
    \E frontier \in Certified :
        /\ CanReclaim(frontier) /\ s.cutoff \subseteq frontier
        /\ \E o \in Installations(frontier) : Become(o)

\* collect_garbage: the frontier installed, what it covers removed if anything
\* is there, and a second checkpoint; the old state back when it is not stored.
CollectGarbage ==
    \E frontier \in Certified :
        /\ CanReclaim(frontier) /\ s.cutoff \subseteq frontier /\ s.floor \subseteq frontier
        /\ \E o \in Installations(frontier) :
             \/ Become(o)
             \/ /\ o.bad = 0
                /\ \E c \in Publications([o.s EXCEPT !.collected = frontier, !.floor = frontier],
                                          o.s, o) : Become(c)

----------------------------------------------------------------------------
Init ==
    /\ log = Nowhere /\ past = << >> /\ receipts = Nowhere
    /\ store = NoCheckpoint /\ s = Closed
    /\ authorized = Producer /\ events = 0

Next ==
    \/ Open \/ Recover \/ Edit \/ Stop \/ ChangeMembership
    \/ \E p \in Peer : Deliver(p) \/ Arrive(p)
    \/ PublishCheckpoint \/ InstallFrontier \/ CollectGarbage

Spec == Init /\ [][Next]_vars

\* The editor polls from a timer, which offers the next delivery of every peer,
\* and the folder's synchronisation brings every delivery in the end.  A session
\* that ended is opened again: Open is enabled whenever s is Closed, so this is
\* its weak fairness, in a form that costs no ENABLED.
FairSpec ==
    /\ Spec /\ []<>(s.open)
    /\ WF_vars(\E p \in Peer : Deliver(p)) /\ WF_vars(\E p \in Peer : Arrive(p))

----------------------------------------------------------------------------
(* Properties.                                                             *)

\* What a checkpoint says it covers, and replay_uncovered therefore skips, is in
\* the engine state it carries; what waits in it is not.
CoverageIsRestorable ==
    /\ \A d \in Delivery : d[2] <= store.covered[d[1]] => d \in store.engine.applied
    /\ Range(store.engine.waiting) \intersect store.engine.applied = {}

\* A session that accepts local edits has applied every delivery it has
\* receipted, so no edit is written in ignorance of one poll will not offer
\* again: whatever was restored, replayed, refused or delivered in between.
ReadyHasAllCommitted ==
    s.open /\ Complete(s) =>
        \A d \in Delivery : d[1] \in Peer /\ d[2] <= s.frontier[d[1]] => d \in s.engine.applied

\* The engine holds a waiting delivery once, however often restore, replay,
\* recover and poll come across it: a second copy eats the deferral budget.
WaitsOnce == s.open => IsInjective(s.engine.waiting)

\* A session that opens complete has applied every delivery in the folder,
\* whichever checkpoint it started from and whatever order the logs came in.
OpensWithWholeLog == [][Open /\ Complete(s') => s'.engine.applied = Logged]_vars

\* Once every producer stays admitted, every delivery of a peer none of whose
\* history is malformed is applied and receipted in the end.
Sound(p) ==
    \A n \in 1 .. MaxSequence[p] : Malformed \intersect ({<<p, n>>} \union PeerNeeds(<<p, n>>)) = {}

EventuallyCommitted ==
    <>[](authorized = Producer) =>
        <>[](s.open /\ \A p \in Peer : Sound(p) => s.frontier[p] = log[p] /\ receipts[p] = log[p])
============================================================================
