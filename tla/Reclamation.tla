---------------------------- MODULE Reclamation -----------------------------
(***************************************************************************)
(* What permits physical reclamation: every member's RetentionState (the   *)
(* journal of undo groups it has given up, written only after the trimmed  *)
(* history is durable), every member's CoverageStore evidence for one      *)
(* descriptor and checkpoint, and the certificate certify_common_coverage  *)
(* builds from them, which a session checks once more when it installs it. *)
(* Membership epochs are abstract here (module Membership has them): a     *)
(* descriptor is identified by its content.  An operation travels in one   *)
(* delivery, so operation and delivery coverage are one function.          *)
(***************************************************************************)
EXTENDS DurableJournal, FiniteSets, SequencesExt

CONSTANTS
    Device,        \* devices that may be members
    FirstMembers,  \* the members of the first epoch
    Streams,       \* the streams of the document, in canonical order
    MaxCounter,    \* bound: operations of one device in one stream
    Budgets,       \* bounds: [operations, checkpoints, epochs, faults] in one behaviour
    RetentionFaults \* the faults an I/O step of RetentionState may meet

Stream == Range(Streams)

ASSUME ReclamationAssumption ==
    /\ FirstMembers \subseteq Device /\ FirstMembers # {}
    /\ Streams \in Seq(STRING) /\ Stream # {} /\ MaxCounter \in Nat
    /\ Budgets \subseteq [operations : Nat, checkpoints : Nat, epochs : Nat, faults : Nat]
    /\ RetentionFaults \subseteq AppendFaults \ {"none"}

VARIABLES
    descriptor,   \* the current membership descriptor
    held,         \* [Device -> Coverage]: operations each device holds durably
    groups,       \* [Device -> history]: undo groups in memory
    saved,        \* [Device -> history]: the durable history snapshot
    retention,    \* [Device -> RetentionState]
    published,    \* groups whose publication succeeded and await acknowledgement
    acknowledged, \* groups acknowledge_undo_retirements dropped
    candidate,    \* the checkpoint members are asked to certify
    evidence,     \* coverage records on disk
    certificate,  \* the last certificate
    installed,    \* [Device -> Coverage]: cutoff each device has reclaimed to
    left          \* what is left of the budget

reclamationVars == <<descriptor, held, groups, saved, retention, published, acknowledged,
                     candidate, evidence, certificate, installed, left>>

-----------------------------------------------------------------------------
(* Coverage: [Stream -> [Device -> counter]], absence is zero *)

NoCoverage == [s \in Stream |-> [d \in Device |-> 0]]

\* frontier_covers
Covers(c, required) == \A s \in Stream, d \in Device : c[s][d] >= required[s][d]

\* validate_frontier / validate_coverage: a producer outside the descriptor's
\* base frontier is refused, and nothing may fall below that base.
ValidFrontier(desc, c) ==
    /\ Covers(c, desc.base)
    /\ \A s \in Stream, d \in Device : c[s][d] > 0 => d \in desc.producers

\* common_frontier: the meet over every member; absence at one is zero.
CommonFrontierMutant(records) ==
    [s \in Stream |-> [d \in Device |->
        LET known == {e.operation[s][d] : e \in records} \ {0}
        IN IF known = {} THEN 0 ELSE CHOOSE n \in known : \A k \in known : n <= k]]
CommonFrontier(records) ==
    [s \in Stream |-> [d \in Device |->
        CHOOSE n \in {e.operation[s][d] : e \in records} :
            \A e \in records : n <= e.operation[s][d]]]

-----------------------------------------------------------------------------
(* RetentionState *)

Closed == [file |-> NewJournal, seq |-> 0, retired |-> {}, up |-> TRUE]

Group(s, n) == [stream |-> s, n |-> n]

GroupsIn(lines) == {Group(r.stream, r.n) : r \in {x \in Range(lines) : x.seq # 0}}

\* recover(): clears what is loaded, reads line after line, and leaves the
\* sequence number at zero when it stops at a bad one.
Recovered(file) ==
    LET good == {i \in 0..Len(file.lines) : Readable([file EXCEPT !.lines = SubSeq(@, 1, i), !.torn = FALSE])}
        n == CHOOSE i \in good : \A k \in good : k <= i
    IN [file |-> file, retired |-> GroupsIn(SubSeq(file.lines, 1, n)),
        seq |-> IF Readable(file) THEN n ELSE 0, up |-> Readable(file)]

\* One publication in progress: the state, the groups to retire, the I/O steps
\* done, the result.  The step numbered `at` meets the fault.
Running(state, batch, at, fault) ==
    [state |-> state, batch |-> batch, at |-> at, fault |-> fault, io |-> 0, code |-> "ok"]

Met(run) == IF run.io + 1 = run.at THEN run.fault ELSE "none"

\* The lines this batch already put in the journal pass a fresh barrier before
\* they are reported as published.
BarrierMutant(run, stream) == run
Barrier(run, stream) ==
    LET met == IF Met(run) \in SyncFaults THEN Met(run) ELSE "none"
    IN IF run.code # "ok" \/ \A g \in run.state.retired \cap run.batch : g.stream # stream THEN run
       ELSE [run EXCEPT !.state.file = SyncedJournal(@, met),
                        !.io = @ + 1, !.code = JournalError(met)]

\* append_retirements, for one group: nothing if it is retired already; after
\* a failed append the journal is read again.
AppendRetirement(run, id) ==
    LET met == Met(run)
        record == [seq |-> run.state.seq + 1, stream |-> id.stream, n |-> id.n]
        file == AppendedJournal(run.state.file, record, met)
        added == [run.state EXCEPT !.file = file, !.seq = @ + 1, !.retired = @ \cup {id}]
    IN IF run.code # "ok" \/ id \notin run.batch \ run.state.retired THEN run
       ELSE [run EXCEPT !.state = IF met = "none" THEN added
                                  ELSE [Recovered(file) EXCEPT !.up = run.state.up],
                        !.io = @ + 1, !.code = JournalError(met)]

\* The groups a stream can have, in the order of their identities.
InOrder(stream) == [n \in 1..MaxCounter |-> Group(stream, n)]

PublishStream(run, stream) == FoldLeft(AppendRetirement, Barrier(run, stream), InOrder(stream))

\* publish_after_durable_trim, after the trim callback: the streams in
\* canonical order, the rest is left undone at the first error.
PublishedBatch(state, batch, at, fault) ==
    FoldLeft(PublishStream, Running(state, batch, at, fault), Streams)

-----------------------------------------------------------------------------
(* Certificates *)

\* CoverageStore::publish: valid for the descriptor, not behind the named
\* checkpoint, and never other than what the same path already holds.
MayPublishEvidence(d, checkpoint, coverage) ==
    /\ d \in descriptor.members
    /\ ValidFrontier(descriptor, coverage)
    /\ Covers(coverage, checkpoint.frontier)
    /\ \A e \in evidence : e.member = d /\ e.descriptor = descriptor /\ e.checkpoint = checkpoint
                           => e.operation = coverage

\* The records of the current members for this descriptor and checkpoint.
CurrentEvidence(checkpoint) ==
    {e \in evidence : e.descriptor = descriptor /\ e.checkpoint = checkpoint
                      /\ e.member \in descriptor.members}

\* The eligibility the host's verifier re-evaluates: no member keeps an undo
\* group that the frontier covers, as its retention state tells.
Eligible(frontier) ==
    \A d \in descriptor.members, s \in Stream :
        \A n \in 1..frontier[s][d] : Group(s, n) \in retention[d].retired

\* DocumentSession::validate_reclamation_frontier and
\* install_reclamation_frontier: not past the engine, not over the session's
\* own history, not behind the cutoff installed before.
MayInstall(d, frontier) ==
    /\ Covers(held[d], frontier)
    /\ \A g \in groups[d].live \cup groups[d].retired : g.n > frontier[g.stream][d]
    /\ Covers(frontier, installed[d])

-----------------------------------------------------------------------------
(* Behaviour *)

NoHistory == [live |-> {}, retired |-> {}]
NoCheckpoint == [descriptor |-> 0]

ReclamationInit ==
    /\ descriptor = [epoch |-> 1, members |-> FirstMembers, producers |-> FirstMembers,
                     base |-> NoCoverage]
    /\ held = [d \in Device |-> NoCoverage]
    /\ groups = [d \in Device |-> NoHistory] /\ saved = groups
    /\ retention = [d \in Device |-> Closed]
    /\ published = [d \in Device |-> {}] /\ acknowledged = published
    /\ candidate = NoCheckpoint /\ certificate = NoCheckpoint
    /\ evidence = {}
    /\ installed = [d \in Device |-> NoCoverage]
    /\ left \in Budgets

\* A member edits a stream: the operation and its undo group are durable
\* before the edit is reported (module Session has the steps).
Edit(d) ==
    /\ left.operations > 0
    /\ d \in descriptor.members
    /\ \E s \in Stream :
          /\ held[d][s][d] < MaxCounter
          /\ LET g == Group(s, held[d][s][d] + 1)
             IN /\ groups' = [groups EXCEPT ![d].live = @ \cup {g}]
                /\ saved' = [saved EXCEPT ![d] = groups'[d]]
                /\ held' = [held EXCEPT ![d][s][d] = @ + 1]
    /\ left' = [left EXCEPT !.operations = @ - 1]
    /\ UNCHANGED <<descriptor, retention, published, acknowledged, candidate, evidence,
                   certificate, installed>>

\* A member integrates the next operation of another device durably.
Receive(d) ==
    /\ d \in descriptor.members
    /\ \E s \in Stream, a \in Device \ {d} :
          /\ held[d][s][a] < held[a][s][a]
          /\ held' = [held EXCEPT ![d][s][a] = @ + 1]
    /\ UNCHANGED <<descriptor, groups, saved, retention, published, acknowledged, candidate,
                   evidence, certificate, installed, left>>

\* The history budget drops a group: it waits to be retired.
TrimGroup(d) ==
    /\ \E g \in groups[d].live :
          groups' = [groups EXCEPT ![d].live = @ \ {g}, ![d].retired = @ \cup {g}]
    /\ UNCHANGED <<descriptor, held, saved, retention, published, acknowledged, candidate,
                   evidence, certificate, installed, left>>

\* publish_after_durable_trim: commit_trim saves every stream's history, then
\* the journal is written.  A callback that fails publishes nothing.
CommitTrimMutant(d, ok) == saved
CommitTrim(d, ok) == IF ok THEN [saved EXCEPT ![d] = groups[d]] ELSE saved

Publish(d) ==
    /\ groups[d].retired # {} /\ retention[d].up
    /\ \E trimmed \in BOOLEAN, fault \in RetentionFaults \cup {"none"}, at \in 1..4 :
          LET run == PublishedBatch(retention[d], groups[d].retired, at, fault)
          IN /\ fault = "none" => at = 1
             /\ (fault # "none" \/ ~trimmed) => left.faults > 0
             /\ ~trimmed => fault = "none"
             /\ (trimmed /\ fault # "none") => at <= run.io
             /\ saved' = CommitTrim(d, trimmed)
             /\ retention' = IF trimmed THEN [retention EXCEPT ![d] = run.state] ELSE retention
             /\ published' = IF trimmed /\ run.code = "ok"
                             THEN [published EXCEPT ![d] = groups[d].retired] ELSE published
             /\ left' = IF trimmed /\ fault = "none" THEN left ELSE [left EXCEPT !.faults = @ - 1]
    /\ UNCHANGED <<descriptor, held, groups, acknowledged, candidate, evidence, certificate, installed>>

\* acknowledge_undo_retirements, once publication succeeded.
AcknowledgeRetirements(d) ==
    /\ published[d] # {}
    /\ groups' = [groups EXCEPT ![d].retired = @ \ published[d]]
    /\ saved' = [saved EXCEPT ![d] = groups'[d]]
    /\ acknowledged' = [acknowledged EXCEPT ![d] = @ \cup published[d]]
    /\ published' = [published EXCEPT ![d] = {}]
    /\ UNCHANGED <<descriptor, held, retention, candidate, evidence, certificate, installed, left>>

\* A device stops, perhaps with its power, and opens its stores again: the
\* history is the saved one, the retention state the journal's, or none.
Restart(d) ==
    /\ left.faults > 0
    /\ groups' = [groups EXCEPT ![d] = saved[d]]
    /\ \E file \in {retention[d].file} \cup AfterPowerLoss(retention[d].file) :
          retention' = [retention EXCEPT ![d] = Recovered(file)]
    /\ published' = [published EXCEPT ![d] = {}]
    /\ left' = [left EXCEPT !.faults = @ - 1]
    /\ UNCHANGED <<descriptor, held, saved, acknowledged, candidate, evidence, certificate, installed>>

\* A member offers its checkpoint for certification.
OfferCheckpoint(d) ==
    /\ left.checkpoints > 0 /\ d \in descriptor.members
    /\ ValidFrontier(descriptor, held[d])
    /\ candidate' = [descriptor |-> descriptor, frontier |-> held[d]]
    /\ left' = [left EXCEPT !.checkpoints = @ - 1]
    /\ UNCHANGED <<descriptor, held, groups, saved, retention, published, acknowledged, evidence,
                   certificate, installed>>

\* CoverageStore::publish, of what the member holds now.
PublishEvidence(d) ==
    /\ candidate # NoCheckpoint /\ candidate.descriptor = descriptor
    /\ MayPublishEvidence(d, candidate, held[d])
    /\ evidence' = evidence \cup {[member |-> d, descriptor |-> descriptor,
                                   checkpoint |-> candidate, operation |-> held[d]]}
    /\ UNCHANGED <<descriptor, held, groups, saved, retention, published, acknowledged, candidate,
                   certificate, installed, left>>

\* certify_common_coverage: one record of every current member, and the
\* eligibility of exactly their common frontier.
Certify ==
    /\ candidate # NoCheckpoint /\ candidate.descriptor = descriptor
    /\ LET records == CurrentEvidence(candidate)
       IN /\ {e.member : e \in records} = descriptor.members
          /\ \A e \in records : ValidFrontier(descriptor, e.operation)
          /\ Eligible(CommonFrontier(records))
          /\ certificate' = [descriptor |-> descriptor, frontier |-> CommonFrontier(records)]
    /\ UNCHANGED <<descriptor, held, groups, saved, retention, published, acknowledged, candidate,
                   evidence, installed, left>>

\* A session installs the certified frontier and collects below it; the
\* provider revalidates that the certificate is for the current descriptor.
Install(d) ==
    /\ d \in descriptor.members
    /\ certificate # NoCheckpoint /\ certificate.descriptor = descriptor
    /\ MayInstall(d, certificate.frontier)
    /\ installed' = [installed EXCEPT ![d] = certificate.frontier]
    /\ UNCHANGED <<descriptor, held, groups, saved, retention, published, acknowledged, candidate,
                   evidence, certificate, left>>

\* The next epoch: a device retires, or a new one joins by installing a
\* member's checkpoint, whose frontier is the new base.  A retired device does
\* not come back with its old session: it exports its branch and reconciles.
ChangeEpoch ==
    /\ left.epochs > 0
    /\ \E p \in descriptor.members, d \in descriptor.members \cup (Device \ descriptor.producers) :
          /\ ValidFrontier(descriptor, held[p])
          /\ d \in descriptor.members => Cardinality(descriptor.members) >= 2 /\ p # d
          /\ descriptor' = [epoch |-> descriptor.epoch + 1, base |-> held[p],
                            members |-> IF d \in descriptor.members THEN descriptor.members \ {d}
                                                                    ELSE descriptor.members \cup {d},
                            producers |-> descriptor.producers \cup {d}]
          /\ held' = IF d \in descriptor.members THEN held ELSE [held EXCEPT ![d] = held[p]]
    /\ left' = [left EXCEPT !.epochs = @ - 1]
    /\ UNCHANGED <<groups, saved, retention, published, acknowledged, candidate, evidence,
                   certificate, installed>>

DeviceStep(d) ==
    Edit(d) \/ Receive(d) \/ TrimGroup(d) \/ Publish(d) \/ AcknowledgeRetirements(d)
    \/ Restart(d) \/ OfferCheckpoint(d) \/ PublishEvidence(d) \/ Install(d)

ReclamationNext == (\E d \in Device : DeviceStep(d)) \/ Certify \/ ChangeEpoch

ReclamationSpec == ReclamationInit /\ [][ReclamationNext]_reclamationVars

-----------------------------------------------------------------------------
(* Properties *)

\* No member of the current epoch needs what another has reclaimed: every
\* installed cutoff is covered by what each member holds, over retirements,
\* enrollments and evidence published at different times.
ReclaimedIsHeldByAll ==
    \A d \in Device, m \in descriptor.members : Covers(held[m], installed[d])

\* No device can undo what another has reclaimed: a group below an installed
\* cutoff is neither in its author's memory nor in the history the author
\* would reopen with.
NoUndoOfReclaimed ==
    \A d, a \in descriptor.members :
        \A g \in groups[a].live \cup saved[a].live : g.n > installed[d][g.stream][a]

\* A group the session has dropped on the strength of a successful publication
\* is among the lines a restart reads (before it refuses a torn tail, if there
\* is one), over failed, short and unsynchronised writes, power loss and retries,
\* as long as no record was written behind a line that a short write had broken.
\* RetentionState.h promises an idempotent retry without that exception; but
\* recover() stops at the broken line with the sequence number at zero, the
\* retry numbers its record from there, runs it into the broken line and
\* reports success, and no restart reads that record.
AcknowledgedIsRecorded ==
    \A d \in Device :
        Garbage \notin Range(retention[d].file.lines) =>
            \A f \in AfterPowerLoss(retention[d].file) :
                acknowledged[d] \subseteq Recovered(f).retired
=============================================================================
