# TLA+ models of CollabText

CollabText is a C++20 library for collaborative text and lists: replicas edit
their own copy, exchange operations through shared folders or any other
transport, and converge.  This directory holds TLA+ specifications of the parts
of it that are hard to test, the TLC configurations that check them on small
instances, and proofs that TLAPS checks for instances of every size.

Paths below are relative to `libs/collabtext/src/` unless they start otherwise.

## 1. Inventory

| Component | State | Operations | Talks to | What is hard | What makes it correct |
|---|---|---|---|---|---|
| Identities, version vectors (`crdt/Clock.cpp`, `Engine.h`) | per-actor counters | `observe`, `observed_all`, `join`, identity order | everything | an absent actor reads as 0 | identities unique and ordered like causality |
| Placement (`crdt/SequenceOrder.cpp`) | none, works on the entry list | `mint_link`, `integrate`, `check_consistency` | IdList, Buffer | concurrent siblings in every order of arrival, append shortcut | list order is the traversal of the FugueMax tree; a local insertion lands where it was typed |
| Undo map (`crdt/UndoMap.cpp`) | (edit, undo) to count | `insert`, `undo_count`, `is_undone` | IdList, Buffer | concurrent undo and redo of one edit | counts merge in any order |
| Replicated list (`crdt/IdList.cpp`) | entries, version, undo map, deferral queue, quarantine, frontier, history | local insert/remove/undo/redo, `apply_ops`, checkpoint capture and restore, `collect_garbage` | allocator, placement, transport through its consumer | reordered, repeated and lost operations; full queues; collection against operations on their way | convergence, honest coverage, nothing applicable left waiting, restorable checkpoints |
| Local history (`crdt/IdList.cpp`, `crdt/LocalHistoryBudget.h`) | stack, cursor, retired groups, limits | push, undo or redo of any group, coalesce, trim, acknowledge, restore | IdList, Buffer, session | limits reached in the middle of undo/redo | cursor and undo counts agree; everything named still exists |
| Text engine (`crdt/Buffer.cpp`, `crdt/Fragment.h`) | fragments, indexes, version, undo map, per-actor deferral, gap ledger | edits of several ranges on direct and general paths, undo, remote edits, gaps, collection, checkpoints, `edits_since` | same as the list | shortcuts that skip the general path, splitting runs, head-of-line deferral | every path gives the same document; text is a function of the version |
| Tree and map (`crdt/SumTree.h`, `crdt/NodeDirectory.h`, `crdt/PersistentAvlMap.h`) | nodes shared between versions, location directories | append, insert, edit, remove, splice, slice, cursors, lookups | Buffer | copy-on-write with shared nodes, stale locations | a version holds its own items; every lookup agrees with the sequence |
| Allocation (`identity/ReplicaState.cpp`) | durable next counter per stream, process lock | `reserve_run`, `observe`, `fork_identity`, `persist` | engines | restart or failed write between reserve and use | no identity issued twice |
| Session, publishing (`DocumentSession.cpp`, `storage/LocalHistoryLog.cpp`) | engine, next envelope, poisoned and blocked flags, snapshot and intent files | `apply_local`, `undo`, `redo`, `recover`, `save`, `close` | engine, transport, allocator | five durable writes per local operation, each may fail or be cut by a crash | nothing lost, no token used twice, the history accounts for the log |
| Session, receiving (`DocumentSession.cpp`, `crdt/StreamSync.cpp`) | receipts, deferred and quarantined deliveries, checkpoint coverage | replay, `poll`, inbound handler, `publish_checkpoint`, frontier installation | transport, engine, checkpoint store | handler, receipt and checkpoint are separate writes; producers depend on each other | a checkpoint never claims what it lacks; every delivery is committed in the end |
| Segments (`crdt/Segment*.cpp`) | open, sealed and temporary files, cursors | append, flush, rotate, recover, read | transport | torn tails, uncertain directory sync, a reader during rotation | a log that only grows and keeps what was confirmed |
| Durable files (`storage/DurableFile.cpp`, `storage/DurableAppendFile*`) | files | atomic replace, append, lease | every store | uncertain directory sync, torn lines | outcome reported honestly |
| Checkpoint store (`storage/CheckpointStore.cpp`) | artifacts, two manifests | publish, recover | session | manifest replaced last, generation limit | recovery finds the last publication |
| Membership (`storage/MembershipStore.cpp`, `MembershipCoordinator.cpp`) | epochs, leases, journal | authorize, preview, acknowledge, commit, reopen | session, certificates | a commit that fails half way; writes under an old lease | a write belongs to its epoch; one successor per descriptor |
| Certificates, retention (`storage/GcCertificate.cpp`, `CoverageStore.cpp`, `RetentionState.cpp`) | evidence, retired groups | record, certify, install, retire, acknowledge | session, engines | stale evidence, epochs, failed journal writes | reclaimed history is held by all and never undone |
| Anchors and pins, facades, chat, comments, presence, profiles, codecs, UI, application | - | - | - | - | see section 8 |

The hazards, each at the line where it bites, are in `PROJECT.json`.

## 2. Modules

```
Clock <- SequenceOrder <- ListReplica <---- IdList <- MCIdList, IdListProofs
                   ^           ^  ^           |
                   |           |  +- MCListReplica
                   |           +- ListReplicaProofs <- IdListProofs
                   +--------- LocalHistory <--+
                               ^    ^
                               |    +- Session <- MCSession
                               |          ^------ SessionProofs
                               +- TextBuffer <- MCTextBuffer, TextBufferProofs

RecordLog <- SegmentLog <- MCSegmentLog          Inbound <- MCInbound
SumTree, AvlMap <- MCSumTree

DurableJournal   <- Membership      <---+        ReclamationProofs -> Membership, Reclamation
        ^--------- Reclamation      <---+
DurableDirectory <- CheckpointStore <---+- MCStores
        ^--------- ReplicaState     <---+        DirectoryProofs -> ReplicaState, CheckpointStore

FoldTheorems (about folds; instantiated by ReclamationProofs, InboundProofs and TextBufferProofs)
```

### Replicated list

* **Clock**: identities `[counter, actor]`, their order (counter first, then the
  actor's bytes), version vectors as total functions, `Covered` for a certified
  frontier.  `NoId` stands for an empty optional identity.
* **SequenceOrder**: placement as pure functions of a list.  `MintLink` is
  `mint_link`; `Slot` and `Integrate` are `integrate_impl` (append shortcut, right
  scan, left scan, the refusals); `Consistent` is `check_consistency`.  Where the
  code walks sibling subtrees in a loop, the model takes the first position at
  which the loop may stop; the comments say why it is the same position.
* **ListReplica**: the documents of all replicas (`entries`, `version`, `next`,
  `undoMap`), the operations ever `sent` and, as a history variable, those each
  replica has `applied`.  It is the abstract specification: an operation is
  integrated once and after everything it depends on; deleted entries may be
  forgotten once all replicas have all of their operations.  The functions that
  change a document are the code's: `insert_after_resolved`, `remove_at_resolved`,
  `try_undo_group`, `apply_concrete`, the removal loop of `collect_garbage`.
* **LocalHistory**: the undo history of one replica as a record and the functions
  on it: `Trim`, `PushGroup`, `UndoneAt`, `RedoneAt`, `Coalesced`, `Acknowledged`,
  the budgets, and `HistoryAccepted` (`restore_local_history`).
* **IdList**: the list as the code keeps it.  It adds to ListReplica the history,
  the deferral queue, the quarantine and the certified frontier, and implements
  ListReplica (the identity on the common variables is the refinement mapping).

| Action of IdList | Code |
|---|---|
| `LocalInsert`, `LocalRemove` | `try_insert_after`, `try_remove_at`, including the budget check made before a counter is reserved and the push and trim of the history at the end |
| `UndoGroup`, `RedoGroup` | `try_undo_group`, `try_redo_group`; `try_undo` and `try_redo` are the cases with the group at the cursor |
| `CoalesceLastUndo`, `AcknowledgeRetirement`, `SetMaxUndoDepth` | the methods of the same names |
| `DeliverDuplicate/Applied/Deferred/Rejected` | the outcomes of `apply_one` for an operation of the batch given to `apply_ops` |
| `StartPass`, `RetryObserved/Applied/Rejected/Waits`, `EndRetry` | the loop of `retry_deferred`, one queue entry per step |
| `RestoreCheckpoint` | `checkpoint_state` followed by `restore_checkpoint_state` of the same replica with a newly certified frontier in its binding |
| `CollectGarbage` | `collect_garbage`, with any single pinned identity or none |

`apply_ops` is synchronous and replicas share nothing, so one call runs at a time;
its steps are separate because the loop is what is checked.  The network is the
set `sent`: any operation may be offered to any replica in any order, or never.
`Redeliver` says which operations the consumer offers again: those it was told are
applied, deferred or rejected (`delivery` has all three, `reclaim` none).
DocumentSession does not give the engine a deferred delivery again (it remembers
the token); a direct consumer of the list may.

List values carry no meaning for the list and are dropped; byte budgets count
operations, since each member of a group and each operation is charged a fixed
size; quarantine reasons and callbacks are dropped; actors are positive numbers
ordered as the byte strings are; a certified frontier is the component-wise minimum
over a fixed membership (`common_frontier` in `storage/GcCertificate.cpp`).  The
further conditions of a certificate are in Reclamation; here every frontier the
intersection allows may be installed.

### Text engine and its structures

* **TextBuffer**: `buffer` is one Buffer per replica (fragments, index rows, version,
  undo map, gap ledger, deferral queue, quarantine, history), `sent` everything published.  The
  steps of a replica are its local edits (`apply_local_edit` with its direct paths
  tried first, and the general path), undo and redo, one remote operation with
  everything `retry_deferred` does after it, `collect_garbage`, capture and restore
  of a checkpoint, and `declare_counter_gap`.  Every local edit and every remote
  direct path is compared, in the same step, with what the general path makes of the
  same operation (`agreed`).  One byte is one scalar; a run is named by the identity
  its origin row starts at; `located` are the runs whose location the directories
  resolve, emptied by collection as in the code.  A full queue refuses an operation and
  keeps a copy in `quarantined`, and so does a retry pass that finds one malformed;
  refused operations are offered again, deferred ones are not (DocumentSession
  remembers their tokens).  `GapConflicts` looks at an operation's own counters and at
  everything it names, for arrivals, for what waits and for the copies.  A gap is
  declared for a counter its author has skipped (`DeclareGap`, as
  `docs/ALPHA_CAPABILITIES.md:33` requires) or by mistake for an operation that exists
  (`MisdeclareGap`), in any order with the operations that are in it or name it.
  Collection takes for granted what the verifier of its certificate checks
  (Reclamation has that).
* **SumTree**: a heap of nodes shared by two versions of a tree, with every
  structural operation (`push_back`, `insert_at_rank`, `edit_at_rank`, `edit_all`,
  `remove_item`, `splice_range`, slicing and concatenation by rank), cursors that
  seek by rank and by width, and the node directory with its lookups.  A node's
  `use_count` is derived from reachability.  Removal gives up the minimal occupancy,
  as the code does (`full`).  `refresh_path` leaves moved children off the path
  stale; the lookup then finds nothing and Buffer falls back, which the model keeps.
* **AvlMap**: `insert_or_assign` and `erase` of the persistent map as functions of
  the value.

### Publishing

* **Session**: one device publishing its own operations.  `disk` is the private
  directory (identity counter, history snapshot, pending intent) as it looks now
  and in every way a power loss may leave it; `log` with `synced` is the device's
  log in the shared folder and how much of it is surely on disk; `mem` is
  `DocumentSession::Impl` with its Buffer and ReplicaAllocator; `writer` is
  FileOpStream's WriterState with its SegmentWriter; `step` and `call` are the
  durable write the running call makes next and what it works on.

| Action of Session | Code |
|---|---|
| `ApplyLocal`, `Undo`, `Redo`, `ReserveFails` | the methods up to the first durable write of `publish_local`; the reservation is `ReplicaAllocator::reserve_run` and `ReplicaState::persist` |
| `StorePending`, `PushWrites`, `PushFlushes`, `PushError`, `StoreSnapshot`, `ClearPending` | the durable writes of `publish_local` and of `reconcile_pending_history`, one per step, with their failures |
| `Open`, `Recover`, `Replay`, `ReplayFails` | `open_with_writer_config` (without a checkpoint) and `recover`: reconciliation, full replay, restoring the history |
| `AcknowledgeUndoRetirements`, `CoalesceLastUndo`, `Poll`, `Save`, `Close` | the methods of the same names; `Close` includes the destructor, and a close that fails without destruction is a `Save` |
| `Kill`, `PowerLoss`, `PeerPublishes` | the environment |

A write of a file ends in "ok", "failed" (nothing changed) or "uncertain" (renamed,
directory not synchronised: `commit_uncertain`).  A push is "refused" (limits,
backpressure: nothing appended), "queued" (a full segment could not be sealed: the
record stays in the writer), or "failed" (a write or sync failed: part of the queue
is in the file and the writer refuses everything later).  The files of the private
directory share its synchronisation.  An operation is an edit of one item or an
undo that toggles the items of a group; a text edit reserves one counter per
inserted character and one for itself, here it reserves one.

* **RecordLog** is what a producer's log promises to its readers: it grows at its
  end by the next records or a repetition of the last, and a power loss takes
  records from its end, never a confirmed one.
* **SegmentLog** is the directory of segment files that keeps it: `Push`, `Flush`,
  `Tick`, `Close`, `Destroy` begin a call of SegmentWriter or FileOpStream, and one
  action per file operation carries it out (`WriteRecord`, `SyncRecord`,
  `ReplaceCreates/Fills/Renames/Syncs`, `SealDropsOpen`, ...); `Start` to
  `RecoverTail` are `recover_`; `ReaderLists`, `ReaderReads`, `ReaderRestarts` a
  SegmentReader of another process.  Every file operation may fail, the process may
  be killed between any two, and the power may be lost.  SegmentLog implements
  RecordLog: the log is what a reader that started now would read.

### Receiving

* **Inbound**: `log` is the length of every producer's log in the shared folder,
  `receipts` the receipt files, `store` the checkpoint that would be recovered, `s`
  the open session.  `Open` and `Recover` are checkpoint restore, `replay_uncovered`
  and `replay_all` with the replay handler; `Deliver(p)` one record of a poll with
  the inbound handler, the engine's verdict and the receipt, cut anywhere;
  `PublishCheckpoint`, `InstallFrontier`, `CollectGarbage` the session's methods;
  `Edit` a whole local publication; `Stop` a kill or a close; `ChangeMembership` what
  the provider answers; `Arrive(p)` the folder's synchronisation.

### Stores

* **DurableDirectory**: files replaced by `replace_atomically`: what a process reads,
  and the images a power failure may leave.
* **DurableJournal**: checksummed lines appended through DurableAppendFile, with torn
  lines, lines not yet synchronised and a name not yet synchronised.
* **Membership**: `Authorize` and `Release` are leases of the MembershipCoordinator,
  `Propose`, `Acknowledge`, `Transition` a host that previews, collects
  acknowledgements and commits, `Stop` and `Open` the process.  A descriptor's hash is
  the path of transitions that led to it.  A retired device does not enrol again with
  its old session (`tests/reference/GcModel.h:365`).
* **Reclamation**: for every device what it holds, its undo groups, its retention
  journal and the evidence it has recorded; `Certify` is `certify_common_coverage`,
  the steps of a device are editing, receiving, retiring groups, publishing and
  acknowledging retirements, recording evidence and installing a certificate;
  `ChangeEpoch` changes the members.
* **CheckpointStore**: `PublishCheckpoint` and `PublishMembershipBundle` with each of
  their file operations able to fail, `recover` in the property.
* **ReplicaState**: processes of one device that open the identity file in turn;
  `NextOperation`, `ReserveRun`, `Observe`, `ForkIdentity`, writers, `Close`, a
  `PowerFailure`.

MCStores checks the four in one run: they share no file, so each behaviour belongs
to one of them (`which`), and what the others do cannot matter to it.

## 3. Runs

| Run | Instance | Checks |
|---|---|---|
| `list` | 3 replicas, budgets of up to 4 insertions, 1 removal, 2 undos | `TraversalOrder`, `LocalInsertIsAdjacent`, `Convergence`, `CoverageIsHonest`, `IdentityFollowsCausality` |
| `reclaim` | 2 replicas, 2 insertions, 1 removal, 1 undo, depth 2, queue of 1, certified frontiers | `RestoresOwnCheckpoint`, `ListSpec` |
| `delivery` | 2 replicas, 3 insertions, queue of 2, everything redelivered, fair | `NothingReadyIsWaiting`, `EventuallyIntegrated`, `ListSpec` |
| `history` | 1 replica, 2 insertions, 1 removal, 3 undos, depth 1 or 3, budgets of 2 and 3 | `HistoryMatchesUndoMap`, `HistoryIsResolvable` |
| `text` | 2 replicas on a seed of 2 items, up to 3 edits, markers, two ranges; or 1 edit each with undo, redo and one collection, restore or gap; or up to 2 edits and 3 toggles with a gap declared by mistake; queue and quarantine of 2 | `DirectPathsAgree`, `TextFollowsVersion`, `EditsSinceTransform`, `NothingReadyIsWaiting`, `RestoresOwnCheckpoint` |
| `structures` | branching 2, trees of 0 to 11 items, 2 operations on 2 versions; maps of 6 keys | `VersionsHoldTheirItems`, `CursorsAgree`, `RanksAreTrue`, `LookupsAgree` |
| `publication` | 1 device, 3 identities, 2 failed writes, depth 2, a peer | `SucceededIsDurable`, `OneTokenPerOperation`, `IdentityAboveSeen`, `ReopenableUnlessOverwritten`, `HistoryAccountsForLog` |
| `segments` | 3 records, segments of 2, 3 failures, kills, power losses or reads | `IsRecordLog`, `ReaderNeverSkips` |
| `inbound` | 2 peers with 2 deliveries that depend on each other, one malformed, 1 own delivery, 2 checkpoints, 2 events, fair | `CoverageIsRestorable`, `ReadyHasAllCommitted`, `WaitsOnce`, `OpensWithWholeLog`, `EventuallyCommitted` |
| `stores` | 3 devices, 2 to 3 epochs, 2 or 3 faults, 2 processes and streams, counters up to 3 | `LeaseKeepsEpoch`, `JournalLeadsToConfirmed`, `ReclaimedIsHeldByAll`, `NoUndoOfReclaimed`, `AcknowledgedIsRecorded`, `RecoversStored`, `IdentityIssuedOnce` |
| `lostpush` | 2 records, 1 event | `ConfirmedIsRecoverable` is violated, section 6 |
| `reusedtoken` | 2 identities, 1 intent that is not confirmed | `OneTokenPerOperation` is violated, section 6 |

What each passing run shows is said in `PROJECT.json`; every property has a mutant
there, a plausible bug in the code that the run detects.

Bounds count operations over the whole behaviour, so each run explores every way to
create and deliver that many; kills and power losses are unbounded in `publication`.
Four insertions at three replicas are the smallest instance with two concurrent
siblings whose right origins are themselves concurrent and with a sibling inserted
between two others; three insertions form a chain of two dependencies, which fills
queues of one and two and needs a second retry pass; one removal and one undo suffice
for an entry to be deleted, restored, deleted again by redo, and collected.  Depths
and budgets are below the number of operations so that every limit is hit.  In
`publication` three identities give an edit, its undo and its redo, or three edits
that overflow the depth; two failed writes give a failure and a second one while
recovering from it.  In `segments` three records over segments of two give a rotation
and a record after it, and three events a failure during the recovery of a failure.
In `inbound` a1 < b1 < a2 makes a delivery wait for another log.  In `structures` 11
items under branching 2 make three levels, so that nodes split, merge and borrow
below the root.  In `stores` a third epoch is the first in which a device can be
absent from two, and counters up to 3 reach exhaustion.  The budgets of `list`,
`text` and Reclamation (`MCBudgets`) list combinations instead of one sum, because
the full product is out of reach; each names the interaction it is for.

Deadlock is not checked: a behaviour ends when the bounded operations are used up and
delivered, or when a store has refused everything.

What the runs leave out on purpose, with where it is shown instead:

* `segments` has `UseAfterFailedSeal = FALSE`: a writer whose seal failed is not used
  again; `lostpush` shows what happens otherwise.  It stops at three events: with four
  there is one chain, described in section 6, in which a power loss takes a confirmed
  record.
* `publication` has no intent that is stored without confirmation
  (`IntentIsCertain`); `reusedtoken` shows why.
* `ReopenableUnlessOverwritten` and `HistoryAccountsForLog` speak of devices on which
  no session that was not ready has changed the stored history (`overwritten`,
  section 6).
* `RecoversStored` speaks of stores in which, since the last publication, one of the
  two manifests had its artifacts and was sure of them (`exposed`, section 6).
* `reclaim` redelivers nothing, since a repeated operation makes a checkpoint
  unrestorable (section 6); `delivery` has the redeliveries.
* `AcknowledgedIsRecorded` speaks of journals without a broken line.  A short write is
  among the `RetentionFaults` of `stores`, and so is every retry after it; what the code
  then writes behind the broken line is lost (section 6), and no property can say
  otherwise.
* `RestoresOwnCheckpoint` of TextBuffer speaks of the checkpoint without its diagnostic
  copies when one of them has outlived its refusal (`Outlived`), since the code refuses
  the checkpoint with them (section 6).

## 4. Fairness

`EventuallyIntegrated` (FairSpec of IdList) assumes weak fairness of the retry loop
(`apply_ops` runs to its end once called) and, for each replica, strong fairness of
receiving an applicable operation.  The second is what a transport that keeps
unacknowledged records provides: FileOpStream offers the first unaccepted record of
every producer at every poll, so an operation whose prerequisites are present is
offered again whatever happened to later ones.  Nothing is assumed about operations
that cannot be applied yet.  `Integrates` states that step by its effect on
`applied`, which is much cheaper to evaluate than `DeliverApplied` and, among the
steps of the model, the same.

`EventuallyCommitted` (FairSpec of Inbound) assumes that a session is open again and
again (`[]<>(s.open)`: the user comes back), that an open session polls (weak
fairness of some `Deliver`: the host's timer) and that the folder keeps
synchronising (weak fairness of some `Arrive`).  Nothing is assumed about a single
producer: FileOpStream's own order among producers has to serve them all.

## 5. Proofs

Every theorem is about all constants its module's assumptions allow, all numbers of
steps, and all combinations of the failures modelled.

| Module | Theorem | States | Invariant |
|---|---|---|---|
| ListReplicaProofs | `ListTypeCorrectness`, `CoverageHonesty`, `CausalIdentities` | `ListTypeOK`, `CoverageIsHonest`, `IdentityFollowsCausality` | `ListInv` (`ListInvariance`) |
| IdListProofs | `Refinement` | `ListSpec`: the list of the code implements ListReplica | `IdInv` (`IdListInvariance`) |
| IdListProofs | `NothingReady`, `HistoryAgrees`, `HistoryResolvable` | `NothingReadyIsWaiting`, `HistoryMatchesUndoMap`, `HistoryIsResolvable` | `IdInv` |
| TextBufferProofs | `NothingReadyInText` | `NothingReadyIsWaiting` | `TextInv` (`TextInvariance`) |
| TextBufferProofs | `QueueIsRestorable` | the conjuncts of `RestoresOwnCheckpoint` about clocks, gaps and queue | `TextInv` |
| DirectoryProofs | `IssuesOnce` | `IdentityIssuedOnce` | `ReplicaInv` (`ReplicaInvariance`) |
| DirectoryProofs | `StoredIsRecovered` | `RecoversStored` | `StoreInv` (`StoreInvariance`) |
| ReclamationProofs | `LeasesHold`, `JournalIsOneChain` | `LeaseKeepsEpoch`, `JournalLeadsToConfirmed` | the gate's own; `JournalInv` (`JournalInvariance`) |
| ReclamationProofs | `ReclaimsOnlyWhatAllHold` | `ReclaimedIsHeldByAll` | `ReclamationInv` (`ReclamationInvariance`) |
| ReclamationProofs | `NoUndoBelowCutoff` | `NoUndoOfReclaimed` | `UndoInv` (`UndoInvariance`) |
| ReclamationProofs | `AcknowledgedStaysRecorded` | `AcknowledgedIsRecorded` | `UndoInv` and `RecordInv` |
| SessionProofs | `SucceededStays`, `PublishedAboveSeen` | `SucceededIsDurable`, `IdentityAboveSeen` | `ShapeInv` (`SessionShape`) |
| SessionProofs | `TokensAreUsedOnce` | `OneTokenPerOperation` | `ShapeInv` and `TokenInv` |
| InboundProofs | `CoverageRestores`, `ReadyHasReceipted`, `DeliveriesWaitOnce`, `OpeningIsWhole` | `CoverageIsRestorable`, `ReadyHasAllCommitted`, `WaitsOnce`, `OpensWithWholeLog` | `InboundInv` (`IntakeInvariance`) |

None of these properties is inductive alone.

* **List.**  Honest coverage needs that a version vector never reaches past issued
  counters (`CountersAreIssued`), that each author's operations carry its earlier ones
  in their version (`AuthorOrder`; otherwise observing counter n would cover an unseen
  n - 1), that identities are unique, and that an author integrates its own operations
  at once (`AppliedIsSent`).  Causal identities need `AllocatorIsAhead`, which is what
  `observe_remote` maintains.  Types need that undo counts are bounded
  (`UndoCountsAreBounded`), so that the largest count exists.  The placement operators
  are covered by lemmas: each answers a position of the list, its end, or 0
  (`FindType`, `RightSlotType`, `LeftSlotType`, `SlotType`), and `Integrate`, `Deleted`
  and `Kept` yield lists of entries.
* **The list of the code.**  `IdInv` adds to `ListInv` what the code's own structures
  owe the abstract list.  A certified frontier is below every replica's version
  (`FrontierIsCommon`), so whatever collection or the adoption of a checkpoint forgets
  has been integrated by all: that is the condition under which ListReplica lets an
  entry go.  What an operation refers to was sent before it and is in its version
  (`TargetsAreSeen`), and what a replica has integrated is in its list or below its
  frontier (`HeldOrCovered`): so an operation that is ready finds its anchors, and an
  entry that is missing is not one it needs.  Every identity in a document was
  integrated (`NamesAreIntegrated`).  What waits outside a call, and at the end of a
  retry pass that changed nothing, misses a dependency (`QueueWaits`); the pass that
  changed something runs again.  Every group of the history names items and deletions
  the list holds, none twice, and the cursor separates what is undone from what is not
  (`HistoryInv`): groups are kept apart by `Places`, the positions of stack and retired
  list taken together, which every history operation permutes or drops.  The step from
  IdList to ListReplica is then the identity on the shared variables: a delivery is
  `Receive`, a collection or an adoption is `Forget`, a local edit is itself, everything
  else stutters.
* **Text engine.**  `TextInv` relates every buffer to everything published.  Operations
  and gaps of one actor form a chain, each made after the ones before it and observing
  them (`Orderly`); nothing names a counter its replica has not come to (`World`); a
  version that observes an operation covers what the operation was made from, and the
  reclamation cutoff (`Clocks`); the queue is strictly ordered by counter then actor,
  within its budget, and holds nothing that is observed or in an accepted gap (`Waits`).
  From that, a retry pass over a queue with a ready operation takes something out: the
  first ready one of the queue is blocked only by an earlier one of its actor, which it
  covers, and which would have to be ready too.  A pass never adds to the queue, so as
  many passes as it is long leave nothing ready (`RetrySettles`), after a batch as
  after a gap.  An operation enqueued by a refused `apply_one` goes to the place its
  identity has in the order (`EnqueueKeeps`), and a local edit observes only its own
  counter, which nothing in another replica's queue or its own can be waiting for
  (`OwnKeeps`, `OthersKeep`).  That an edit, whichever of the direct paths or the
  general one it takes, touches no clock, gap or queue is a lemma for each path
  (`DirectEditAnswers`, `GeneralAlike`), and that `try_apply` says "not ready" exactly
  when a dependency is missing is `Tries`.
* **Identities.**  One process owns the state; its counters, and those of every image
  of the file a later owner could read, are above every identity handed out under
  their actor; an actor that is new has issued nothing.  The first part of
  DirectoryProofs has what `replace_atomically` and a power failure do to the images,
  for both users of it.
* **Checkpoint store.**  `StoreInv` speaks of every image a power failure can leave:
  each slot holds a well-formed manifest of its parity or nothing, one manifest of the
  last reported generation or a newer one has all it names, and all manifests that new
  are of the current epoch.  A publication overwrites the older slot only, and is
  reported after the directory is confirmed.  The first attempt at this proof failed,
  and TLC found why: after a power failure that took an artifact of the newest manifest
  the next publication overwrites the other slot, which holds the only complete one.
  The condition `SafeManifest` of the property's exception (`exposed`, section 6) had
  asked that a manifest's artifacts be confirmed, not that they be there; it now asks
  for both.
* **Membership.**  A lease keeps its epoch because a transition takes the gate only
  when it is empty.  The journal holds whole records, each linked to the one before; an
  open host's descriptor is the journal's, or the one before it after an attempt that
  reached the file and failed; success is reported only when all lines are durable.
  Reading the journal back is a fold: `FoldTheorems` proves what a fold over an
  appended sequence is and that a predicate the step keeps holds at its end, by taking
  a least counterexample (a natural number, or a finite set of minimal size) instead of
  an induction scheme; the module takes the step as a constant and is instantiated.
* **Reclamation.**  What a device that was ever a producer holds only grows, so an
  evidence record stays below what its member holds; the common frontier is below every
  record; a certificate is used only under the descriptor it names, and the epoch of a
  descriptor never returns; a device that joins starts from a member's frontier.
  For undo, `UndoInv` says that a group is on the undo stacks (in memory or saved) or
  named by the journal, never both: `publish_after_durable_trim` saves the trimmed
  history before the journal names a group, and a restart takes up the saved one.  An
  eligible frontier covers journaled groups only, so none that can be undone; a later
  edit has a counter above what its author holds, and every cutoff is below that.
  For the journal, `RecordInv` says that its lines are good up to the first broken one,
  and that what was published or acknowledged is on lines no power failure can take,
  unless a broken line is among those (`Lost`).  As long as there is none, the state in
  memory knows no group the lines do not name.  A batch is two nested folds,
  over the streams and over the groups of each; within a stream the barrier keeps the
  groups a failed attempt had written before, each append keeps its own, and the order
  of the groups gets all of them retired.  A success after a short
  write has synchronised the line it broke, so the journal is lost from then on and the
  property's exception applies: the theorem needs no hypothesis about the faults.
* **Session.**  `ShapeInv` says what the durable writes of a call have achieved between
  two of them: which intent the directory shows, that a writer queues only the record of
  that intent, that from "store_snapshot" on the record is confirmed, that a session
  which may be used owes nothing.  `TokenInv` adds the numbering: the records of the log
  are numbered from 1 and only copies repeat a number; what others may have read is
  confirmed or is the record of the shown intent (`ShownIsKept`); a shown intent is in
  every image a power loss may leave (`IntentIsShared`), and every image's intent fits
  behind every prefix of the log it may be left with (`IntentsFollow`); used counters
  are below every image's and the allocator's; the next envelope is the one behind the
  log whenever the session may be used.  `TokensAreUsedOnce` has the hypothesis
  `IntentsAreCertain` (no store of the intent that reports an error leaves it visible),
  and `reusedtoken` shows that the statement is false without it.  All other failures,
  including of the other files, are allowed.
* **Inbound.**  Every session a handler passes on is `Steady`: what waits in the engine
  is known and has a remembered token, so it is not offered to the engine again and
  waits once; what is known is applied or waits; what the session's coverage reaches,
  and a checkpoint takes over, is applied.  A replay leaves every delivery its starting
  point did not cover accounted for: applied, waiting, or the session is marked as
  having refused something (`ReplayKeeps`).  So every receipted delivery is accounted
  for, and a session that is complete has nothing waiting or refused.  The retry passes
  and the replays are folds: `FoldFollows` carries a family of predicates along the
  prefix that has been visited, and the orders in which a pass visits a set are shown
  to visit all of it.

The assumptions are those the modules state about their constants (`ActorAssumption`,
`MaxOpsAssumption`, `HistoryLimitsAssumption`, `IdListAssumption`, `TextAssumption`,
`ReplicaStateAssumption`, `CheckpointStoreAssumption`, `MembershipAssumption`,
`ReclamationAssumption`, `SessionAssumption`, `InboundConstants`); TLC evaluates each of them in a run.
The bounds of the models are natural numbers in them, so the theorems hold for every
bound.

Checked by TLC only:

* liveness and everything with fairness, which is outside the prover's reach;
* `Convergence`, `TraversalOrder` and `LocalInsertIsAdjacent` of the list, and
  `DirectPathsAgree`, `TextFollowsVersion` and `EditsSinceTransform` of the text engine:
  each is an induction over the shape of a tree or over the fragments of a document;
* `RestoresOwnCheckpoint` of IdList and TextBuffer, since the restore checks the order
  of the items (`Consistent`), which is as hard as `Convergence`; for the text engine
  the checks of clocks and queue are proved (`QueueIsRestorable`), those of fragments,
  undo counts and history are not;
* that SegmentLog implements RecordLog, and `ReaderNeverSkips`; Session's
  `ReopenableUnlessOverwritten` and `HistoryAccountsForLog`;
* SumTree and AvlMap, which are written with RECURSIVE operators, where the prover has
  no SMT backend.

## 6. Findings

* `lostpush` (`crdt/SegmentWriter.cpp:394`): after a seal whose directory could not be
  synchronised the writer may still be used; a push into the old open segment reports
  durable success, and the next start removes that segment as covered by the sealed
  one.
* `reusedtoken` (`DocumentSession.cpp:603`): recovery publishes an intent that it can
  read but that was never confirmed to be durable.  A power loss may take both the
  intent and the appended record after another device has read the record, and the
  next edit is published under the same envelope number.

The quotations are in `PROJECT.json`.  Further observations, met while modelling and
not kept as runs:

* Diagnostic copies of refused operations stay in `m_quarantined` after the operation
  was accepted later, and an operation delivered twice while it waits is queued
  twice; either way `restore_checkpoint_state` refuses the replica's own checkpoint
  (`crdt/IdList.cpp:1014-1019`, `1106`, `1115`).  In the text engine a copy is made at
  `crdt/Buffer.cpp:3395` and refused at `1761-1766` once its operation is applied or
  waits, or when the operation was refused twice.  DocumentSession does not offer a
  deferred delivery again, but it does offer a refused one, at every poll
  (`DocumentSession.cpp:849-886`, `crdt/StreamSync.cpp:524`): a queue that was full
  once is enough.  A later session falls back to a full replay; the rollback of a
  collection whose checkpoint could not be published fails and poisons the session
  (`DocumentSession.cpp:1407-1420`, against
  `docs/roadmap/2026-10-reliability/05-reclamation.md:209`).  `take_quarantined` helps,
  as `RestoresOwnCheckpoint` shows.  For the same reason a copy makes
  `apply_counter_gap` refuse a gap (`crdt/Buffer.cpp:3419`).
* A member that has applied a certified frontier and not collected can still link a new
  insertion to a tombstone that another member has collected; that member refuses it
  for good (`crdt/IdList.cpp:1228`).  Refusing is the documented way to fail closed.
* `save`, `close` and the destructor store the history in memory although the session
  is poisoned or blocked (`DocumentSession.cpp:1452`); a history that names a lost edit
  is refused at every later opening, and an older one can replace the history of an edit
  that was published.
* A deferral remembered by token during replay is erased only when the same delivery is
  offered again (`DocumentSession.cpp:684`, `1609-1614`, against
  `include/collabtext/DocumentSession.h:283-284`).
* After an ambiguous commit the coordinator keeps the gate of the old epoch
  (`MembershipCoordinator.cpp:219-222`); `tests/tst_session_recovery.cpp` closes the
  session then, as the header asks.
* `RetentionState` after a short write: `recover` fails and leaves `m_sequence` at 0
  (`storage/RetentionState.cpp:52-53`, `67`, `161`), the retry appends behind the torn
  bytes, is synchronised and reports success, and the next start refuses the journal at
  that line.  The session may have dropped the group by then, against the idempotent
  retry of `RetentionState.h:36-46`.  A torn or power-lost line also makes the
  membership journal unreadable for good; there the failure is closed.
* `CheckpointStore::store_immutable` returns early when the artifact is there, without
  synchronising it again after `commit_uncertain`; until a later publication the
  manifest may outlive its artifact.
* `MembershipStore::open` does not synchronise an event it recovers; a preview made
  before an ambiguous failure can be stale when it is committed after a later write.
* A start that finds nothing to recover does not synchronise the directory
  (`crdt/SegmentWriter.cpp:193-196`), and `flush` without an open file reports success
  (`:350`).  With `MaxEvents = 4` and a single record TLC finds `IsRecordLog` violated:
  a record is written and not synchronised, the process is killed; its successor seals
  the segment and is killed between the rename and the directory barrier; recovery
  removes the covered open file and is stopped before its directory barrier; the next
  start finds the directory clean and `flush`, or a retry of the token, confirms the
  record; a power loss undoes the rename and brings the open file back without the
  record.  A file system that keeps the name of a synchronised temporary still has the
  record there, and `DurableFile.h:34-36` leaves power loss to the platform.  With a
  directory barrier at the end of every successful recovery TLC finds no violation
  with four events (two records) or six (one).
* FileOpStream never calls `tick`, which `SegmentReader.h:47-48` relies on; a failed
  `open_new_segment_` leaves `m_open_id` set.
* `Buffer::collect_garbage` leaves index rows of removed runs; `apply_deletion_runs`
  stops at the first missing identity.
* The poll budget can starve later producers in directory order; quarantined entries are
  never removed; identities of two copies of one allocator file collide; `m_peek` of
  ReplicaAllocator starts at 0 and `check_claim` counts observed counters as issued.

## 7. Plan

1. `IsRecordLog` and `ReaderNeverSkips` for SegmentLog.
2. Session's `ReopenableUnlessOverwritten`: TokenInv has most of what it needs of the
   log; the history has to be related to the records.
3. `RestoresOwnCheckpoint` for IdList, on top of `IdInv`.

## 8. Not modelled

Malformed or hostile input (the validators' rejections), because the replicas of
the models never produce it; only a delivery that does not decode is in Inbound.
Codecs, compression, hashing, JSON and UTF-8: they are sequential functions of bytes.
`discard_local_view`, anchors beyond "a pinned identity is kept", export and rejoining
with an exported branch, signatures.  Edits of more than two ranges.  Traversal helpers
of the tree.  Chat, comments, presence, identity profiles, the facades, the widgets and
the editor: consumers of the library without a protocol of their own.
