----------------------------- MODULE Membership -----------------------------
(***************************************************************************)
(* Membership epochs on one device: the MembershipCoordinator that gates   *)
(* every local and inbound write, the MembershipStore journal a transition *)
(* is committed to, and a host that previews, collects acknowledgements    *)
(* and commits the way the repository's session tests compose the two.     *)
(* The hash of a descriptor is the path of transitions that leads to it.   *)
(***************************************************************************)
EXTENDS DurableJournal, FiniteSets, SequencesExt

CONSTANTS
    Actor,        \* devices
    Genesis,      \* the members of the first descriptor
    Scope,        \* the document streams one membership covers
    MaxEpoch,     \* bound: no transition out of this epoch
    MaxWrites,    \* bound: writes made through the gate
    MaxProposals, \* bound: transitions proposed
    MaxFaults,    \* bound: I/O faults and stops
    CommitFaults  \* the faults a commit may meet

ASSUME MembershipAssumption ==
    /\ Genesis \subseteq Actor /\ Genesis # {}
    /\ Scope # {}
    /\ {MaxEpoch, MaxWrites, MaxProposals, MaxFaults} \subseteq Nat
    /\ CommitFaults \subseteq AppendFaults \cup {"throw"}

VARIABLES
    journal,    \* the membership journal on disk
    store,      \* MembershipStore: m_last_sequence and m_last_epoch
    gate,       \* MembershipCoordinator::Impl::scopes
    pending,    \* MembershipCoordinator::Impl::pending
    current,    \* the descriptor the host holds current
    proposal,   \* the preview the host put to the members
    acks,       \* members whose acknowledgement of it is durable
    permits,    \* leases the sessions hold
    written,    \* deliveries written under a lease
    confirmed,  \* the last epoch a commit_transitions call reported success for
    open,       \* the process runs and its stores are open
    budget      \* proposals and faults left

membershipVars == <<journal, store, gate, pending, current, proposal, acks,
                    permits, written, confirmed, open, budget>>

None == [kind |-> "none"]

-----------------------------------------------------------------------------
(* Descriptors, previews and events *)

\* seal_membership_descriptor; the base checkpoint, frontiers and token
\* versions are the host's and stay out.
GenesisDescriptor == [epoch |-> 1, members |-> Genesis, hash |-> <<>>]

\* preview_retirement and preview_enrollment: what they refuse, who must
\* acknowledge, and for a retirement the consequences the user is shown.
CanPreview(kind, d, device) ==
    IF kind = "retired" THEN device \in d.members /\ Cardinality(d.members) >= 2
                        ELSE device \notin d.members

Preview(kind, d, device, impacts) ==
    [kind |-> kind, device |-> device, parent_epoch |-> d.epoch, parent |-> d.hash,
     members |-> d.members,
     required |-> IF kind = "retired" THEN d.members \ {device}
                                      ELSE d.members \cup {device},
     impacts |-> IF kind = "retired" THEN impacts ELSE {}]

\* The record a commit appends: its evidence holds the preview material and
\* the acknowledgements collected for it.
Event(p, acknowledged, seq) ==
    [seq |-> seq, epoch |-> p.parent_epoch + 1, subject |-> p.device, kind |-> p.kind,
     parent |-> p.parent, evidence |-> [preview |-> p, acknowledged |-> acknowledged]]

NextMembers(members, kind, device) ==
    IF kind = "retired" THEN members \ {device} ELSE members \cup {device}

Child(d, event) ==
    [epoch |-> event.epoch, members |-> NextMembers(d.members, event.kind, event.subject),
     hash |-> Append(event.parent, <<event.kind, event.subject, event.evidence.preview.impacts>>)]

\* The descriptor a journal leads to, as the host rebuilds it on open.
Descriptor(events) == FoldLeft(Child, GenesisDescriptor, events)

\* validate_membership_transition_link and validate_membership_evidence: the
\* event extends this very descriptor, names a subject that can make the
\* transition, and carries the acknowledgements its preview requires.
Links(d, event) ==
    LET p == event.evidence.preview
    IN /\ event.parent = d.hash /\ event.epoch = d.epoch + 1
       /\ CanPreview(event.kind, d, event.subject)
       /\ p = Preview(event.kind, d, event.subject, p.impacts)
       /\ event.evidence.acknowledged = p.required

-----------------------------------------------------------------------------
(* MembershipStore *)

\* The position open() and a failed append() read back from the journal.
Position(events) ==
    IF events = <<>> THEN [seq |-> 0, epoch |-> 0]
                     ELSE [seq |-> Last(events).seq, epoch |-> Last(events).epoch]

Outcome(code, file, position) == [code |-> code, journal |-> file, store |-> position]

Refusal(code) == Outcome(code, journal, store)

\* append(): refuses a record out of sequence; after a failure it reads the
\* journal again, for the line may have reached the file.
AppendEvent(event, fault) ==
    LET file == AppendedJournal(journal, event, fault)
    IN IF \/ event.seq # store.seq + 1
          \/ (store.epoch # 0 /\ event.epoch # store.epoch + 1)
       THEN Refusal("malformed")
       ELSE IF Readable(file)
       THEN Outcome(JournalError(fault), file, Position(file.lines))
       ELSE Outcome("corrupt_record", file, store)

\* The last record is this very transition: an earlier attempt reached the
\* file and then failed.
SameTransition(event) ==
    [Last(journal.lines) EXCEPT !.seq = 0] = [event EXCEPT !.seq = 0]

\* resync_journal: an exact retry makes the record durable before it reports
\* success; it writes nothing, so only a sync can fail.
ResyncMutant(fault) == Outcome("ok", journal, store)
Resync(fault) ==
    LET met == IF fault \in SyncFaults THEN fault ELSE "none"
    IN Outcome(JournalError(met), SyncedJournal(journal, met), store)

\* A commit whose parent epoch is not the journal's latest is a retry or is
\* refused.
BehindJournal(d) == journal.lines # <<>> /\ Last(journal.lines).epoch # d.epoch

\* Every required acknowledger has signed the digest: the remaining members
\* of a retirement, all members and the joining device of an enrollment.
AllAcknowledged(p, acknowledged) == acknowledged = p.required

\* commit_retirement and commit_enrollment: the preview must still describe
\* the descriptor and the consequences of now, and every required member
\* must have acknowledged it.
Commit(p, d, impacts, acknowledged, fault) ==
    LET event == Event(p, acknowledged, store.seq + 1)
    IN CASE \/ p.parent # d.hash
            \/ ~CanPreview(p.kind, d, p.device)
            \/ p # Preview(p.kind, d, p.device, impacts) -> Refusal("wrong_epoch")
         [] ~Readable(journal) -> Refusal("corrupt_record")
         [] ~AllAcknowledged(p, acknowledged) -> Refusal("awaiting_state")
         [] BehindJournal(d) ->
                IF SameTransition(event) THEN Resync(fault) ELSE Refusal("wrong_epoch")
         [] OTHER -> AppendEvent(event, fault)

-----------------------------------------------------------------------------
(* MembershipCoordinator *)

Scoped(d) == [s \in Scope |-> [epoch |-> d.epoch, members |-> d.members, uncertain |-> FALSE]]

\* authorize_local_mutation and authorize_inbound_delivery, under the shared
\* lock the lease keeps.
Authorized(s, epoch, a) ==
    ~gate[s].uncertain /\ gate[s].epoch = epoch /\ a \in gate[s].members

\* commit_transitions waits for the exclusive lock: no lease is held.
GateIsFreeMutant == TRUE
GateIsFree == permits = {}

\* While a batch is uncertain only that batch, whole, may be tried again.
BatchAccepted(batch) ==
    /\ pending \in {None, batch}
    /\ \A s \in batch.scopes :
          gate[s].epoch = batch.expected_epoch /\ (gate[s].uncertain => pending # None)

\* What the durable callback's result does to the scopes of the batch.
Advance(batch) ==
    [s \in Scope |-> IF s \in batch.scopes
        THEN [epoch |-> batch.expected_epoch + 1, members |-> batch.members, uncertain |-> FALSE]
        ELSE gate[s]]
MarkUncertain(batch) ==
    [s \in Scope |-> IF s \in batch.scopes THEN [gate[s] EXCEPT !.uncertain = TRUE] ELSE gate[s]]

-----------------------------------------------------------------------------
(* Behaviour *)

\* What retiring a device would leave behind: its writes of this epoch.
Impacts(device) == {w \in written : w.actor = device /\ w.epoch = current.epoch}

MembershipInit ==
    /\ journal = NewJournal
    /\ store = [seq |-> 0, epoch |-> 0]
    /\ current = GenesisDescriptor
    /\ gate = Scoped(GenesisDescriptor)
    /\ pending = None /\ proposal = None
    /\ acks = {} /\ permits = {} /\ written = {}
    /\ confirmed = 1 /\ open = TRUE
    /\ budget = [proposals |-> MaxProposals, faults |-> MaxFaults]

\* A session or an inbound delivery takes a lease, and ends it with or
\* without a durable write.
Authorize ==
    /\ open
    /\ Cardinality(written) + Cardinality(permits) < MaxWrites
    /\ \E s \in Scope, a \in Actor, e \in 1..MaxEpoch :
          /\ Authorized(s, e, a)
          /\ [scope |-> s, actor |-> a, epoch |-> e] \notin permits \cup written
          /\ permits' = permits \cup {[scope |-> s, actor |-> a, epoch |-> e]}
    /\ UNCHANGED <<journal, store, gate, pending, current, proposal, acks, written, confirmed, open, budget>>

Release ==
    /\ \E p \in permits, wrote \in BOOLEAN :
          /\ permits' = permits \ {p}
          /\ written' = IF wrote THEN written \cup {p} ELSE written
    /\ UNCHANGED <<journal, store, gate, pending, current, proposal, acks, confirmed, open, budget>>

\* The host previews a transition; an earlier proposal is set aside.
Propose ==
    /\ open /\ current.epoch < MaxEpoch /\ budget.proposals > 0
    /\ \E kind \in {"retired", "enrolled"}, device \in Actor :
          /\ CanPreview(kind, current, device)
          /\ proposal' = Preview(kind, current, device, Impacts(device))
    /\ acks' = {}
    /\ budget' = [budget EXCEPT !.proposals = @ - 1]
    /\ UNCHANGED <<journal, store, gate, pending, current, permits, written, confirmed, open>>

\* A member's acknowledgement of the proposal reaches the host's ledger.
Acknowledge ==
    /\ proposal # None
    /\ \E a \in proposal.required \ acks : acks' = acks \cup {a}
    /\ UNCHANGED <<journal, store, gate, pending, current, proposal, permits, written, confirmed, open, budget>>

\* commit_transitions with the store's commit as its durable callback, which
\* passes the store's error on.
Transition ==
    /\ open /\ proposal # None /\ GateIsFree
    /\ \E scopes \in SUBSET Scope, fault \in CommitFaults \cup {"none"} :
          LET batch == [identity |-> proposal, scopes |-> scopes,
                        expected_epoch |-> proposal.parent_epoch,
                        members |-> NextMembers(proposal.members, proposal.kind, proposal.device)]
              ran == Commit(proposal, current, Impacts(proposal.device), acks,
                            IF fault = "throw" THEN "none" ELSE fault)
              result == IF fault = "throw" THEN "throw" ELSE ran.code
          IN /\ scopes = Scope \/ (pending # None /\ scopes # {})
             /\ fault # "none" => budget.faults > 0
             /\ BatchAccepted(batch)
             /\ journal' = ran.journal /\ store' = ran.store
             /\ gate' = CASE result = "ok" -> Advance(batch)
                          [] result \in {"commit_uncertain", "throw"} -> MarkUncertain(batch)
                          [] OTHER -> gate
             /\ pending' = CASE result = "ok" -> None
                             [] result \in {"commit_uncertain", "throw"} -> batch
                             [] OTHER -> pending
             /\ current' = IF result = "ok" THEN Child(current, Last(ran.journal.lines)) ELSE current
             /\ confirmed' = IF result = "ok" THEN current'.epoch ELSE confirmed
             /\ budget' = IF fault = "none" THEN budget ELSE [budget EXCEPT !.faults = @ - 1]
    /\ UNCHANGED <<proposal, acks, permits, written, open>>

\* The process or the machine stops; leases and the gate go with it.
Stop ==
    /\ open /\ budget.faults > 0
    /\ open' = FALSE
    /\ permits' = {}
    /\ journal' \in {journal} \cup AfterPowerLoss(journal)
    /\ budget' = [budget EXCEPT !.faults = @ - 1]
    /\ UNCHANGED <<store, gate, pending, current, proposal, acks, written, confirmed>>

\* open(): the journal is read whole or the store stays closed; the host
\* validates every link and creates the coordinator from the last descriptor.
Open ==
    /\ ~open /\ Readable(journal)
    /\ \A i \in 1..Len(journal.lines) :
          Links(Descriptor(SubSeq(journal.lines, 1, i - 1)), journal.lines[i])
    /\ open' = TRUE
    /\ store' = Position(journal.lines)
    /\ current' = Descriptor(journal.lines)
    /\ gate' = Scoped(current')
    /\ pending' = None
    /\ UNCHANGED <<journal, proposal, acks, permits, written, confirmed, budget>>

MembershipNext ==
    Authorize \/ Release \/ Propose \/ Acknowledge \/ Transition \/ Stop \/ Open

MembershipSpec == MembershipInit /\ [][MembershipNext]_membershipVars

-----------------------------------------------------------------------------
(* Properties *)

\* A lease is never outlived by its epoch: as long as a session holds one,
\* its scope stays in that epoch, keeps its member and is not in doubt
\* (commit_transitions waits for every lease).
LeaseKeepsEpoch ==
    \A p \in permits : Authorized(p.scope, p.epoch, p.actor)

\* One successor per descriptor, and never a step back: each journal record
\* extends the descriptor its predecessors lead to, with the acknowledgement
\* of every member that had to give one; and whatever a power failure leaves
\* leads at least to the epoch last reported as committed, also when an
\* earlier attempt had reached the file and its sync had failed.
JournalLeadsToConfirmed ==
    /\ Readable(journal) =>
          \A i \in 1..Len(journal.lines) :
              Links(Descriptor(SubSeq(journal.lines, 1, i - 1)), journal.lines[i])
    /\ \A f \in AfterPowerLoss(journal) : Len(f.lines) + 1 >= confirmed
=============================================================================
