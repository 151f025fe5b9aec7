-------------------------- MODULE ReclamationProofs --------------------------
(***************************************************************************)
(* Membership and physical reclamation, for any actors, devices, streams   *)
(* and sequence of epochs and faults.                                      *)
(*                                                                         *)
(* Membership: a lease keeps its epoch, and the membership journal has one *)
(* successor per descriptor and never steps back behind what was reported  *)
(* as committed.  The journal only ever holds whole records, each linked   *)
(* to the descriptor before it, since a commit appends only to a journal   *)
(* it can read; while the host is open its descriptor is the journal's, or *)
(* the one before it when an attempt reached the file and then failed; and *)
(* success is reported only once all lines are durable.                    *)
(*                                                                         *)
(* Reclamation: nothing a member has reclaimed is missing at another, no   *)
(* member can undo what another has reclaimed, and what a session dropped  *)
(* after a successful publication is in the journal it would reopen with.  *)
(*                                                                         *)
(* First: what a device that was ever a producer holds only grows, so an   *)
(* evidence record stays below what its member holds; the common frontier  *)
(* is below every record; a certificate is used only under the descriptor  *)
(* it names, and a descriptor's epoch never returns; and a device that     *)
(* joins starts from a member's frontier.                                  *)
(*                                                                         *)
(* Second: a group is on the undo stacks or in the journal, never both,    *)
(* since the trimmed history is durable before the journal names a group.  *)
(* An eligible frontier covers journaled groups only, and an edit made     *)
(* later has a counter above what its author holds, so above every cutoff. *)
(*                                                                         *)
(* Third: a publication that reports success has synced every line of its  *)
(* batch, the old ones by the barrier before each stream; a failed one     *)
(* reads its journal again; and a power failure takes unsynced lines only. *)
(* A record written behind a line that a short write broke makes a broken  *)
(* line that no restart reads past; until there is one, what is reported   *)
(* as published is among the lines read.                                   *)
(* What one append, sync or power failure keeps of a journal's lines is    *)
(* said once, of DurableJournal, which both journals are.                  *)
(***************************************************************************)
EXTENDS Membership, Reclamation, TLAPS, WellFoundedInduction

Replay == INSTANCE FoldTheorems WITH Op <- Child

Kind == {"retired", "enrolled"}
Permit == [scope : Scope, actor : Actor, epoch : Nat]
Hash == Seq(Kind \X Actor \X SUBSET Permit)
DescriptorRecord == [epoch : Nat, members : SUBSET Actor, hash : Hash]
PreviewRecord == [kind : Kind, device : Actor, parent_epoch : Nat, parent : Hash,
                  members : SUBSET Actor, required : SUBSET Actor, impacts : SUBSET Permit]
EventRecord == [seq : Nat, epoch : Nat, subject : Actor, kind : Kind, parent : Hash,
                evidence : [preview : PreviewRecord, acknowledged : SUBSET Actor]]
JournalOf(E) == [lines : Seq(E), torn : BOOLEAN, durable : Nat, named : BOOLEAN]

MembershipTypeOK ==
    /\ journal \in JournalOf(EventRecord)
    /\ store \in [seq : Nat, epoch : Nat]
    /\ current \in DescriptorRecord
    /\ proposal # None => proposal \in PreviewRecord
    /\ acks \in SUBSET Actor
    /\ permits \in SUBSET Permit /\ written \in SUBSET Permit
    /\ confirmed \in Nat /\ open \in BOOLEAN

LeaseInv == LeaseKeepsEpoch /\ (~open => permits = {})

\* The lines a power failure cannot take.
Kept(f) == IF f.named THEN f.durable ELSE 0

\* The descriptor before line i.
Before(lines, i) == Descriptor(SubSeq(lines, 1, i - 1))

LinesAreLinked ==
    \A i \in 1..Len(journal.lines) :
        /\ journal.lines[i].seq = i /\ journal.lines[i].epoch = i + 1
        /\ Links(Before(journal.lines, i), journal.lines[i])

ConfirmedIsKept == journal.durable <= Len(journal.lines) /\ confirmed <= 1 + Kept(journal)

\* The host is where the journal is, or one transition behind it.
HostIsAtJournal ==
    open => /\ \/ current = Descriptor(journal.lines) /\ current.epoch = Len(journal.lines) + 1
               \/ /\ Len(journal.lines) > 0
                  /\ current = Before(journal.lines, Len(journal.lines))
                  /\ current.epoch = Len(journal.lines)
            /\ Readable(journal) => store.seq = Len(journal.lines)

JournalInv == MembershipTypeOK /\ LinesAreLinked /\ ConfirmedIsKept /\ HostIsAtJournal

-----------------------------------------------------------------------------
(* Leases *)

\* Every step keeps the leases in their epoch: a transition waits until there
\* are none, and a process that stops takes its leases with it.
LEMMA LeaseInvIsInductive ==
    ASSUME LeaseInv, [MembershipNext]_membershipVars
    PROVE  LeaseInv'
<1> USE DEF LeaseInv, LeaseKeepsEpoch, Authorized
<1>1. CASE Authorize
  BY <1>1 DEF Authorize
<1>2. CASE Release
  BY <1>2 DEF Release
<1>3. CASE Propose
  BY <1>3 DEF Propose
<1>4. CASE Acknowledge
  BY <1>4 DEF Acknowledge
<1>5. CASE Transition
  BY <1>5 DEF Transition, GateIsFree
<1>6. CASE Stop
  BY <1>6 DEF Stop
<1>7. CASE Open
  BY <1>7 DEF Open
<1>8. CASE UNCHANGED membershipVars
  BY <1>8 DEF membershipVars
<1> QED  BY <1>1, <1>2, <1>3, <1>4, <1>5, <1>6, <1>7, <1>8 DEF MembershipNext

\* As long as a session holds a lease, no transition changes its scope's epoch,
\* removes its actor or leaves its scope in doubt.
THEOREM LeasesHold == MembershipSpec => []LeaseKeepsEpoch
<1>1. MembershipInit => LeaseInv
  BY DEF MembershipInit, LeaseInv, LeaseKeepsEpoch
<1>2. LeaseInv => LeaseKeepsEpoch
  BY DEF LeaseInv
<1> QED  BY <1>1, <1>2, LeaseInvIsInductive, PTL DEF MembershipSpec

-----------------------------------------------------------------------------
(* The journal file *)

\* DurableAppendFile::sync moves no line; confirmed, it keeps them all.
LEMMA SyncKeepsLines ==
    ASSUME NEW E, NEW f \in JournalOf(E), f.durable <= Len(f.lines), NEW fault \in SyncFaults
    PROVE  LET g == SyncedJournal(f, fault)
           IN /\ g \in JournalOf(E) /\ g.lines = f.lines /\ g.torn = f.torn
              /\ g.durable <= Len(g.lines) /\ Kept(g) >= Kept(f)
              /\ fault = "none" => Kept(g) = Len(f.lines)
<1>1. Len(f.lines) \in Nat /\ f.durable \in Nat /\ f.lines \in Seq(E)
  BY DEF JournalOf
<1>2. CASE fault = "sync"
  <2>1. SyncedJournal(f, fault) = f
    BY <1>2 DEF SyncedJournal
  <2> QED  BY <1>1, <1>2, <2>1 DEF Kept
<1>3. CASE fault = "dirsync"
  <2>1. SyncedJournal(f, fault) = [f EXCEPT !.durable = Len(f.lines)]
    BY <1>3 DEF SyncedJournal
  <2> QED  BY <1>1, <1>3, <2>1 DEF Kept, JournalOf
<1>4. CASE fault = "none"
  <2> DEFINE g == [f EXCEPT !.durable = Len(f.lines), !.named = TRUE]
  <2>1. SyncedJournal(f, fault) = g
    BY <1>4 DEF SyncedJournal
  <2>2. g \in JournalOf(E) /\ g.lines = f.lines
    BY <1>1 DEF JournalOf
  <2>3. g.torn = f.torn /\ g.durable = Len(f.lines) /\ g.named
    BY <1>1 DEF JournalOf
  <2> HIDE DEF g
  <2> QED  BY <1>1, <1>4, <2>1, <2>2, <2>3 DEF Kept
<1> QED  BY <1>2, <1>3, <1>4 DEF SyncFaults

\* An append to a whole journal adds the record or nothing, and loses nothing
\* that was kept; confirmed, it keeps every line.
LEMMA AppendKeepsLines ==
    ASSUME NEW E, NEW f \in JournalOf(E), f.durable <= Len(f.lines), ~f.torn,
           NEW r \in E, NEW fault \in AppendFaults
    PROVE  LET g == AppendedJournal(f, r, fault)
           IN /\ g \in JournalOf(E)
              /\ g.lines = f.lines \/ g.lines = Append(f.lines, r)
              /\ g.durable <= Len(g.lines) /\ Kept(g) >= Kept(f)
              /\ fault = "none" => g.lines = Append(f.lines, r) /\ Kept(g) = Len(g.lines)
<1>1. Len(f.lines) \in Nat /\ f.durable \in Nat /\ f.lines \in Seq(E)
  BY DEF JournalOf
<1>2. CASE fault = "write"
  <2>1. AppendedJournal(f, r, fault) = f
    BY <1>2 DEF AppendedJournal
  <2> QED  BY <1>1, <1>2, <2>1 DEF Kept
<1>3. CASE fault = "torn"
  <2> DEFINE g == [f EXCEPT !.torn = TRUE]
  <2>1. AppendedJournal(f, r, fault) = g
    BY <1>3 DEF AppendedJournal
  <2>2. g \in JournalOf(E) /\ g.lines = f.lines
    BY DEF JournalOf
  <2>3. g.durable = f.durable /\ g.named = f.named
    BY DEF JournalOf
  <2> HIDE DEF g
  <2> QED  BY <1>1, <1>3, <2>1, <2>2, <2>3 DEF Kept
<1>4. CASE fault \in SyncFaults
  <2> DEFINE w == Written(f, r)
             g == SyncedJournal(w, fault)
  <2>1. AppendedJournal(f, r, fault) = g
    BY <1>4 DEF AppendedJournal, SyncFaults
  <2>2. w = [f EXCEPT !.lines = Append(@, r), !.torn = FALSE]
    BY DEF Written
  <2>3. Append(f.lines, r) \in Seq(E) /\ Len(Append(f.lines, r)) = Len(f.lines) + 1
    BY <1>1
  <2> HIDE DEF w
  <2>4. w \in JournalOf(E) /\ w.lines = Append(f.lines, r) /\ w.durable = f.durable /\ w.named = f.named
    BY <2>2, <2>3 DEF JournalOf
  <2>5. w.durable <= Len(w.lines) /\ Kept(w) = Kept(f)
    BY <1>1, <2>3, <2>4 DEF Kept
  <2>6. /\ g \in JournalOf(E) /\ g.lines = w.lines
        /\ g.durable <= Len(g.lines) /\ Kept(g) >= Kept(w)
        /\ fault = "none" => Kept(g) = Len(w.lines)
    BY <1>4, <2>4, <2>5, SyncKeepsLines
  <2> HIDE DEF g
  <2> QED  BY <2>1, <2>4, <2>5, <2>6
<1> QED  BY <1>2, <1>3, <1>4 DEF AppendFaults, SyncFaults

\* A power failure leaves a prefix that holds the kept lines.
LEMMA PowerLossLeavesPrefix ==
    ASSUME NEW E, NEW f \in JournalOf(E), f.durable <= Len(f.lines), NEW g \in AfterPowerLoss(f)
    PROVE  /\ g \in JournalOf(E) /\ g.durable <= Len(g.lines)
           /\ Kept(g) = Len(g.lines) /\ Len(g.lines) >= Kept(f)
           /\ \E n \in 0..Len(f.lines) : g.lines = SubSeq(f.lines, 1, n) /\ Len(g.lines) = n
<1>1. Len(f.lines) \in Nat /\ f.durable \in Nat /\ f.lines \in Seq(E) /\ Kept(f) \in 0..Len(f.lines)
  BY DEF JournalOf, Kept
<1>2. PICK n \in Kept(f)..Len(f.lines), t \in BOOLEAN :
          g = [lines |-> SubSeq(f.lines, 1, n), torn |-> t, durable |-> n, named |-> TRUE]
  BY DEF AfterPowerLoss, Kept
<1>3. SubSeq(f.lines, 1, n) \in Seq(E) /\ Len(SubSeq(f.lines, 1, n)) = n /\ n \in Nat
  BY <1>1
<1>4. g \in JournalOf(E) /\ g.lines = SubSeq(f.lines, 1, n) /\ g.durable = n /\ g.named
  BY <1>2, <1>3 DEF JournalOf
<1> QED  BY <1>1, <1>3, <1>4 DEF Kept

-----------------------------------------------------------------------------
(* Descriptors *)

\* An event makes a descriptor of its epoch.
LEMMA ChildIsDescriptor ==
    ASSUME NEW d \in DescriptorRecord, NEW e \in EventRecord
    PROVE  Child(d, e) \in DescriptorRecord /\ Child(d, e).epoch = e.epoch
<1>1. /\ e.epoch \in Nat /\ e.kind \in Kind /\ e.subject \in Actor /\ e.parent \in Hash
      /\ e.evidence.preview.impacts \in SUBSET Permit
  BY DEF EventRecord, PreviewRecord
<1>2. NextMembers(d.members, e.kind, e.subject) \in SUBSET Actor
  BY <1>1 DEF NextMembers, DescriptorRecord
<1>3. Append(e.parent, <<e.kind, e.subject, e.evidence.preview.impacts>>) \in Hash
  <2>1. <<e.kind, e.subject, e.evidence.preview.impacts>> \in Kind \X Actor \X SUBSET Permit
    BY <1>1
  <2> QED  BY <1>1, <2>1 DEF Hash
<1> QED  BY <1>1, <1>2, <1>3 DEF Child, DescriptorRecord

\* The first descriptor is one, of epoch one.
LEMMA GenesisIsDescriptor == GenesisDescriptor \in DescriptorRecord /\ GenesisDescriptor.epoch = 1
  BY MembershipAssumption DEF GenesisDescriptor, DescriptorRecord, Hash

\* The host's replay of a journal is a fold with Child.
LEMMA DescriptorIsFold ==
    ASSUME NEW events
    PROVE  Descriptor(events) = Replay!Fold(GenesisDescriptor, events)
  BY DEF Descriptor, FoldLeft, MapThenFoldSet, Max,
         Replay!Fold, Replay!FoldLeft, Replay!MapThenFoldSet, Replay!Max

\* A longer journal leads to the child of where the shorter one leads.
LEMMA DescriptorSteps ==
    ASSUME NEW s \in Seq(EventRecord)
    PROVE  /\ Descriptor(<<>>) = GenesisDescriptor
           /\ Descriptor(s) \in DescriptorRecord
           /\ \A e \in EventRecord : Descriptor(Append(s, e)) = Child(Descriptor(s), e)
<1>1. Descriptor(<<>>) = GenesisDescriptor
  BY DescriptorIsFold, Replay!FoldEmpty
<1>2. \A e \in EventRecord : Descriptor(Append(s, e)) = Child(Descriptor(s), e)
  BY DescriptorIsFold, Replay!FoldAppend
<1>3. Descriptor(s) \in DescriptorRecord
  <2>1. \A d \in DescriptorRecord, i \in 1..Len(s) : Child(d, s[i]) \in DescriptorRecord
    BY ChildIsDescriptor
  <2> QED  BY <2>1, GenesisIsDescriptor, DescriptorIsFold, Replay!FoldStays
<1> QED  BY <1>1, <1>2, <1>3

\* Where a journal leads that is not empty: to the child, by its last event, of
\* the descriptor before it.
LEMMA DescriptorOfLast ==
    ASSUME NEW s \in Seq(EventRecord), Len(s) > 0
    PROVE  /\ Descriptor(s) = Child(Before(s, Len(s)), s[Len(s)])
           /\ Before(s, Len(s)) \in DescriptorRecord
           /\ s[Len(s)] \in EventRecord /\ Last(s) = s[Len(s)]
<1> DEFINE front == SubSeq(s, 1, Len(s) - 1)
           e == s[Len(s)]
<1>1. front \in Seq(EventRecord) /\ e \in EventRecord /\ s = Append(front, e)
  OBVIOUS
<1>2. Before(s, Len(s)) = Descriptor(front)
  BY DEF Before
<1>3. Last(s) = e
  BY DEF Last
<1> HIDE DEF front, e
<1>4. Descriptor(s) = Child(Descriptor(front), e) /\ Descriptor(front) \in DescriptorRecord
  BY <1>1, DescriptorSteps
<1> QED  BY <1>1, <1>2, <1>3, <1>4 DEF e

\* A prefix of a journal has the same links.
LEMMA LinksOfPrefix ==
    ASSUME NEW s \in Seq(EventRecord), NEW n \in 0..Len(s), NEW i \in 1..n
    PROVE  /\ SubSeq(s, 1, n)[i] = s[i] /\ i \in 1..Len(s)
           /\ Before(SubSeq(s, 1, n), i) = Before(s, i)
<1>1. SubSeq(SubSeq(s, 1, n), 1, i - 1) = SubSeq(s, 1, i - 1)
  <2> DEFINE a == SubSeq(SubSeq(s, 1, n), 1, i - 1)
             b == SubSeq(s, 1, i - 1)
  <2>1. Len(s) \in Nat /\ n \in Nat /\ i - 1 \in Nat /\ i - 1 <= n /\ n <= Len(s)
    OBVIOUS
  <2>2. /\ SubSeq(s, 1, n) \in Seq(EventRecord) /\ Len(SubSeq(s, 1, n)) = n
        /\ \A k \in 1..n : SubSeq(s, 1, n)[k] = s[k]
    BY <2>1
  <2>3. a \in Seq(EventRecord) /\ b \in Seq(EventRecord) /\ Len(a) = i - 1 /\ Len(b) = i - 1
    BY <2>1, <2>2
  <2>4. \A k \in 1..(i - 1) : a[k] = s[k] /\ b[k] = s[k]
    BY <2>1, <2>2
  <2> HIDE DEF a, b
  <2> QED  BY <2>3, <2>4 DEF a, b
<1>2. SubSeq(s, 1, n)[i] = s[i] /\ i \in 1..Len(s)
  OBVIOUS
<1>3. Before(SubSeq(s, 1, n), i) = Before(s, i)
  BY <1>1, Zenon DEF Before
<1> QED  BY <1>2, <1>3

-----------------------------------------------------------------------------
(* commit_retirement and commit_enrollment *)

\* The three things a commit can do: refuse and leave the store as it is; find
\* its record in the file and sync it; or append a record that extends the
\* host's descriptor.
Refuses(ran) == ran.journal = journal /\ ran.store = store /\ ran.code # "ok"

Resyncs(ran) ==
    /\ BehindJournal(current)
    /\ \E met \in SyncFaults : ran = Outcome(JournalError(met), SyncedJournal(journal, met), store)

Appends(ran, event, fault) ==
    /\ ~BehindJournal(current) /\ Readable(journal)
    /\ event \in EventRecord /\ Links(current, event) /\ event.seq = store.seq + 1
    /\ ran \in {Outcome(JournalError(fault), AppendedJournal(journal, event, fault),
                        Position(AppendedJournal(journal, event, fault).lines)),
                Outcome("corrupt_record", AppendedJournal(journal, event, fault), store)}
    /\ Readable(AppendedJournal(journal, event, fault)) =>
          ran.store = Position(AppendedJournal(journal, event, fault).lines)

\* A preview that still describes the host's descriptor makes an event that
\* links to it.
LEMMA EventLinks ==
    ASSUME JournalInv, NEW p \in PreviewRecord, NEW impacts, NEW seq \in Nat,
           p.parent = current.hash, CanPreview(p.kind, current, p.device),
           p = Preview(p.kind, current, p.device, impacts), acks = p.required
    PROVE  /\ Event(p, acks, seq) \in EventRecord /\ Links(current, Event(p, acks, seq))
           /\ Event(p, acks, seq).seq = seq
<1> DEFINE e == Event(p, acks, seq)
<1>1. /\ e.seq = seq /\ e.epoch = p.parent_epoch + 1 /\ e.subject = p.device /\ e.kind = p.kind
      /\ e.parent = p.parent /\ e.evidence.preview = p /\ e.evidence.acknowledged = acks
  BY DEF Event
<1>2. e \in EventRecord
  BY DEF Event, EventRecord, PreviewRecord, JournalInv, MembershipTypeOK
<1>3. p.parent_epoch = current.epoch
  BY DEF Preview
<1>4. p = Preview(p.kind, current, p.device, p.impacts)
  <2>1. p.impacts = IF p.kind = "retired" THEN impacts ELSE {}
    BY DEF Preview
  <2>2. CASE p.kind = "retired"
    BY <2>1, <2>2
  <2>3. CASE p.kind # "retired"
    BY <2>1, <2>3 DEF Preview
  <2> QED  BY <2>2, <2>3
<1> HIDE DEF e
<1>5. Links(current, e)
  BY <1>1, <1>3, <1>4 DEF Links
<1> QED  BY <1>1, <1>2, <1>5 DEF e

\* Every outcome of a commit is one of the three.
LEMMA CommitOutcome ==
    ASSUME JournalInv, proposal # None, NEW fault \in AppendFaults
    PROVE  LET ran == Commit(proposal, current, Impacts(proposal.device), acks, fault)
               event == Event(proposal, acks, store.seq + 1)
           IN Refuses(ran) \/ Resyncs(ran) \/ Appends(ran, event, fault)
<1> DEFINE impacts == Impacts(proposal.device)
           ran == Commit(proposal, current, impacts, acks, fault)
           event == Event(proposal, acks, store.seq + 1)
           stale == \/ proposal.parent # current.hash
                    \/ ~CanPreview(proposal.kind, current, proposal.device)
                    \/ proposal # Preview(proposal.kind, current, proposal.device, impacts)
<1>1. \A code \in {"wrong_epoch", "corrupt_record", "awaiting_state", "malformed"} : Refuses(Refusal(code))
  BY DEF Refuses, Refusal, Outcome
<1>2. ASSUME BehindJournal(current)
      PROVE  Resyncs(Resync(fault))
  <2> DEFINE met == IF fault \in SyncFaults THEN fault ELSE "none"
  <2>1. met \in SyncFaults
    BY DEF SyncFaults
  <2>2. Resync(fault) = Outcome(JournalError(met), SyncedJournal(journal, met), store)
    BY DEF Resync
  <2> HIDE DEF met
  <2> QED  BY <1>2, <2>1, <2>2 DEF Resyncs
<1>3. ASSUME ~stale, Readable(journal), AllAcknowledged(proposal, acks), ~BehindJournal(current)
      PROVE  Refuses(AppendEvent(event, fault)) \/ Appends(AppendEvent(event, fault), event, fault)
  <2>1. event \in EventRecord /\ Links(current, event) /\ event.seq = store.seq + 1
    <3>1. proposal \in PreviewRecord /\ store.seq + 1 \in Nat
      BY DEF JournalInv, MembershipTypeOK
    <3> QED  BY <1>3, <3>1, EventLinks DEF AllAcknowledged
  <2> HIDE DEF event
  <2> DEFINE file == AppendedJournal(journal, event, fault)
  <2>2. CASE event.seq # store.seq + 1 \/ (store.epoch # 0 /\ event.epoch # store.epoch + 1)
    <3>1. AppendEvent(event, fault) = Refusal("malformed")
      BY <2>2 DEF AppendEvent
    <3> QED  BY <3>1, <1>1
  <2>3. CASE /\ ~(event.seq # store.seq + 1 \/ (store.epoch # 0 /\ event.epoch # store.epoch + 1))
             /\ Readable(file)
    <3>1. AppendEvent(event, fault) = Outcome(JournalError(fault), file, Position(file.lines))
      BY <2>3 DEF AppendEvent
    <3> QED  BY <1>3, <2>1, <3>1 DEF Appends, Outcome
  <2>4. CASE /\ ~(event.seq # store.seq + 1 \/ (store.epoch # 0 /\ event.epoch # store.epoch + 1))
             /\ ~Readable(file)
    <3>1. AppendEvent(event, fault) = Outcome("corrupt_record", file, store)
      BY <2>4 DEF AppendEvent
    <3> QED  BY <1>3, <2>1, <2>4, <3>1 DEF Appends, Outcome
  <2> QED  BY <2>2, <2>3, <2>4
<1>4. \/ ran \in {Refusal("wrong_epoch"), Refusal("corrupt_record"), Refusal("awaiting_state")}
      \/ BehindJournal(current) /\ ran = Resync(fault)
      \/ /\ ~stale /\ Readable(journal) /\ AllAcknowledged(proposal, acks) /\ ~BehindJournal(current)
         /\ ran = AppendEvent(event, fault)
  <2>1. CASE stale \/ ~Readable(journal) \/ ~AllAcknowledged(proposal, acks) \/ BehindJournal(current)
    BY <2>1 DEF Commit
  <2>2. CASE ~(stale \/ ~Readable(journal) \/ ~AllAcknowledged(proposal, acks) \/ BehindJournal(current))
    BY <2>2 DEF Commit
  <2> QED  BY <2>1, <2>2
<1> HIDE DEF ran, event, stale
<1>5. Refuses(ran) \/ Resyncs(ran) \/ Appends(ran, event, fault)
  BY <1>1, <1>2, <1>3, <1>4
<1> QED  BY <1>5 DEF ran, event

-----------------------------------------------------------------------------
(* The journal invariant is inductive *)

\* The first process finds no journal.
LEMMA JournalStarts == MembershipInit => JournalInv
<1> SUFFICES ASSUME MembershipInit
             PROVE  JournalInv
  OBVIOUS
<1> USE DEF MembershipInit, NewJournal
<1>1. /\ journal \in JournalOf(EventRecord) /\ journal.lines = <<>> /\ Len(journal.lines) = 0
      /\ journal.durable = 0
  BY DEF JournalOf
<1>2. MembershipTypeOK
  BY <1>1, GenesisIsDescriptor DEF MembershipTypeOK
<1>3. Descriptor(<<>>) = GenesisDescriptor
  <2>1. <<>> \in Seq(EventRecord)
    OBVIOUS
  <2> QED  BY <2>1, DescriptorSteps
<1>4. HostIsAtJournal
  BY <1>1, <1>3, GenesisIsDescriptor DEF HostIsAtJournal
<1>5. LinesAreLinked
  BY <1>1 DEF LinesAreLinked
<1>6. ConfirmedIsKept
  BY <1>1 DEF ConfirmedIsKept, Kept
<1> QED  BY <1>2, <1>4, <1>5, <1>6 DEF JournalInv

\* A step that leaves the journal and the host as they are.
LEMMA JournalUntouched ==
    ASSUME JournalInv, UNCHANGED <<journal, store, current, confirmed, open>>, MembershipTypeOK'
    PROVE  JournalInv'
  BY DEF JournalInv, LinesAreLinked, ConfirmedIsKept, HostIsAtJournal, Readable

\* Leases, proposals and acknowledgements do not touch it.
LEMMA OtherStepsKeepJournal ==
    ASSUME JournalInv, Authorize \/ Release \/ Propose \/ Acknowledge
    PROVE  JournalInv'
<1>1. UNCHANGED <<journal, store, current, confirmed, open>>
  BY DEF Authorize, Release, Propose, Acknowledge
<1>2. /\ permits \in SUBSET Permit /\ written \in SUBSET Permit /\ current \in DescriptorRecord
      /\ acks \in SUBSET Actor
      /\ proposal # None => proposal \in PreviewRecord
  BY DEF JournalInv, MembershipTypeOK
<1>3. CASE Authorize
  <2>1. PICK s \in Scope, a \in Actor, e \in 1..MaxEpoch :
            permits' = permits \cup {[scope |-> s, actor |-> a, epoch |-> e]}
    BY <1>3 DEF Authorize
  <2>2. [scope |-> s, actor |-> a, epoch |-> e] \in Permit
    BY MembershipAssumption DEF Permit
  <2>3. UNCHANGED <<proposal, acks, written>>
    BY <1>3 DEF Authorize
  <2>4. MembershipTypeOK'
    BY <1>1, <1>2, <2>1, <2>2, <2>3 DEF JournalInv, MembershipTypeOK
  <2> QED  BY <1>1, <2>4, JournalUntouched
<1>4. CASE Release
  <2>1. permits' \in SUBSET Permit /\ written' \in SUBSET Permit /\ UNCHANGED <<proposal, acks>>
    BY <1>2, <1>4 DEF Release
  <2>2. MembershipTypeOK'
    BY <1>1, <2>1 DEF JournalInv, MembershipTypeOK
  <2> QED  BY <1>1, <2>2, JournalUntouched
<1>5. CASE Propose
  <2>1. PICK kind \in Kind, device \in Actor : proposal' = Preview(kind, current, device, Impacts(device))
    BY <1>5 DEF Propose, Kind
  <2>2. Impacts(device) \in SUBSET Permit
    BY <1>2 DEF Impacts
  <2> DEFINE required == IF kind = "retired" THEN current.members \ {device} ELSE current.members \cup {device}
             impacts == IF kind = "retired" THEN Impacts(device) ELSE {}
  <2>3. required \in SUBSET Actor /\ impacts \in SUBSET Permit
    BY <1>2, <2>2 DEF DescriptorRecord
  <2>4. proposal' = [kind |-> kind, device |-> device, parent_epoch |-> current.epoch,
                     parent |-> current.hash, members |-> current.members,
                     required |-> required, impacts |-> impacts]
    BY <2>1 DEF Preview
  <2> HIDE DEF required, impacts
  <2>5. proposal' \in PreviewRecord
    BY <1>2, <2>3, <2>4 DEF PreviewRecord, DescriptorRecord
  <2>6. acks' = {} /\ UNCHANGED <<permits, written>>
    BY <1>5 DEF Propose
  <2>7. MembershipTypeOK'
    BY <1>1, <2>5, <2>6 DEF JournalInv, MembershipTypeOK
  <2> QED  BY <1>1, <2>7, JournalUntouched
<1>6. CASE Acknowledge
  <2>a. proposal.required \subseteq Actor
    BY <1>2, <1>6 DEF Acknowledge, PreviewRecord
  <2>1. acks' \in SUBSET Actor /\ UNCHANGED <<permits, written, proposal>>
    BY <1>2, <1>6, <2>a DEF Acknowledge
  <2>2. MembershipTypeOK'
    BY <1>1, <2>1 DEF JournalInv, MembershipTypeOK
  <2> QED  BY <1>1, <2>2, JournalUntouched
<1> QED  BY <1>3, <1>4, <1>5, <1>6

\* A stop leaves the journal, or after a power failure a prefix of it.
LEMMA StopKeepsJournal ==
    ASSUME JournalInv, Stop
    PROVE  JournalInv'
<1>1. /\ open' = FALSE /\ permits' = {} /\ journal' \in {journal} \cup AfterPowerLoss(journal)
      /\ UNCHANGED <<store, current, proposal, acks, written, confirmed>>
  BY DEF Stop
<1>2. /\ journal \in JournalOf(EventRecord) /\ journal.durable <= Len(journal.lines)
      /\ journal.lines \in Seq(EventRecord) /\ Len(journal.lines) \in Nat
      /\ confirmed \in Nat /\ confirmed <= 1 + Kept(journal) /\ Kept(journal) \in Nat
  BY DEF JournalInv, MembershipTypeOK, ConfirmedIsKept, JournalOf, Kept
<1>3. CASE journal' = journal
  <2>1. MembershipTypeOK'
    BY <1>1, <1>3 DEF JournalInv, MembershipTypeOK
  <2> QED  BY <1>1, <1>3, <2>1 DEF JournalInv, LinesAreLinked, ConfirmedIsKept, HostIsAtJournal
<1>4. CASE journal' \in AfterPowerLoss(journal)
  <2>1. /\ journal' \in JournalOf(EventRecord) /\ journal'.durable <= Len(journal'.lines)
        /\ Kept(journal') = Len(journal'.lines) /\ Len(journal'.lines) >= Kept(journal)
    BY <1>2, <1>4, PowerLossLeavesPrefix
  <2>2. PICK n \in 0..Len(journal.lines) :
            journal'.lines = SubSeq(journal.lines, 1, n) /\ Len(journal'.lines) = n
    BY <1>2, <1>4, PowerLossLeavesPrefix
  <2>3. LinesAreLinked'
    <3> SUFFICES ASSUME NEW i \in 1..n
                 PROVE  /\ journal'.lines[i].seq = i /\ journal'.lines[i].epoch = i + 1
                        /\ Links(Before(journal'.lines, i), journal'.lines[i])
      BY <2>2 DEF LinesAreLinked
    <3>1. /\ journal'.lines[i] = journal.lines[i] /\ i \in 1..Len(journal.lines)
          /\ Before(journal'.lines, i) = Before(journal.lines, i)
      BY <1>2, <2>2, LinksOfPrefix
    <3> QED  BY <3>1 DEF JournalInv, LinesAreLinked
  <2>4. ConfirmedIsKept'
    <3>1. confirmed' <= 1 + Kept(journal')
      BY <1>1, <1>2, <2>1, <2>2
    <3> QED  BY <2>1, <3>1 DEF ConfirmedIsKept
  <2>5. MembershipTypeOK'
    BY <1>1, <2>1 DEF JournalInv, MembershipTypeOK
  <2> QED  BY <1>1, <2>3, <2>4, <2>5 DEF JournalInv, HostIsAtJournal
<1> QED  BY <1>1, <1>3, <1>4

\* What a journal of linked lines leads to has the epoch after its last line.
LEMMA EpochOfJournal ==
    ASSUME JournalInv
    PROVE  /\ Descriptor(journal.lines) \in DescriptorRecord
           /\ Descriptor(journal.lines).epoch = Len(journal.lines) + 1
<1>1. journal.lines \in Seq(EventRecord) /\ Len(journal.lines) \in Nat
  BY DEF JournalInv, MembershipTypeOK, JournalOf
<1>2. Descriptor(journal.lines) \in DescriptorRecord
  BY <1>1, DescriptorSteps
<1>3. CASE Len(journal.lines) = 0
  <2>1. journal.lines = <<>>
    BY <1>1, <1>3
  <2>2. Descriptor(journal.lines) = GenesisDescriptor
    BY <1>1, <2>1, DescriptorSteps
  <2> QED  BY <1>2, <1>3, <2>2, GenesisIsDescriptor
<1>4. CASE Len(journal.lines) > 0
  <2> DEFINE n == Len(journal.lines)
  <2>1. /\ Descriptor(journal.lines) = Child(Before(journal.lines, n), journal.lines[n])
        /\ Before(journal.lines, n) \in DescriptorRecord /\ journal.lines[n] \in EventRecord
    BY <1>1, <1>4, DescriptorOfLast
  <2>2. journal.lines[n].epoch = n + 1
    BY <1>1, <1>4 DEF JournalInv, LinesAreLinked
  <2> HIDE DEF n
  <2>3. Descriptor(journal.lines).epoch = n + 1
    BY <2>1, <2>2, ChildIsDescriptor
  <2> QED  BY <1>2, <2>3 DEF n
<1> QED  BY <1>1, <1>3, <1>4

\* The position a readable journal of numbered lines is at.
LEMMA PositionIsLength ==
    ASSUME NEW s \in Seq(EventRecord), Len(s) > 0 => s[Len(s)].seq = Len(s)
    PROVE  Position(s) \in [seq : Nat, epoch : Nat] /\ Position(s).seq = Len(s)
<1>1. CASE s = <<>>
  BY <1>1 DEF Position
<1>2. CASE s # <<>>
  <2>1. Len(s) > 0
    BY <1>2
  <2>2. Last(s) = s[Len(s)] /\ Last(s) \in EventRecord
    BY <2>1, DescriptorOfLast
  <2> QED  BY <1>2, <2>1, <2>2 DEF Position, EventRecord
<1> QED  BY <1>1, <1>2

\* open() puts the host where the journal is.
LEMMA OpenKeepsJournal ==
    ASSUME JournalInv, Open
    PROVE  JournalInv'
<1>1. /\ Readable(journal) /\ open' = TRUE /\ store' = Position(journal.lines)
      /\ current' = Descriptor(journal.lines)
      /\ UNCHANGED <<journal, proposal, acks, permits, written, confirmed>>
  BY DEF Open
<1>2. journal.lines \in Seq(EventRecord) /\ Len(journal.lines) \in Nat
  BY DEF JournalInv, MembershipTypeOK, JournalOf
<1>3. Position(journal.lines) \in [seq : Nat, epoch : Nat] /\ Position(journal.lines).seq = Len(journal.lines)
  <2>1. Len(journal.lines) > 0 => journal.lines[Len(journal.lines)].seq = Len(journal.lines)
    BY <1>2 DEF JournalInv, LinesAreLinked
  <2> QED  BY <1>2, <2>1, PositionIsLength
<1>4. MembershipTypeOK'
  BY <1>1, <1>3, EpochOfJournal DEF JournalInv, MembershipTypeOK
<1>5. HostIsAtJournal'
  BY <1>1, <1>3, EpochOfJournal DEF HostIsAtJournal
<1> QED  BY <1>1, <1>4, <1>5 DEF JournalInv, LinesAreLinked, ConfirmedIsKept

\* A retry that finds its record: the host catches up with the journal.
LEMMA ResyncKeepsJournal ==
    ASSUME JournalInv, open, open', NEW ran, Resyncs(ran), NEW ok \in BOOLEAN, ok => ran.code = "ok",
           journal' = ran.journal, store' = ran.store,
           current' = IF ok THEN Child(current, Last(journal'.lines)) ELSE current,
           confirmed' = IF ok THEN current'.epoch ELSE confirmed,
           UNCHANGED <<proposal, acks, permits, written>>
    PROVE  JournalInv'
<1>1. PICK met \in SyncFaults : ran = Outcome(JournalError(met), SyncedJournal(journal, met), store)
  BY DEF Resyncs
<1>2. /\ ran.code = JournalError(met) /\ journal' = SyncedJournal(journal, met) /\ store' = store
  BY <1>1 DEF Outcome
<1>3. /\ journal \in JournalOf(EventRecord) /\ journal.durable <= Len(journal.lines)
      /\ journal.lines \in Seq(EventRecord) /\ Len(journal.lines) \in Nat
      /\ confirmed \in Nat /\ confirmed <= 1 + Kept(journal) /\ Kept(journal) \in Nat
      /\ current \in DescriptorRecord
  BY DEF JournalInv, MembershipTypeOK, ConfirmedIsKept, JournalOf, Kept
<1>4. /\ journal' \in JournalOf(EventRecord) /\ journal'.lines = journal.lines /\ journal'.torn = journal.torn
      /\ journal'.durable <= Len(journal'.lines) /\ Kept(journal') >= Kept(journal)
      /\ met = "none" => Kept(journal') = Len(journal.lines)
  BY <1>2, <1>3, SyncKeepsLines
<1>5. LinesAreLinked' /\ (Readable(journal') => store'.seq = Len(journal'.lines))
  <2>1. Readable(journal') => Readable(journal)
    BY <1>4 DEF Readable
  <2> QED  BY <1>2, <1>4, <2>1 DEF JournalInv, LinesAreLinked, HostIsAtJournal
<1>6. CASE ~ok
  <2>1. current' = current /\ confirmed' = confirmed
    BY <1>6
  <2>2. MembershipTypeOK'
    BY <1>2, <1>4, <2>1 DEF JournalInv, MembershipTypeOK
  <2>3. ConfirmedIsKept'
    <3>1. Kept(journal') \in Nat
      BY <1>4 DEF Kept, JournalOf
    <3>2. confirmed' <= 1 + Kept(journal')
      BY <1>3, <1>4, <2>1, <3>1
    <3> QED  BY <1>4, <3>2 DEF ConfirmedIsKept
  <2>4. HostIsAtJournal'
    BY <1>4, <1>5, <2>1 DEF JournalInv, HostIsAtJournal
  <2> QED  BY <1>5, <2>2, <2>3, <2>4 DEF JournalInv
<1>7. CASE ok
  <2> DEFINE n == Len(journal.lines)
  <2>1. met = "none"
    BY <1>2, <1>7 DEF JournalError, SyncFaults
  <2>2. n > 0 /\ Last(journal.lines).epoch # current.epoch
    BY <1>3 DEF Resyncs, BehindJournal
  <2>3. /\ Descriptor(journal.lines) = Child(Before(journal.lines, n), Last(journal.lines))
        /\ Last(journal.lines) = journal.lines[n]
    BY <1>3, <2>2, DescriptorOfLast
  <2>4. Last(journal.lines).epoch = n + 1
    BY <1>3, <2>2, <2>3 DEF JournalInv, LinesAreLinked
  <2>5. current = Before(journal.lines, n)
    BY <2>2, <2>4 DEF JournalInv, HostIsAtJournal
  <2>6. current' = Descriptor(journal.lines)
    BY <1>4, <1>7, <2>3, <2>5
  <2>7. current' \in DescriptorRecord /\ current'.epoch = n + 1
    BY <2>6, EpochOfJournal
  <2>8. confirmed' = n + 1 /\ confirmed' \in Nat
    BY <1>3, <1>7, <2>7
  <2>9. MembershipTypeOK'
    BY <1>2, <1>4, <2>7, <2>8 DEF JournalInv, MembershipTypeOK
  <2>10. ConfirmedIsKept'
    BY <1>3, <1>4, <2>1, <2>8 DEF ConfirmedIsKept
  <2>11. HostIsAtJournal'
    BY <1>4, <1>5, <2>6, <2>7 DEF HostIsAtJournal
  <2> QED  BY <1>5, <2>9, <2>10, <2>11 DEF JournalInv
<1> QED  BY <1>6, <1>7

\* An append: the record extends the host's descriptor, which is the journal's.
LEMMA AppendKeepsJournal ==
    ASSUME JournalInv, open, open', NEW ran, NEW event, NEW fault \in AppendFaults,
           Appends(ran, event, fault), NEW ok \in BOOLEAN, ok => ran.code = "ok",
           journal' = ran.journal, store' = ran.store,
           current' = IF ok THEN Child(current, Last(journal'.lines)) ELSE current,
           confirmed' = IF ok THEN current'.epoch ELSE confirmed,
           UNCHANGED <<proposal, acks, permits, written>>
    PROVE  JournalInv'
<1> DEFINE n == Len(journal.lines)
<1>1. /\ journal \in JournalOf(EventRecord) /\ journal.durable <= n
      /\ journal.lines \in Seq(EventRecord) /\ n \in Nat
      /\ confirmed \in Nat /\ confirmed <= 1 + Kept(journal) /\ Kept(journal) \in Nat
      /\ current \in DescriptorRecord
  BY DEF JournalInv, MembershipTypeOK, ConfirmedIsKept, JournalOf, Kept
<1>2. /\ event \in EventRecord /\ Links(current, event) /\ ~journal.torn
      /\ event.seq = n + 1
  BY DEF Appends, Readable, JournalInv, HostIsAtJournal
<1>3. /\ journal' = AppendedJournal(journal, event, fault)
      /\ ran.code \in {JournalError(fault), "corrupt_record"}
      /\ store' \in {store, Position(journal'.lines)}
      /\ Readable(journal') => store' = Position(journal'.lines)
  BY DEF Appends, Outcome
<1>4. /\ journal' \in JournalOf(EventRecord)
      /\ journal'.lines = journal.lines \/ journal'.lines = Append(journal.lines, event)
      /\ journal'.durable <= Len(journal'.lines) /\ Kept(journal') >= Kept(journal)
      /\ fault = "none" => /\ journal'.lines = Append(journal.lines, event)
                           /\ Kept(journal') = Len(journal'.lines)
  BY <1>1, <1>2, <1>3, AppendKeepsLines
<1>5. ok => fault = "none"
  BY <1>3 DEF JournalError, AppendFaults
<1>6. current = Descriptor(journal.lines) /\ current.epoch = n + 1
  <2> SUFFICES ASSUME n > 0, current.epoch = n
               PROVE  FALSE
    BY <1>1 DEF JournalInv, HostIsAtJournal
  <2>1. Last(journal.lines) = journal.lines[n]
    BY <1>1, DescriptorOfLast
  <2>2. journal.lines[n].epoch = n + 1 /\ journal.lines # <<>>
    BY <1>1 DEF JournalInv, LinesAreLinked
  <2> QED  BY <1>1, <2>1, <2>2 DEF Appends, BehindJournal
<1>7. journal'.lines \in Seq(EventRecord) /\ Len(journal'.lines) \in Nat /\ Kept(journal') \in Nat
  BY <1>4 DEF JournalOf, Kept
<1>8. CASE journal'.lines = journal.lines
  <2>0. journal'.lines # Append(journal.lines, event)
    BY <1>1, <1>2, <1>8
  <2>1. ~ok
    BY <1>4, <1>5, <2>0
  <2>2. current' = current /\ confirmed' = confirmed
    BY <2>1
  <2>3. LinesAreLinked'
    BY <1>8 DEF JournalInv, LinesAreLinked
  <2>4. Position(journal'.lines) \in [seq : Nat, epoch : Nat] /\ Position(journal'.lines).seq = n
    <3>1. n > 0 => journal.lines[n].seq = n
      BY <1>1 DEF JournalInv, LinesAreLinked
    <3> QED  BY <1>1, <1>8, <3>1, PositionIsLength
  <2>5. MembershipTypeOK'
    BY <1>3, <1>4, <2>2, <2>4 DEF JournalInv, MembershipTypeOK
  <2>6. ConfirmedIsKept'
    BY <1>1, <1>4, <1>7, <2>2 DEF ConfirmedIsKept
  <2>7. HostIsAtJournal'
    BY <1>3, <1>6, <1>8, <2>2, <2>4 DEF HostIsAtJournal
  <2> QED  BY <2>3, <2>5, <2>6, <2>7 DEF JournalInv
<1>9. CASE journal'.lines = Append(journal.lines, event)
  <2>1. /\ Len(journal'.lines) = n + 1 /\ journal'.lines[n + 1] = event
        /\ SubSeq(journal'.lines, 1, n) = journal.lines
    BY <1>1, <1>2, <1>9
  <2>2. Before(journal'.lines, n + 1) = current /\ event.epoch = n + 2
    <3>1. (n + 1) - 1 = n
      BY <1>1
    <3>2. Before(journal'.lines, n + 1) = Descriptor(journal.lines)
      BY <2>1, <3>1 DEF Before
    <3>3. event.epoch = current.epoch + 1
      BY <1>2 DEF Links
    <3> QED  BY <1>1, <1>6, <3>2, <3>3
  <2>3. LinesAreLinked'
    <3> SUFFICES ASSUME NEW i \in 1..(n + 1)
                 PROVE  /\ journal'.lines[i].seq = i /\ journal'.lines[i].epoch = i + 1
                        /\ Links(Before(journal'.lines, i), journal'.lines[i])
      BY <2>1 DEF LinesAreLinked
    <3>1. CASE i = n + 1
      BY <1>1, <1>2, <2>1, <2>2, <3>1
    <3>2. CASE i # n + 1
      <4>1. i \in 1..n /\ n \in 0..Len(journal'.lines)
        BY <1>1, <2>1, <3>2
      <4>2. journal'.lines[i] = journal.lines[i] /\ Before(journal'.lines, i) = Before(journal.lines, i)
        BY <1>7, <2>1, <4>1, LinksOfPrefix
      <4> QED  BY <4>1, <4>2 DEF JournalInv, LinesAreLinked
    <3> QED  BY <3>1, <3>2
  <2>4. Position(journal'.lines) \in [seq : Nat, epoch : Nat] /\ Position(journal'.lines).seq = n + 1
    BY <1>1, <1>2, <1>7, <2>1, PositionIsLength
  <2>5. CASE ~ok
    <3>1. current' = current /\ confirmed' = confirmed
      BY <2>5
    <3>2. MembershipTypeOK'
      BY <1>3, <1>4, <2>4, <3>1 DEF JournalInv, MembershipTypeOK
    <3>3. ConfirmedIsKept'
      BY <1>1, <1>4, <1>7, <3>1 DEF ConfirmedIsKept
    <3>4. HostIsAtJournal'
      BY <1>1, <1>3, <1>6, <2>1, <2>2, <2>4, <3>1 DEF HostIsAtJournal
    <3> QED  BY <2>3, <3>2, <3>3, <3>4 DEF JournalInv
  <2>6. CASE ok
    <3>1. Last(journal'.lines) = event
      BY <1>1, <1>7, <2>1, DescriptorOfLast
    <3>2. current' = Descriptor(journal'.lines)
      BY <1>1, <1>2, <1>6, <1>9, <2>6, <3>1, DescriptorSteps
    <3>3. current' \in DescriptorRecord /\ current'.epoch = n + 2
      BY <1>1, <1>2, <2>2, <2>6, <3>1, ChildIsDescriptor
    <3>4. confirmed' = n + 2 /\ confirmed' \in Nat
      BY <1>1, <2>6, <3>3
    <3>5. MembershipTypeOK'
      BY <1>3, <1>4, <2>4, <3>3, <3>4 DEF JournalInv, MembershipTypeOK
    <3>6. ConfirmedIsKept'
      BY <1>1, <1>4, <1>5, <2>1, <2>6, <3>4 DEF ConfirmedIsKept
    <3>7. HostIsAtJournal'
      BY <1>1, <1>3, <2>1, <2>4, <3>2, <3>3 DEF HostIsAtJournal
    <3> QED  BY <2>3, <3>5, <3>6, <3>7 DEF JournalInv
  <2> QED  BY <2>5, <2>6
<1> QED  BY <1>4, <1>8, <1>9

\* commit_transitions with the store's commit as its durable callback.
LEMMA TransitionKeepsJournal ==
    ASSUME JournalInv, Transition
    PROVE  JournalInv'
<1> DEFINE Ran(fault) == Commit(proposal, current, Impacts(proposal.device), acks,
                                IF fault = "throw" THEN "none" ELSE fault)
           Result(fault) == IF fault = "throw" THEN "throw" ELSE Ran(fault).code
<1>1. PICK fault \in CommitFaults \cup {"none"} :
          /\ journal' = Ran(fault).journal /\ store' = Ran(fault).store
          /\ current' = IF Result(fault) = "ok" THEN Child(current, Last(Ran(fault).journal.lines)) ELSE current
          /\ confirmed' = IF Result(fault) = "ok" THEN current'.epoch ELSE confirmed
  BY DEF Transition
<1>2. open /\ open' /\ proposal # None /\ UNCHANGED <<proposal, acks, permits, written, open>>
  BY DEF Transition
<1> DEFINE met == IF fault = "throw" THEN "none" ELSE fault
           ran == Ran(fault)
           event == Event(proposal, acks, store.seq + 1)
           ok == (Result(fault) = "ok")
<1>3. met \in AppendFaults /\ ok \in BOOLEAN /\ (ok => ran.code = "ok")
  BY MembershipAssumption DEF AppendFaults
<1>4. Refuses(ran) \/ Resyncs(ran) \/ Appends(ran, event, met)
  <2>1. ran = Commit(proposal, current, Impacts(proposal.device), acks, met)
    OBVIOUS
  <2> HIDE DEF ran, met
  <2> QED  BY <1>2, <1>3, <2>1, CommitOutcome
<1>5. /\ journal' = ran.journal /\ store' = ran.store
      /\ current' = IF ok THEN Child(current, Last(journal'.lines)) ELSE current
      /\ confirmed' = IF ok THEN current'.epoch ELSE confirmed
  BY <1>1
<1> HIDE DEF ran, met, event, ok
<1>6. CASE Refuses(ran)
  <2>1. UNCHANGED <<journal, store, current, confirmed, open>>
    BY <1>2, <1>3, <1>5, <1>6 DEF Refuses
  <2>2. MembershipTypeOK'
    BY <1>2, <2>1 DEF JournalInv, MembershipTypeOK
  <2> QED  BY <2>1, <2>2, JournalUntouched
<1>7. CASE Resyncs(ran)
  BY <1>2, <1>3, <1>5, <1>7, ResyncKeepsJournal
<1>8. CASE Appends(ran, event, met)
  BY <1>2, <1>3, <1>5, <1>8, AppendKeepsJournal
<1> QED  BY <1>4, <1>6, <1>7, <1>8

\* In every reachable state the journal's lines are linked, what was confirmed
\* is durable, and an open host is at the journal's end or one line before it.
THEOREM JournalInvariance == MembershipSpec => []JournalInv
<1>1. MembershipInit => JournalInv
  BY JournalStarts
<1>2. JournalInv /\ [MembershipNext]_membershipVars => JournalInv'
  <2> SUFFICES ASSUME JournalInv, [MembershipNext]_membershipVars
               PROVE  JournalInv'
    OBVIOUS
  <2>1. CASE Authorize \/ Release \/ Propose \/ Acknowledge
    BY <2>1, OtherStepsKeepJournal
  <2>2. CASE Transition
    BY <2>2, TransitionKeepsJournal
  <2>3. CASE Stop
    BY <2>3, StopKeepsJournal
  <2>4. CASE Open
    BY <2>4, OpenKeepsJournal
  <2>5. CASE UNCHANGED membershipVars
    <3>1. UNCHANGED <<journal, store, current, confirmed, open, proposal, acks, permits, written>>
      BY <2>5 DEF membershipVars
    <3>2. MembershipTypeOK'
      BY <3>1 DEF JournalInv, MembershipTypeOK
    <3> QED  BY <3>1, <3>2, JournalUntouched
  <2> QED  BY <2>1, <2>2, <2>3, <2>4, <2>5 DEF MembershipNext
<1> QED  BY <1>1, <1>2, PTL DEF MembershipSpec

\* Each record of the membership journal extends the descriptor its predecessors
\* lead to, with every acknowledgement that had to be given; and whatever a
\* power failure leaves leads at least to the epoch last reported as committed.
THEOREM JournalIsOneChain == MembershipSpec => []JournalLeadsToConfirmed
<1>1. JournalInv => JournalLeadsToConfirmed
  <2> SUFFICES ASSUME JournalInv
               PROVE  JournalLeadsToConfirmed
    OBVIOUS
  <2>1. \A i \in 1..Len(journal.lines) :
            Links(Descriptor(SubSeq(journal.lines, 1, i - 1)), journal.lines[i])
    BY DEF JournalInv, LinesAreLinked, Before
  <2>2. ASSUME NEW f \in AfterPowerLoss(journal)
        PROVE  Len(f.lines) + 1 >= confirmed
    <3>1. /\ journal \in JournalOf(EventRecord) /\ journal.durable <= Len(journal.lines)
          /\ confirmed \in Nat /\ confirmed <= 1 + Kept(journal) /\ Kept(journal) \in Nat
      BY DEF JournalInv, MembershipTypeOK, ConfirmedIsKept, JournalOf, Kept
    <3>2. f \in JournalOf(EventRecord) /\ Len(f.lines) >= Kept(journal)
      BY <3>1, PowerLossLeavesPrefix
    <3>3. Len(f.lines) \in Nat
      BY <3>2 DEF JournalOf
    <3> QED  BY <3>1, <3>2, <3>3
  <2> QED  BY <2>1, <2>2 DEF JournalLeadsToConfirmed
<1> QED  BY <1>1, JournalInvariance, PTL

-----------------------------------------------------------------------------
(* Reclamation: the state *)

Coverage == [Stream -> [Device -> Nat]]
EpochDescriptor == [epoch : Nat, members : SUBSET Device, producers : SUBSET Device, base : Coverage]
Checkpoint == [descriptor : EpochDescriptor, frontier : Coverage]
Evidence == [member : Device, descriptor : EpochDescriptor, checkpoint : Checkpoint, operation : Coverage]

ReclamationTypeOK ==
    /\ descriptor \in EpochDescriptor /\ descriptor.members # {}
    /\ descriptor.members \subseteq descriptor.producers
    /\ held \in [Device -> Coverage] /\ installed \in [Device -> Coverage]
    /\ evidence \subseteq Evidence
    /\ candidate # NoCheckpoint => candidate \in Checkpoint
    /\ certificate # NoCheckpoint => certificate \in Checkpoint

\* A coverage record is never ahead of its member, who is a producer by now.
EvidenceIsHeld ==
    \A e \in evidence : e.member \in descriptor.producers /\ Covers(held[e.member], e.operation)

\* A certificate of the present descriptor is below every member; an older one
\* has an older epoch.
CertificateIsHeld ==
    certificate # NoCheckpoint =>
        /\ certificate.descriptor.epoch <= descriptor.epoch
        /\ certificate.descriptor = descriptor =>
              \A m \in descriptor.members : Covers(held[m], certificate.frontier)

ReclamationInv ==
    ReclamationTypeOK /\ EvidenceIsHeld /\ CertificateIsHeld /\ ReclaimedIsHeldByAll

-----------------------------------------------------------------------------
(* Coverage *)

\* frontier_covers is reflexive and transitive.
LEMMA CoversIsAnOrder ==
    ASSUME NEW x \in Coverage, NEW y \in Coverage, NEW z \in Coverage
    PROVE  Covers(x, x) /\ (Covers(x, y) /\ Covers(y, z) => Covers(x, z))
<1>1. \A s \in Stream, d \in Device : x[s][d] \in Nat /\ y[s][d] \in Nat /\ z[s][d] \in Nat
  BY DEF Coverage
<1> QED  BY <1>1 DEF Covers

\* A nonempty set of counters has a least one.
LEMMA LeastCounter ==
    ASSUME NEW S \in SUBSET Nat, S # {}
    PROVE  \E n \in S : \A k \in S : n <= k
<1>1. PICK n \in S : \A k \in S : ~(<<k, n>> \in OpToRel(<, Nat))
  BY NatLessThanWellFounded, WFMin
<1>2. \A k \in S : ~(k < n)
  BY <1>1, Zenon DEF OpToRel
<1> QED  BY <1>2

\* common_frontier is a frontier, and at most what each record says.
LEMMA CommonFrontierIsCommon ==
    ASSUME NEW records \in SUBSET Evidence, records # {}
    PROVE  /\ CommonFrontier(records) \in Coverage
           /\ \A e \in records : Covers(e.operation, CommonFrontier(records))
<1> DEFINE least(s, d) == CHOOSE n \in {e.operation[s][d] : e \in records} :
                              \A e \in records : n <= e.operation[s][d]
<1>1. ASSUME NEW s \in Stream, NEW d \in Device
      PROVE  least(s, d) \in Nat /\ \A e \in records : e.operation[s][d] >= least(s, d)
  <2> DEFINE S == {e.operation[s][d] : e \in records}
  <2>1. \A e \in records : e.operation[s][d] \in Nat
    BY DEF Evidence, Coverage
  <2>2. S \in SUBSET Nat /\ S # {}
    BY <2>1
  <2>3. \E x \in S : \A k \in S : x <= k
    <3> HIDE DEF S
    <3> QED  BY <2>2, LeastCounter
  <2>4. \E x \in S : \A e \in records : x <= e.operation[s][d]
    BY <2>3
  <2>5. least(s, d) \in S /\ \A e \in records : least(s, d) <= e.operation[s][d]
    <3>1. least(s, d) = CHOOSE x \in S : \A e \in records : x <= e.operation[s][d]
      OBVIOUS
    <3> HIDE DEF S, least
    <3> QED  BY <2>4, <3>1
  <2> HIDE DEF S, least
  <2> QED  BY <2>1, <2>2, <2>5
<1>2. CommonFrontier(records) = [s \in Stream |-> [d \in Device |-> least(s, d)]]
  BY DEF CommonFrontier
<1> HIDE DEF least
<1> QED  BY <1>1, <1>2 DEF Covers, Coverage

-----------------------------------------------------------------------------
(* The invariant is inductive *)

\* The first epoch has no evidence, and nothing is reclaimed.
LEMMA ReclamationStarts == ReclamationInit => ReclamationInv
<1> SUFFICES ASSUME ReclamationInit
             PROVE  ReclamationInv
  OBVIOUS
<1> USE DEF ReclamationInit
<1>1. NoCoverage \in Coverage
  BY DEF NoCoverage, Coverage
<1>2. ReclamationTypeOK
  BY <1>1, ReclamationAssumption DEF ReclamationTypeOK, EpochDescriptor
<1>3. ReclaimedIsHeldByAll
  <2>1. \A d \in Device : held[d] = NoCoverage /\ installed[d] = NoCoverage
    OBVIOUS
  <2>2. descriptor.members \subseteq Device
    BY <1>2 DEF ReclamationTypeOK, EpochDescriptor
  <2> QED  BY <1>1, <2>1, <2>2, CoversIsAnOrder DEF ReclaimedIsHeldByAll
<1> QED  BY <1>2, <1>3 DEF ReclamationInv, EvidenceIsHeld, CertificateIsHeld

\* A step after which every producer holds at least what it held, and that
\* leaves descriptors, evidence and reclaimed cutoffs alone.
LEMMA HeldMayGrow ==
    ASSUME ReclamationInv, held' \in [Device -> Coverage],
           \A d \in Device : Covers(held'[d], held[d]),
           UNCHANGED <<descriptor, evidence, certificate, installed>>,
           candidate' # NoCheckpoint => candidate' \in Checkpoint
    PROVE  ReclamationInv'
<1>1. /\ descriptor.members \subseteq Device
      /\ \A d \in Device : held[d] \in Coverage /\ held'[d] \in Coverage /\ installed[d] \in Coverage
  BY DEF ReclamationInv, ReclamationTypeOK, EpochDescriptor
<1>2. \A d \in Device, c \in Coverage : Covers(held[d], c) => Covers(held'[d], c)
  BY <1>1, CoversIsAnOrder
<1>3. \A e \in evidence : e.member \in Device /\ e.operation \in Coverage
  BY DEF ReclamationInv, ReclamationTypeOK, Evidence
<1>4. ReclamationTypeOK'
  BY DEF ReclamationInv, ReclamationTypeOK
<1>5. EvidenceIsHeld'
  BY <1>2, <1>3 DEF ReclamationInv, EvidenceIsHeld, Covers
<1>6. CertificateIsHeld'
  <2> SUFFICES ASSUME certificate # NoCheckpoint
               PROVE  /\ certificate.descriptor.epoch <= descriptor.epoch
                      /\ certificate.descriptor = descriptor =>
                            \A m \in descriptor.members : Covers(held'[m], certificate.frontier)
    BY DEF CertificateIsHeld, Covers
  <2>1. certificate.frontier \in Coverage
    BY DEF ReclamationInv, ReclamationTypeOK, Checkpoint
  <2> QED  BY <1>1, <1>2, <2>1 DEF ReclamationInv, CertificateIsHeld
<1>7. ReclaimedIsHeldByAll'
  BY <1>1, <1>2 DEF ReclamationInv, ReclaimedIsHeldByAll, Covers
<1> QED  BY <1>4, <1>5, <1>6, <1>7 DEF ReclamationInv

\* A member's own operation, or one it integrates: one counter moves up.
LEMMA HoldingGrows ==
    ASSUME ReclamationInv, NEW d \in Device, Edit(d) \/ Receive(d)
    PROVE  ReclamationInv'
<1>1. PICK s \in Stream, a \in Device : held' = [held EXCEPT ![d][s][a] = @ + 1]
  BY DEF Edit, Receive
<1>2. UNCHANGED <<descriptor, evidence, candidate, certificate, installed>>
  BY DEF Edit, Receive
<1>3. held \in [Device -> Coverage] /\ held[d] \in Coverage
  BY DEF ReclamationInv, ReclamationTypeOK
<1> DEFINE c == [held[d] EXCEPT ![s][a] = @ + 1]
<1>4. c \in Coverage /\ Covers(c, held[d])
  BY <1>3 DEF Coverage, Covers
<1>5. held' = [held EXCEPT ![d] = c]
  BY <1>1
<1> HIDE DEF c
<1>6. held' \in [Device -> Coverage] /\ \A x \in Device : Covers(held'[x], held[x])
  BY <1>3, <1>4, <1>5, CoversIsAnOrder
<1> QED  BY <1>2, <1>6, HeldMayGrow DEF ReclamationInv, ReclamationTypeOK

\* The history and retention steps, and a restart, touch nothing that a
\* certificate is built from.
LEMMA HistoryStepsAreApart ==
    ASSUME ReclamationInv, NEW d \in Device,
           TrimGroup(d) \/ Publish(d) \/ AcknowledgeRetirements(d) \/ Restart(d)
    PROVE  ReclamationInv'
<1>1. UNCHANGED <<descriptor, held, evidence, candidate, certificate, installed>>
  BY DEF TrimGroup, Publish, AcknowledgeRetirements, Restart
<1> QED  BY <1>1 DEF ReclamationInv, ReclamationTypeOK, EvidenceIsHeld, CertificateIsHeld,
                    ReclaimedIsHeldByAll, Covers

\* A candidate is a checkpoint of the present descriptor.
LEMMA OfferIsSafe ==
    ASSUME ReclamationInv, NEW d \in Device, OfferCheckpoint(d)
    PROVE  ReclamationInv'
<1>1. UNCHANGED <<descriptor, held, evidence, certificate, installed>>
  BY DEF OfferCheckpoint
<1>2. candidate' \in Checkpoint
  BY DEF OfferCheckpoint, Checkpoint, ReclamationInv, ReclamationTypeOK
<1> QED  BY <1>1, <1>2 DEF ReclamationInv, ReclamationTypeOK, EvidenceIsHeld, CertificateIsHeld,
                         ReclaimedIsHeldByAll, Covers

\* CoverageStore::publish records what the member holds.
LEMMA EvidenceIsSafe ==
    ASSUME ReclamationInv, NEW d \in Device, PublishEvidence(d)
    PROVE  ReclamationInv'
<1> DEFINE e == [member |-> d, descriptor |-> descriptor, checkpoint |-> candidate, operation |-> held[d]]
<1>1. /\ UNCHANGED <<descriptor, held, candidate, certificate, installed>>
      /\ evidence' = evidence \cup {e} /\ d \in descriptor.members /\ candidate # NoCheckpoint
  BY DEF PublishEvidence, MayPublishEvidence
<1>2. e \in Evidence /\ e.member = d /\ e.operation = held[d] /\ held[d] \in Coverage
  BY <1>1 DEF Evidence, ReclamationInv, ReclamationTypeOK
<1> HIDE DEF e
<1>3. e.member \in descriptor.producers /\ Covers(held[e.member], e.operation)
  BY <1>1, <1>2, CoversIsAnOrder DEF ReclamationInv, ReclamationTypeOK
<1>4. EvidenceIsHeld'
  BY <1>1, <1>3 DEF ReclamationInv, EvidenceIsHeld, Covers
<1>5. ReclamationTypeOK'
  BY <1>1, <1>2 DEF ReclamationInv, ReclamationTypeOK
<1> QED  BY <1>1, <1>4, <1>5 DEF ReclamationInv, CertificateIsHeld, ReclaimedIsHeldByAll, Covers

\* certify_common_coverage: every member has a record, the frontier is below
\* each of them, and each of them below what its member holds.
LEMMA CertifyIsSafe ==
    ASSUME ReclamationInv, Certify
    PROVE  ReclamationInv'
<1> DEFINE records == CurrentEvidence(candidate)
           frontier == CommonFrontier(records)
<1>1. /\ UNCHANGED <<descriptor, held, candidate, evidence, installed>>
      /\ {e.member : e \in records} = descriptor.members
      /\ certificate' = [descriptor |-> descriptor, frontier |-> frontier]
  BY DEF Certify
<1>2. records \in SUBSET Evidence /\ records \subseteq evidence
  BY DEF CurrentEvidence, ReclamationInv, ReclamationTypeOK
<1> HIDE DEF records
<1>3. CASE records = {}
  <2>1. descriptor.members = {}
    BY <1>1, <1>3
  <2>2. descriptor.members # {}
    BY DEF ReclamationInv, ReclamationTypeOK
  <2> QED  BY <2>1, <2>2
<1>4. CASE records # {}
  <2>1. frontier \in Coverage /\ \A e \in records : Covers(e.operation, frontier)
    BY <1>2, <1>4, CommonFrontierIsCommon
  <2> HIDE DEF frontier
  <2>2. ASSUME NEW m \in descriptor.members
        PROVE  Covers(held[m], frontier)
    <3>1. PICK e \in records : e.member = m
      BY <1>1
    <3>2. Covers(held[m], e.operation) /\ Covers(e.operation, frontier)
      BY <1>2, <2>1, <3>1 DEF ReclamationInv, EvidenceIsHeld
    <3>3. held[m] \in Coverage /\ e.operation \in Coverage
      BY <1>2, <3>1 DEF Evidence, ReclamationInv, ReclamationTypeOK, EpochDescriptor
    <3> QED  BY <2>1, <3>2, <3>3, CoversIsAnOrder
  <2>3. certificate' \in Checkpoint /\ certificate'.descriptor = descriptor /\ certificate'.frontier = frontier
    BY <1>1, <2>1 DEF Checkpoint, ReclamationInv, ReclamationTypeOK
  <2>4. CertificateIsHeld'
    BY <1>1, <2>2, <2>3 DEF CertificateIsHeld, Covers, Checkpoint, EpochDescriptor
  <2>5. ReclamationTypeOK'
    BY <1>1, <2>3 DEF ReclamationInv, ReclamationTypeOK
  <2> QED  BY <1>1, <2>4, <2>5 DEF ReclamationInv, EvidenceIsHeld, ReclaimedIsHeldByAll, Covers
<1> QED  BY <1>3, <1>4

\* install_reclamation_frontier: the certificate is for the present descriptor.
LEMMA InstallIsSafe ==
    ASSUME ReclamationInv, NEW d \in Device, Install(d)
    PROVE  ReclamationInv'
<1>1. /\ UNCHANGED <<descriptor, held, candidate, evidence, certificate>>
      /\ certificate # NoCheckpoint /\ certificate.descriptor = descriptor
      /\ installed' = [installed EXCEPT ![d] = certificate.frontier]
  BY DEF Install
<1>2. certificate.frontier \in Coverage /\ \A m \in descriptor.members : Covers(held[m], certificate.frontier)
  BY <1>1 DEF ReclamationInv, ReclamationTypeOK, CertificateIsHeld, Checkpoint
<1>3. ReclamationTypeOK'
  BY <1>1, <1>2 DEF ReclamationInv, ReclamationTypeOK
<1>4. ReclaimedIsHeldByAll'
  <2> SUFFICES ASSUME NEW x \in Device, NEW m \in descriptor.members
               PROVE  Covers(held[m], installed'[x])
    BY <1>1 DEF ReclaimedIsHeldByAll, Covers
  <2>1. installed'[x] = IF x = d THEN certificate.frontier ELSE installed[x]
    BY <1>1 DEF ReclamationInv, ReclamationTypeOK
  <2> QED  BY <1>2, <2>1 DEF ReclamationInv, ReclaimedIsHeldByAll
<1> QED  BY <1>1, <1>3, <1>4 DEF ReclamationInv, EvidenceIsHeld, CertificateIsHeld, Covers

\* A new epoch: no certificate is for it yet; a device that joins was no
\* producer, so nobody's evidence is its own, and it holds what a member holds.
LEMMA ChangeEpochIsSafe ==
    ASSUME ReclamationInv, ChangeEpoch
    PROVE  ReclamationInv'
<1>1. PICK p \in descriptor.members, d \in descriptor.members \cup (Device \ descriptor.producers) :
          /\ d \in descriptor.members => p # d
          /\ descriptor' = [epoch |-> descriptor.epoch + 1, base |-> held[p],
                            members |-> IF d \in descriptor.members THEN descriptor.members \ {d}
                                                                    ELSE descriptor.members \cup {d},
                            producers |-> descriptor.producers \cup {d}]
          /\ held' = IF d \in descriptor.members THEN held ELSE [held EXCEPT ![d] = held[p]]
  BY DEF ChangeEpoch
<1>2. UNCHANGED <<candidate, evidence, certificate, installed>>
  BY DEF ChangeEpoch
<1>3. /\ descriptor \in EpochDescriptor /\ descriptor.members \subseteq descriptor.producers
      /\ descriptor.producers \subseteq Device /\ descriptor.epoch \in Nat
      /\ p \in Device /\ d \in Device /\ held \in [Device -> Coverage]
  BY DEF ReclamationInv, ReclamationTypeOK, EpochDescriptor
<1>4. /\ descriptor'.epoch = descriptor.epoch + 1 /\ descriptor'.base = held[p]
      /\ descriptor'.producers = descriptor.producers \cup {d}
      /\ p \in descriptor'.members /\ descriptor'.members \subseteq descriptor.members \cup {d}
      /\ d \in descriptor.members => d \notin descriptor'.members
  BY <1>1
<1>5. descriptor' \in EpochDescriptor
  <2> DEFINE members == IF d \in descriptor.members THEN descriptor.members \ {d}
                                                    ELSE descriptor.members \cup {d}
  <2>1. members \in SUBSET Device /\ held[p] \in Coverage
    BY <1>3
  <2>2. descriptor' = [epoch |-> descriptor.epoch + 1, base |-> held[p], members |-> members,
                       producers |-> descriptor.producers \cup {d}]
    BY <1>1
  <2> HIDE DEF members
  <2> QED  BY <1>3, <2>1, <2>2 DEF EpochDescriptor
<1>6. /\ held' \in [Device -> Coverage]
      /\ \A x \in descriptor.producers : held'[x] = held[x]
      /\ d \notin descriptor.members => held'[d] = held[p]
  BY <1>1, <1>3
<1>7. ReclamationTypeOK'
  BY <1>2, <1>3, <1>4, <1>5, <1>6 DEF ReclamationInv, ReclamationTypeOK
<1>8. EvidenceIsHeld'
  <2> SUFFICES ASSUME NEW e \in evidence
               PROVE  e.member \in descriptor'.producers /\ Covers(held'[e.member], e.operation)
    BY <1>2 DEF EvidenceIsHeld, Covers
  <2>1. e.member \in descriptor.producers /\ Covers(held[e.member], e.operation)
    BY DEF ReclamationInv, EvidenceIsHeld
  <2> QED  BY <2>1, <1>4, <1>6
<1>9. CertificateIsHeld'
  <2> SUFFICES ASSUME certificate # NoCheckpoint
               PROVE  /\ certificate.descriptor.epoch <= descriptor'.epoch
                      /\ certificate.descriptor # descriptor'
    BY <1>2 DEF CertificateIsHeld
  <2>1. certificate.descriptor.epoch <= descriptor.epoch /\ certificate.descriptor.epoch \in Nat
    BY DEF ReclamationInv, ReclamationTypeOK, CertificateIsHeld, Checkpoint, EpochDescriptor
  <2> QED  BY <2>1, <1>3, <1>4
<1>10. ReclaimedIsHeldByAll'
  <2> SUFFICES ASSUME NEW x \in Device, NEW m \in descriptor'.members
               PROVE  Covers(held'[m], installed[x])
    BY <1>2 DEF ReclaimedIsHeldByAll, Covers
  <2>1. CASE m \in descriptor.members
    BY <2>1, <1>3, <1>6 DEF ReclamationInv, ReclaimedIsHeldByAll
  <2>2. CASE m \notin descriptor.members
    <3>1. m = d /\ held'[m] = held[p]
      BY <2>2, <1>4, <1>6
    <3> QED  BY <3>1 DEF ReclamationInv, ReclaimedIsHeldByAll
  <2> QED  BY <2>1, <2>2
<1> QED  BY <1>7, <1>8, <1>9, <1>10 DEF ReclamationInv

-----------------------------------------------------------------------------
(* Theorems *)

\* In every reachable state of the members' stores, evidence and certificates
\* are below what the members hold.
THEOREM ReclamationInvariance == ReclamationSpec => []ReclamationInv
<1>1. ReclamationInit => ReclamationInv
  BY ReclamationStarts
<1>2. ReclamationInv /\ [ReclamationNext]_reclamationVars => ReclamationInv'
  <2> SUFFICES ASSUME ReclamationInv, [ReclamationNext]_reclamationVars
               PROVE  ReclamationInv'
    OBVIOUS
  <2>1. ASSUME NEW d \in Device, DeviceStep(d)
        PROVE  ReclamationInv'
    BY <2>1, HoldingGrows, HistoryStepsAreApart, OfferIsSafe, EvidenceIsSafe, InstallIsSafe DEF DeviceStep
  <2>2. CASE Certify
    BY <2>2, CertifyIsSafe
  <2>3. CASE ChangeEpoch
    BY <2>3, ChangeEpochIsSafe
  <2>4. CASE UNCHANGED reclamationVars
    BY <2>4 DEF reclamationVars, ReclamationInv, ReclamationTypeOK, EvidenceIsHeld, CertificateIsHeld,
                ReclaimedIsHeldByAll, Covers
  <2> QED  BY <2>1, <2>2, <2>3, <2>4 DEF ReclamationNext
<1> QED  BY <1>1, <1>2, PTL DEF ReclamationSpec

\* Every member of the present epoch holds all that any device has reclaimed,
\* over retirements, enrollments and evidence published at different times.
THEOREM ReclaimsOnlyWhatAllHold == ReclamationSpec => []ReclaimedIsHeldByAll
<1>1. ReclamationInv => ReclaimedIsHeldByAll
  BY DEF ReclamationInv
<1> QED  BY <1>1, ReclamationInvariance, PTL

-----------------------------------------------------------------------------
(* The retention journal *)

Appending == INSTANCE FoldTheorems WITH Op <- AppendRetirement
Streaming == INSTANCE FoldTheorems WITH Op <- PublishStream

GroupRecord == [stream : Stream, n : 1..MaxCounter]
LineRecord == [seq : Nat \ {0}, stream : Stream, n : 1..MaxCounter] \cup {Garbage}
History == [live : SUBSET GroupRecord, retired : SUBSET GroupRecord]
RetentionRecord ==
    [file : JournalOf(LineRecord), seq : Nat, retired : SUBSET GroupRecord, up : BOOLEAN]
ResultCode == {"ok", "commit_uncertain", "io_error"}
PublicationRecord ==
    [state : RetentionRecord, batch : SUBSET GroupRecord, at : Nat, fault : AppendFaults,
     io : Nat, code : ResultCode]

\* The groups a retention state knows as retired, or would if it read its file.
Journaled(state) == state.retired \cup GroupsIn(state.file.lines)

\* The groups of a record, and of a broken line.
LEMMA GroupsOfLines ==
    ASSUME NEW lines \in Seq(LineRecord)
    PROVE  /\ GroupsIn(lines) \subseteq GroupRecord
           /\ GroupsIn(Append(lines, Garbage)) = GroupsIn(lines)
           /\ \A r \in LineRecord : r.seq # 0 =>
                GroupsIn(Append(lines, r)) = GroupsIn(lines) \cup {Group(r.stream, r.n)}
           /\ \A n \in 0..Len(lines) :
                /\ GroupsIn(SubSeq(lines, 1, n)) \subseteq GroupsIn(lines)
                /\ \A k \in 0..n : GroupsIn(SubSeq(lines, 1, k)) \subseteq GroupsIn(SubSeq(lines, 1, n))
<1>1. \A s \in Seq(LineRecord) :
        GroupsIn(s) = {Group(s[i].stream, s[i].n) : i \in {j \in 1..Len(s) : s[j].seq # 0}}
  BY DEF GroupsIn, Range
<1>2. \A i \in 1..Len(lines) : lines[i] \in LineRecord
  OBVIOUS
<1>3. GroupsIn(lines) \subseteq GroupRecord
  <2> SUFFICES ASSUME NEW i \in 1..Len(lines), lines[i].seq # 0
               PROVE  Group(lines[i].stream, lines[i].n) \in GroupRecord
    BY <1>1
  <2>1. lines[i] \in [seq : Nat \ {0}, stream : Stream, n : 1..MaxCounter]
    BY <1>2 DEF LineRecord, Garbage
  <2> QED  BY <2>1 DEF Group, GroupRecord
<1>4. ASSUME NEW r \in LineRecord
      PROVE  /\ r.seq = 0 => GroupsIn(Append(lines, r)) = GroupsIn(lines)
             /\ r.seq # 0 => GroupsIn(Append(lines, r)) = GroupsIn(lines) \cup {Group(r.stream, r.n)}
  <2> DEFINE s == Append(lines, r)
  <2>1. /\ s \in Seq(LineRecord) /\ Len(lines) \in Nat /\ Len(s) = Len(lines) + 1 /\ s[Len(lines) + 1] = r
        /\ \A i \in 1..Len(lines) : s[i] = lines[i]
    OBVIOUS
  <2> HIDE DEF s
  <2>2. \A i \in 1..Len(s) : i \in 1..Len(lines) \/ i = Len(lines) + 1
    BY <2>1
  <2>3. GroupsIn(lines) \subseteq GroupsIn(s)
    <3>1. \A i \in 1..Len(lines) : i \in 1..Len(s)
      BY <2>1
    <3> QED  BY <1>1, <2>1, <3>1
  <2>4. ASSUME NEW g \in GroupsIn(s) PROVE g \in GroupsIn(lines) \/ (r.seq # 0 /\ g = Group(r.stream, r.n))
    <3>1. PICK i \in 1..Len(s) : s[i].seq # 0 /\ g = Group(s[i].stream, s[i].n)
      BY <1>1, <2>1
    <3> QED  BY <1>1, <2>1, <2>2, <3>1
  <2>5. r.seq # 0 => Group(r.stream, r.n) \in GroupsIn(s)
    <3>1. Len(lines) + 1 \in 1..Len(s)
      BY <2>1
    <3> QED  BY <1>1, <2>1, <3>1
  <2> QED  BY <2>3, <2>4, <2>5 DEF s
<1>5. ASSUME NEW n \in 0..Len(lines), NEW k \in 0..n
      PROVE  GroupsIn(SubSeq(lines, 1, k)) \subseteq GroupsIn(SubSeq(lines, 1, n))
  <2>1. /\ SubSeq(lines, 1, n) \in Seq(LineRecord) /\ Len(SubSeq(lines, 1, n)) = n
        /\ \A i \in 1..n : SubSeq(lines, 1, n)[i] = lines[i]
        /\ SubSeq(lines, 1, k) \in Seq(LineRecord) /\ Len(SubSeq(lines, 1, k)) = k
        /\ \A i \in 1..k : i \in 1..n /\ SubSeq(lines, 1, k)[i] = lines[i]
    OBVIOUS
  <2> DEFINE t == SubSeq(lines, 1, n)
             u == SubSeq(lines, 1, k)
  <2>2. \A i \in 1..Len(u) : i \in 1..Len(t) /\ u[i] = t[i]
    BY <2>1
  <2>3. u \in Seq(LineRecord) /\ t \in Seq(LineRecord)
    BY <2>1
  <2> HIDE DEF t, u
  <2>4. GroupsIn(u) \subseteq GroupsIn(t)
    BY <1>1, <2>2, <2>3
  <2> QED  BY <2>4 DEF t, u
<1>6. SubSeq(lines, 1, Len(lines)) = lines /\ Len(lines) \in 0..Len(lines)
  OBVIOUS
<1>7. Garbage \in LineRecord /\ Garbage.seq = 0
  BY DEF LineRecord, Garbage
<1> QED  BY <1>3, <1>4, <1>5, <1>6, <1>7

\* recover() reads a prefix of the lines, however many of them are good.
LEMMA RecoveredPrefix ==
    ASSUME NEW f \in JournalOf(LineRecord)
    PROVE  /\ Recovered(f) \in RetentionRecord /\ Recovered(f).file = f
           /\ Recovered(f).retired \subseteq GroupsIn(f.lines)
           /\ Recovered(f).up = Readable(f)
<1> DEFINE cut(i) == [f EXCEPT !.lines = SubSeq(@, 1, i), !.torn = FALSE]
           good == {i \in 0..Len(f.lines) : Readable(cut(i))}
           n == CHOOSE i \in good : \A k \in good : k <= i
           bad == {i \in 1..Len(f.lines) : f.lines[i].seq # i} \cup {Len(f.lines) + 1}
<1>1. f.lines \in Seq(LineRecord) /\ Len(f.lines) \in Nat
  BY DEF JournalOf
<1>2. ASSUME NEW i \in 0..Len(f.lines)
      PROVE  Readable(cut(i)) <=> \A j \in 1..i : f.lines[j].seq = j
  <2>1. /\ Len(SubSeq(f.lines, 1, i)) = i
        /\ \A j \in 1..i : SubSeq(f.lines, 1, i)[j] = f.lines[j]
    BY <1>1
  <2>2. cut(i).lines = SubSeq(f.lines, 1, i) /\ cut(i).torn = FALSE
    BY DEF JournalOf
  <2> HIDE DEF cut
  <2> QED  BY <2>1, <2>2 DEF Readable
<1> HIDE DEF cut
<1>3. bad \in SUBSET Nat /\ bad # {}
  BY <1>1
<1>4. PICK b \in bad : \A k \in bad : b <= k
  <2> HIDE DEF bad
  <2> QED  BY <1>3, LeastCounter
<1>5. b \in 1..Len(f.lines) + 1 /\ \A k \in 1..Len(f.lines) : k < b => f.lines[k].seq = k
  BY <1>1, <1>4
<1>6. b \in 1..Len(f.lines) => f.lines[b].seq # b
  BY <1>1, <1>4
<1>7. b - 1 \in good
  <2>1. b - 1 \in 0..Len(f.lines) /\ \A j \in 1..b - 1 : j \in 1..Len(f.lines) /\ j < b
    BY <1>1, <1>5
  <2> QED  BY <1>2, <1>5, <2>1
<1>8. \A k \in good : k <= b - 1
  <2> SUFFICES ASSUME NEW k \in good, ~(k <= b - 1) PROVE FALSE
    OBVIOUS
  <2>1. k \in 0..Len(f.lines) /\ \A j \in 1..k : f.lines[j].seq = j
    BY <1>2
  <2>2. b \in 1..k /\ b \in 1..Len(f.lines)
    BY <1>1, <1>5, <2>1
  <2> QED  BY <1>6, <2>1, <2>2
<1> HIDE DEF bad
<1>9. n \in good
  <2> HIDE DEF good
  <2> QED  BY <1>7, <1>8
<1>10. n \in 0..Len(f.lines)
  BY <1>9
<1>11. Recovered(f) = [file |-> f, retired |-> GroupsIn(SubSeq(f.lines, 1, n)),
                       seq |-> IF Readable(f) THEN n ELSE 0, up |-> Readable(f)]
  BY DEF Recovered, cut
<1> HIDE DEF n, good
<1>12. GroupsIn(SubSeq(f.lines, 1, n)) \subseteq GroupsIn(f.lines) /\ GroupsIn(f.lines) \subseteq GroupRecord
  BY <1>1, <1>10, GroupsOfLines
<1>13. Readable(f) \in BOOLEAN
  BY DEF Readable
<1> HIDE DEF Readable
<1>14. (IF Readable(f) THEN n ELSE 0) \in Nat
  BY <1>1, <1>10
<1> QED  BY <1>11, <1>12, <1>13, <1>14 DEF RetentionRecord

\* A sync moves no line.
LEMMA SyncMovesNoLine ==
    ASSUME NEW f \in JournalOf(LineRecord), NEW fault \in SyncFaults
    PROVE  SyncedJournal(f, fault) \in JournalOf(LineRecord) /\ SyncedJournal(f, fault).lines = f.lines
<1>1. Len(f.lines) \in Nat
  BY DEF JournalOf
<1> QED  BY <1>1 DEF SyncedJournal, JournalOf, SyncFaults

\* A journal and the record an append offers it: the line is there, broken, or
\* not at all.
LEMMA AppendTakes ==
    ASSUME NEW f \in JournalOf(LineRecord), NEW r \in LineRecord, NEW fault \in AppendFaults
    PROVE  LET g == AppendedJournal(f, r, fault)
           IN /\ g \in JournalOf(LineRecord)
              /\ g.lines \in {f.lines, Append(f.lines, r), Append(f.lines, Garbage)}
<1>1. f.lines \in Seq(LineRecord) /\ Len(f.lines) \in Nat /\ Garbage \in LineRecord
  BY DEF JournalOf, LineRecord
<1>2. CASE fault = "write"
  BY <1>2 DEF AppendedJournal
<1>3. CASE fault = "torn"
  <2>1. AppendedJournal(f, r, fault) = [f EXCEPT !.torn = TRUE]
    BY <1>3 DEF AppendedJournal
  <2> QED  BY <2>1 DEF JournalOf
<1>4. CASE fault \in SyncFaults
  <2> DEFINE w == Written(f, r)
             line == IF f.torn THEN Garbage ELSE r
  <2>1. AppendedJournal(f, r, fault) = SyncedJournal(w, fault)
    BY <1>4 DEF AppendedJournal, SyncFaults
  <2>2. w = [f EXCEPT !.lines = Append(@, line), !.torn = FALSE]
    BY DEF Written
  <2>3. line \in LineRecord
    BY <1>1
  <2>4. Append(f.lines, line) \in {Append(f.lines, r), Append(f.lines, Garbage)}
    OBVIOUS
  <2> HIDE DEF line, w
  <2>5. Append(f.lines, line) \in Seq(LineRecord)
    BY <1>1, <2>3
  <2>6. w \in JournalOf(LineRecord) /\ w.lines = Append(f.lines, line)
    BY <2>2, <2>5 DEF JournalOf
  <2>7. SyncedJournal(w, fault) \in JournalOf(LineRecord) /\ SyncedJournal(w, fault).lines = w.lines
    BY <2>6, <1>4, SyncMovesNoLine
  <2> QED  BY <2>1, <2>4, <2>6, <2>7
<1> QED  BY <1>2, <1>3, <1>4 DEF AppendFaults, SyncFaults

\* The error of a step says which fault it met.
LEMMA ErrorTells ==
    ASSUME NEW fault \in AppendFaults
    PROVE  /\ JournalError(fault) \in ResultCode
           /\ JournalError(fault) = "ok" <=> fault = "none"
  BY DEF JournalError, AppendFaults, ResultCode

\* What a publication of the batch may make of the retention state s.
Taking(s, batch) ==
    {run \in PublicationRecord : run.batch = batch /\ Journaled(run.state) \subseteq Journaled(s) \cup batch}

\* The fault of this I/O step is one there is.
LEMMA MetIsFault ==
    ASSUME NEW run \in PublicationRecord
    PROVE  Met(run) \in AppendFaults /\ Met(run) \in {"none", run.fault}
  BY DEF Met, PublicationRecord, AppendFaults

Stepped(run, state, code) == [run EXCEPT !.state = state, !.io = @ + 1, !.code = code]
Added(s, file, id) == [s EXCEPT !.file = file, !.seq = @ + 1, !.retired = @ \cup {id}]

\* A step of a publication gives it another state, and a result.
LEMMA PublicationSteps ==
    ASSUME NEW run \in PublicationRecord, NEW state \in RetentionRecord,
           NEW code \in ResultCode
    PROVE  LET after == Stepped(run, state, code)
           IN /\ after \in PublicationRecord /\ after.state = state /\ after.code = code
              /\ after.batch = run.batch /\ after.fault = run.fault
<1>1. run.io + 1 \in Nat
  BY DEF PublicationRecord
<1> QED  BY <1>1 DEF PublicationRecord, Stepped

\* A record added to what a retention state knows.
LEMMA RetentionAdds ==
    ASSUME NEW s \in RetentionRecord, NEW file \in JournalOf(LineRecord), NEW id \in GroupRecord
    PROVE  LET added == Added(s, file, id)
           IN /\ added \in RetentionRecord /\ added.file = file /\ added.seq = s.seq + 1
              /\ added.retired = s.retired \cup {id} /\ added.up = s.up
<1>1. s.seq + 1 \in Nat /\ s.retired \cup {id} \in SUBSET GroupRecord
  BY DEF RetentionRecord
<1> QED  BY <1>1 DEF RetentionRecord, Added

\* The folds of the model are those of FoldTheorems.
LEMMA RetentionFolds ==
    ASSUME NEW base, NEW t
    PROVE  /\ FoldLeft(AppendRetirement, base, t) = Appending!Fold(base, t)
           /\ FoldLeft(PublishStream, base, t) = Streaming!Fold(base, t)
<1>1. FoldLeft(AppendRetirement, base, t) = Appending!Fold(base, t)
  BY DEF FoldLeft, MapThenFoldSet, Max, Appending!Fold, Appending!FoldLeft, Appending!MapThenFoldSet, Appending!Max
<1>2. FoldLeft(PublishStream, base, t) = Streaming!Fold(base, t)
  BY DEF FoldLeft, MapThenFoldSet, Max, Streaming!Fold, Streaming!FoldLeft, Streaming!MapThenFoldSet, Streaming!Max
<1> QED  BY <1>1, <1>2

\* append_retirements for one group adds this group at most.
LEMMA AppendTaking ==
    ASSUME NEW s, NEW batch, NEW run \in Taking(s, batch), NEW id \in GroupRecord
    PROVE  AppendRetirement(run, id) \in Taking(s, batch)
<1> DEFINE met == Met(run)
           record == [seq |-> run.state.seq + 1, stream |-> id.stream, n |-> id.n]
           file == AppendedJournal(run.state.file, record, met)
           added == Added(run.state, file, id)
           again == [Recovered(file) EXCEPT !.up = run.state.up]
           state == IF met = "none" THEN added ELSE again
           after == Stepped(run, state, JournalError(met))
<1>1. /\ run \in PublicationRecord /\ run.batch = batch /\ Journaled(run.state) \subseteq Journaled(s) \cup batch
      /\ run.state \in RetentionRecord
  BY DEF Taking, PublicationRecord
<1>2. CASE run.code # "ok" \/ id \notin run.batch \ run.state.retired
  BY <1>2 DEF AppendRetirement
<1>3. CASE ~(run.code # "ok" \/ id \notin run.batch \ run.state.retired)
  <2>1. AppendRetirement(run, id) = after
    BY <1>3 DEF AppendRetirement, Stepped, Added
  <2>2. /\ run.state.file \in JournalOf(LineRecord) /\ run.state.seq \in Nat
        /\ run.state.retired \in SUBSET GroupRecord /\ run.state.up \in BOOLEAN
    BY <1>1 DEF RetentionRecord
  <2>3. record \in LineRecord /\ record.seq # 0 /\ Group(record.stream, record.n) = id
    BY <2>2 DEF LineRecord, GroupRecord, Group
  <2>4. met \in AppendFaults
    BY <1>1, MetIsFault
  <2>5. run.state.file.lines \in Seq(LineRecord)
    BY <2>2 DEF JournalOf
  <2> HIDE DEF met, record
  <2>6. /\ file \in JournalOf(LineRecord)
        /\ file.lines \in {run.state.file.lines, Append(run.state.file.lines, record),
                           Append(run.state.file.lines, Garbage)}
    BY <2>2, <2>3, <2>4, AppendTakes
  <2> HIDE DEF file
  <2>7. GroupsIn(file.lines) \subseteq GroupsIn(run.state.file.lines) \cup {id}
    <3> DEFINE lines == run.state.file.lines
    <3>1. lines \in Seq(LineRecord)
      BY <2>5
    <3> HIDE DEF lines
    <3>2. GroupsIn(Append(lines, Garbage)) = GroupsIn(lines)
      BY <3>1, GroupsOfLines
    <3>3. GroupsIn(Append(lines, record)) = GroupsIn(lines) \cup {id}
      BY <2>3, <3>1, GroupsOfLines
    <3>4. file.lines \in {lines, Append(lines, record), Append(lines, Garbage)}
      BY <2>6 DEF lines
    <3> QED  BY <3>2, <3>3, <3>4 DEF lines
  <2>8. added \in RetentionRecord /\ added.file = file /\ added.retired = run.state.retired \cup {id}
    BY <1>1, <2>6, RetentionAdds
  <2>9. again \in RetentionRecord /\ again.file = file /\ again.retired \subseteq GroupsIn(file.lines)
    <3>1. /\ Recovered(file) \in RetentionRecord /\ Recovered(file).file = file
          /\ Recovered(file).retired \subseteq GroupsIn(file.lines)
      BY <2>6, RecoveredPrefix
    <3> QED  BY <2>2, <3>1 DEF RetentionRecord
  <2> HIDE DEF added, again
  <2>10. state \in RetentionRecord /\ Journaled(state) \subseteq Journaled(run.state) \cup {id}
    BY <2>7, <2>8, <2>9 DEF Journaled
  <2>11. JournalError(met) \in ResultCode
    BY <2>4, ErrorTells
  <2> HIDE DEF state
  <2>12. after \in PublicationRecord /\ after.batch = batch /\ after.state = state
    BY <1>1, <2>10, <2>11, PublicationSteps
  <2>13. id \in batch
    BY <1>1, <1>3
  <2> HIDE DEF after
  <2> QED  BY <1>1, <2>1, <2>10, <2>12, <2>13 DEF Taking
<1> QED  BY <1>2, <1>3

\* The barrier adds nothing.
LEMMA BarrierTaking ==
    ASSUME NEW s, NEW batch, NEW run \in Taking(s, batch), NEW stream
    PROVE  Barrier(run, stream) \in Taking(s, batch)
<1> DEFINE met == IF Met(run) \in SyncFaults THEN Met(run) ELSE "none"
           file == SyncedJournal(run.state.file, met)
           state == [run.state EXCEPT !.file = file]
           after == Stepped(run, state, JournalError(met))
<1>1. /\ run \in PublicationRecord /\ run.batch = batch /\ Journaled(run.state) \subseteq Journaled(s) \cup batch
      /\ run.state \in RetentionRecord /\ run.state.file \in JournalOf(LineRecord)
  BY DEF Taking, PublicationRecord, RetentionRecord
<1>2. met \in SyncFaults /\ met \in AppendFaults
  BY DEF SyncFaults, AppendFaults
<1> HIDE DEF met
<1>3. file \in JournalOf(LineRecord) /\ file.lines = run.state.file.lines
  BY <1>1, <1>2, SyncMovesNoLine
<1> HIDE DEF file
<1>4. state \in RetentionRecord /\ Journaled(state) = Journaled(run.state)
  BY <1>1, <1>3 DEF RetentionRecord, Journaled
<1>5. JournalError(met) \in ResultCode
  BY <1>2, ErrorTells
<1> HIDE DEF state
<1>6. after \in PublicationRecord /\ after.batch = batch /\ after.state = state
  BY <1>1, <1>4, <1>5, PublicationSteps
<1> HIDE DEF after
<1>7. after \in Taking(s, batch)
  BY <1>1, <1>4, <1>6 DEF Taking
<1>8. Barrier(run, stream) \in {run, after}
  <2>1. after = [run EXCEPT !.state.file = SyncedJournal(@, met), !.io = @ + 1, !.code = JournalError(met)]
    BY DEF file, state, after, Stepped
  <2> QED  BY <2>1 DEF Barrier, met
<1> QED  BY <1>7, <1>8

\* publish_after_durable_trim adds groups of the batch at most, however it ends.
LEMMA PublishedTaking ==
    ASSUME NEW s \in RetentionRecord, NEW batch \in SUBSET GroupRecord, NEW at \in Nat,
           NEW fault \in AppendFaults
    PROVE  PublishedBatch(s, batch, at, fault) \in Taking(s, batch)
<1> DEFINE T == Taking(s, batch)
           start == Running(s, batch, at, fault)
<1>1. start \in T
  BY DEF Taking, Running, PublicationRecord, Journaled, ResultCode
<1> HIDE DEF T, start
<1>2. ASSUME NEW run \in T, NEW stream \in Stream
      PROVE  PublishStream(run, stream) \in T
  <2> DEFINE base == Barrier(run, stream)
             order == InOrder(stream)
  <2>1. base \in T
    BY <1>2, BarrierTaking DEF T
  <2>2. order \in Seq(GroupRecord) /\ \A i \in 1..Len(order) : order[i] \in GroupRecord
    <3>1. order \in Seq(GroupRecord)
      BY ReclamationAssumption DEF InOrder, Group, GroupRecord
    <3> HIDE DEF order
    <3> QED  BY <3>1
  <2> HIDE DEF base, order
  <2>3. \A a \in T, i \in 1..Len(order) : AppendRetirement(a, order[i]) \in T
    BY <2>2, AppendTaking DEF T
  <2>4. Appending!Fold(base, order) \in T
    BY <2>1, <2>2, <2>3, Appending!FoldStays
  <2>5. PublishStream(run, stream) = Appending!Fold(base, order)
    BY RetentionFolds DEF PublishStream, base, order
  <2> QED  BY <2>4, <2>5
<1>3. Streams \in Seq(Stream)
  BY ReclamationAssumption DEF Stream, Range
<1>4. \A a \in T, i \in 1..Len(Streams) : PublishStream(a, Streams[i]) \in T
  BY <1>2, <1>3
<1>5. Streaming!Fold(start, Streams) \in T
  BY <1>1, <1>3, <1>4, Streaming!FoldStays
<1>6. PublishedBatch(s, batch, at, fault) = Streaming!Fold(start, Streams)
  BY RetentionFolds DEF PublishedBatch, start
<1> QED  BY <1>5, <1>6 DEF T

-----------------------------------------------------------------------------
(* Nothing that was reclaimed can be undone *)

HistoryTypeOK ==
    /\ groups \in [Device -> History] /\ saved \in [Device -> History]
    /\ retention \in [Device -> RetentionRecord]
    /\ published \in [Device -> SUBSET GroupRecord] /\ acknowledged \in [Device -> SUBSET GroupRecord]

\* The groups device d can undo or redo, now or with the history it would
\* reopen with; and all the groups its stores name.
Undoable(d) == groups[d].live \cup saved[d].live
AllGroups(d) == Undoable(d) \cup groups[d].retired \cup saved[d].retired \cup Journaled(retention[d])

\* A group is in one place, the journal names none that can be undone, and all
\* are of operations the device, a producer, has made.
HistorySound(d) ==
    /\ groups[d].live \cap groups[d].retired = {} /\ saved[d].live \cap saved[d].retired = {}
    /\ Journaled(retention[d]) \cap Undoable(d) = {}
    /\ \A g \in AllGroups(d) : d \in descriptor.producers /\ g.n <= held[d][g.stream][d]

Above(d, f) == \A g \in Undoable(d) : g.n > f[g.stream][d]

InstalledIsBelow == \A d \in Device : \A a \in descriptor.members : Above(a, installed[d])

CertificateIsBelow ==
    certificate # NoCheckpoint /\ certificate.descriptor = descriptor =>
        \A a \in descriptor.members : Above(a, certificate.frontier)

UndoInv ==
    /\ ReclamationInv /\ HistoryTypeOK
    /\ \A d \in Device : HistorySound(d)
    /\ InstalledIsBelow /\ CertificateIsBelow

\* Every group a device's stores name is one of a stream of the document.
LEMMA RetainedGroups ==
    ASSUME UndoInv, NEW d \in Device
    PROVE  AllGroups(d) \subseteq GroupRecord
<1>1. /\ groups[d] \in History /\ saved[d] \in History /\ retention[d] \in RetentionRecord
  BY DEF UndoInv, HistoryTypeOK
<1>2. retention[d].file.lines \in Seq(LineRecord)
  BY <1>1 DEF RetentionRecord, JournalOf
<1>3. Journaled(retention[d]) \subseteq GroupRecord
  BY <1>1, <1>2, GroupsOfLines DEF Journaled, RetentionRecord
<1> QED  BY <1>1, <1>3 DEF AllGroups, Undoable, History

\* A step on one device's history that makes nothing undoable.
LEMMA HistoryShrinks ==
    ASSUME UndoInv, ReclamationInv', HistoryTypeOK', NEW d \in Device,
           UNCHANGED <<descriptor, held, certificate, installed>>,
           \A x \in Device \ {d} :
              groups'[x] = groups[x] /\ saved'[x] = saved[x] /\ retention'[x] = retention[x],
           Undoable(d)' \subseteq Undoable(d), HistorySound(d)'
    PROVE  UndoInv'
<1>1. \A x \in Device \ {d} : HistorySound(x)'
  <2> SUFFICES ASSUME NEW x \in Device \ {d} PROVE HistorySound(x)'
    OBVIOUS
  <2>1. HistorySound(x) /\ groups'[x] = groups[x] /\ saved'[x] = saved[x] /\ retention'[x] = retention[x]
    BY DEF UndoInv
  <2> QED  BY <2>1 DEF HistorySound, Undoable, AllGroups, Journaled
<1>2. \A x \in Device : Undoable(x)' \subseteq Undoable(x)
  BY DEF Undoable
<1>3. descriptor.members \subseteq Device
  BY DEF UndoInv, ReclamationInv, ReclamationTypeOK, EpochDescriptor
<1>4. InstalledIsBelow'
  BY <1>2, <1>3 DEF UndoInv, InstalledIsBelow, Above
<1>5. CertificateIsBelow'
  BY <1>2, <1>3 DEF UndoInv, CertificateIsBelow, Above
<1> QED  BY <1>1, <1>4, <1>5 DEF UndoInv

\* The history budget moves a group from the live ones to the retired ones.
LEMMA TrimKeepsUndoInv ==
    ASSUME UndoInv, NEW d \in Device, TrimGroup(d)
    PROVE  UndoInv'
<1>1. PICK g \in groups[d].live :
          groups' = [groups EXCEPT ![d].live = @ \ {g}, ![d].retired = @ \cup {g}]
  BY DEF TrimGroup
<1>2. /\ UNCHANGED <<descriptor, held, saved, retention, published, acknowledged, certificate, installed>>
      /\ ReclamationInv'
  BY HistoryStepsAreApart DEF TrimGroup, UndoInv
<1>3. groups \in [Device -> History] /\ groups[d] \in History
  BY DEF UndoInv, HistoryTypeOK
<1> DEFINE h == [live |-> groups[d].live \ {g}, retired |-> groups[d].retired \cup {g}]
<1>4. h \in History /\ h.live = groups[d].live \ {g} /\ h.retired = groups[d].retired \cup {g}
  BY <1>3 DEF History
<1>5. groups'[d] = h
  <2>1. groups'[d] = [groups[d] EXCEPT !.live = @ \ {g}, !.retired = @ \cup {g}]
    BY <1>1, <1>3
  <2> QED  BY <1>3, <2>1 DEF History
<1> HIDE DEF h
<1>6. groups' \in [Device -> History] /\ \A x \in Device \ {d} : groups'[x] = groups[x]
  <2>1. DOMAIN groups' = Device /\ \A x \in Device \ {d} : groups'[x] = groups[x]
    BY <1>1, <1>3
  <2>2. groups' = [x \in Device |-> groups'[x]]
    BY <1>1, <1>3
  <2> QED  BY <1>3, <1>4, <1>5, <2>1, <2>2
<1>7. HistoryTypeOK'
  BY <1>2, <1>6 DEF UndoInv, HistoryTypeOK
<1>8. HistorySound(d)
  BY DEF UndoInv
<1>9. HistorySound(d)'
  BY <1>2, <1>4, <1>5, <1>8 DEF HistorySound, Undoable, AllGroups, Journaled
<1>10. Undoable(d)' \subseteq Undoable(d)
  BY <1>2, <1>4, <1>5 DEF Undoable
<1> QED  BY <1>2, <1>6, <1>7, <1>9, <1>10, HistoryShrinks

\* publish_after_durable_trim: the saved history becomes the one in memory
\* before the journal names a group; a failed callback changes nothing.
LEMMA PublishKeepsUndoInv ==
    ASSUME UndoInv, NEW d \in Device, Publish(d)
    PROVE  UndoInv'
<1>1. PICK trimmed \in BOOLEAN, fault \in RetentionFaults \cup {"none"}, at \in 1..4 :
          LET run == PublishedBatch(retention[d], groups[d].retired, at, fault)
          IN /\ saved' = CommitTrim(d, trimmed)
             /\ retention' = IF trimmed THEN [retention EXCEPT ![d] = run.state] ELSE retention
             /\ published' = IF trimmed /\ run.code = "ok"
                             THEN [published EXCEPT ![d] = groups[d].retired] ELSE published
  BY DEF Publish
<1> DEFINE run == PublishedBatch(retention[d], groups[d].retired, at, fault)
<1>2. /\ UNCHANGED <<descriptor, held, groups, acknowledged, certificate, installed>>
      /\ ReclamationInv'
  BY HistoryStepsAreApart DEF Publish, UndoInv
<1>3. /\ groups \in [Device -> History] /\ groups[d] \in History /\ saved \in [Device -> History]
      /\ retention \in [Device -> RetentionRecord] /\ groups[d].retired \in SUBSET GroupRecord
      /\ published \in [Device -> SUBSET GroupRecord]
  BY DEF UndoInv, HistoryTypeOK, History
<1>4. fault \in AppendFaults /\ at \in Nat
  BY ReclamationAssumption DEF AppendFaults
<1>5. run \in Taking(retention[d], groups[d].retired)
  BY <1>3, <1>4, PublishedTaking
<1>6. /\ run.state \in RetentionRecord
      /\ Journaled(run.state) \subseteq Journaled(retention[d]) \cup groups[d].retired
  BY <1>5 DEF Taking, PublicationRecord
<1>7. /\ saved' = IF trimmed THEN [saved EXCEPT ![d] = groups[d]] ELSE saved
      /\ retention' = IF trimmed THEN [retention EXCEPT ![d] = run.state] ELSE retention
      /\ published' = IF trimmed /\ run.code = "ok"
                      THEN [published EXCEPT ![d] = groups[d].retired] ELSE published
  BY <1>1 DEF CommitTrim
<1> HIDE DEF run
<1>8. /\ saved' \in [Device -> History] /\ retention' \in [Device -> RetentionRecord]
      /\ published' \in [Device -> SUBSET GroupRecord]
      /\ \A x \in Device \ {d} : saved'[x] = saved[x] /\ retention'[x] = retention[x]
  BY <1>3, <1>6, <1>7
<1>9. HistoryTypeOK'
  BY <1>2, <1>8 DEF UndoInv, HistoryTypeOK
<1>10. \/ saved'[d] = groups[d] /\ retention'[d] = run.state
       \/ saved'[d] = saved[d] /\ retention'[d] = retention[d]
  BY <1>3, <1>7
<1>11. HistorySound(d)
  BY DEF UndoInv
<1>12. Undoable(d)' \subseteq Undoable(d)
  BY <1>2, <1>10 DEF Undoable
<1>13. HistorySound(d)'
  <2>1. CASE saved'[d] = saved[d] /\ retention'[d] = retention[d]
    BY <1>2, <1>11, <2>1 DEF HistorySound, Undoable, AllGroups, Journaled
  <2>2. CASE saved'[d] = groups[d] /\ retention'[d] = run.state
    <3>1. Undoable(d)' = groups[d].live
      BY <1>2, <2>2 DEF Undoable
    <3>2. Journaled(retention[d])' = Journaled(run.state)
      BY <2>2 DEF Journaled
    <3>3. AllGroups(d)' \subseteq AllGroups(d)
      BY <1>2, <1>6, <2>2, <3>1, <3>2 DEF AllGroups, Undoable
    <3>4. Journaled(run.state) \cap groups[d].live = {}
      BY <1>6, <1>11 DEF HistorySound, Undoable
    <3> QED  BY <1>2, <1>11, <2>2, <3>1, <3>2, <3>3, <3>4 DEF HistorySound
  <2> QED  BY <1>10, <2>1, <2>2
<1> QED  BY <1>2, <1>8, <1>9, <1>12, <1>13, HistoryShrinks

\* acknowledge_undo_retirements drops retired groups, and saves.
LEMMA AcknowledgeKeepsUndoInv ==
    ASSUME UndoInv, NEW d \in Device, AcknowledgeRetirements(d)
    PROVE  UndoInv'
<1>1. /\ groups' = [groups EXCEPT ![d].retired = @ \ published[d]]
      /\ saved' = [saved EXCEPT ![d] = groups'[d]]
      /\ acknowledged' = [acknowledged EXCEPT ![d] = @ \cup published[d]]
      /\ published' = [published EXCEPT ![d] = {}]
  BY DEF AcknowledgeRetirements
<1>2. /\ UNCHANGED <<descriptor, held, retention, certificate, installed>>
      /\ ReclamationInv'
  BY HistoryStepsAreApart DEF AcknowledgeRetirements, UndoInv
<1>3. /\ groups \in [Device -> History] /\ groups[d] \in History /\ saved \in [Device -> History]
      /\ published \in [Device -> SUBSET GroupRecord] /\ acknowledged \in [Device -> SUBSET GroupRecord]
  BY DEF UndoInv, HistoryTypeOK
<1> DEFINE h == [groups[d] EXCEPT !.retired = @ \ published[d]]
<1>4. groups' = [groups EXCEPT ![d] = h]
  BY <1>1
<1>5. h \in History /\ h.live = groups[d].live /\ h.retired = groups[d].retired \ published[d]
  BY <1>3 DEF History
<1> HIDE DEF h
<1>6. /\ groups' \in [Device -> History] /\ groups'[d] = h
      /\ saved' \in [Device -> History] /\ saved'[d] = h
      /\ \A x \in Device \ {d} : groups'[x] = groups[x] /\ saved'[x] = saved[x]
  BY <1>1, <1>3, <1>4, <1>5
<1>7. /\ acknowledged' \in [Device -> SUBSET GroupRecord] /\ published' \in [Device -> SUBSET GroupRecord]
  BY <1>1, <1>3
<1>8. HistoryTypeOK'
  BY <1>2, <1>6, <1>7 DEF UndoInv, HistoryTypeOK
<1>9. HistorySound(d)
  BY DEF UndoInv
<1>10. HistorySound(d)'
  BY <1>2, <1>5, <1>6, <1>9 DEF HistorySound, Undoable, AllGroups, Journaled
<1>11. Undoable(d)' \subseteq Undoable(d)
  BY <1>5, <1>6 DEF Undoable
<1> QED  BY <1>2, <1>6, <1>8, <1>10, <1>11, HistoryShrinks

\* A power failure takes lines off the end.
LEMMA PowerLossTakes ==
    ASSUME NEW f \in JournalOf(LineRecord), NEW g \in AfterPowerLoss(f)
    PROVE  g \in JournalOf(LineRecord) /\ GroupsIn(g.lines) \subseteq GroupsIn(f.lines)
<1>1. f.lines \in Seq(LineRecord) /\ Len(f.lines) \in Nat /\ f.durable \in Nat
  BY DEF JournalOf
<1>2. Kept(f) \in Nat
  BY <1>1 DEF Kept
<1>3. PICK n \in Kept(f)..Len(f.lines), t \in BOOLEAN :
          g = [lines |-> SubSeq(f.lines, 1, n), torn |-> t, durable |-> n, named |-> TRUE]
  BY DEF AfterPowerLoss, Kept
<1>4. n \in 0..Len(f.lines) /\ n \in Nat
  BY <1>1, <1>2
<1>5. SubSeq(f.lines, 1, n) \in Seq(LineRecord)
  BY <1>1, <1>4
<1> QED  BY <1>1, <1>3, <1>4, <1>5, GroupsOfLines DEF JournalOf

\* A restart takes the saved history up, and what the journal's prefix says.
LEMMA RestartKeepsUndoInv ==
    ASSUME UndoInv, NEW d \in Device, Restart(d)
    PROVE  UndoInv'
<1>1. PICK file \in {retention[d].file} \cup AfterPowerLoss(retention[d].file) :
          retention' = [retention EXCEPT ![d] = Recovered(file)]
  BY DEF Restart
<1>2. /\ UNCHANGED <<descriptor, held, saved, acknowledged, certificate, installed>>
      /\ groups' = [groups EXCEPT ![d] = saved[d]] /\ published' = [published EXCEPT ![d] = {}]
      /\ ReclamationInv'
  BY HistoryStepsAreApart DEF Restart, UndoInv
<1>3. /\ groups \in [Device -> History] /\ saved \in [Device -> History] /\ saved[d] \in History
      /\ retention \in [Device -> RetentionRecord] /\ retention[d].file \in JournalOf(LineRecord)
      /\ published \in [Device -> SUBSET GroupRecord]
  BY DEF UndoInv, HistoryTypeOK, RetentionRecord
<1>4. file \in JournalOf(LineRecord) /\ GroupsIn(file.lines) \subseteq GroupsIn(retention[d].file.lines)
  <2>1. CASE file = retention[d].file
    BY <1>3, <2>1
  <2>2. CASE file \in AfterPowerLoss(retention[d].file)
    BY <1>3, <2>2, PowerLossTakes
  <2> QED  BY <2>1, <2>2
<1>5. /\ Recovered(file) \in RetentionRecord
      /\ Journaled(Recovered(file)) \subseteq Journaled(retention[d])
  BY <1>4, RecoveredPrefix DEF Journaled
<1>6. /\ groups' \in [Device -> History] /\ retention' \in [Device -> RetentionRecord]
      /\ groups'[d] = saved[d] /\ retention'[d] = Recovered(file) /\ saved'[d] = saved[d]
      /\ \A x \in Device \ {d} : groups'[x] = groups[x] /\ saved'[x] = saved[x] /\ retention'[x] = retention[x]
      /\ published' \in [Device -> SUBSET GroupRecord]
  BY <1>1, <1>2, <1>3, <1>5
<1>7. HistoryTypeOK'
  BY <1>2, <1>6 DEF UndoInv, HistoryTypeOK
<1>8. HistorySound(d)
  BY DEF UndoInv
<1>9. /\ Undoable(d)' = saved[d].live /\ Journaled(retention[d])' = Journaled(Recovered(file))
      /\ AllGroups(d)' \subseteq AllGroups(d)
  BY <1>5, <1>6 DEF Undoable, AllGroups, Journaled
<1>10. HistorySound(d)'
  BY <1>2, <1>5, <1>6, <1>8, <1>9 DEF HistorySound, Undoable
<1>11. Undoable(d)' \subseteq Undoable(d)
  BY <1>9 DEF Undoable
<1> QED  BY <1>2, <1>6, <1>7, <1>10, <1>11, HistoryShrinks

\* A member's edit is newer than every cutoff: the cutoffs are below what it
\* holds of its own operations.
LEMMA EditKeepsUndoInv ==
    ASSUME UndoInv, NEW d \in Device, Edit(d)
    PROVE  UndoInv'
<1>1. PICK s \in Stream :
          /\ held[d][s][d] < MaxCounter
          /\ groups' = [groups EXCEPT ![d].live = @ \cup {Group(s, held[d][s][d] + 1)}]
          /\ saved' = [saved EXCEPT ![d] = groups'[d]]
          /\ held' = [held EXCEPT ![d][s][d] = @ + 1]
  BY DEF Edit
<1>2. /\ UNCHANGED <<descriptor, retention, published, acknowledged, certificate, installed>>
      /\ d \in descriptor.members /\ ReclamationInv'
  BY HoldingGrows DEF Edit, UndoInv
<1>3. /\ groups \in [Device -> History] /\ groups[d] \in History /\ saved \in [Device -> History]
      /\ held \in [Device -> Coverage] /\ held[d] \in Coverage /\ installed \in [Device -> Coverage]
      /\ descriptor.members \subseteq descriptor.producers /\ descriptor.members \subseteq Device
      /\ held[d][s][d] \in Nat
  BY DEF UndoInv, HistoryTypeOK, ReclamationInv, ReclamationTypeOK, EpochDescriptor, Coverage
<1> DEFINE g == Group(s, held[d][s][d] + 1)
           h == [groups[d] EXCEPT !.live = @ \cup {g}]
           c == [held[d] EXCEPT ![s][d] = @ + 1]
<1>4. g \in GroupRecord /\ g.stream = s /\ g.n = held[d][s][d] + 1
  BY <1>1, <1>3, ReclamationAssumption DEF Group, GroupRecord
<1>5. groups' = [groups EXCEPT ![d] = h] /\ held' = [held EXCEPT ![d] = c]
  BY <1>1
<1> HIDE DEF g
<1>6. h \in History /\ h.live = groups[d].live \cup {g} /\ h.retired = groups[d].retired
  BY <1>3, <1>4 DEF History
<1>7. /\ \A x \in Stream : c[x][d] = IF x = s THEN held[d][x][d] + 1 ELSE held[d][x][d]
      /\ \A x \in Stream : held[d][x][d] \in Nat
  BY <1>3 DEF Coverage
<1> HIDE DEF h, c
<1>8. /\ groups' \in [Device -> History] /\ groups'[d] = h
      /\ saved' \in [Device -> History] /\ saved'[d] = h /\ held'[d] = c
      /\ \A x \in Device \ {d} : groups'[x] = groups[x] /\ saved'[x] = saved[x] /\ held'[x] = held[x]
  BY <1>1, <1>3, <1>5, <1>6
<1>9. HistoryTypeOK'
  BY <1>2, <1>8 DEF UndoInv, HistoryTypeOK
<1>10. HistorySound(d) /\ AllGroups(d) \subseteq GroupRecord
  BY <1>3, RetainedGroups DEF UndoInv
<1>11. g \notin AllGroups(d)
  BY <1>3, <1>4, <1>10 DEF HistorySound
<1>12. AllGroups(d)' \subseteq AllGroups(d) \cup {g} /\ Undoable(d)' \subseteq Undoable(d) \cup {g}
  BY <1>2, <1>6, <1>8 DEF AllGroups, Undoable, Journaled
<1>13. HistorySound(d)'
  <2>1. \A x \in AllGroups(d) : x.stream \in Stream /\ x.n \in Nat
    BY <1>10, ReclamationAssumption DEF GroupRecord
  <2>2. \A x \in AllGroups(d)' : x.n <= held'[d][x.stream][d]
    <3> SUFFICES ASSUME NEW x \in AllGroups(d)' PROVE x.n <= held'[d][x.stream][d]
      OBVIOUS
    <3>1. CASE x = g
      BY <1>3, <1>4, <1>7, <1>8, <3>1
    <3>2. CASE x \in AllGroups(d)
      <4>1. x.n <= held[d][x.stream][d]
        BY <1>10, <3>2 DEF HistorySound
      <4> QED  BY <1>7, <1>8, <2>1, <3>2, <4>1
    <3> QED  BY <1>12, <3>1, <3>2
  <2>3. d \in descriptor'.producers
    BY <1>2, <1>3
  <2>4. /\ groups'[d].live \cap groups'[d].retired = {} /\ saved'[d].live \cap saved'[d].retired = {}
        /\ Journaled(retention[d])' \cap Undoable(d)' = {}
    BY <1>2, <1>6, <1>8, <1>10, <1>11, <1>12 DEF HistorySound, AllGroups, Undoable, Journaled
  <2> QED  BY <2>2, <2>3, <2>4 DEF HistorySound
<1>14. \A x \in Device \ {d} : HistorySound(x)' /\ Undoable(x)' = Undoable(x)
  <2> SUFFICES ASSUME NEW x \in Device \ {d} PROVE HistorySound(x)' /\ Undoable(x)' = Undoable(x)
    OBVIOUS
  <2>1. HistorySound(x) /\ groups'[x] = groups[x] /\ saved'[x] = saved[x] /\ held'[x] = held[x]
    BY <1>8 DEF UndoInv
  <2> QED  BY <1>2, <2>1 DEF HistorySound, Undoable, AllGroups, Journaled
<1>15. ASSUME NEW f \in Coverage, Covers(held[d], f), \A a \in descriptor.members : Above(a, f)
       PROVE  \A a \in descriptor.members : Above(a, f)'
  <2>1. g.n > f[g.stream][d]
    BY <1>3, <1>4, <1>15 DEF Covers, Coverage
  <2>2. \A x \in Undoable(d)' : x.n > f[x.stream][d]
    BY <1>2, <1>12, <1>15, <2>1 DEF Above
  <2> QED  BY <1>3, <1>14, <1>15, <2>2 DEF Above
<1>16. InstalledIsBelow'
  <2>1. \A x \in Device : installed[x] \in Coverage /\ Covers(held[d], installed[x])
                          /\ \A a \in descriptor.members : Above(a, installed[x])
    BY <1>2, <1>3 DEF UndoInv, ReclamationInv, ReclaimedIsHeldByAll, InstalledIsBelow
  <2> QED  BY <1>2, <1>15, <2>1 DEF InstalledIsBelow, Above
<1>17. CertificateIsBelow'
  <2> SUFFICES ASSUME certificate # NoCheckpoint, certificate.descriptor = descriptor
               PROVE  \A a \in descriptor.members : Above(a, certificate.frontier)'
    BY <1>2 DEF CertificateIsBelow
  <2>1. /\ certificate.frontier \in Coverage /\ Covers(held[d], certificate.frontier)
        /\ \A a \in descriptor.members : Above(a, certificate.frontier)
    BY <1>2 DEF UndoInv, ReclamationInv, ReclamationTypeOK, CertificateIsHeld, CertificateIsBelow, Checkpoint
  <2> QED  BY <1>2, <1>15, <2>1 DEF Above
<1>18. \A x \in Device : HistorySound(x)'
  BY <1>13, <1>14
<1> QED  BY <1>2, <1>9, <1>16, <1>17, <1>18 DEF UndoInv

\* Steps that leave every history alone, and after which every device holds
\* its own operations still.
LEMMA HistoriesStay ==
    ASSUME UndoInv, ReclamationInv', UNCHANGED <<groups, saved, retention, published, acknowledged>>,
           \A d \in descriptor.producers :
              d \in descriptor'.producers /\ \A s \in Stream : held'[d][s][d] = held[d][s][d]
    PROVE  /\ HistoryTypeOK' /\ \A d \in Device : HistorySound(d)' /\ Undoable(d)' = Undoable(d)
           /\ (InstalledIsBelow /\ CertificateIsBelow)' => UndoInv'
<1>1. HistoryTypeOK'
  BY DEF UndoInv, HistoryTypeOK
<1>2. ASSUME NEW d \in Device
      PROVE  HistorySound(d)' /\ Undoable(d)' = Undoable(d)
  <2>1. HistorySound(d) /\ AllGroups(d) \subseteq GroupRecord
    BY RetainedGroups DEF UndoInv
  <2>2. AllGroups(d)' = AllGroups(d) /\ Undoable(d)' = Undoable(d) /\ Journaled(retention[d])' = Journaled(retention[d])
    BY DEF AllGroups, Undoable, Journaled
  <2>3. \A g \in AllGroups(d) : g.stream \in Stream /\ d \in descriptor.producers
    BY <2>1 DEF GroupRecord, HistorySound
  <2>4. \A g \in AllGroups(d)' : d \in descriptor'.producers /\ g.n <= held'[d][g.stream][d]
    BY <2>1, <2>2, <2>3 DEF HistorySound
  <2> QED  BY <2>1, <2>2, <2>4 DEF HistorySound
<1> QED  BY <1>1, <1>2 DEF UndoInv

\* What a device integrates is not its own.
LEMMA ReceiveKeepsUndoInv ==
    ASSUME UndoInv, NEW d \in Device, Receive(d)
    PROVE  UndoInv'
<1>1. PICK s \in Stream, a \in Device \ {d} : held' = [held EXCEPT ![d][s][a] = @ + 1]
  BY DEF Receive
<1>2. /\ UNCHANGED <<descriptor, groups, saved, retention, published, acknowledged, certificate, installed>>
      /\ ReclamationInv'
  BY HoldingGrows DEF Receive, UndoInv
<1>3. held \in [Device -> Coverage] /\ descriptor.producers \subseteq Device
  BY DEF UndoInv, ReclamationInv, ReclamationTypeOK, EpochDescriptor
<1>4. \A x \in descriptor.producers, t \in Stream : held'[x][t][x] = held[x][t][x]
  BY <1>1, <1>3 DEF Coverage
<1>5. \A x \in Device : Undoable(x)' = Undoable(x)
  BY <1>2, <1>4, HistoriesStay
<1>6. InstalledIsBelow' /\ CertificateIsBelow'
  BY <1>2 DEF UndoInv, InstalledIsBelow, CertificateIsBelow, Above, Undoable
<1> QED  BY <1>2, <1>4, <1>6, HistoriesStay

\* The steps that only write a candidate or a coverage record.
LEMMA RecordsKeepUndoInv ==
    ASSUME UndoInv, NEW d \in Device, OfferCheckpoint(d) \/ PublishEvidence(d)
    PROVE  UndoInv'
<1>1. /\ UNCHANGED <<descriptor, held, groups, saved, retention, published, acknowledged, certificate, installed>>
      /\ ReclamationInv'
  BY OfferIsSafe, EvidenceIsSafe DEF OfferCheckpoint, PublishEvidence, UndoInv
<1>2. InstalledIsBelow' /\ CertificateIsBelow'
  BY <1>1 DEF UndoInv, InstalledIsBelow, CertificateIsBelow, Above, Undoable
<1> QED  BY <1>1, <1>2, HistoriesStay

\* certify_common_coverage: every group of a member that the frontier covers
\* is retired, so none of them can be undone.
LEMMA CertifyKeepsUndoInv ==
    ASSUME UndoInv, Certify
    PROVE  UndoInv'
<1> DEFINE frontier == CommonFrontier(CurrentEvidence(candidate))
<1>1. /\ UNCHANGED <<descriptor, held, groups, saved, retention, published, acknowledged, installed>>
      /\ certificate' = [descriptor |-> descriptor, frontier |-> frontier]
      /\ Eligible(frontier) /\ ReclamationInv'
  BY CertifyIsSafe DEF Certify, UndoInv
<1>2. frontier \in Coverage \/ certificate' = NoCheckpoint
  <2>1. certificate' # NoCheckpoint => certificate' \in Checkpoint
    BY <1>1 DEF ReclamationInv, ReclamationTypeOK
  <2> HIDE DEF frontier
  <2> QED  BY <1>1, <2>1 DEF Checkpoint
<1> HIDE DEF frontier
<1>3. \A d \in Device : Undoable(d)' = Undoable(d)
  BY <1>1 DEF Undoable
<1>4. ASSUME frontier \in Coverage, NEW a \in descriptor.members, NEW g \in Undoable(a)
      PROVE  g.n > frontier[g.stream][a]
  <2>1. a \in Device
    BY DEF UndoInv, ReclamationInv, ReclamationTypeOK, EpochDescriptor
  <2>2. g \in GroupRecord /\ HistorySound(a)
    BY <2>1, RetainedGroups DEF AllGroups, UndoInv
  <2>3. g = Group(g.stream, g.n) /\ g.stream \in Stream /\ g.n \in Nat \ {0}
    BY <2>2, ReclamationAssumption DEF GroupRecord, Group
  <2>4. frontier[g.stream][a] \in Nat
    BY <1>4, <2>1, <2>3 DEF Coverage
  <2>5. g \notin retention[a].retired
    BY <2>2 DEF HistorySound, Journaled
  <2>6. g.n \notin 1..frontier[g.stream][a]
    BY <1>1, <2>3, <2>5 DEF Eligible
  <2> QED  BY <2>3, <2>4, <2>6
<1>5. CertificateIsBelow'
  <2> SUFFICES ASSUME certificate' # NoCheckpoint, NEW a \in descriptor.members,
                      NEW g \in Undoable(a)
               PROVE  g.n > certificate'.frontier[g.stream][a]
    <3>1. descriptor.members \subseteq Device
      BY DEF UndoInv, ReclamationInv, ReclamationTypeOK, EpochDescriptor
    <3> QED  BY <1>1, <1>3, <3>1 DEF CertificateIsBelow, Above
  <2>1. certificate'.frontier = frontier
    BY <1>1
  <2> QED  BY <1>2, <1>4, <2>1
<1>6. InstalledIsBelow'
  <2>1. descriptor.members \subseteq Device /\ descriptor' = descriptor /\ installed' = installed
    BY <1>1 DEF UndoInv, ReclamationInv, ReclamationTypeOK, EpochDescriptor
  <2> QED  BY <1>3, <2>1 DEF UndoInv, InstalledIsBelow, Above
<1>7. UNCHANGED <<descriptor, held, groups, saved, retention, published, acknowledged>> /\ ReclamationInv'
  BY <1>1
<1> QED  BY <1>5, <1>6, <1>7, HistoriesStay

\* install_reclamation_frontier: what the certificate covers is below every
\* member's groups.
LEMMA InstallKeepsUndoInv ==
    ASSUME UndoInv, NEW d \in Device, Install(d)
    PROVE  UndoInv'
<1>1. /\ UNCHANGED <<descriptor, held, groups, saved, retention, published, acknowledged, certificate>>
      /\ certificate # NoCheckpoint /\ certificate.descriptor = descriptor
      /\ installed' = [installed EXCEPT ![d] = certificate.frontier] /\ ReclamationInv'
  BY InstallIsSafe DEF Install, UndoInv
<1>2. \A x \in Device : installed'[x] \in {installed[x], certificate.frontier}
  BY <1>1 DEF UndoInv, ReclamationInv, ReclamationTypeOK
<1>3. \A a \in descriptor.members : Above(a, certificate.frontier)
  BY <1>1 DEF UndoInv, CertificateIsBelow
<1>4. InstalledIsBelow' /\ CertificateIsBelow'
  BY <1>1, <1>2, <1>3 DEF UndoInv, InstalledIsBelow, CertificateIsBelow, Above, Undoable
<1> QED  BY <1>1, <1>4, HistoriesStay

\* A new epoch: no certificate is for it yet, and a device that joins has no
\* group of its own.
LEMMA ChangeEpochKeepsUndoInv ==
    ASSUME UndoInv, ChangeEpoch
    PROVE  UndoInv'
<1>1. PICK p \in descriptor.members, d \in descriptor.members \cup (Device \ descriptor.producers) :
          /\ descriptor' = [epoch |-> descriptor.epoch + 1, base |-> held[p],
                            members |-> IF d \in descriptor.members THEN descriptor.members \ {d}
                                                                    ELSE descriptor.members \cup {d},
                            producers |-> descriptor.producers \cup {d}]
          /\ held' = IF d \in descriptor.members THEN held ELSE [held EXCEPT ![d] = held[p]]
  BY DEF ChangeEpoch
<1>2. /\ UNCHANGED <<groups, saved, retention, published, acknowledged, certificate, installed>>
      /\ ReclamationInv'
  BY ChangeEpochIsSafe DEF ChangeEpoch, UndoInv
<1>3. /\ descriptor.members \subseteq descriptor.producers /\ descriptor.producers \subseteq Device
      /\ descriptor.epoch \in Nat /\ d \in Device /\ held \in [Device -> Coverage]
  BY DEF UndoInv, ReclamationInv, ReclamationTypeOK, EpochDescriptor
<1>4. /\ descriptor'.epoch = descriptor.epoch + 1 /\ descriptor'.producers = descriptor.producers \cup {d}
      /\ descriptor'.members \subseteq descriptor.members \cup {d}
      /\ \A x \in descriptor.producers : held'[x] = held[x]
  BY <1>1, <1>3
<1>5. \A x \in Device : Undoable(x)' = Undoable(x)
  BY <1>2 DEF Undoable
<1>6. \A x \in Device \ descriptor.producers : Undoable(x) = {}
  BY DEF UndoInv, HistorySound, AllGroups
<1>7. InstalledIsBelow'
  <2> SUFFICES ASSUME NEW x \in Device, NEW a \in descriptor'.members PROVE Above(a, installed[x])'
    BY <1>2 DEF InstalledIsBelow, Above
  <2>1. CASE a \in descriptor.members
    BY <1>2, <1>3, <1>5, <2>1 DEF UndoInv, InstalledIsBelow, Above
  <2>2. CASE a \notin descriptor.members
    BY <1>1, <1>3, <1>4, <1>5, <1>6, <2>2 DEF Above
  <2> QED  BY <2>1, <2>2
<1>8. CertificateIsBelow'
  <2> SUFFICES ASSUME certificate # NoCheckpoint PROVE certificate.descriptor # descriptor'
    BY <1>2 DEF CertificateIsBelow
  <2>1. certificate.descriptor.epoch <= descriptor.epoch /\ certificate.descriptor.epoch \in Nat
    BY DEF UndoInv, ReclamationInv, ReclamationTypeOK, CertificateIsHeld, Checkpoint, EpochDescriptor
  <2> QED  BY <2>1, <1>3, <1>4
<1> QED  BY <1>2, <1>4, <1>7, <1>8, HistoriesStay

\* At first no device has a group.
LEMMA UndoStarts == ReclamationInit => UndoInv
<1> SUFFICES ASSUME ReclamationInit PROVE UndoInv
  OBVIOUS
<1>1. ReclamationInv
  BY ReclamationStarts
<1>2. /\ groups = [d \in Device |-> NoHistory] /\ saved = [d \in Device |-> NoHistory]
      /\ retention = [d \in Device |-> Closed] /\ certificate = NoCheckpoint
      /\ published = [d \in Device |-> {}] /\ acknowledged = [d \in Device |-> {}]
  BY DEF ReclamationInit
<1>3. NoHistory \in History /\ NoHistory.live = {} /\ NoHistory.retired = {}
  BY DEF NoHistory, History
<1>4. Closed \in RetentionRecord /\ Journaled(Closed) = {}
  BY DEF Closed, NewJournal, RetentionRecord, JournalOf, Journaled, GroupsIn, Range
<1>5. HistoryTypeOK
  BY <1>2, <1>3, <1>4 DEF HistoryTypeOK
<1>6. \A d \in Device : AllGroups(d) = {} /\ Undoable(d) = {} /\ Journaled(retention[d]) = {}
  BY <1>2, <1>3, <1>4 DEF AllGroups, Undoable
<1>7. \A d \in Device : HistorySound(d)
  BY <1>2, <1>3, <1>6 DEF HistorySound
<1>8. descriptor.members \subseteq Device
  BY <1>1 DEF ReclamationInv, ReclamationTypeOK, EpochDescriptor
<1>9. InstalledIsBelow /\ CertificateIsBelow
  BY <1>2, <1>6, <1>8 DEF InstalledIsBelow, CertificateIsBelow, Above
<1> QED  BY <1>1, <1>5, <1>7, <1>9 DEF UndoInv

\* In every reachable state the journal of a device names no group it can
\* undo, and neither a certificate in force nor an installed cutoff covers one.
THEOREM UndoInvariance == ReclamationSpec => []UndoInv
<1>1. ReclamationInit => UndoInv
  BY UndoStarts
<1>2. UndoInv /\ [ReclamationNext]_reclamationVars => UndoInv'
  <2> SUFFICES ASSUME UndoInv, [ReclamationNext]_reclamationVars
               PROVE  UndoInv'
    OBVIOUS
  <2>1. ASSUME NEW d \in Device, DeviceStep(d)
        PROVE  UndoInv'
    BY <2>1, EditKeepsUndoInv, ReceiveKeepsUndoInv, TrimKeepsUndoInv, PublishKeepsUndoInv,
       AcknowledgeKeepsUndoInv, RestartKeepsUndoInv, RecordsKeepUndoInv, InstallKeepsUndoInv DEF DeviceStep
  <2>2. CASE Certify
    BY <2>2, CertifyKeepsUndoInv
  <2>3. CASE ChangeEpoch
    BY <2>3, ChangeEpochKeepsUndoInv
  <2>4. CASE UNCHANGED reclamationVars
    <3>1. /\ UNCHANGED <<descriptor, held, groups, saved, retention, published, acknowledged>>
          /\ UNCHANGED <<evidence, candidate, certificate, installed>>
      BY <2>4 DEF reclamationVars
    <3>2. ReclamationInv'
      BY <3>1 DEF UndoInv, ReclamationInv, ReclamationTypeOK, EvidenceIsHeld, CertificateIsHeld,
                  ReclaimedIsHeldByAll, Covers
    <3>3. InstalledIsBelow' /\ CertificateIsBelow'
      BY <3>1 DEF UndoInv, InstalledIsBelow, CertificateIsBelow, Above, Undoable
    <3> QED  BY <3>1, <3>2, <3>3, HistoriesStay
  <2> QED  BY <2>1, <2>2, <2>3, <2>4 DEF ReclamationNext
<1> QED  BY <1>1, <1>2, PTL DEF ReclamationSpec

\* No member can undo what another has reclaimed, neither from its memory nor
\* from the history it would reopen with.
THEOREM NoUndoBelowCutoff == ReclamationSpec => []NoUndoOfReclaimed
<1>1. UndoInv => NoUndoOfReclaimed
  <2> SUFFICES ASSUME UndoInv, NEW d \in descriptor.members, NEW a \in descriptor.members,
                      NEW g \in groups[a].live \cup saved[a].live
               PROVE  g.n > installed[d][g.stream][a]
    BY DEF NoUndoOfReclaimed
  <2>1. d \in Device /\ g \in Undoable(a)
    BY DEF UndoInv, ReclamationInv, ReclamationTypeOK, EpochDescriptor, Undoable
  <2> QED  BY <2>1 DEF UndoInv, InstalledIsBelow, Above
<1> QED  BY <1>1, UndoInvariance, PTL

-----------------------------------------------------------------------------
(* What was acknowledged is in the journal *)

\* The groups of the lines that no power failure can take.
KeptGroups(f) == GroupsIn(SubSeq(f.lines, 1, Kept(f)))

\* A journal whose lines are all good, though its tail may be broken.
Numbered(f) == \A i \in 1..Len(f.lines) : f.lines[i].seq = i

\* A journal without a broken line, and one whose lines are good up to the first
\* that is broken: behind it the numbers start again.
Clean(f) == \A i \in 1..Len(f.lines) : f.lines[i].seq # 0
Prefixed(f) ==
    \A i \in 1..Len(f.lines) : f.lines[i].seq = i \/ \E j \in 1..i : f.lines[j].seq = 0

\* A journal with a broken line that no power failure can take: no restart reads
\* what is behind it.
Lost(f) == \E i \in 1..Kept(f) : f.lines[i].seq = 0

\* The groups are kept, unless the journal is lost.
Keeps(f, ids) == Lost(f) \/ ids \subseteq KeptGroups(f)

\* A retention state that, as long as its journal is clean, knows no group the
\* journal does not name and is at its end, unless the tail is broken.
Whole(s) ==
    /\ Prefixed(s.file) /\ s.file.durable <= Len(s.file.lines)
    /\ Clean(s.file) => /\ s.retired \subseteq GroupsIn(s.file.lines)
                        /\ s.up /\ ~s.file.torn => s.seq = Len(s.file.lines)

\* Lines that are good up to the first broken one, none of them broken, are all
\* good.
LEMMA CleanIsNumbered ==
    ASSUME NEW f \in JournalOf(LineRecord), Prefixed(f), Clean(f)
    PROVE  Numbered(f)
<1> SUFFICES ASSUME NEW i \in 1..Len(f.lines) PROVE f.lines[i].seq = i
  BY DEF Numbered
<1>1. Len(f.lines) \in Nat
  BY DEF JournalOf
<1>2. \A j \in 1..i : f.lines[j].seq # 0
  BY <1>1 DEF Clean
<1> QED  BY <1>2 DEF Prefixed

\* recover() of good lines reads them all.
LEMMA NumberedIsRecovered ==
    ASSUME NEW f \in JournalOf(LineRecord), Numbered(f)
    PROVE  /\ Recovered(f).retired = GroupsIn(f.lines)
           /\ Recovered(f).up => ~f.torn /\ Recovered(f).seq = Len(f.lines)
           /\ ~f.torn => Recovered(f).seq = Len(f.lines)
<1> DEFINE cut(i) == [f EXCEPT !.lines = SubSeq(@, 1, i), !.torn = FALSE]
           good == {i \in 0..Len(f.lines) : Readable(cut(i))}
           n == CHOOSE i \in good : \A k \in good : k <= i
<1>1. f.lines \in Seq(LineRecord) /\ Len(f.lines) \in Nat /\ SubSeq(f.lines, 1, Len(f.lines)) = f.lines
  BY DEF JournalOf
<1>2. Readable(cut(Len(f.lines)))
  <2>1. cut(Len(f.lines)).lines = f.lines /\ cut(Len(f.lines)).torn = FALSE
    BY <1>1 DEF JournalOf
  <2> HIDE DEF cut
  <2> QED  BY <2>1 DEF Readable, Numbered
<1>3. Len(f.lines) \in good /\ \A k \in good : k <= Len(f.lines) /\ k \in Nat
  <2> HIDE DEF cut
  <2> QED  BY <1>1, <1>2
<1>4. Recovered(f) = [file |-> f, retired |-> GroupsIn(SubSeq(f.lines, 1, n)),
                      seq |-> IF Readable(f) THEN n ELSE 0, up |-> Readable(f)]
  BY DEF Recovered
<1>5. n = Len(f.lines)
  <2> HIDE DEF good
  <2>1. n \in good /\ \A k \in good : k <= n
    BY <1>3
  <2>2. n <= Len(f.lines) /\ Len(f.lines) <= n /\ n \in Nat
    BY <1>3, <2>1
  <2> QED  BY <1>1, <2>2
<1>6. Readable(f) <=> ~f.torn
  BY DEF Readable, Numbered
<1> HIDE DEF n
<1>7. Recovered(f).retired = GroupsIn(SubSeq(f.lines, 1, n))
  BY <1>4
<1>8. Recovered(f).up = Readable(f) /\ Recovered(f).seq = IF Readable(f) THEN n ELSE 0
  BY <1>4
<1> QED  BY <1>1, <1>5, <1>6, <1>7, <1>8

\* The groups of the kept lines stay when the lines do, and a lost journal is
\* lost.
LEMMA KeptGroupsGrow ==
    ASSUME NEW f \in JournalOf(LineRecord), NEW g \in JournalOf(LineRecord),
           f.durable <= Len(f.lines), Kept(g) <= Len(g.lines), Kept(f) <= Kept(g),
           \A i \in 1..Kept(f) : g.lines[i] = f.lines[i]
    PROVE  KeptGroups(f) \subseteq KeptGroups(g) /\ (Lost(f) => Lost(g))
<1>1. /\ f.lines \in Seq(LineRecord) /\ g.lines \in Seq(LineRecord) /\ f.durable \in Nat /\ g.durable \in Nat
      /\ Len(f.lines) \in Nat /\ Len(g.lines) \in Nat
  BY DEF JournalOf
<1>2. Kept(f) \in 0..Len(f.lines) /\ Kept(g) \in Nat
  BY <1>1 DEF Kept
<1> DEFINE k == Kept(f)
           n == Kept(g)
           lines == g.lines
<1>3. k \in 0..n /\ n \in 0..Len(lines) /\ k \in 0..Len(f.lines) /\ k \in 0..Len(lines)
  BY <1>1, <1>2
<1>4. \A i \in 1..k : lines[i] = f.lines[i]
  OBVIOUS
<1> HIDE DEF k, n, lines
<1>5. lines \in Seq(LineRecord)
  BY <1>1 DEF lines
<1>6. SubSeq(lines, 1, k) = SubSeq(f.lines, 1, k)
  <2>1. /\ SubSeq(lines, 1, k) \in Seq(LineRecord) /\ Len(SubSeq(lines, 1, k)) = k
        /\ SubSeq(f.lines, 1, k) \in Seq(LineRecord) /\ Len(SubSeq(f.lines, 1, k)) = k
    BY <1>1, <1>3, <1>5
  <2>2. \A i \in 1..k : SubSeq(lines, 1, k)[i] = SubSeq(f.lines, 1, k)[i]
    BY <1>1, <1>3, <1>4, <1>5
  <2> QED  BY <2>1, <2>2
<1>7. GroupsIn(SubSeq(lines, 1, k)) \subseteq GroupsIn(SubSeq(lines, 1, n))
  BY <1>3, <1>5, GroupsOfLines
<1>8. Lost(f) => Lost(g)
  <2> SUFFICES ASSUME NEW i \in 1..k, f.lines[i].seq = 0 PROVE Lost(g)
    BY DEF Lost, k
  <2>1. i \in 1..n /\ lines[i].seq = 0
    BY <1>3, <1>4
  <2> QED  BY <2>1 DEF Lost, n, lines
<1> QED  BY <1>6, <1>7, <1>8 DEF KeptGroups, k, n, lines

\* All the lines are kept: all their groups are, and so is a broken line.
LEMMA AllKept ==
    ASSUME NEW f \in JournalOf(LineRecord), Kept(f) = Len(f.lines)
    PROVE  KeptGroups(f) = GroupsIn(f.lines) /\ (Lost(f) \/ Clean(f))
<1> DEFINE lines == f.lines
<1>1. lines \in Seq(LineRecord) /\ Kept(f) = Len(lines)
  BY DEF JournalOf
<1> HIDE DEF lines
<1>2. SubSeq(lines, 1, Kept(f)) = lines
  BY <1>1
<1>3. Lost(f) \/ Clean(f)
  BY DEF Lost, Clean
<1> QED  BY <1>2, <1>3 DEF KeptGroups, lines

\* An append to a journal whose tail may be broken: the record, or the broken
\* line it becomes, is behind the other lines or not there at all.
LEMMA AppendAddsLine ==
    ASSUME NEW f \in JournalOf(LineRecord), f.durable <= Len(f.lines), NEW r \in LineRecord,
           NEW fault \in AppendFaults
    PROVE  LET g == AppendedJournal(f, r, fault)
               line == IF f.torn THEN Garbage ELSE r
           IN /\ g \in JournalOf(LineRecord)
              /\ g.lines = f.lines \/ g.lines = Append(f.lines, line)
              /\ g.durable <= Len(g.lines) /\ Kept(g) >= Kept(f)
              /\ fault = "none" => g.lines = Append(f.lines, line) /\ Kept(g) = Len(g.lines)
<1>1. CASE ~f.torn
  BY <1>1, AppendKeepsLines
<1>2. CASE f.torn
  <2> DEFINE u == [f EXCEPT !.torn = FALSE]
             g == AppendedJournal(f, r, fault)
  <2>1. /\ u \in JournalOf(LineRecord) /\ u.lines = f.lines /\ u.durable = f.durable
        /\ u.named = f.named /\ u.torn = FALSE
    BY DEF JournalOf
  <2>2. f.durable \in Nat /\ Len(f.lines) \in Nat /\ Garbage \in LineRecord
    BY DEF JournalOf, LineRecord
  <2>3. CASE fault = "write"
    <3>1. g = f
      BY <2>3 DEF AppendedJournal
    <3> QED  BY <2>2, <2>3, <3>1 DEF Kept
  <2>4. CASE fault = "torn"
    <3>1. g = [f EXCEPT !.torn = TRUE]
      BY <2>4 DEF AppendedJournal
    <3>2. g = f
      BY <1>2, <3>1 DEF JournalOf
    <3> QED  BY <2>2, <2>4, <3>2 DEF Kept
  <2>5. CASE fault \in SyncFaults
    <3>1. Written(u, Garbage) = Written(f, r)
      BY <1>2, <2>1 DEF Written, JournalOf
    <3>2. AppendedJournal(u, Garbage, fault) = g
      BY <2>5, <3>1 DEF AppendedJournal, SyncFaults
    <3> HIDE DEF g, u
    <3>3. /\ g \in JournalOf(LineRecord)
          /\ g.lines = u.lines \/ g.lines = Append(u.lines, Garbage)
          /\ g.durable <= Len(g.lines) /\ Kept(g) >= Kept(u)
          /\ fault = "none" => g.lines = Append(u.lines, Garbage) /\ Kept(g) = Len(g.lines)
      BY <2>1, <2>2, <3>2, AppendKeepsLines
    <3>4. Kept(u) = Kept(f)
      BY <2>1 DEF Kept
    <3> QED  BY <1>2, <2>1, <3>3, <3>4 DEF g
  <2> QED  BY <2>3, <2>4, <2>5 DEF AppendFaults, SyncFaults
<1> QED  BY <1>1, <1>2

\* One more line for a group, or a broken one.
LEMMA AppendRecords ==
    ASSUME NEW s \in RetentionRecord, Whole(s), s.up, NEW id \in GroupRecord,
           NEW fault \in AppendFaults
    PROVE  LET file == AppendedJournal(s.file, [seq |-> s.seq + 1, stream |-> id.stream, n |-> id.n], fault)
           IN /\ file \in JournalOf(LineRecord) /\ Prefixed(file)
              /\ file.durable <= Len(file.lines)
              /\ KeptGroups(s.file) \subseteq KeptGroups(file) /\ (Lost(s.file) => Lost(file))
              /\ Clean(file) => Clean(s.file)
              /\ fault = "none" =>
                    /\ Lost(file) \/ Clean(file)
                    /\ Clean(file) => /\ Len(file.lines) = s.seq + 1
                                      /\ KeptGroups(file) = GroupsIn(s.file.lines) \cup {id}
                                      /\ GroupsIn(file.lines) = GroupsIn(s.file.lines) \cup {id}
<1> DEFINE f == s.file
           r == [seq |-> s.seq + 1, stream |-> id.stream, n |-> id.n]
           g == AppendedJournal(f, r, fault)
           line == IF f.torn THEN Garbage ELSE r
<1>1. /\ f \in JournalOf(LineRecord) /\ f.lines \in Seq(LineRecord) /\ Len(f.lines) \in Nat
      /\ s.seq \in Nat /\ f.durable <= Len(f.lines) /\ f.durable \in Nat /\ Prefixed(f)
      /\ Clean(f) /\ ~f.torn => s.seq = Len(f.lines)
  BY DEF RetentionRecord, JournalOf, Whole
<1>2. r \in LineRecord /\ r.seq = s.seq + 1 /\ r.seq # 0 /\ Group(r.stream, r.n) = id
  BY <1>1 DEF LineRecord, GroupRecord, Group
<1>3. line \in LineRecord /\ (line.seq # 0 => line = r /\ ~f.torn)
  BY <1>2 DEF LineRecord, Garbage
<1> HIDE DEF f, r, line
<1>4. /\ g \in JournalOf(LineRecord)
      /\ g.lines = f.lines \/ g.lines = Append(f.lines, line)
      /\ g.durable <= Len(g.lines) /\ Kept(g) >= Kept(f)
      /\ fault = "none" => g.lines = Append(f.lines, line) /\ Kept(g) = Len(g.lines)
  BY <1>1, <1>2, AppendAddsLine DEF line
<1> HIDE DEF g
<1>5. /\ Len(Append(f.lines, line)) = Len(f.lines) + 1 /\ Append(f.lines, line)[Len(f.lines) + 1] = line
      /\ \A i \in 1..Len(f.lines) : Append(f.lines, line)[i] = f.lines[i]
  BY <1>1, <1>3
<1>6. Len(g.lines) \in Nat /\ Len(g.lines) >= Len(f.lines) /\ \A i \in 1..Len(f.lines) : g.lines[i] = f.lines[i]
  BY <1>1, <1>4, <1>5
<1>7. Clean(g) => Clean(f)
  BY <1>1, <1>6 DEF Clean
<1>8. g.lines = Append(f.lines, line) /\ Clean(g) => line = r /\ s.seq = Len(f.lines)
  <2> SUFFICES ASSUME g.lines = Append(f.lines, line), Clean(g) PROVE line = r /\ s.seq = Len(f.lines)
    OBVIOUS
  <2>1. Len(f.lines) + 1 \in 1..Len(g.lines) /\ g.lines[Len(f.lines) + 1] = line
    BY <1>1, <1>5
  <2>2. line.seq # 0
    BY <2>1 DEF Clean
  <2> QED  BY <1>1, <1>3, <1>7, <2>2
<1>9. Prefixed(g)
  <2>1. CASE g.lines = f.lines
    BY <1>1, <2>1 DEF Prefixed
  <2>2. CASE g.lines = Append(f.lines, line)
    <3> SUFFICES ASSUME NEW i \in 1..Len(f.lines) + 1
                 PROVE  g.lines[i].seq = i \/ \E j \in 1..i : g.lines[j].seq = 0
      BY <1>5, <2>2 DEF Prefixed
    <3>1. CASE i = Len(f.lines) + 1
      <4>1. CASE Clean(g)
        BY <1>1, <1>2, <1>5, <1>8, <2>2, <3>1, <4>1
      <4>2. CASE ~Clean(g)
        BY <1>5, <2>2, <3>1, <4>2 DEF Clean
      <4> QED  BY <4>1, <4>2
    <3>2. CASE i \in 1..Len(f.lines)
      <4>1. \A j \in 1..i : g.lines[j] = f.lines[j]
        BY <1>1, <1>6, <3>2
      <4> QED  BY <1>1, <1>6, <3>2, <4>1 DEF Prefixed
    <3> QED  BY <1>1, <3>1, <3>2
  <2> QED  BY <1>4, <2>1, <2>2
<1>10. Kept(f) \in 0..Len(f.lines) /\ Kept(g) <= Len(g.lines) /\ Kept(f) <= Kept(g) /\ Kept(g) \in Nat
  BY <1>1, <1>4, <1>6 DEF Kept, JournalOf
<1>11. \A i \in 1..Kept(f) : g.lines[i] = f.lines[i]
  BY <1>1, <1>6, <1>10
<1>12. KeptGroups(f) \subseteq KeptGroups(g) /\ (Lost(f) => Lost(g))
  BY <1>1, <1>4, <1>10, <1>11, KeptGroupsGrow
<1>13. fault = "none" => KeptGroups(g) = GroupsIn(g.lines) /\ (Lost(g) \/ Clean(g))
  BY <1>4, AllKept
<1>14. GroupsIn(Append(f.lines, r)) = GroupsIn(f.lines) \cup {id}
  BY <1>1, <1>2, GroupsOfLines
<1>15. fault = "none" /\ Clean(g) => Len(g.lines) = s.seq + 1 /\ g.lines = Append(f.lines, r)
  BY <1>4, <1>5, <1>8
<1> QED  BY <1>4, <1>7, <1>9, <1>12, <1>13, <1>14, <1>15 DEF f, r, g

\* A publication in progress: what it knows is in its journal, unless that has
\* a broken line.
SoundRun(batch) ==
    {run \in PublicationRecord :
        run.batch = batch /\ Whole(run.state) /\ run.state.up}

\* A step loses nothing that was kept, and after an error there is no success.
Leads(run, after) ==
    /\ KeptGroups(run.state.file) \subseteq KeptGroups(after.state.file)
    /\ Lost(run.state.file) => Lost(after.state.file)
    /\ after.code = "ok" => run.code = "ok"

\* append_retirements for one group: as long as it reports success, what it
\* adds is kept.
LEMMA AppendIsSound ==
    ASSUME NEW batch, NEW run \in SoundRun(batch), NEW id \in GroupRecord
    PROVE  LET after == AppendRetirement(run, id)
           IN /\ after \in SoundRun(batch) /\ Leads(run, after)
              /\ after.code = "ok" =>
                    /\ run.state.retired \subseteq after.state.retired
                    /\ id \in batch => id \in after.state.retired
                    /\ Keeps(after.state.file, after.state.retired \ run.state.retired)
<1> DEFINE met == Met(run)
           s == run.state
           file == AppendedJournal(s.file, [seq |-> s.seq + 1, stream |-> id.stream, n |-> id.n], met)
           added == Added(s, file, id)
           again == [Recovered(file) EXCEPT !.up = s.up]
           state == IF met = "none" THEN added ELSE again
           after == Stepped(run, state, JournalError(met))
<1>1. /\ run \in PublicationRecord /\ run.batch = batch /\ Whole(s) /\ s.up
      /\ s \in RetentionRecord
  BY DEF SoundRun, PublicationRecord
<1>2. CASE run.code # "ok" \/ id \notin run.batch \ s.retired
  <2>1. AppendRetirement(run, id) = run
    BY <1>2 DEF AppendRetirement
  <2> QED  BY <1>1, <1>2, <2>1 DEF Leads, Keeps
<1>3. CASE ~(run.code # "ok" \/ id \notin run.batch \ s.retired)
  <2>1. AppendRetirement(run, id) = after
    BY <1>3 DEF AppendRetirement, Stepped, Added
  <2>2. met \in AppendFaults
    BY <1>1, MetIsFault
  <2> HIDE DEF met, s
  <2>3. /\ file \in JournalOf(LineRecord) /\ Prefixed(file) /\ file.durable <= Len(file.lines)
        /\ KeptGroups(s.file) \subseteq KeptGroups(file) /\ (Lost(s.file) => Lost(file))
        /\ Clean(file) => Clean(s.file)
        /\ met = "none" =>
              /\ Lost(file) \/ Clean(file)
              /\ Clean(file) => /\ Len(file.lines) = s.seq + 1
                                /\ KeptGroups(file) = GroupsIn(s.file.lines) \cup {id}
                                /\ GroupsIn(file.lines) = GroupsIn(s.file.lines) \cup {id}
    BY <1>1, <2>2, AppendRecords
  <2> HIDE DEF file
  <2>4. /\ added \in RetentionRecord /\ added.file = file /\ added.seq = s.seq + 1
        /\ added.retired = s.retired \cup {id} /\ added.up = s.up
    BY <1>1, <2>3, RetentionAdds
  <2>5. /\ again \in RetentionRecord /\ again.file = file /\ again.up = s.up
        /\ Clean(file) => /\ again.retired = GroupsIn(file.lines)
                          /\ ~file.torn => again.seq = Len(file.lines)
    <3>1. /\ Recovered(file) \in RetentionRecord /\ Recovered(file).file = file
          /\ Clean(file) => /\ Recovered(file).retired = GroupsIn(file.lines)
                            /\ ~file.torn => Recovered(file).seq = Len(file.lines)
      BY <2>3, RecoveredPrefix, NumberedIsRecovered, CleanIsNumbered
    <3>2. s.up \in BOOLEAN
      BY <1>1 DEF RetentionRecord
    <3> QED  BY <3>1, <3>2 DEF RetentionRecord
  <2> HIDE DEF added, again
  <2>6. Clean(s.file) => s.retired \subseteq GroupsIn(s.file.lines)
    BY <1>1 DEF Whole
  <2>7. Whole(state) /\ state \in RetentionRecord /\ state.file = file /\ state.up
    <3>1. CASE met = "none"
      BY <1>1, <2>3, <2>4, <2>6, <3>1 DEF Whole
    <3>2. CASE met # "none"
      BY <1>1, <2>3, <2>5, <3>2 DEF Whole
    <3> QED  BY <3>1, <3>2
  <2>8. JournalError(met) \in ResultCode /\ (JournalError(met) = "ok" <=> met = "none")
    BY <2>2, ErrorTells
  <2>9. met = "none" => /\ s.retired \subseteq state.retired /\ id \in state.retired
                        /\ Keeps(file, state.retired \ s.retired)
    BY <2>3, <2>4 DEF Keeps
  <2> HIDE DEF state
  <2>10. /\ after \in PublicationRecord /\ after.state = state /\ after.code = JournalError(met)
         /\ after.batch = run.batch /\ after.fault = run.fault
    BY <1>1, <2>7, <2>8, PublicationSteps
  <2> HIDE DEF after
  <2>11. after \in SoundRun(batch)
    BY <1>1, <2>7, <2>10 DEF SoundRun
  <2>12. Leads(run, after)
    BY <1>3, <2>3, <2>7, <2>10 DEF Leads, s
  <2> QED  BY <2>1, <2>7, <2>8, <2>9, <2>10, <2>11, <2>12 DEF s
<1> QED  BY <1>2, <1>3

\* The barrier before a stream's groups: those retired before are kept when it
\* succeeds.
LEMMA BarrierIsSound ==
    ASSUME NEW batch, NEW run \in SoundRun(batch), NEW stream
    PROVE  LET after == Barrier(run, stream)
           IN /\ after \in SoundRun(batch) /\ Leads(run, after)
              /\ after.code = "ok" => \A g \in batch \cap after.state.retired :
                                         g.stream = stream => Keeps(after.state.file, {g})
<1> DEFINE met == IF Met(run) \in SyncFaults THEN Met(run) ELSE "none"
           s == run.state
           file == SyncedJournal(s.file, met)
           state == [s EXCEPT !.file = file]
           after == Stepped(run, state, JournalError(met))
<1>1. /\ run \in PublicationRecord /\ run.batch = batch /\ Whole(s) /\ s.up
      /\ s \in RetentionRecord /\ s.file \in JournalOf(LineRecord)
  BY DEF SoundRun, PublicationRecord, RetentionRecord
<1>2. CASE run.code # "ok" \/ \A g \in run.state.retired \cap run.batch : g.stream # stream
  <2>1. Barrier(run, stream) = run
    BY <1>2 DEF Barrier
  <2> QED  BY <1>1, <1>2, <2>1 DEF Leads
<1>3. CASE ~(run.code # "ok" \/ \A g \in run.state.retired \cap run.batch : g.stream # stream)
  <2>1. Barrier(run, stream) = after
    BY <1>3 DEF Barrier, Stepped
  <2>2. met \in SyncFaults /\ met \in AppendFaults
    BY DEF SyncFaults, AppendFaults
  <2> HIDE DEF met, s
  <2>3. s.file.durable <= Len(s.file.lines) /\ s.file.lines \in Seq(LineRecord) /\ s.file.durable \in Nat
    BY <1>1 DEF Whole, JournalOf
  <2>4. /\ file \in JournalOf(LineRecord) /\ file.lines = s.file.lines /\ file.torn = s.file.torn
        /\ file.durable <= Len(file.lines) /\ Kept(file) >= Kept(s.file)
        /\ met = "none" => Kept(file) = Len(s.file.lines)
    BY <1>1, <2>2, <2>3, SyncKeepsLines
  <2> HIDE DEF file
  <2>5. Kept(s.file) \in Nat /\ Kept(file) \in Nat /\ Kept(file) <= Len(file.lines)
    BY <2>3, <2>4 DEF Kept, JournalOf
  <2>6. KeptGroups(s.file) \subseteq KeptGroups(file) /\ (Lost(s.file) => Lost(file))
    BY <1>1, <2>3, <2>4, <2>5, KeptGroupsGrow
  <2>7. met = "none" => KeptGroups(file) = GroupsIn(file.lines) /\ (Lost(file) \/ Clean(file))
    BY <2>4, AllKept
  <2>8. /\ state \in RetentionRecord /\ state.file = file /\ state.retired = s.retired
        /\ state.up = s.up /\ state.seq = s.seq
    BY <1>1, <2>4 DEF RetentionRecord
  <2>9. Whole(state)
    <3>1. Prefixed(file) /\ (Clean(file) <=> Clean(s.file))
      BY <1>1, <2>4 DEF Whole, Prefixed, Clean
    <3> HIDE DEF state
    <3> QED  BY <1>1, <2>4, <2>8, <3>1 DEF Whole
  <2>10. JournalError(met) \in ResultCode /\ (JournalError(met) = "ok" <=> met = "none")
    BY <2>2, ErrorTells
  <2> HIDE DEF state
  <2>11. /\ after \in PublicationRecord /\ after.state = state /\ after.code = JournalError(met)
         /\ after.batch = run.batch /\ after.fault = run.fault
    BY <1>1, <2>8, <2>10, PublicationSteps
  <2> HIDE DEF after
  <2>12. after \in SoundRun(batch)
    BY <1>1, <2>8, <2>9, <2>11 DEF SoundRun
  <2>13. Leads(run, after)
    BY <1>3, <2>6, <2>8, <2>11 DEF Leads, s
  <2>14. met = "none" => Keeps(file, s.retired)
    <3>1. Clean(file) => Clean(s.file)
      BY <2>4 DEF Clean
    <3> QED  BY <1>1, <2>4, <2>7, <3>1 DEF Whole, Keeps
  <2>15. met = "none" => \A g \in s.retired : Keeps(file, {g})
    BY <2>14 DEF Keeps
  <2> QED  BY <2>1, <2>8, <2>10, <2>11, <2>12, <2>13, <2>15
<1> QED  BY <1>2, <1>3

\* What a publication has done within a stream, up to its k-th group, and
\* across the first k streams.
Within(start, batch, stream, k) ==
    {run \in SoundRun(batch) :
        /\ Leads(start, run)
        /\ run.code = "ok" =>
              \A g \in batch : g.stream = stream /\ (g \in run.state.retired \/ g.n <= k)
                                  => g \in run.state.retired /\ Keeps(run.state.file, {g})}
Across(start, batch, k) ==
    {run \in SoundRun(batch) :
        /\ Leads(start, run)
        /\ run.code = "ok" =>
              \A g \in batch, j \in 1..k : g.stream = Streams[j] => Keeps(run.state.file, {g})}

\* One group more.
LEMMA WithinGoesOn ==
    ASSUME NEW start, NEW batch, NEW stream \in Stream, NEW k \in Nat, k < MaxCounter,
           NEW run \in Within(start, batch, stream, k)
    PROVE  AppendRetirement(run, Group(stream, k + 1)) \in Within(start, batch, stream, k + 1)
<1> DEFINE id == Group(stream, k + 1)
           after == AppendRetirement(run, id)
<1>1. id \in GroupRecord /\ id.stream = stream /\ id.n = k + 1
  BY ReclamationAssumption DEF Group, GroupRecord
<1>2. /\ run \in SoundRun(batch) /\ Leads(start, run)
      /\ run.code = "ok" =>
            \A g \in batch : g.stream = stream /\ (g \in run.state.retired \/ g.n <= k)
                                => g \in run.state.retired /\ Keeps(run.state.file, {g})
  BY DEF Within
<1>3. batch \subseteq GroupRecord
  BY <1>2 DEF SoundRun, PublicationRecord
<1>4. \A g \in batch : g.stream = stream /\ g.n <= k + 1 => g.n <= k \/ g = id
  <2> SUFFICES ASSUME NEW g \in batch, g.stream = stream, g.n <= k + 1, ~(g.n <= k) PROVE g = id
    OBVIOUS
  <2>1. g \in GroupRecord /\ g.n \in Nat
    BY <1>3, ReclamationAssumption DEF GroupRecord
  <2>2. g.n = k + 1
    BY <2>1
  <2> QED  BY <2>1, <2>2 DEF Group, GroupRecord
<1> HIDE DEF id
<1>5. /\ after \in SoundRun(batch) /\ Leads(run, after)
      /\ after.code = "ok" =>
            /\ run.state.retired \subseteq after.state.retired
            /\ id \in batch => id \in after.state.retired
            /\ Keeps(after.state.file, after.state.retired \ run.state.retired)
  BY <1>1, <1>2, AppendIsSound
<1> HIDE DEF after
<1>6. Leads(start, after)
  BY <1>2, <1>5 DEF Leads
<1>7. ASSUME after.code = "ok", NEW g \in batch, g.stream = stream, g \in after.state.retired \/ g.n <= k + 1
      PROVE  g \in after.state.retired /\ Keeps(after.state.file, {g})
  <2>1. /\ run.code = "ok" /\ KeptGroups(run.state.file) \subseteq KeptGroups(after.state.file)
        /\ Lost(run.state.file) => Lost(after.state.file)
    BY <1>5, <1>7 DEF Leads
  <2>2. g \in after.state.retired
    BY <1>2, <1>4, <1>5, <1>7, <2>1
  <2>3. CASE g \in run.state.retired
    <3>1. Keeps(run.state.file, {g})
      BY <1>2, <1>7, <2>1, <2>3
    <3> QED  BY <2>1, <2>2, <3>1 DEF Keeps
  <2>4. CASE g \notin run.state.retired
    BY <1>5, <1>7, <2>2, <2>4 DEF Keeps
  <2> QED  BY <2>3, <2>4
<1>8. after \in Within(start, batch, stream, k + 1)
  BY <1>5, <1>6, <1>7 DEF Within
<1> QED  BY <1>8 DEF after, id

\* A stream that is published without an error is kept as a whole.
LEMMA StreamIsKept ==
    ASSUME NEW batch, NEW run \in SoundRun(batch), NEW stream \in Stream
    PROVE  LET after == PublishStream(run, stream)
           IN /\ after \in SoundRun(batch) /\ Leads(run, after)
              /\ after.code = "ok" =>
                    \A g \in batch : g.stream = stream => Keeps(after.state.file, {g})
<1> DEFINE base == Barrier(run, stream)
           order == InOrder(stream)
           A == [k \in Nat |-> Within(run, batch, stream, k)]
           after == Appending!Fold(base, order)
<1>1. /\ base \in SoundRun(batch) /\ Leads(run, base)
      /\ base.code = "ok" => \A g \in batch \cap base.state.retired :
                                 g.stream = stream => Keeps(base.state.file, {g})
  BY BarrierIsSound
<1>2. /\ order \in Seq(GroupRecord) /\ Len(order) = MaxCounter
      /\ \A k \in Nat : k < MaxCounter => order[k + 1] = Group(stream, k + 1)
  BY ReclamationAssumption DEF InOrder, Group, GroupRecord
<1>3. PublishStream(run, stream) = after
  BY RetentionFolds DEF PublishStream
<1>4. batch \subseteq GroupRecord
  BY DEF SoundRun, PublicationRecord
<1>5. \A g \in batch : g.n \in 1..MaxCounter
  BY <1>4 DEF GroupRecord
<1> HIDE DEF base, order
<1>6. base \in A[0]
  <2>1. \A g \in batch : ~(g.n <= 0)
    BY <1>5, ReclamationAssumption
  <2>2. base \in Within(run, batch, stream, 0)
    BY <1>1, <2>1 DEF Within
  <2> QED  BY <2>2
<1>7. \A k \in Nat : k < Len(order) => \A x \in A[k] : AppendRetirement(x, order[k + 1]) \in A[k + 1]
  BY <1>2, WithinGoesOn
<1>8. A[MaxCounter] = Within(run, batch, stream, MaxCounter)
  BY ReclamationAssumption
<1> HIDE DEF A
<1>9. after \in A[Len(order)]
  BY <1>2, <1>6, <1>7, Appending!FoldFollows
<1> HIDE DEF after
<1>10. after \in Within(run, batch, stream, MaxCounter)
  BY <1>2, <1>8, <1>9
<1>11. \A g \in batch : g.n <= MaxCounter
  BY <1>5, ReclamationAssumption
<1> QED  BY <1>3, <1>10, <1>11 DEF Within

\* publish_after_durable_trim that reports success: every group of the batch
\* is kept.
LEMMA PublishedIsKept ==
    ASSUME NEW s \in RetentionRecord, Whole(s), s.up, NEW batch \in SUBSET GroupRecord,
           NEW at \in Nat, NEW fault \in AppendFaults
    PROVE  LET run == PublishedBatch(s, batch, at, fault)
           IN /\ run.state \in RetentionRecord /\ Whole(run.state)
              /\ \A ids : Keeps(s.file, ids) => Keeps(run.state.file, ids)
              /\ run.code = "ok" => Keeps(run.state.file, batch)
<1> DEFINE start == Running(s, batch, at, fault)
           A == [k \in Nat |-> Across(start, batch, k)]
           run == Streaming!Fold(start, Streams)
<1>1. start \in SoundRun(batch) /\ start.state = s
  BY DEF Running, SoundRun, PublicationRecord, ResultCode
<1>2. Streams \in Seq(Stream) /\ \A g \in batch : \E j \in 1..Len(Streams) : g.stream = Streams[j]
  <2>1. Streams \in Seq(Stream)
    BY ReclamationAssumption DEF Stream, Range
  <2>2. Stream = {Streams[j] : j \in 1..Len(Streams)}
    BY ReclamationAssumption DEF Stream, Range
  <2>3. \A g \in batch : g.stream \in Stream
    BY DEF GroupRecord
  <2> QED  BY <2>1, <2>2, <2>3
<1>3. PublishedBatch(s, batch, at, fault) = run
  BY RetentionFolds DEF PublishedBatch
<1> HIDE DEF start
<1>4. start \in A[0]
  <2>1. start \in Across(start, batch, 0)
    BY <1>1 DEF Across, Leads
  <2> QED  BY <2>1
<1>5. ASSUME NEW k \in Nat, k < Len(Streams), NEW x \in A[k]
      PROVE  PublishStream(x, Streams[k + 1]) \in A[k + 1]
  <2> DEFINE y == PublishStream(x, Streams[k + 1])
  <2>1. /\ x \in SoundRun(batch) /\ Leads(start, x)
        /\ x.code = "ok" => \A g \in batch, j \in 1..k :
                                g.stream = Streams[j] => Keeps(x.state.file, {g})
    BY <1>5 DEF Across
  <2>2. Streams[k + 1] \in Stream
    BY <1>2, <1>5
  <2>3. /\ y \in SoundRun(batch) /\ Leads(x, y)
        /\ y.code = "ok" => \A g \in batch : g.stream = Streams[k + 1] => Keeps(y.state.file, {g})
    BY <2>1, <2>2, StreamIsKept
  <2> HIDE DEF y
  <2>4. Leads(start, y)
    BY <2>1, <2>3 DEF Leads
  <2>5. \A j \in 1..(k + 1) : j \in 1..k \/ j = k + 1
    OBVIOUS
  <2>6. y.code = "ok" => \A g \in batch, j \in 1..(k + 1) :
                            g.stream = Streams[j] => Keeps(y.state.file, {g})
    BY <2>1, <2>3, <2>5 DEF Leads, Keeps
  <2>7. y \in Across(start, batch, k + 1)
    BY <2>3, <2>4, <2>6 DEF Across
  <2> QED  BY <2>7 DEF y
<1>6. A[Len(Streams)] = Across(start, batch, Len(Streams))
  BY <1>2
<1> HIDE DEF A
<1>7. run \in A[Len(Streams)]
  BY <1>2, <1>4, <1>5, Streaming!FoldFollows
<1> HIDE DEF run
<1>8. run \in Across(start, batch, Len(Streams))
  BY <1>6, <1>7
<1>9. /\ run.state \in RetentionRecord /\ Whole(run.state)
      /\ \A ids : Keeps(s.file, ids) => Keeps(run.state.file, ids)
  BY <1>1, <1>8 DEF Across, SoundRun, PublicationRecord, Leads, Keeps
<1>10. run.code = "ok" => Keeps(run.state.file, batch)
  BY <1>2, <1>8 DEF Across, Keeps
<1> QED  BY <1>3, <1>9, <1>10

\* A power failure takes no kept line, and leaves a journal of kept lines.
LEMMA PowerLossKeepsGroups ==
    ASSUME NEW f \in JournalOf(LineRecord), Prefixed(f), f.durable <= Len(f.lines),
           NEW g \in AfterPowerLoss(f)
    PROVE  /\ g \in JournalOf(LineRecord) /\ Prefixed(g) /\ g.durable <= Len(g.lines)
           /\ KeptGroups(f) \subseteq KeptGroups(g) /\ (Lost(f) => Lost(g))
           /\ KeptGroups(g) = GroupsIn(g.lines) /\ (Clean(f) => Clean(g))
<1>1. /\ g \in JournalOf(LineRecord) /\ g.durable <= Len(g.lines)
      /\ Kept(g) = Len(g.lines) /\ Len(g.lines) >= Kept(f)
  BY PowerLossLeavesPrefix
<1>2. PICK n \in 0..Len(f.lines) : g.lines = SubSeq(f.lines, 1, n) /\ Len(g.lines) = n
  BY PowerLossLeavesPrefix
<1>3. /\ f.lines \in Seq(LineRecord) /\ Len(f.lines) \in Nat /\ Kept(f) \in Nat
  BY DEF JournalOf, Kept
<1>4. \A i \in 1..n : g.lines[i] = f.lines[i] /\ i \in 1..Len(f.lines)
  BY <1>2, <1>3
<1>5. Prefixed(g) /\ (Clean(f) => Clean(g))
  <2>1. \A i \in 1..n : \A j \in 1..i : g.lines[j] = f.lines[j]
    BY <1>4
  <2> QED  BY <1>2, <1>4, <2>1 DEF Prefixed, Clean
<1>6. \A i \in 1..Kept(f) : g.lines[i] = f.lines[i]
  BY <1>1, <1>2, <1>3, <1>4
<1>7. Kept(f) <= Kept(g) /\ Kept(g) <= Len(g.lines)
  BY <1>1, <1>2, <1>3
<1> QED  BY <1>1, <1>5, <1>6, <1>7, KeptGroupsGrow, AllKept

-----------------------------------------------------------------------------
(* The invariant *)

\* A device's journal is sound, and keeps what was published and acknowledged.
RecordSound(d) ==
    Whole(retention[d]) /\ Keeps(retention[d].file, acknowledged[d] \cup published[d])

RecordInv == \A d \in Device : RecordSound(d)

\* A step of one device, seen from the journal it keeps.
LEMMA RecordsOfOthersStay ==
    ASSUME RecordInv, NEW d \in Device,
           \A x \in Device \ {d} : /\ retention'[x] = retention[x]
                                   /\ acknowledged'[x] = acknowledged[x] /\ published'[x] = published[x],
           RecordSound(d)'
    PROVE  RecordInv'
<1> SUFFICES ASSUME NEW x \in Device \ {d} PROVE RecordSound(x)'
  BY DEF RecordInv
<1>1. RecordSound(x)
  BY DEF RecordInv
<1>2. retention'[x] = retention[x] /\ acknowledged'[x] = acknowledged[x] /\ published'[x] = published[x]
  OBVIOUS
<1> QED  BY <1>1, <1>2 DEF RecordSound

\* A publication, whatever fault it meets.
LEMMA PublishKeepsRecords ==
    ASSUME HistoryTypeOK, RecordInv, NEW d \in Device, Publish(d)
    PROVE  RecordInv'
<1>1. PICK trimmed \in BOOLEAN, fault \in RetentionFaults \cup {"none"}, at \in 1..4 :
          LET run == PublishedBatch(retention[d], groups[d].retired, at, fault)
          IN /\ retention' = IF trimmed THEN [retention EXCEPT ![d] = run.state] ELSE retention
             /\ published' = IF trimmed /\ run.code = "ok"
                             THEN [published EXCEPT ![d] = groups[d].retired] ELSE published
  BY DEF Publish
<1>2. acknowledged' = acknowledged /\ retention[d].up
  BY DEF Publish
<1> DEFINE run == PublishedBatch(retention[d], groups[d].retired, at, fault)
<1>3. /\ retention \in [Device -> RetentionRecord] /\ retention[d] \in RetentionRecord
      /\ groups[d].retired \in SUBSET GroupRecord /\ published \in [Device -> SUBSET GroupRecord]
  BY DEF HistoryTypeOK, History
<1>4. fault \in AppendFaults /\ at \in Nat
  BY ReclamationAssumption DEF AppendFaults
<1>5. RecordSound(d) /\ Whole(retention[d])
  BY DEF RecordInv, RecordSound
<1>6. /\ run.state \in RetentionRecord /\ Whole(run.state)
      /\ \A ids : Keeps(retention[d].file, ids) => Keeps(run.state.file, ids)
      /\ run.code = "ok" => Keeps(run.state.file, groups[d].retired)
  BY <1>2, <1>3, <1>4, <1>5, PublishedIsKept
<1>7. /\ retention' = IF trimmed THEN [retention EXCEPT ![d] = run.state] ELSE retention
      /\ published' = IF trimmed /\ run.code = "ok"
                      THEN [published EXCEPT ![d] = groups[d].retired] ELSE published
  BY <1>1
<1> HIDE DEF run
<1>8. \A x \in Device \ {d} : retention'[x] = retention[x] /\ acknowledged'[x] = acknowledged[x]
                              /\ published'[x] = published[x]
  BY <1>2, <1>3, <1>7
<1>9. RecordSound(d)'
  <2>1. CASE ~trimmed
    BY <1>2, <1>5, <1>7, <2>1 DEF RecordSound
  <2>2. CASE trimmed
    <3>1. retention'[d] = run.state
      BY <1>3, <1>7, <2>2
    <3>2. published'[d] = published[d] \/ (run.code = "ok" /\ published'[d] = groups[d].retired)
      BY <1>3, <1>7, <2>2
    <3>3. Keeps(run.state.file, acknowledged[d] \cup published'[d])
      BY <1>5, <1>6, <3>2 DEF RecordSound, Keeps
    <3>4. acknowledged'[d] = acknowledged[d]
      BY <1>2
    <3> QED  BY <1>6, <3>1, <3>3, <3>4 DEF RecordSound
  <2> QED  BY <2>1, <2>2
<1> QED  BY <1>8, <1>9, RecordsOfOthersStay

\* A restart, with or without power, reads a journal that keeps as much.
LEMMA RestartKeepsRecords ==
    ASSUME HistoryTypeOK, RecordInv, NEW d \in Device, Restart(d)
    PROVE  RecordInv'
<1>1. PICK file \in {retention[d].file} \cup AfterPowerLoss(retention[d].file) :
          retention' = [retention EXCEPT ![d] = Recovered(file)]
  BY DEF Restart
<1>2. acknowledged' = acknowledged /\ published' = [published EXCEPT ![d] = {}]
  BY DEF Restart
<1>3. /\ retention \in [Device -> RetentionRecord] /\ retention[d].file \in JournalOf(LineRecord)
      /\ published \in [Device -> SUBSET GroupRecord]
  BY DEF HistoryTypeOK, RetentionRecord
<1>4. RecordSound(d) /\ Whole(retention[d])
  BY DEF RecordInv, RecordSound
<1>5. /\ file \in JournalOf(LineRecord) /\ Prefixed(file) /\ file.durable <= Len(file.lines)
      /\ KeptGroups(retention[d].file) \subseteq KeptGroups(file)
      /\ Lost(retention[d].file) => Lost(file)
  <2>1. Prefixed(retention[d].file) /\ retention[d].file.durable <= Len(retention[d].file.lines)
    BY <1>4 DEF Whole
  <2>2. CASE file = retention[d].file
    BY <1>3, <2>1, <2>2
  <2>3. CASE file \in AfterPowerLoss(retention[d].file)
    BY <1>3, <2>1, <2>3, PowerLossKeepsGroups
  <2> QED  BY <2>2, <2>3
<1>6. Whole(Recovered(file)) /\ Recovered(file).file = file
  BY <1>5, RecoveredPrefix, NumberedIsRecovered, CleanIsNumbered DEF Whole
<1>7. retention'[d] = Recovered(file) /\ published'[d] = {} /\ acknowledged'[d] = acknowledged[d]
  BY <1>1, <1>2, <1>3
<1>8. \A x \in Device \ {d} : retention'[x] = retention[x] /\ acknowledged'[x] = acknowledged[x]
                              /\ published'[x] = published[x]
  BY <1>1, <1>2, <1>3
<1>9. Keeps(file, acknowledged'[d] \cup published'[d])
  BY <1>4, <1>5, <1>7 DEF RecordSound, Keeps
<1>10. RecordSound(d)'
  BY <1>6, <1>7, <1>9 DEF RecordSound
<1> QED  BY <1>8, <1>10, RecordsOfOthersStay

\* acknowledge_undo_retirements moves groups that are kept.
LEMMA AcknowledgeKeepsRecords ==
    ASSUME HistoryTypeOK, RecordInv, NEW d \in Device, AcknowledgeRetirements(d)
    PROVE  RecordInv'
<1>1. /\ acknowledged' = [acknowledged EXCEPT ![d] = @ \cup published[d]]
      /\ published' = [published EXCEPT ![d] = {}] /\ retention' = retention
  BY DEF AcknowledgeRetirements
<1>2. published \in [Device -> SUBSET GroupRecord] /\ acknowledged \in [Device -> SUBSET GroupRecord]
  BY DEF HistoryTypeOK
<1>3. RecordSound(d)
  BY DEF RecordInv
<1>4. acknowledged'[d] \cup published'[d] = acknowledged[d] \cup published[d]
  BY <1>1, <1>2
<1>5. RecordSound(d)'
  BY <1>1, <1>3, <1>4 DEF RecordSound
<1>6. \A x \in Device \ {d} : retention'[x] = retention[x] /\ acknowledged'[x] = acknowledged[x]
                              /\ published'[x] = published[x]
  BY <1>1, <1>2
<1> QED  BY <1>5, <1>6, RecordsOfOthersStay

\* A group that a session has dropped after a successful publication is in the
\* journal a restart reads, whatever failed before or cut the power, unless a
\* record of that journal was written behind a line a short write had broken.
THEOREM AcknowledgedStaysRecorded ==
    ReclamationSpec => []AcknowledgedIsRecorded
<1>1. ReclamationInit => RecordInv
  <2> SUFFICES ASSUME ReclamationInit, NEW d \in Device PROVE RecordSound(d)
    BY DEF RecordInv
  <2>1. retention[d] = Closed /\ published[d] = {} /\ acknowledged[d] = {}
    BY DEF ReclamationInit
  <2> QED  BY <2>1 DEF RecordSound, Whole, Prefixed, Keeps, Closed, NewJournal
<1>2. UndoInv /\ RecordInv /\ [ReclamationNext]_reclamationVars => RecordInv'
  <2> SUFFICES ASSUME UndoInv, RecordInv, [ReclamationNext]_reclamationVars
               PROVE  RecordInv'
    OBVIOUS
  <2>1. HistoryTypeOK
    BY DEF UndoInv
  <2>2. ASSUME UNCHANGED <<retention, acknowledged, published>>
        PROVE  RecordInv'
    BY <2>2 DEF RecordInv, RecordSound, Whole, Numbered, KeptGroups, GroupsIn, Kept
  <2>3. ASSUME NEW d \in Device, DeviceStep(d)
        PROVE  RecordInv'
    <3>1. CASE Publish(d)
      BY <2>1, <3>1, PublishKeepsRecords
    <3>2. CASE AcknowledgeRetirements(d)
      BY <2>1, <3>2, AcknowledgeKeepsRecords
    <3>3. CASE Restart(d)
      BY <2>1, <3>3, RestartKeepsRecords
    <3>4. CASE Edit(d) \/ Receive(d) \/ TrimGroup(d) \/ OfferCheckpoint(d) \/ PublishEvidence(d) \/ Install(d)
      BY <2>2, <3>4 DEF Edit, Receive, TrimGroup, OfferCheckpoint, PublishEvidence, Install
    <3> QED  BY <2>3, <3>1, <3>2, <3>3, <3>4 DEF DeviceStep
  <2>4. CASE Certify \/ ChangeEpoch
    BY <2>2, <2>4 DEF Certify, ChangeEpoch
  <2>5. CASE UNCHANGED reclamationVars
    BY <2>2, <2>5 DEF reclamationVars
  <2> QED  BY <2>3, <2>4, <2>5 DEF ReclamationNext
<1>3. UndoInv /\ RecordInv => AcknowledgedIsRecorded
  <2> SUFFICES ASSUME UndoInv, RecordInv, NEW d \in Device,
                      Garbage \notin Range(retention[d].file.lines),
                      NEW f \in AfterPowerLoss(retention[d].file)
               PROVE  acknowledged[d] \subseteq Recovered(f).retired
    BY DEF AcknowledgedIsRecorded
  <2> DEFINE file == retention[d].file
  <2>1. file \in JournalOf(LineRecord) /\ RecordSound(d)
    BY DEF UndoInv, HistoryTypeOK, RetentionRecord, RecordInv
  <2>2. Clean(file) /\ ~Lost(file)
    <3>1. file.lines \in Seq(LineRecord) /\ Len(file.lines) \in Nat /\ file.durable \in Nat
      BY <2>1 DEF JournalOf
    <3>2. file.durable <= Len(file.lines) /\ \A i \in 1..Len(file.lines) : file.lines[i] # Garbage
      BY <2>1, <3>1 DEF RecordSound, Whole, Range
    <3>3. \A i \in 1..Len(file.lines) : file.lines[i] \in LineRecord
      BY <3>1
    <3>4. Clean(file)
      BY <3>2, <3>3 DEF Clean, LineRecord
    <3> QED  BY <3>1, <3>2, <3>4 DEF Clean, Lost, Kept
  <2> HIDE DEF file
  <2>3. /\ f \in JournalOf(LineRecord) /\ Prefixed(f) /\ Clean(f)
        /\ KeptGroups(file) \subseteq GroupsIn(f.lines)
    BY <2>1, <2>2, PowerLossKeepsGroups DEF RecordSound, Whole, file
  <2>4. Recovered(f).retired = GroupsIn(f.lines)
    BY <2>3, NumberedIsRecovered, CleanIsNumbered
  <2> QED  BY <2>1, <2>2, <2>3, <2>4 DEF RecordSound, Keeps, file
<1> QED  BY <1>1, <1>2, <1>3, UndoInvariance, PTL DEF ReclamationSpec
==============================================================================
