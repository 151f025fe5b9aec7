------------------------- MODULE ListReplicaProofs -------------------------
(***************************************************************************)
(* Theorems about ListReplica, for any finite set of actors and any number *)
(* of operations: its types, the honesty of version vectors, and the       *)
(* agreement of identities with causality.                                 *)
(***************************************************************************)
EXTENDS ListReplica, TLAPS, FiniteSetTheorems, WellFoundedInduction

-----------------------------------------------------------------------------
(* Extrema of sets of naturals *)

\* A nonempty set of naturals has a smallest element.
LEMMA MinExists ==
    ASSUME NEW S, S \subseteq Nat, S # {}
    PROVE  Min(S) \in S /\ \A y \in S : Min(S) <= y
<1>1. PICK x \in S : \A y \in S : ~(<<y, x>> \in OpToRel(<, Nat))
  BY NatLessThanWellFounded, WFMin
<1>2. \A y \in S : ~(y < x)
  BY <1>1, Zenon DEF OpToRel
<1>3. \A y \in S : x <= y
  BY <1>2
<1>4. QED
  BY <1>3 DEF Min

\* The smallest element of a nonempty set lies in any interval around the set.
LEMMA MinInRange ==
    ASSUME NEW a \in Nat, NEW b \in Nat, NEW S, S \subseteq a .. b, S # {}
    PROVE  Min(S) \in S /\ Min(S) \in a .. b
<1>1. S \subseteq Nat
  OBVIOUS
<1>2. Min(S) \in S
  BY <1>1, MinExists, Zenon
<1>3. QED
  BY <1>2

\* A nonempty bounded set of naturals has a largest element.
LEMMA MaxExists ==
    ASSUME NEW S, S \subseteq Nat, S # {}, NEW B \in Nat, \A n \in S : n <= B
    PROVE  \E x \in S : \A y \in S : y <= x
<1> DEFINE T == {B - n : n \in S}
<1>1. T \subseteq Nat
  <2>1. \A n \in S : n \in Nat /\ n <= B
    OBVIOUS
  <2>2. \A n \in S : B - n \in Nat
    BY <2>1
  <2>3. QED
    BY <2>2
<1>2. Min(T) \in T /\ \A y \in T : Min(T) <= y
  <2>1. T # {}
    OBVIOUS
  <2> HIDE DEF T
  <2>2. QED
    BY <1>1, <2>1, MinExists, Zenon
<1>3. PICK x \in S : Min(T) = B - x
  BY <1>2
<1>4. \A y \in S : B - x <= B - y
  BY <1>2, <1>3
<1>5. \A y \in S : y <= x
  BY <1>4
<1>6. QED
  BY <1>5

-----------------------------------------------------------------------------
(* The placement operators stay inside the list *)

\* Find answers 0 or a position that holds the identity (Index::find).
LEMMA FindType ==
    ASSUME NEW list \in Seq(Entry), NEW id
    PROVE  Find(list, id) \in 0 .. Len(list)
<1> DEFINE I == {i \in 1 .. Len(list) : list[i].origin = id}
<1>1. I # {} => Min(I) \in 1 .. Len(list)
  <2>1. I \subseteq 1 .. Len(list) /\ Len(list) \in Nat
    OBVIOUS
  <2> HIDE DEF I
  <2>2. QED
    BY <2>1, MinInRange
<1>2. Find(list, id) = IF I # {} THEN Min(I) ELSE 0
  BY DEF Find, SelectInSeq
<1>3. QED
  BY <1>1, <1>2

\* The sibling scan of integrate_impl stops inside the list or at its end.
LEMMA RightSlotType ==
    ASSUME NEW list \in Seq(Entry), NEW entry, NEW start \in 1 .. Len(list) + 1
    PROVE  RightSlot(list, entry, start) \in 0 .. Len(list) + 1
<1> DEFINE mine      == Rank(list, entry.link.rightOrigin)
           theirs(c) == Rank(list, list[c].link.rightOrigin)
           child(p)  == IF p > Len(list) THEN 0 ELSE TopChild(list, p, entry.link.parent)
           before(c) == \/ mine > theirs(c)
                        \/ mine = theirs(c) /\ IdLess(entry.origin, list[c].origin)
           stop(c)   == c = 0 \/ theirs(c) = 0 \/ before(c)
           known(c)  == c # 0 => theirs(c) # 0
           stops == {p \in start .. Len(list) + 1 : stop(child(p))}
           at == Min(stops)
<1>1. Len(list) + 1 \in stops
  <2> HIDE DEF theirs, before
  <2> QED OBVIOUS
<1>2. stops \subseteq start .. Len(list) + 1
  OBVIOUS
<1> HIDE DEF stops
<1>3. at \in start .. Len(list) + 1
  <2>1. start \in Nat /\ Len(list) + 1 \in Nat /\ stops # {}
    BY <1>1
  <2>2. QED
    BY <1>2, <2>1, MinInRange
<1>4. RightSlot(list, entry, start) = IF mine = 0 \/ ~known(child(at)) THEN 0 ELSE at
  BY DEF RightSlot, stops
<1> HIDE DEF at, mine, known, child
<1>5. QED
  BY <1>3, <1>4

\* The left scan of integrate_impl stops at or before the parent.
LEMMA LeftSlotType ==
    ASSUME NEW list \in Seq(Entry), NEW entry, NEW parent \in 1 .. Len(list)
    PROVE  LeftSlot(list, entry, parent) \in 1 .. Len(list) + 1
<1> DEFINE child(p) == TopChild(list, p, entry.link.parent)
           starts == {p \in 1 .. parent : \A q \in p .. parent - 1 : child(q) # 0}
           start == Min(starts)
           stops == {p \in start .. parent :
                        p = parent \/ IdLess(entry.origin, list[child(p)].origin)}
<1>1. parent \in starts
  <2> HIDE DEF child
  <2> QED OBVIOUS
<1>2. start \in 1 .. parent
  <2>1. starts \subseteq 1 .. parent
    OBVIOUS
  <2> HIDE DEF starts
  <2>2. 1 \in Nat /\ parent \in Nat /\ starts # {}
    BY <1>1
  <2>3. QED
    BY <2>1, <2>2, MinInRange
<1> HIDE DEF start
<1>3. parent \in stops /\ stops \subseteq start .. parent
  <2> HIDE DEF child
  <2> QED BY <1>2
<1>4. LeftSlot(list, entry, parent) = Min(stops)
  BY DEF LeftSlot, start
<1> HIDE DEF stops
<1>5. QED
  <2>1. start \in Nat /\ parent \in Nat /\ stops # {}
    BY <1>2, <1>3
  <2>2. Min(stops) \in start .. parent
    BY <1>3, <2>1, MinInRange
  <2>3. QED
    BY <1>2, <1>4, <2>2

\* The slot of an entry is 0 (refused) or a position where it can be inserted.
LEMMA SlotType ==
    ASSUME NEW list \in Seq(Entry), NEW entry, entry.link.side \in {"Left", "Right"}
    PROVE  Slot(list, entry) \in 0 .. Len(list) + 1
<1> DEFINE parent == Find(list, entry.link.parent)
<1>1. parent \in 0 .. Len(list)
  BY FindType
<1> HIDE DEF parent
<1>2. parent + 1 \in 1 .. Len(list) + 1
  BY <1>1
<1>3. RightSlot(list, entry, parent + 1) \in 0 .. Len(list) + 1
  BY <1>2, RightSlotType
<1>4. parent # 0 => LeftSlot(list, entry, parent) \in 1 .. Len(list) + 1
  BY <1>1, LeftSlotType
<1>5. Slot(list, entry) \in {0, Len(list) + 1, RightSlot(list, entry, parent + 1)}
      \/ (parent # 0 /\ Slot(list, entry) = LeftSlot(list, entry, parent))
  BY DEF Slot, parent
<1>6. QED
  BY <1>1, <1>3, <1>4, <1>5

\* Inserting an element of S into a sequence over S gives a sequence over S.
LEMMA InsertAtType ==
    ASSUME NEW S, NEW list \in Seq(S), NEW k \in 1 .. Len(list) + 1, NEW e \in S
    PROVE  InsertAt(list, k, e) \in Seq(S)
<1>1. SubSeq(list, 1, k - 1) \in Seq(S)
  OBVIOUS
<1>2. SubSeq(list, k, Len(list)) \in Seq(S)
  OBVIOUS
<1>3. <<e>> \in Seq(S)
  OBVIOUS
<1>4. SubSeq(list, 1, k - 1) \o <<e>> \in Seq(S)
  BY <1>1, <1>3
<1>5. QED
  BY <1>2, <1>4 DEF InsertAt

\* integrate keeps a list of entries a list of entries.
LEMMA IntegrateType ==
    ASSUME NEW list \in Seq(Entry), NEW entry \in Entry
    PROVE  Integrate(list, entry) \in Seq(Entry)
<1>1. entry.link.side \in {"Left", "Right"}
  BY DEF Entry, Link
<1>2. Slot(list, entry) \in 0 .. Len(list) + 1
  BY <1>1, SlotType
<1>3. CASE Slot(list, entry) = 0
  BY <1>3 DEF Integrate
<1>4. CASE Slot(list, entry) # 0
  <2>1. Slot(list, entry) \in 1 .. Len(list) + 1
    BY <1>2, <1>4
  <2>2. QED
    BY <1>4, <2>1, InsertAtType DEF Integrate
<1>5. QED
  BY <1>3, <1>4

\* The fields of an entry and of its link are identities.
LEMMA EntryFields ==
    ASSUME NEW list \in Seq(Entry)
    PROVE  \A i \in DOMAIN list :
              /\ list[i].origin \in Identity
              /\ list[i].link \in Link
              /\ list[i].deletions \subseteq Identity
<1>1. \A i \in DOMAIN list : list[i] \in Entry
  OBVIOUS
<1>2. \A e \in Entry : e.origin \in Identity /\ e.link \in Link /\ e.deletions \subseteq Identity
  BY DEF Entry
<1>3. QED
  BY <1>1, <1>2

\* mint_link yields a well-formed link.
LEMMA MintLinkType ==
    ASSUME NEW list \in Seq(Entry), NEW left \in {NoId} \cup Origins(list)
    PROVE  MintLink(list, left) \in Link
<1> DEFINE after == IF left = NoId THEN 1 ELSE Find(list, left) + 1
           right == IF after > Len(list) THEN NoId ELSE list[after].origin
<1>1. after \in 1 .. Len(list) + 1
  BY FindType
<1> HIDE DEF after
<1>2. right \in Identity \cup {NoId}
  <2>1. after <= Len(list) => list[after].origin \in Identity
    BY <1>1, EntryFields
  <2>2. QED
    BY <1>1, <2>1
<1>3. left \in Identity \cup {NoId}
  BY EntryFields DEF Origins
<1> HIDE DEF right
<1>4. MintLink(list, left)
        \in {[parent |-> right, side |-> "Left", rightOrigin |-> right],
             [parent |-> left, side |-> "Right", rightOrigin |-> right]}
  BY DEF MintLink, after, right
<1>5. QED
  BY <1>2, <1>3, <1>4 DEF Link

\* Recording a deletion keeps a list of entries.
LEMMA DeletedType ==
    ASSUME NEW list \in Seq(Entry), NEW target, NEW del \in Identity
    PROVE  Deleted(list, target, del) \in Seq(Entry)
<1>1. \A i \in DOMAIN list : list[i] \in Entry
  OBVIOUS
<1>2. \A e \in Entry : [e EXCEPT !.deletions = @ \cup {del}] \in Entry
  BY DEF Entry
<1>3. \A i \in 1 .. Len(list) : Deleted(list, target, del)[i] \in Entry
  BY <1>1, <1>2 DEF Deleted
<1>4. DOMAIN Deleted(list, target, del) = 1 .. Len(list) /\ Len(list) \in Nat
  BY DEF Deleted
<1>5. Deleted(list, target, del) = [i \in 1 .. Len(list) |-> Deleted(list, target, del)[i]]
  BY DEF Deleted
<1>6. QED
  BY <1>3, <1>4, <1>5

\* Dropping entries keeps a list of entries (collect_garbage).
LEMMA KeptType ==
    ASSUME NEW list \in Seq(Entry), NEW gone
    PROVE  Kept(list, gone) \in Seq(Entry)
<1> DEFINE kept == {i \in DOMAIN list : list[i] \notin gone}
           passed(k) == {i \in DOMAIN list : Cardinality(kept \cap (1 .. i)) >= k}
<1>1. DOMAIN list = 1 .. Len(list) /\ Len(list) \in Nat
  OBVIOUS
<1>2. kept \subseteq 1 .. Len(list)
  BY <1>1
<1> HIDE DEF kept
<1>3. IsFiniteSet(kept) /\ Cardinality(kept) \in Nat
  <2>1. IsFiniteSet(1 .. Len(list))
    BY <1>1, FS_Interval
  <2>2. QED
    BY <1>2, <2>1, FS_Subset, FS_CardinalityType
<1>4. ASSUME NEW k \in 1 .. Cardinality(kept)
      PROVE  list[Min(passed(k))] \in Entry
  <2>1. kept \cap (1 .. Len(list)) = kept
    BY <1>2
  <2>2. Len(list) # 0
    <3>1. SUFFICES ASSUME Len(list) = 0 PROVE FALSE
      OBVIOUS
    <3>2. kept = {}
      BY <1>2, <3>1
    <3>3. QED
      BY <3>2, <1>3, <1>4, FS_EmptySet
  <2>3. Len(list) \in passed(k)
    <3>1. Cardinality(kept) >= k
      BY <1>3
    <3>2. Cardinality(kept \cap (1 .. Len(list))) >= k
      BY <2>1, <3>1
    <3>3. QED
      BY <1>1, <2>2, <3>2
  <2>4. passed(k) \subseteq 1 .. Len(list)
    BY <1>1
  <2> HIDE DEF passed
  <2>5. Min(passed(k)) \in 1 .. Len(list)
    BY <1>1, <2>3, <2>4, MinInRange
  <2>6. QED
    BY <2>5
<1>5. Kept(list, gone) = [k \in 1 .. Cardinality(kept) |-> list[Min(passed(k))]]
  BY DEF Kept, kept
<1> HIDE DEF passed
<1>6. QED
  BY <1>3, <1>4, <1>5

-----------------------------------------------------------------------------
(* The inductive invariant *)

\* An operation is its identity: a counter is never issued twice.
IdentitiesAreUnique == \A o, p \in sent : o.id = p.id => o = p

\* A replica integrates only what was sent, and at once what it sent itself.
AppliedIsSent ==
    /\ \A r \in Actor : applied[r] \subseteq sent
    /\ \A o \in sent : o \in applied[o.id.actor]

\* The version an operation carries covers its author's earlier operations.
AuthorOrder ==
    \A o, p \in sent :
        o.id.actor = p.id.actor /\ o.id.counter < p.id.counter
            => Observed(p.version, o.id)

\* Nothing anywhere is at or above the next counter of its author.
CountersAreIssued ==
    \A a \in Actor :
        /\ \A r \in Actor : version[r][a] < next[a]
        /\ \A o \in sent : o.version[a] < next[a]
        /\ \A o \in sent : o.id.actor = a => o.id.counter < next[a]

\* A replica's allocator is above everything the replica has seen.
AllocatorIsAhead == \A r, a \in Actor : version[r][a] < next[r]

\* Undo counts grow no faster than the counters of the undo operations.
UndoCountsAreBounded ==
    /\ \A r \in Actor : \A u \in undoMap[r] :
          u.count <= u.undo.counter /\ u.undo.counter < next[r]
    /\ \A o \in sent : o.kind = "undo" => \A c \in o.counts : c.count <= o.id.counter

CausalInv ==
    /\ version \in [Actor -> Global]
    /\ next \in [Actor -> Nat \ {0}]
    /\ sent \subseteq Operation
    /\ applied \in [Actor -> SUBSET Operation]
    /\ IdentitiesAreUnique
    /\ AppliedIsSent
    /\ AuthorOrder
    /\ CountersAreIssued
    /\ AllocatorIsAhead
    /\ CoverageIsHonest
    /\ IdentityFollowsCausality

DocumentInv ==
    /\ entries \in [Actor -> Seq(Entry)]
    /\ undoMap \in [Actor -> SUBSET UndoEvent]
    /\ UndoCountsAreBounded

ListInv == CausalInv /\ DocumentInv

\* Every operation has an identity and a version vector.
LEMMA OperationFields ==
    ASSUME NEW op \in Operation
    PROVE  /\ op.id \in Identity /\ op.version \in Global
           /\ op.id.actor \in Actor /\ op.id.counter \in Nat \ {0}
           /\ \A a \in Actor : op.version[a] \in Nat
           /\ op.kind = "insert" => op.link \in Link
           /\ op.kind = "remove" => op.target \in Identity
           /\ op.kind = "undo" =>
                 op.counts \subseteq [target : Identity, count : Nat \ {0}]
           /\ op.kind \in {"insert", "remove", "undo"}
<1>1. CASE op \in InsertOp
  BY <1>1 DEF InsertOp, Identity, Global
<1>2. CASE op \in RemoveOp
  BY <1>2 DEF RemoveOp, Identity, Global
<1>3. CASE op \in UndoOp
  BY <1>3 DEF UndoOp, Identity, Global
<1>4. QED
  BY <1>1, <1>2, <1>3 DEF Operation

-----------------------------------------------------------------------------
(* What a step does to the causal part of the state *)

\* A local operation, whatever its kind.
LEMMA EmitKeepsCausalInv ==
    ASSUME CausalInv, NEW r \in Actor, NEW op \in Operation,
           op.id = NewId(r), op.version = version[r], Emit(r, op)
    PROVE  CausalInv'
<1> USE DEF CausalInv
<1>1. /\ op.id.actor = r /\ op.id.counter = next[r] /\ op.id \in Identity
      /\ next[r] \in Nat \ {0}
  BY OperationFields DEF NewId
<1>2. /\ version' \in [Actor -> Global]
      /\ \A s \in Actor : s # r => version'[s] = version[s]
      /\ version'[r][r] = next[r]
      /\ \A a \in Actor : a # r => version'[r][a] = version[r][a]
  <2>1. version[r] \in Global /\ version[r][r] < next[r]
    BY DEF AllocatorIsAhead
  <2>2. version' = [version EXCEPT ![r] = Observe(@, op.id)]
    BY DEF Emit
  <2>3. Observe(version[r], op.id) = [version[r] EXCEPT ![r] = next[r]]
    BY <1>1, <2>1 DEF Observe, Global
  <2>4. QED
    BY <1>1, <2>1, <2>2, <2>3 DEF Global
<1>3. /\ next' \in [Actor -> Nat \ {0}]
      /\ next'[r] = next[r] + 1
      /\ \A s \in Actor : s # r => next'[s] = next[s]
  BY <1>1 DEF Emit
<1>4. sent' = sent \cup {op} /\ sent' \subseteq Operation
  BY DEF Emit
<1>5. /\ applied' \in [Actor -> SUBSET Operation]
      /\ applied'[r] = applied[r] \cup {op}
      /\ \A s \in Actor : s # r => applied'[s] = applied[s]
  BY DEF Emit
<1>6. \A o \in sent : /\ o.id.actor \in Actor /\ o.id.counter \in Nat \ {0}
                      /\ o.id \in Identity
                      /\ \A a \in Actor : o.version[a] \in Nat
  BY OperationFields
<1>7. \A o \in sent : o.id.actor = r => o.id.counter < next[r]
  BY DEF CountersAreIssued
<1>8. IdentitiesAreUnique'
  BY <1>1, <1>4, <1>6, <1>7 DEF IdentitiesAreUnique
<1>9. AppliedIsSent'
  BY <1>1, <1>4, <1>5, <1>6 DEF AppliedIsSent
<1>10. AuthorOrder'
  <2>1. \A o \in sent : o.id.actor = r => Observed(op.version, o.id)
    BY <1>6 DEF AppliedIsSent, CoverageIsHonest
  <2>2. QED
    BY <1>1, <1>4, <1>6, <1>7, <2>1 DEF AuthorOrder
<1>11. CountersAreIssued'
  <2>1. \A s, a \in Actor : version'[s][a] < next'[a]
    BY <1>1, <1>2, <1>3 DEF CountersAreIssued, Global
  <2>2. \A o \in sent' : \A a \in Actor : o.version[a] < next'[a]
    BY <1>1, <1>3, <1>4, <1>6 DEF CountersAreIssued, Global
  <2>3. \A o \in sent' : \A a \in Actor : o.id.actor = a => o.id.counter < next'[a]
    BY <1>1, <1>3, <1>4, <1>6 DEF CountersAreIssued
  <2>4. QED
    BY <2>1, <2>2, <2>3 DEF CountersAreIssued
<1>12. AllocatorIsAhead'
  BY <1>1, <1>2, <1>3 DEF AllocatorIsAhead, Global
<1>13. CoverageIsHonest'
  <2>1. SUFFICES ASSUME NEW s \in Actor, NEW o \in sent'
                 PROVE  Observed(version'[s], o.id) <=> o \in applied'[s]
    BY DEF CoverageIsHonest
  <2>2. CASE o = op /\ s = r
    BY <1>1, <1>2, <1>5, <2>2 DEF Observed
  <2>3. CASE o = op /\ s # r
    <3>1. version'[s][r] < next[r]
      BY <1>2, <2>3 DEF CountersAreIssued
    <3>2. op \notin applied[s]
      BY <1>1, <1>7 DEF AppliedIsSent
    <3>3. QED
      BY <1>1, <1>2, <1>5, <2>3, <3>1, <3>2 DEF Observed, Global
  <2>4. CASE o # op /\ s = r
    <3>1. o \in sent
      BY <1>4, <2>4
    <3>2. Observed(version[r], o.id) <=> o \in applied[r]
      BY <3>1 DEF CoverageIsHonest
    <3>3. o.id.actor = r => o \in applied[r]
      BY <3>1 DEF AppliedIsSent
    <3>4. o.id.actor = r => Observed(version'[r], o.id)
      BY <1>2, <1>6, <1>7, <3>1 DEF Observed
    <3>5. o.id.actor # r => (Observed(version'[r], o.id) <=> Observed(version[r], o.id))
      BY <1>2, <1>6, <3>1 DEF Observed
    <3>6. QED
      BY <1>5, <2>4, <3>2, <3>3, <3>4, <3>5
  <2>5. CASE o # op /\ s # r
    BY <1>2, <1>4, <1>5, <2>5 DEF CoverageIsHonest
  <2>6. QED
    BY <2>2, <2>3, <2>4, <2>5
<1>14. IdentityFollowsCausality'
  <2>1. \A o \in sent : Observed(op.version, o.id) => IdLess(o.id, op.id)
    BY <1>1, <1>6 DEF Observed, IdLess, AllocatorIsAhead, Global
  <2>2. \A o \in sent : ~Observed(o.version, op.id)
    BY <1>1, <1>6 DEF Observed, CountersAreIssued
  <2>3. \A o \in sent : o.id # op.id
    BY <1>1, <1>7
  <2>4. QED
    BY <1>4, <2>1, <2>2, <2>3 DEF IdentityFollowsCausality
<1>15. QED
  BY <1>2, <1>3, <1>4, <1>5, <1>8, <1>9, <1>10, <1>11, <1>12, <1>13, <1>14

\* The operation of another replica, once its dependencies are there.
LEMMA ApplyKeepsCausalInv ==
    ASSUME CausalInv, NEW r \in Actor, NEW op \in sent,
           ~Observed(version[r], op.id), ObservedAll(version[r], op.version),
           ApplyConcrete(r, op)
    PROVE  CausalInv'
<1> USE DEF CausalInv
<1> DEFINE author == op.id.actor
<1>1. \A o \in sent : /\ o.id.actor \in Actor /\ o.id.counter \in Nat \ {0}
                      /\ o.id \in Identity /\ o.version \in Global
                      /\ \A a \in Actor : o.version[a] \in Nat
  BY OperationFields
<1>2. /\ version' \in [Actor -> Global]
      /\ \A s \in Actor : s # r => version'[s] = version[s]
      /\ version'[r][author] = op.id.counter
      /\ \A a \in Actor : a # author => version'[r][a] = version[r][a]
  <2>1. version[r] \in Global /\ version[r][author] < op.id.counter
    BY <1>1 DEF Observed, Global
  <2>2. Observe(version[r], op.id) = [version[r] EXCEPT ![author] = op.id.counter]
    BY <1>1, <2>1 DEF Observe, Global
  <2>3. Join(Observe(version[r], op.id), op.version)
          = [version[r] EXCEPT ![author] = op.id.counter]
    <3>1. \A a \in Actor : op.version[a] <= version[r][a]
      BY <1>1, <2>1 DEF ObservedAll, Global
    <3>2. \A a \in Actor : [version[r] EXCEPT ![author] = op.id.counter][a] >= op.version[a]
      BY <1>1, <2>1, <3>1 DEF Global
    <3>3. Join([version[r] EXCEPT ![author] = op.id.counter], op.version)
            = [version[r] EXCEPT ![author] = op.id.counter]
      BY <2>1, <3>2 DEF Join, Global
    <3>4. QED
      BY <2>2, <3>3
  <2>4. version' = [version EXCEPT ![r] = Join(Observe(@, op.id), op.version)]
    BY DEF ApplyConcrete
  <2>5. QED
    BY <1>1, <2>1, <2>3, <2>4 DEF Global
<1>3. /\ next' \in [Actor -> Nat \ {0}]
      /\ next'[r] >= next[r] /\ op.id.counter < next'[r]
      /\ \A s \in Actor : s # r => next'[s] = next[s]
  BY <1>1 DEF ApplyConcrete, ObserveRemote
<1>4. sent' = sent
  BY DEF ApplyConcrete
<1>5. /\ applied' \in [Actor -> SUBSET Operation]
      /\ applied'[r] = applied[r] \cup {op}
      /\ \A s \in Actor : s # r => applied'[s] = applied[s]
  BY DEF ApplyConcrete
<1>6. IdentitiesAreUnique' /\ AuthorOrder' /\ IdentityFollowsCausality'
  BY <1>4 DEF IdentitiesAreUnique, AuthorOrder, IdentityFollowsCausality
<1>7. AppliedIsSent'
  BY <1>1, <1>4, <1>5 DEF AppliedIsSent
<1>8. CountersAreIssued'
  <2>1. \A a \in Actor : next[a] <= next'[a]
    BY <1>3
  <2>2. op.id.counter < next[author]
    BY <1>1 DEF CountersAreIssued
  <2>3. \A s, a \in Actor : version'[s][a] < next'[a]
    BY <1>1, <1>2, <1>3, <2>1, <2>2 DEF CountersAreIssued, Global
  <2>4. \A o \in sent, a \in Actor : o.version[a] < next'[a]
    BY <1>1, <1>3, <2>1 DEF CountersAreIssued
  <2>5. \A o \in sent, a \in Actor : o.id.actor = a => o.id.counter < next'[a]
    BY <1>1, <1>3, <2>1 DEF CountersAreIssued
  <2>6. QED
    BY <1>4, <2>3, <2>4, <2>5 DEF CountersAreIssued
<1>9. AllocatorIsAhead'
  <2>1. SUFFICES ASSUME NEW s \in Actor, NEW a \in Actor
                 PROVE  version'[s][a] < next'[s]
    BY DEF AllocatorIsAhead
  <2>2. version[s][a] < next[s]
    BY DEF AllocatorIsAhead
  <2>3. version[s][a] \in Nat /\ next[s] \in Nat /\ next'[s] \in Nat
    BY <1>3 DEF Global
  <2>4. CASE s # r
    BY <1>2, <1>3, <2>2, <2>4
  <2>5. CASE s = r /\ a = author
    BY <1>2, <1>3, <2>5
  <2>6. CASE s = r /\ a # author
    BY <1>2, <1>3, <2>2, <2>3, <2>6
  <2>7. QED
    BY <2>4, <2>5, <2>6
<1>10. CoverageIsHonest'
  <2>1. SUFFICES ASSUME NEW s \in Actor, NEW o \in sent
                 PROVE  Observed(version'[s], o.id) <=> o \in applied'[s]
    BY <1>4 DEF CoverageIsHonest
  <2>2. Observed(version[s], o.id) <=> o \in applied[s]
    BY DEF CoverageIsHonest
  <2>3. CASE s # r
    BY <1>2, <1>5, <2>2, <2>3
  <2>4. CASE s = r /\ o.id.actor # author
    BY <1>1, <1>2, <1>5, <2>2, <2>4 DEF Observed
  <2>5. CASE s = r /\ o = op
    BY <1>1, <1>2, <1>5, <2>5 DEF Observed
  <2>6. CASE s = r /\ o.id.actor = author /\ o # op
    <3>1. o.id.counter # op.id.counter
      BY <1>1, <2>6 DEF IdentitiesAreUnique, Identity
    <3>2. CASE o.id.counter < op.id.counter
      \* The author's earlier operation is a dependency, so it is integrated.
      <4>1. Observed(op.version, o.id)
        BY <2>6, <3>2 DEF AuthorOrder
      <4>2. Observed(version[r], o.id)
        BY <1>1, <4>1 DEF Observed, ObservedAll, Global
      <4>3. Observed(version'[r], o.id)
        BY <1>1, <1>2, <2>6, <3>2 DEF Observed
      <4>4. QED
        BY <1>5, <2>2, <2>6, <4>2, <4>3
    <3>3. CASE o.id.counter > op.id.counter
      <4>1. ~Observed(version'[r], o.id)
        BY <1>1, <1>2, <2>6, <3>3 DEF Observed
      <4>2. ~Observed(version[r], o.id)
        BY <1>1, <2>6, <3>3 DEF Observed, Global
      <4>3. QED
        BY <1>5, <2>2, <2>6, <4>1, <4>2
    <3>4. QED
      BY <1>1, <3>1, <3>2, <3>3
  <2>7. QED
    BY <2>3, <2>4, <2>5, <2>6
<1>11. QED
  BY <1>2, <1>3, <1>4, <1>5, <1>6, <1>7, <1>8, <1>9, <1>10

-----------------------------------------------------------------------------
(* What a step does to the documents *)

\* The undo count of an identity exists and is below the replica's next counter.
LEMMA UndoCountType ==
    ASSUME ListInv, NEW r \in Actor, NEW id
    PROVE  UndoCount(undoMap[r], id) \in Nat /\ UndoCount(undoMap[r], id) < next[r]
<1> DEFINE counts == {e.count : e \in {f \in undoMap[r] : f.edit = id}}
<1>1. next[r] \in Nat \ {0}
  BY DEF ListInv, CausalInv
<1>2. \A u \in undoMap[r] : u.count \in Nat \ {0} /\ u.undo.counter \in Nat
                            /\ u.count <= u.undo.counter /\ u.undo.counter < next[r]
  BY DEF ListInv, DocumentInv, UndoCountsAreBounded, UndoEvent, Identity
<1>3. \A n \in counts : n \in Nat /\ n < next[r]
  BY <1>1, <1>2
<1>4. UndoCount(undoMap[r], id)
        = IF counts = {} THEN 0 ELSE CHOOSE n \in counts : \A m \in counts : m <= n
  BY DEF UndoCount
<1> HIDE DEF counts
<1>5. CASE counts = {}
  BY <1>1, <1>4, <1>5
<1>6. CASE counts # {}
  <2>1. \A n \in counts : n <= next[r]
    BY <1>1, <1>3
  <2>2. counts \subseteq Nat /\ next[r] \in Nat
    BY <1>1, <1>3
  <2>3. \E x \in counts : \A y \in counts : y <= x
    BY <1>6, <2>1, <2>2, MaxExists
  <2>4. UndoCount(undoMap[r], id) \in counts
    BY <1>4, <1>6, <2>3
  <2>5. QED
    BY <1>3, <2>4
<1>7. QED
  BY <1>5, <1>6

\* A local insertion keeps the invariant: new counters and new operations leave
\* what is already bounded bounded (insert_after_resolved).
LEMMA InsertKeepsInv ==
    ASSUME ListInv, NEW r \in Actor, NEW left, InsertAfter(r, left)
    PROVE  ListInv'
<1> DEFINE id    == NewId(r)
           link  == MintLink(entries[r], left)
           entry == [origin |-> id, link |-> link, deletions |-> {}]
           op    == [kind |-> "insert", id |-> id, version |-> version[r], link |-> link]
<1>1. id \in Identity /\ version[r] \in Global /\ entries[r] \in Seq(Entry)
  BY DEF NewId, Identity, ListInv, CausalInv, DocumentInv
<1>2. link \in Link
  BY <1>1, MintLinkType DEF InsertAfter
<1>3. Emit(r, op) /\ UNCHANGED undoMap
      /\ entries' = [entries EXCEPT ![r] = Integrate(@, entry)]
  BY DEF InsertAfter
<1> HIDE DEF link
<1>4. op \in Operation /\ op.id = NewId(r) /\ op.version = version[r]
  BY <1>1, <1>2 DEF Operation, InsertOp
<1>5. CausalInv'
  <2> HIDE DEF op
  <2> QED BY <1>3, <1>4, EmitKeepsCausalInv DEF ListInv
<1>6. entries' \in [Actor -> Seq(Entry)]
  <2>1. entry \in Entry
    BY <1>1, <1>2 DEF Entry
  <2>2. Integrate(entries[r], entry) \in Seq(Entry)
    BY <1>1, <2>1, IntegrateType
  <2>3. QED
    BY <1>3, <2>2 DEF ListInv, DocumentInv
<1>7. UndoCountsAreBounded'
  <2>1. next' = [next EXCEPT ![r] = @ + 1] /\ sent' = sent \cup {op}
    BY <1>3 DEF Emit
  <2>2. QED
    BY <1>3, <2>1 DEF ListInv, CausalInv, DocumentInv, UndoCountsAreBounded, UndoEvent, Identity
<1>8. QED
  BY <1>3, <1>5, <1>6, <1>7 DEF ListInv, DocumentInv

\* A local removal keeps the invariant (remove_at_resolved).
LEMMA RemoveKeepsInv ==
    ASSUME ListInv, NEW r \in Actor, NEW target, RemoveEntry(r, target)
    PROVE  ListInv'
<1> DEFINE id == NewId(r)
           op == [kind |-> "remove", id |-> id, version |-> version[r], target |-> target]
<1>1. id \in Identity /\ version[r] \in Global /\ entries[r] \in Seq(Entry)
  BY DEF NewId, Identity, ListInv, CausalInv, DocumentInv
<1>2. target \in Identity
  BY <1>1, EntryFields DEF RemoveEntry, Origins
<1>3. Emit(r, op) /\ UNCHANGED undoMap
      /\ entries' = [entries EXCEPT ![r] = Deleted(@, target, id)]
  BY DEF RemoveEntry
<1>4. op \in Operation /\ op.id = NewId(r) /\ op.version = version[r]
  BY <1>1, <1>2 DEF Operation, RemoveOp
<1>5. CausalInv'
  <2> HIDE DEF op
  <2> QED BY <1>3, <1>4, EmitKeepsCausalInv DEF ListInv
<1>6. entries' \in [Actor -> Seq(Entry)]
  BY <1>1, <1>3, DeletedType DEF ListInv, DocumentInv
<1>7. UndoCountsAreBounded'
  <2>1. next' = [next EXCEPT ![r] = @ + 1] /\ sent' = sent \cup {op}
    BY <1>3 DEF Emit
  <2>2. QED
    BY <1>3, <2>1 DEF ListInv, CausalInv, DocumentInv, UndoCountsAreBounded, UndoEvent, Identity
<1>8. QED
  BY <1>3, <1>5, <1>6, <1>7 DEF ListInv, DocumentInv

\* An undo or a redo keeps the invariant (try_undo_group, try_redo_group).
LEMMA ToggleKeepsInv ==
    ASSUME ListInv, NEW r \in Actor, NEW ids \in SUBSET Undoable(r), Toggle(r, ids)
    PROVE  ListInv'
<1> DEFINE id     == NewId(r)
           counts == {[target |-> t, count |-> NextCount(undoMap[r], t)] : t \in ids}
           op == [kind |-> "undo", id |-> id, version |-> version[r], counts |-> counts]
           events == {[edit |-> c.target, undo |-> id, count |-> c.count] : c \in counts}
<1>1. /\ id \in Identity /\ id.counter = next[r] /\ next[r] \in Nat
      /\ version[r] \in Global /\ entries[r] \in Seq(Entry)
  BY DEF NewId, Identity, ListInv, CausalInv, DocumentInv
<1>2. ids \subseteq Identity
  BY <1>1, EntryFields DEF Undoable, Held, Names
<1>3. \A t \in ids : /\ NextCount(undoMap[r], t) \in Nat \ {0}
                     /\ NextCount(undoMap[r], t) <= next[r]
  BY <1>1, UndoCountType DEF NextCount
<1>4. /\ counts \subseteq [target : Identity, count : Nat \ {0}]
      /\ \A c \in counts : c.count <= next[r]
  BY <1>2, <1>3
<1>5. /\ Emit(r, op) /\ UNCHANGED entries
      /\ undoMap' = [undoMap EXCEPT ![r] = @ \cup events]
  BY DEF Toggle
<1> HIDE DEF counts, id
<1>6. op \in Operation /\ op.id = id /\ op.version = version[r]
  BY <1>1, <1>4 DEF Operation, UndoOp
<1>7. CausalInv'
  <2> HIDE DEF op
  <2> QED BY <1>5, <1>6, EmitKeepsCausalInv DEF ListInv, id
<1>8. /\ events \subseteq UndoEvent
      /\ \A u \in events : u.undo.counter = next[r] /\ u.count <= next[r]
  BY <1>1, <1>4 DEF UndoEvent
<1> HIDE DEF events
<1>9. undoMap' \in [Actor -> SUBSET UndoEvent]
  BY <1>5, <1>8 DEF ListInv, DocumentInv
<1>10. UndoCountsAreBounded'
  <2>1. next' = [next EXCEPT ![r] = @ + 1] /\ sent' = sent \cup {op}
    BY <1>5 DEF Emit
  <2>2. \A s \in Actor : \A u \in undoMap'[s] :
          u.count <= u.undo.counter /\ u.undo.counter < next'[s]
    <3>1. \A s \in Actor : \A u \in undoMap[s] :
            /\ u.count <= u.undo.counter /\ u.undo.counter < next[s]
            /\ u.undo.counter \in Nat
      BY DEF ListInv, DocumentInv, UndoCountsAreBounded, UndoEvent, Identity
    <3>2. \A s \in Actor : next[s] \in Nat
      BY DEF ListInv, CausalInv
    <3>3. \A s \in Actor : next'[s] = IF s = r THEN next[s] + 1 ELSE next[s]
      BY <2>1 DEF ListInv, CausalInv
    <3>4. \A s \in Actor : undoMap'[s] = IF s = r THEN undoMap[s] \cup events ELSE undoMap[s]
      BY <1>5 DEF ListInv, DocumentInv
    <3>5. SUFFICES ASSUME NEW s \in Actor, NEW u \in undoMap'[s]
                   PROVE  u.count <= u.undo.counter /\ u.undo.counter < next'[s]
      OBVIOUS
    <3>6. CASE u \in undoMap[s]
      BY <3>1, <3>2, <3>3, <3>6
    <3>7. CASE s = r /\ u \in events
      BY <1>1, <1>8, <3>3, <3>7
    <3>8. QED
      BY <3>4, <3>6, <3>7
  <2>3. \A o \in sent' : o.kind = "undo" => \A c \in o.counts : c.count <= o.id.counter
    BY <1>1, <1>4, <2>1 DEF ListInv, DocumentInv, UndoCountsAreBounded
  <2>4. QED
    BY <2>2, <2>3 DEF UndoCountsAreBounded
<1>11. QED
  BY <1>5, <1>7, <1>9, <1>10 DEF ListInv, DocumentInv

\* A remote operation keeps the invariant (apply_concrete).
LEMMA ReceiveKeepsInv ==
    ASSUME ListInv, NEW r \in Actor, NEW op \in sent, Receive(r, op)
    PROVE  ListInv'
<1>1. CausalInv'
  BY ApplyKeepsCausalInv DEF ListInv, Receive
<1>2. /\ op.id \in Identity /\ op.id.counter \in Nat \ {0}
      /\ op.kind \in {"insert", "remove", "undo"}
      /\ op.kind = "insert" => op.link \in Link
      /\ op.kind = "undo" => op.counts \subseteq [target : Identity, count : Nat \ {0}]
  BY OperationFields DEF ListInv, CausalInv
<1>3. entries' \in [Actor -> Seq(Entry)]
  <2>1. entries[r] \in Seq(Entry)
    BY DEF ListInv, DocumentInv
  <2>2. CASE op.kind = "insert"
    <3>1. RemoteEntry(op) \in Entry
      BY <1>2, <2>2 DEF RemoteEntry, Entry
    <3>2. Integrate(entries[r], RemoteEntry(op)) \in Seq(Entry)
      BY <2>1, <3>1, IntegrateType
    <3>3. entries' = [entries EXCEPT ![r] = Integrate(@, RemoteEntry(op))]
      BY <2>2 DEF Receive, ApplyConcrete
    <3>4. QED
      BY <3>2, <3>3 DEF ListInv, DocumentInv
  <2>3. CASE op.kind = "remove"
    <3>1. Deleted(entries[r], op.target, op.id) \in Seq(Entry)
      BY <1>2, <2>1, DeletedType
    <3>2. entries' = [entries EXCEPT ![r] = Deleted(@, op.target, op.id)]
      BY <2>3 DEF Receive, ApplyConcrete
    <3>3. QED
      BY <3>1, <3>2 DEF ListInv, DocumentInv
  <2>4. CASE op.kind = "undo"
    <3>1. entries' = [entries EXCEPT ![r] = @]
      BY <2>4 DEF Receive, ApplyConcrete
    <3>2. QED
      BY <3>1 DEF ListInv, DocumentInv
  <2>5. QED
    BY <1>2, <2>2, <2>3, <2>4
<1>4. /\ next' \in [Actor -> Nat \ {0}] /\ sent' = sent
      /\ \A s \in Actor : next[s] <= next'[s]
      /\ op.id.counter < next'[r]
  BY <1>2 DEF ListInv, CausalInv, Receive, ApplyConcrete, ObserveRemote
<1>5. undoMap' \in [Actor -> SUBSET UndoEvent] /\ UndoCountsAreBounded'
  <2> DEFINE events == {[edit |-> c.target, undo |-> op.id, count |-> c.count] : c \in op.counts}
  <2>1. \A s \in Actor : \A u \in undoMap[s] :
          /\ u.count <= u.undo.counter /\ u.undo.counter < next[s]
          /\ u.undo.counter \in Nat
    BY DEF ListInv, DocumentInv, UndoCountsAreBounded, UndoEvent, Identity
  <2>2. \A s \in Actor : \A u \in undoMap[s] : u.undo.counter < next'[s]
    BY <1>4, <2>1 DEF ListInv, CausalInv
  <2>3. CASE op.kind # "undo"
    <3>1. undoMap' = undoMap
      BY <2>3 DEF ListInv, DocumentInv, Receive, ApplyConcrete
    <3>2. QED
      BY <1>4, <2>1, <2>2, <3>1 DEF ListInv, DocumentInv, UndoCountsAreBounded
  <2>4. CASE op.kind = "undo"
    <3>1. /\ events \subseteq UndoEvent
          /\ \A u \in events : u.undo.counter = op.id.counter /\ u.count <= u.undo.counter
      <4>1. \A c \in op.counts : /\ c.target \in Identity /\ c.count \in Nat \ {0}
                                 /\ c.count <= op.id.counter
        BY <1>2, <2>4 DEF ListInv, DocumentInv, UndoCountsAreBounded
      <4>2. QED
        BY <1>2, <4>1 DEF UndoEvent
    <3>2. undoMap' = [undoMap EXCEPT ![r] = @ \cup events]
      BY <2>4 DEF Receive, ApplyConcrete
    <3> HIDE DEF events
    <3>3. undoMap' \in [Actor -> SUBSET UndoEvent]
      BY <3>1, <3>2 DEF ListInv, DocumentInv
    <3>4. \A s \in Actor : undoMap'[s] = IF s = r THEN undoMap[s] \cup events ELSE undoMap[s]
      BY <3>2 DEF ListInv, DocumentInv
    <3>5. \A s \in Actor : \A u \in undoMap'[s] :
            u.count <= u.undo.counter /\ u.undo.counter < next'[s]
      BY <1>4, <2>1, <2>2, <3>1, <3>4
    <3>6. QED
      BY <1>4, <3>3, <3>5 DEF ListInv, DocumentInv, UndoCountsAreBounded
  <2>5. QED
    BY <2>3, <2>4
<1>6. QED
  BY <1>1, <1>3, <1>5 DEF ListInv, DocumentInv

\* Reclamation keeps the invariant (collect_garbage).
LEMMA ForgetKeepsInv ==
    ASSUME ListInv, NEW r \in Actor, NEW gone, Forget(r, gone)
    PROVE  ListInv'
<1>1. UNCHANGED <<version, next, sent, applied>>
  BY DEF Forget
<1>2. CausalInv'
  BY <1>1 DEF ListInv, CausalInv, IdentitiesAreUnique, AppliedIsSent, AuthorOrder,
              CountersAreIssued, AllocatorIsAhead, CoverageIsHonest, IdentityFollowsCausality
<1>3. entries' \in [Actor -> Seq(Entry)]
  <2>1. entries[r] \in Seq(Entry)
    BY DEF ListInv, DocumentInv
  <2>2. Kept(entries[r], gone) \in Seq(Entry)
    BY <2>1, KeptType
  <2>3. QED
    BY <2>2 DEF ListInv, DocumentInv, Forget
<1>4. undoMap' \in [Actor -> SUBSET UndoEvent] /\ UndoCountsAreBounded'
  <2>1. undoMap' \in [Actor -> SUBSET UndoEvent] /\ \A s \in Actor : undoMap'[s] \subseteq undoMap[s]
    BY DEF ListInv, DocumentInv, Forget
  <2>2. QED
    BY <1>1, <2>1 DEF ListInv, DocumentInv, UndoCountsAreBounded
<1>5. QED
  BY <1>2, <1>3, <1>4 DEF ListInv, DocumentInv

-----------------------------------------------------------------------------
(* The theorems *)

\* Empty replicas satisfy the invariant.
LEMMA InitEstablishesInv == ListInit => ListInv
<1>1. SUFFICES ASSUME ListInit PROVE ListInv
  OBVIOUS
<1>2. \A r, a \in Actor : version[r][a] = 0
  BY <1>1 DEF ListInit, EmptyGlobal
<1>3. CausalInv
  BY <1>1, <1>2 DEF ListInit, CausalInv, Global, EmptyGlobal, IdentitiesAreUnique,
     AppliedIsSent, AuthorOrder, CountersAreIssued, AllocatorIsAhead, CoverageIsHonest,
     IdentityFollowsCausality
<1>4. DocumentInv
  BY <1>1 DEF ListInit, DocumentInv, UndoCountsAreBounded
<1>5. QED
  BY <1>3, <1>4 DEF ListInv

\* Every step keeps the invariant.
LEMMA NextKeepsInv == ListInv /\ [ListNext]_listVars => ListInv'
<1>1. SUFFICES ASSUME ListInv, [ListNext]_listVars PROVE ListInv'
  OBVIOUS
<1>2. CASE UNCHANGED listVars
  BY <1>1, <1>2 DEF listVars, ListInv, CausalInv, DocumentInv, IdentitiesAreUnique,
     AppliedIsSent, AuthorOrder, CountersAreIssued, AllocatorIsAhead, CoverageIsHonest,
     IdentityFollowsCausality, UndoCountsAreBounded
<1>3. ASSUME NEW r \in Actor, NEW left, InsertAfter(r, left) PROVE ListInv'
  BY <1>1, <1>3, InsertKeepsInv
<1>4. ASSUME NEW r \in Actor, NEW target, RemoveEntry(r, target) PROVE ListInv'
  BY <1>1, <1>4, RemoveKeepsInv
<1>5. ASSUME NEW r \in Actor, NEW ids \in SUBSET Undoable(r), Toggle(r, ids) PROVE ListInv'
  BY <1>1, <1>5, ToggleKeepsInv
<1>6. ASSUME NEW r \in Actor, NEW op \in sent, Receive(r, op) PROVE ListInv'
  BY <1>1, <1>6, ReceiveKeepsInv
<1>7. ASSUME NEW r \in Actor, NEW gone, Forget(r, gone) PROVE ListInv'
  BY <1>1, <1>7, ForgetKeepsInv
<1>8. QED
  BY <1>1, <1>2, <1>3, <1>4, <1>5, <1>6, <1>7 DEF ListNext

\* The inductive invariant holds in every behaviour.
THEOREM ListInvariance == ListSpec => []ListInv
BY InitEstablishesInv, NextKeepsInv, PTL DEF ListSpec

\* Every variable keeps its type: placements stay inside the list, links name
\* identities, undo counts are positive (mint_link, integrate, undo_count).
THEOREM ListTypeCorrectness == ListSpec => []ListTypeOK
<1>1. ListInv => ListTypeOK
  BY DEF ListInv, CausalInv, DocumentInv, ListTypeOK
<1>2. QED
  BY <1>1, ListInvariance, PTL

\* Whatever is delivered, in whatever order, a version vector covers exactly the
\* operations the replica has integrated (apply_concrete, Global::observe, join).
THEOREM CoverageHonesty == ListSpec => []CoverageIsHonest
<1>1. ListInv => CoverageIsHonest
  BY DEF ListInv, CausalInv
<1>2. QED
  BY <1>1, ListInvariance, PTL

\* Identities are unique and ordered like causality, so the tie-breaks of
\* placement never contradict what an author saw (observe_remote).
THEOREM CausalIdentities == ListSpec => []IdentityFollowsCausality
<1>1. ListInv => IdentityFollowsCausality
  BY DEF ListInv, CausalInv
<1>2. QED
  BY <1>1, ListInvariance, PTL
=============================================================================
