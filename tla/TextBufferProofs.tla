-------------------------- MODULE TextBufferProofs --------------------------
(***************************************************************************)
(* The intake of the text engine: nothing that has all it waits for is     *)
(* left in the deferred queue, for any actors, edits, orders of delivery,  *)
(* gaps, collections and restored checkpoints.                             *)
(*                                                                         *)
(* The argument: operations of one actor form a chain, each observing the  *)
(* ones before it, and a version that observes an operation covers what it *)
(* was made from.  So the operation a pass looks at first among the ready  *)
(* ones is not blocked by an earlier one of its actor, a pass over a queue *)
(* with a ready operation shortens it, and as many passes as the queue is  *)
(* long leave none.                                                        *)
(***************************************************************************)
EXTENDS TextBuffer, FiniteSetTheorems, WellFoundedInduction, TLAPS

\* A sum of lengths, one edit at a time.
Plus(k, e) == k + e.n

Retrying == INSTANCE FoldTheorems WITH Op <- RetryOne
Passes   == INSTANCE FoldTheorems WITH Op <- RetryPass
Offering == INSTANCE FoldTheorems WITH Op <- ApplyOne
Counting == INSTANCE FoldTheorems WITH Op <- Plus

Fields == {"frags", "undo", "next", "version", "origins", "dels", "located", "valid",
           "history", "deferred", "quarantined", "gaps", "frontier"}

\* c has the clocks, gaps and queue of b, whatever its fragments and indexes are.
Alike(b, c) ==
    /\ DOMAIN b = Fields /\ DOMAIN c = Fields
    /\ c.version = b.version /\ c.next = b.next /\ c.frontier = b.frontier
    /\ c.deferred = b.deferred /\ c.gaps = b.gaps

-----------------------------------------------------------------------------
(* What changes fragments, indexes and copies changes no clock, gap or     *)
(* queue.                                                                  *)

\* Being alike is transitive.
LEMMA AlikeChain ==
    ASSUME NEW b, NEW c, Alike(b, c), NEW d, Alike(c, d)
    PROVE  Alike(b, d)
  BY DEF Alike

\* Any new fragments and index rows leave a buffer like the old one.
LEMMA Reindexed ==
    ASSUME NEW b, DOMAIN b = Fields
    PROVE  /\ \A f : Alike(b, [b EXCEPT !.frags = f])
           /\ \A u : Alike(b, [b EXCEPT !.undo = u])
           /\ \A v : Alike(b, [b EXCEPT !.valid = v])
           /\ \A f, d : Alike(b, [b EXCEPT !.frags = f, !.dels = d])
           /\ \A f, o, d, l : Alike(b, [b EXCEPT !.frags = f, !.origins = o, !.dels = d, !.located = l])
           /\ \A f, o, d, l, v :
                 Alike(b, [b EXCEPT !.frags = f, !.origins = o, !.dels = d, !.located = l, !.valid = v])
  BY DEF Alike, Fields

\* Publish
LEMMA PublishAlike ==
    ASSUME NEW b, DOMAIN b = Fields, NEW frags, NEW gone, NEW new
    PROVE  Alike(b, Publish(b, frags, gone, new))
  BY Reindexed, Zenon DEF Publish

\* SetFragments
LEMMA SetFragmentsAlike ==
    ASSUME NEW b, DOMAIN b = Fields, NEW staged
    PROVE  Alike(b, SetFragments(b, staged))
  BY Reindexed, Zenon DEF SetFragments

\* RecomputeVisibility
LEMMA RecomputeAlike ==
    ASSUME NEW b, DOMAIN b = Fields, NEW targets
    PROVE  Alike(b, RecomputeVisibility(b, targets))
  BY Reindexed, Zenon DEF RecomputeVisibility

\* DeleteWhole
LEMMA DeleteWholeAlike ==
    ASSUME NEW b, DOMAIN b = Fields, NEW i, NEW del
    PROVE  Alike(b, DeleteWhole(b, i, del))
  BY Reindexed, Zenon DEF DeleteWhole

\* Quarantine
LEMMA QuarantineAlike ==
    ASSUME NEW b, DOMAIN b = Fields, NEW op
    PROVE  Alike(b, Quarantine(b, op))
<1>1. Alike(b, b)
  BY DEF Alike
<1>2. \A q : Alike(b, [b EXCEPT !.quarantined = q])
  BY DEF Alike, Fields
<1> QED  BY <1>1, <1>2, Zenon DEF Quarantine

-----------------------------------------------------------------------------
(* The direct paths *)

\* What a direct path answers: a refusal, or a buffer like the old one.
Answers(b, x) == x.ok => "b" \in DOMAIN x /\ Alike(b, x.b)

\* A refusal.
LEMMA NoAnswers == \A b : Answers(b, No)
  BY DEF Answers, No

\* A placement.
LEMMA PlacedAnswers ==
    ASSUME NEW b, NEW c, Alike(b, c), NEW link, NEW runs
    PROVE  Answers(b, Placed(c, link, runs))
  BY DEF Answers, Placed

\* One path or the other.
LEMMA OrElseAnswers ==
    ASSUME NEW b, NEW x, NEW y, Answers(b, x), Answers(b, y)
    PROVE  Answers(b, OrElse(x, y))
  BY DEF OrElse

\* AppendRun
LEMMA AppendRunAnswers ==
    ASSUME NEW b, DOMAIN b = Fields, NEW run
    PROVE  Answers(b, AppendRun(b, run))
  BY NoAnswers, PlacedAnswers, PublishAlike, Zenon DEF AppendRun

\* InsertRun
LEMMA InsertRunAnswers ==
    ASSUME NEW b, DOMAIN b = Fields, NEW off, NEW origin, NEW n
    PROVE  Answers(b, InsertRun(b, off, origin, n))
  BY NoAnswers, PlacedAnswers, PublishAlike, Zenon DEF InsertRun

\* PublishDeletions
LEMMA PublishDeletionsAlike ==
    ASSUME NEW b, DOMAIN b = Fields, NEW covered, NEW del, NEW inserted, NEW rank
    PROVE  Alike(b, PublishDeletions(b, covered, del, inserted, rank))
  BY PublishAlike, Zenon DEF PublishDeletions

\* The three ways to replace text.
LEMMA ReplaceAnswers ==
    ASSUME NEW b, DOMAIN b = Fields, NEW covered, NEW place, NEW origin, NEW n, NEW del
    PROVE  /\ Answers(b, ReplaceExact(b, covered, place, origin, n, del))
           /\ Answers(b, ReplacePartial(b, covered, place, origin, n, del))
           /\ Answers(b, ReplaceRuns(b, covered, place, origin, n, del))
<1>1. Answers(b, ReplaceExact(b, covered, place, origin, n, del))
  <2> DEFINE at == covered[1].at
             run == NewRun(origin, place.link, n, FALSE)
             struck == [b EXCEPT !.frags = Splice(@, at, <<Dead(b, b.frags[at], del)>>),
                                 !.dels = @ \cup {DeletionRow(b.frags[at], del)}]
             new == Publish(struck, InsertAt(struck.frags, place.rank + 1, run), {}, {run})
  <2>1. Alike(b, struck)
    BY Reindexed, Zenon
  <2> HIDE DEF struck, run
  <2>2. DOMAIN struck = Fields
    BY <2>1 DEF Alike
  <2>3. Alike(struck, new)
    BY <2>2, PublishAlike
  <2>4. Alike(b, new)
    BY <2>1, <2>3, AlikeChain
  <2>5. Answers(b, Placed(new, place.link, Pack(Segments(b, covered))))
    BY <2>4, PlacedAnswers
  <2>6. \/ ReplaceExact(b, covered, place, origin, n, del) = No
        \/ ReplaceExact(b, covered, place, origin, n, del) = Placed(new, place.link, Pack(Segments(b, covered)))
    BY Zenon DEF ReplaceExact, struck, run
  <2> QED  BY <2>5, <2>6, NoAnswers, Zenon
<1>2. Answers(b, ReplaceRuns(b, covered, place, origin, n, del))
  BY NoAnswers, PlacedAnswers, PublishDeletionsAlike, Zenon DEF ReplaceRuns
<1>3. Answers(b, ReplacePartial(b, covered, place, origin, n, del))
  BY <1>2, NoAnswers, Zenon DEF ReplacePartial
<1> QED  BY <1>1, <1>2, <1>3

\* ReplaceText
LEMMA ReplaceTextAnswers ==
    ASSUME NEW b, DOMAIN b = Fields, NEW from, NEW to, NEW origin, NEW n, NEW del
    PROVE  Answers(b, ReplaceText(b, from, to, origin, n, del))
  BY NoAnswers, ReplaceAnswers, OrElseAnswers, Zenon DEF ReplaceText

\* The ways to delete text.
LEMMA DeleteAnswers ==
    ASSUME NEW b, DOMAIN b = Fields, NEW from, NEW to, NEW del
    PROVE  /\ Answers(b, DeleteExact(b, from, to, del))
           /\ Answers(b, DeleteRuns(b, from, to, del))
<1>1. Answers(b, DeleteExact(b, from, to, del))
  <2>1. PICK f, d, r : \/ DeleteExact(b, from, to, del) = No
                       \/ DeleteExact(b, from, to, del) = Placed([b EXCEPT !.frags = f, !.dels = d], NoId, r)
    BY Zenon DEF DeleteExact
  <2>2. Answers(b, Placed([b EXCEPT !.frags = f, !.dels = d], NoId, r))
    BY Reindexed, PlacedAnswers, Zenon
  <2> QED  BY <2>1, <2>2, NoAnswers, Zenon
<1>2. Answers(b, DeleteRuns(b, from, to, del))
  BY NoAnswers, PlacedAnswers, PublishDeletionsAlike, Zenon DEF DeleteRuns
<1> QED  BY <1>1, <1>2

\* Whatever direct path an edit takes.
LEMMA DirectEditAnswers ==
    ASSUME NEW b, DOMAIN b = Fields, NEW e, NEW origin, NEW del
    PROVE  Answers(b, DirectEdit(b, e, origin, del))
  BY NoAnswers, AppendRunAnswers, InsertRunAnswers, OrElseAnswers, ReplaceTextAnswers, DeleteAnswers, Zenon
  DEF DirectEdit

-----------------------------------------------------------------------------
(* Trying an operation *)

\* What trying op at b answers: it is not ready, or it is refused or observed.
Tried(b, op, s) ==
    /\ s.verdict = "not_ready" <=> ~ObservedAll(b.version, op.version)
    /\ s.verdict # "not_ready" => \E c : Alike(b, c) /\ s.b \in {c, Observing(c, op)}

\* The answers that steps are made of.
LEMMA StepsTry ==
    ASSUME NEW b, DOMAIN b = Fields, NEW op, ObservedAll(b.version, op.version), NEW c, Alike(b, c)
    PROVE  /\ Tried(b, op, Step("malformed", c))
           /\ Tried(b, op, Step("applied", Observing(c, op)))
  BY DEF Tried, Step

\* apply_remote_edit
LEMMA EditTries ==
    ASSUME NEW b, DOMAIN b = Fields, NEW op, ~Observed(b.version, op.id)
    PROVE  Tried(b, op, ApplyRemoteEdit(b, op))
<1>1. CASE ~ObservedAll(b.version, op.version)
  <2>1. ApplyRemoteEdit(b, op) = Step("not_ready", b)
    BY <1>1, Zenon DEF ApplyRemoteEdit
  <2> QED  BY <1>1, <2>1 DEF Tried, Step
<1>2. CASE ObservedAll(b.version, op.version)
  <2> DEFINE first == IF op.runs = {} /\ Len(op.new) = 1 THEN AppendRun(b, op.new[1]) ELSE No
             whole == DeletesWhole(b, op)
             i == CHOOSE j \in whole : TRUE
  <2>1. Answers(b, first)
    BY AppendRunAnswers, NoAnswers, Zenon
  <2>2. first.ok => Alike(b, first.b)
    BY <2>1 DEF Answers
  <2>3. Alike(b, b)
    BY DEF Alike
  <2>4. \/ first.ok /\ ApplyRemoteEdit(b, op) = Step("applied", Observing(first.b, op))
        \/ ApplyRemoteEdit(b, op) = Step("applied", Observing(DeleteWhole(b, i, op.id), op))
        \/ ApplyRemoteEdit(b, op) = Step("malformed", b)
        \/ \E v : ApplyRemoteEdit(b, op) = Step("malformed", [b EXCEPT !.valid = v])
        \/ \E v, p : ApplyRemoteEdit(b, op)
                        = Step("applied", Observing(SetFragments([b EXCEPT !.valid = v], p), op))
    BY <1>2, Zenon DEF ApplyRemoteEdit
  <2>5. Alike(b, DeleteWhole(b, i, op.id))
    BY DeleteWholeAlike
  <2>6. ASSUME NEW v
        PROVE  Alike(b, [b EXCEPT !.valid = v])
    BY Reindexed
  <2>7. ASSUME NEW v, NEW p
        PROVE  Alike(b, SetFragments([b EXCEPT !.valid = v], p))
    <3> DEFINE c == [b EXCEPT !.valid = v]
    <3>1. Alike(b, c)
      BY <2>6
    <3> HIDE DEF c
    <3>2. DOMAIN c = Fields
      BY <3>1 DEF Alike
    <3>3. Alike(c, SetFragments(c, p))
      BY <3>2, SetFragmentsAlike
    <3>4. Alike(b, SetFragments(c, p))
      BY <3>1, <3>3, AlikeChain
    <3> QED  BY <3>4 DEF c
  <2> HIDE DEF first, i
  <2> QED  BY <1>2, <2>2, <2>3, <2>4, <2>5, <2>6, <2>7, StepsTry, Zenon
<1> QED  BY <1>1, <1>2

\* apply_remote_undo
LEMMA UndoTries ==
    ASSUME NEW b, DOMAIN b = Fields, NEW op, ~Observed(b.version, op.id)
    PROVE  Tried(b, op, ApplyRemoteUndo(b, op))
<1>1. CASE ~ObservedAll(b.version, op.version)
  <2>1. ApplyRemoteUndo(b, op) = Step("not_ready", b)
    BY <1>1, Zenon DEF ApplyRemoteUndo
  <2> QED  BY <1>1, <2>1 DEF Tried, Step
<1>2. CASE ObservedAll(b.version, op.version)
  <2>1. \/ ApplyRemoteUndo(b, op) = Step("malformed", b)
        \/ \E u, t : ApplyRemoteUndo(b, op)
                       = Step("applied", Observing(RecomputeVisibility([b EXCEPT !.undo = u], t), op))
    BY <1>2, Zenon DEF ApplyRemoteUndo
  <2>2. Alike(b, b)
    BY DEF Alike
  <2>3. ASSUME NEW u, NEW t
        PROVE  Alike(b, RecomputeVisibility([b EXCEPT !.undo = u], t))
    <3> DEFINE c == [b EXCEPT !.undo = u]
    <3>1. Alike(b, c)
      BY Reindexed
    <3> HIDE DEF c
    <3>2. DOMAIN c = Fields
      BY <3>1 DEF Alike
    <3>3. Alike(c, RecomputeVisibility(c, t))
      BY <3>2, RecomputeAlike
    <3>4. Alike(b, RecomputeVisibility(c, t))
      BY <3>1, <3>3, AlikeChain
    <3> QED  BY <3>4 DEF c
  <2> QED  BY <1>2, <2>1, <2>2, <2>3, StepsTry, Zenon
<1> QED  BY <1>1, <1>2

\* try_apply
LEMMA Tries ==
    ASSUME NEW b, DOMAIN b = Fields, NEW op, ~Observed(b.version, op.id)
    PROVE  Tried(b, op, TryApply(b, op))
  BY EditTries, UndoTries DEF TryApply

-----------------------------------------------------------------------------
(* Messages, versions and queues *)

IsMessage(m) ==
    /\ m.id \in Identity /\ m.id.actor \in Replica /\ m.version \in Global
    /\ m.first.actor = m.id.actor /\ m.first.counter <= m.id.counter

\* n was made after m was observed.
Precedes(m, n) ==
    /\ m.id.counter < n.id.counter
    /\ Observed(n.version, m.id) /\ ObservedAll(n.version, m.version)

\* A gap declared by mistake bears the identity of an operation.
Twins(m, n) ==
    /\ m.id = n.id /\ m.version = n.version
    /\ m.kind # "gap" /\ n.kind # "gap" => m = n

\* The messages of one actor form a chain.
Orderly(S) ==
    /\ \A m \in S : IsMessage(m)
    /\ \A m, n \in S : m.id.actor = n.id.actor => Twins(m, n) \/ Precedes(m, n) \/ Precedes(n, m)

AtMost(v, top) == \A q \in Replica : v[q] <= top[q]

\* top is how far every replica has come with its own counters; the messages S
\* name nothing beyond it.
World(S, top) ==
    /\ Orderly(S) /\ top \in [Replica -> Nat]
    /\ \A m \in S : m.id.counter <= top[m.id.actor] /\ AtMost(m.version, top)

\* A version that observes a message covers what it was made from.
CausallyClosed(v, S) == \A m \in S : Observed(v, m.id) => ObservedAll(v, m.version)

\* The clocks of the buffer of r.
Clocks(b, r, S, top) ==
    /\ DOMAIN b = Fields
    /\ b.version \in Global /\ b.frontier \in Global /\ b.next \in Nat
    /\ b.version[r] = top[r] /\ b.version[r] < b.next
    /\ AtMost(b.version, top) /\ ObservedAll(b.version, b.frontier)
    /\ CausallyClosed(b.version, S)

Sorted(q) == \A i, j \in DOMAIN q : i < j => IdLess(q[i].id, q[j].id)

\* What waits is known, in order, not observed and in no accepted gap.
Waits(b, S) ==
    /\ b.deferred \in Seq(S) /\ Len(b.deferred) <= MaxDeferred /\ Sorted(b.deferred)
    /\ \A m \in ToSet(b.deferred) :
          ~Observed(b.version, m.id) /\ ~GapConflicts(b.gaps, m) /\ m.kind # "gap"

Ready(b, m) == ObservedAll(b.version, m.version)

Settled(b) == \A m \in ToSet(b.deferred) : ~Ready(b, m)

\* Versions grow along a chain of covers.
LEMMA CoversChain ==
    ASSUME NEW u \in Global, NEW v \in Global, NEW w \in Global, ObservedAll(u, v), ObservedAll(v, w)
    PROVE  ObservedAll(u, w)
  BY DEF ObservedAll, Global

\* Two operations never share an identity.
LEMMA OperationsDiffer ==
    ASSUME NEW S, Orderly(S), NEW m \in S, NEW n \in S, m.kind # "gap", n.kind # "gap", m # n
    PROVE  m.id # n.id
<1>1. m.id.counter \in Nat /\ n.id.counter \in Nat
  BY DEF Orderly, IsMessage, Identity
<1> QED  BY <1>1 DEF Orderly, Twins, Precedes

\* Observing a message whose past is covered adds its identity and no other.
LEMMA ObservingAdds ==
    ASSUME NEW S, NEW top, World(S, top), NEW m \in S, NEW v \in Global,
           ObservedAll(v, m.version), AtMost(v, top), CausallyClosed(v, S),
           NEW w, w = Join(Observe(v, m.id), m.version)
    PROVE  /\ w \in Global /\ ObservedAll(w, v) /\ Observed(w, m.id)
           /\ AtMost(w, top) /\ CausallyClosed(w, S)
           /\ \A n \in S : Observed(w, n.id) => n.id = m.id \/ Observed(v, n.id)
<1> DEFINE a == m.id.actor
           c == m.id.counter
<1>1. m.id \in Identity /\ a \in Actor /\ a \in Replica /\ c \in Nat /\ m.version \in Global
  BY DEF World, Orderly, IsMessage, Identity
<1>2. v[a] \in Nat /\ \A x \in Actor : v[x] \in Nat /\ m.version[x] \in Nat /\ v[x] >= m.version[x]
  BY <1>1 DEF Global, ObservedAll
<1>3. Observe(v, m.id) = [v EXCEPT ![a] = IF c > v[a] THEN c ELSE v[a]]
  BY <1>1, <1>2 DEF Observe, Global
<1>4. w = [v EXCEPT ![a] = IF c > v[a] THEN c ELSE v[a]]
  <2> DEFINE u == Observe(v, m.id)
  <2>1. u \in Global /\ \A x \in Actor : u[x] >= v[x]
    BY <1>1, <1>2, <1>3 DEF Global
  <2> HIDE DEF u
  <2>2. \A x \in Actor : u[x] \in Nat /\ u[x] >= m.version[x]
    BY <1>2, <2>1 DEF Global
  <2>3. Join(u, m.version) = [x \in Actor |-> u[x]]
    BY <2>2 DEF Join
  <2>4. u = [x \in Actor |-> u[x]]
    BY <2>1 DEF Global
  <2> QED  BY <1>3, <2>3, <2>4 DEF u
<1> HIDE DEF a, c
<1>5. w \in Global /\ \A x \in Actor : w[x] = IF x = a /\ c > v[a] THEN c ELSE v[x]
  BY <1>1, <1>2, <1>4 DEF Global
<1>6. ObservedAll(w, v) /\ Observed(w, m.id)
  BY <1>1, <1>2, <1>5 DEF ObservedAll, Observed, a, c
<1>7. AtMost(w, top)
  <2>1. c <= top[a]
    BY DEF World, a, c
  <2> QED  BY <1>5, <2>1 DEF AtMost, Replica
<1>8. ASSUME NEW n \in S, Observed(w, n.id)
      PROVE  (n.id = m.id /\ n.version = m.version) \/ Observed(v, n.id)
  <2>1. IsMessage(n) /\ (n.id.actor = a => Twins(m, n) \/ Precedes(m, n) \/ Precedes(n, m))
    BY DEF World, Orderly, a
  <2>2. n.id.actor \in Actor /\ n.id.counter \in Nat
    BY <2>1 DEF IsMessage, Identity
  <2>3. CASE n.id.actor # a
    BY <1>5, <1>8, <2>2, <2>3 DEF Observed
  <2>4. CASE Precedes(m, n)
    <3>1. n.id.counter > c
      BY <1>1, <2>2, <2>4 DEF Precedes, c
    <3> QED  BY <1>1, <1>2, <1>5, <1>8, <2>2, <3>1 DEF Observed
  <2>5. CASE Precedes(n, m)
    <3>1. m.version[n.id.actor] >= n.id.counter
      BY <2>5 DEF Precedes, Observed
    <3> QED  BY <1>2, <2>2, <3>1 DEF Observed
  <2> QED  BY <2>1, <2>3, <2>4, <2>5 DEF Twins
<1>9. ASSUME NEW n \in S, Observed(w, n.id)
      PROVE  ObservedAll(w, n.version)
  <2>1. ObservedAll(v, n.version)
    BY <1>8, <1>9 DEF CausallyClosed
  <2>2. n.version \in Global
    BY DEF World, Orderly, IsMessage
  <2> QED  BY <1>5, <1>6, <2>1, <2>2, CoversChain
<1> QED  BY <1>5, <1>6, <1>7, <1>8, <1>9 DEF CausallyClosed

\* Buffers that are alike have the same clocks.
LEMMA AlikeClocks ==
    ASSUME NEW b, NEW c, Alike(b, c), NEW r, NEW S, NEW top
    PROVE  Clocks(b, r, S, top) => Clocks(c, r, S, top)
  BY DEF Alike, Clocks

\* The tail of an applied operation or gap.
LEMMA ObservingKeeps ==
    ASSUME NEW S, NEW top, World(S, top), NEW r \in Replica, NEW b, Clocks(b, r, S, top),
           NEW m \in S, Ready(b, m)
    PROVE  LET c == Observing(b, m)
           IN  /\ Clocks(c, r, S, top) /\ ObservedAll(c.version, b.version)
               /\ Observed(c.version, m.id)
               /\ c.deferred = b.deferred /\ c.gaps = b.gaps
               /\ \A n \in S : Observed(c.version, n.id) => n.id = m.id \/ Observed(b.version, n.id)
<1> DEFINE c == Observing(b, m)
           w == Join(Observe(b.version, m.id), m.version)
<1>1. /\ DOMAIN b = Fields
      /\ b.version \in Global /\ b.frontier \in Global /\ b.next \in Nat
      /\ b.version[r] = top[r] /\ b.version[r] < b.next
      /\ AtMost(b.version, top) /\ ObservedAll(b.version, b.frontier)
      /\ CausallyClosed(b.version, S)
  BY DEF Clocks
<1>2. /\ w \in Global /\ ObservedAll(w, b.version) /\ Observed(w, m.id)
      /\ AtMost(w, top) /\ CausallyClosed(w, S)
      /\ \A n \in S : Observed(w, n.id) => n.id = m.id \/ Observed(b.version, n.id)
  BY <1>1, ObservingAdds DEF Ready
<1> HIDE DEF w
<1>3. /\ DOMAIN c = Fields /\ c.version = w /\ c.frontier = b.frontier
      /\ c.deferred = b.deferred /\ c.gaps = b.gaps
      /\ c.next = IF b.next > m.id.counter THEN b.next ELSE m.id.counter + 1
  BY <1>1 DEF Observing, Fields, w
<1> HIDE DEF c
<1>4. m.id.counter \in Nat
  BY DEF World, Orderly, IsMessage, Identity
<1>5. w[r] = top[r] /\ w[r] < c.next /\ c.next \in Nat
  <2>1. r \in Actor
    BY DEF Replica
  <2>2. w[r] >= b.version[r] /\ w[r] <= top[r] /\ w[r] \in Nat /\ b.version[r] \in Nat /\ top[r] \in Nat
    BY <1>1, <1>2, <2>1 DEF ObservedAll, AtMost, Global, World
  <2> QED  BY <1>1, <1>3, <1>4, <2>2
<1>6. ObservedAll(w, b.frontier)
  BY <1>1, <1>2, CoversChain
<1>7. Clocks(c, r, S, top)
  BY <1>1, <1>2, <1>3, <1>5, <1>6 DEF Clocks
<1> QED  BY <1>2, <1>3, <1>7 DEF c

\* What the step s of the message op leaves of b: the queue and the gaps, and
\* nothing more observed than op.
Leaves(b, op, s, r, S, top) ==
    /\ Clocks(s.b, r, S, top) /\ ObservedAll(s.b.version, b.version)
    /\ s.b.deferred = b.deferred /\ s.b.gaps = b.gaps
    /\ \A n \in S : Observed(s.b.version, n.id) => n.id = op.id \/ Observed(b.version, n.id)

\* Trying a message that has all it waits for.
LEMMA TriedLeaves ==
    ASSUME NEW S, NEW top, World(S, top), NEW r \in Replica, NEW b, Clocks(b, r, S, top),
           NEW op \in S, NEW s, Tried(b, op, s), s.verdict # "not_ready"
    PROVE  Leaves(b, op, s, r, S, top)
<1>1. PICK c : Alike(b, c) /\ s.b \in {c, Observing(c, op)}
  BY DEF Tried
<1>2. /\ Clocks(c, r, S, top) /\ c.version = b.version
      /\ c.deferred = b.deferred /\ c.gaps = b.gaps
  BY <1>1, AlikeClocks DEF Alike
<1>3. Ready(c, op)
  BY <1>2 DEF Tried, Ready
<1>4. CASE s.b = c
  <2>1. ObservedAll(b.version, b.version)
    BY DEF ObservedAll, Clocks, Global
  <2> QED  BY <1>2, <1>4, <2>1 DEF Leaves
<1>5. CASE s.b = Observing(c, op)
  BY <1>2, <1>3, <1>5, ObservingKeeps DEF Leaves
<1> QED  BY <1>1, <1>4, <1>5

-----------------------------------------------------------------------------
(* A pass over the queue *)

\* What the fold has made of x after k messages of its queue.
Going(x, r, S, top, k, y) ==
    /\ DOMAIN y = {"b", "blocked"}
    /\ Clocks(y.b, r, S, top) /\ y.b.gaps = x.gaps /\ ObservedAll(y.b.version, x.version)
    /\ y.b.deferred \in Seq(S) /\ Len(y.b.deferred) <= k /\ Sorted(y.b.deferred)
    /\ \A i \in DOMAIN y.b.deferred : \E j \in 1 .. k : y.b.deferred[i] = x.deferred[j]
    /\ \A i \in DOMAIN y.b.deferred : ~Observed(y.b.version, y.b.deferred[i].id)
    /\ \A i \in DOMAIN x.deferred : i > k => ~Observed(y.b.version, x.deferred[i].id)
    /\ \A a \in y.blocked : \E i \in DOMAIN y.b.deferred : y.b.deferred[i].id.actor = a
    /\ \A i \in DOMAIN y.b.deferred : y.b.deferred[i].id.actor \in y.blocked
    /\ (\E i \in 1 .. k : Ready(x, x.deferred[i])) => Len(y.b.deferred) < k
    /\ (\A i \in 1 .. k : ~Ready(x, x.deferred[i])) => y.b.version = x.version

\* The order of identities is strict.
LEMMA LessIsStrict ==
    ASSUME NEW a \in Identity, NEW b \in Identity, IdLess(a, b)
    PROVE  a # b /\ (a.actor = b.actor => a.counter < b.counter)
<1>1. a.counter \in Nat /\ b.counter \in Nat /\ a.actor \in Nat /\ b.actor \in Nat
  BY ActorAssumption DEF Identity
<1> QED  BY <1>1 DEF IdLess

\* A queue stays sorted when a later message is appended.
LEMMA AppendSorted ==
    ASSUME NEW S, NEW q \in Seq(S), Sorted(q), NEW m \in S, \A i \in DOMAIN q : IdLess(q[i].id, m.id)
    PROVE  /\ Append(q, m) \in Seq(S) /\ Sorted(Append(q, m)) /\ Len(Append(q, m)) = Len(q) + 1
           /\ DOMAIN Append(q, m) = DOMAIN q \cup {Len(q) + 1}
           /\ Append(q, m)[Len(q) + 1] = m
           /\ \A i \in DOMAIN q : Append(q, m)[i] = q[i]
<1> DEFINE t == Append(q, m)
<1>1. /\ t \in Seq(S) /\ Len(t) = Len(q) + 1 /\ Len(q) \in Nat
      /\ DOMAIN q = 1 .. Len(q) /\ DOMAIN t = 1 .. Len(q) + 1
      /\ t[Len(q) + 1] = m
      /\ \A i \in DOMAIN q : t[i] = q[i]
  OBVIOUS
<1> HIDE DEF t
<1>2. DOMAIN t = DOMAIN q \cup {Len(q) + 1}
  BY <1>1
<1>3. ASSUME NEW i \in DOMAIN t, NEW j \in DOMAIN t, i < j
      PROVE  IdLess(t[i].id, t[j].id)
  <2>1. i \in DOMAIN q
    BY <1>1, <1>3
  <2>2. CASE j \in DOMAIN q
    BY <1>1, <1>3, <2>1, <2>2 DEF Sorted
  <2>3. CASE j = Len(q) + 1
    BY <1>1, <2>1, <2>3
  <2> QED  BY <1>2, <2>2, <2>3
<1> QED  BY <1>1, <1>2, <1>3 DEF Sorted, t

\* One more message.
LEMMA RetryOneGoesOn ==
    ASSUME NEW S, NEW top, World(S, top), NEW r \in Replica,
           NEW x, Clocks(x, r, S, top), Waits(x, S),
           NEW k \in Nat, k < Len(x.deferred), NEW y, Going(x, r, S, top, k, y)
    PROVE  Going(x, r, S, top, k + 1, RetryOne(y, x.deferred[k + 1]))
<1> DEFINE d == x.deferred
           op == d[k + 1]
           q == y.b.deferred
           step == TryApply(y.b, op)
           stays == op.id.actor \in y.blocked \/ step.verdict = "not_ready"
           z == RetryOne(y, op)
<1>1. /\ d \in Seq(S) /\ Sorted(d) /\ DOMAIN d = 1 .. Len(d) /\ Len(d) \in Nat
      /\ \A i \in DOMAIN d : d[i] \in S /\ IsMessage(d[i])
  BY DEF Waits, World, Orderly
<1> HIDE DEF d
<1>2. k + 1 \in DOMAIN d /\ 1 .. k \subseteq DOMAIN d /\ k + 1 \notin 1 .. k /\ 1 .. (k + 1) = 1 .. k \cup {k + 1}
  BY <1>1 DEF d
<1>3. op \in S /\ IsMessage(op)
  BY <1>1, <1>2
<1>4. /\ DOMAIN y = {"b", "blocked"} /\ DOMAIN y.b = Fields
      /\ Clocks(y.b, r, S, top) /\ y.b.gaps = x.gaps /\ ObservedAll(y.b.version, x.version)
      /\ y.b.version \in Global /\ x.version \in Global
      /\ q \in Seq(S) /\ DOMAIN q = 1 .. Len(q) /\ Len(q) \in Nat /\ Len(q) <= k /\ Sorted(q)
  BY DEF Going, Clocks
<1>5. /\ \A i \in DOMAIN q : \E j \in 1 .. k : q[i] = d[j]
      /\ \A i \in DOMAIN q : ~Observed(y.b.version, q[i].id)
      /\ \A i \in DOMAIN d : i > k => ~Observed(y.b.version, d[i].id)
      /\ \A a \in y.blocked : \E i \in DOMAIN q : q[i].id.actor = a
      /\ \A i \in DOMAIN q : q[i].id.actor \in y.blocked
      /\ (\E i \in 1 .. k : Ready(x, d[i])) => Len(q) < k
      /\ (\A i \in 1 .. k : ~Ready(x, d[i])) => y.b.version = x.version
  BY DEF Going, d
<1> HIDE DEF q
<1>6. ~Observed(y.b.version, op.id)
  BY <1>2, <1>5
<1>7. Tried(y.b, op, step)
  BY <1>4, <1>6, Tries
<1> HIDE DEF step
<1>8. \A j \in 1 .. k : IdLess(d[j].id, op.id)
  BY <1>1, <1>2 DEF Sorted
<1>9. \A i \in DOMAIN q : IdLess(q[i].id, op.id)
  BY <1>5, <1>8
<1> HIDE DEF op
<1>10. ASSUME Ready(x, op), \A i \in 1 .. k : ~Ready(x, d[i])
       PROVE  ~stays
  <2>1. step.verdict # "not_ready"
    <3>1. ObservedAll(y.b.version, op.version)
      BY <1>3, <1>4, <1>10, CoversChain DEF Ready, IsMessage
    <3> QED  BY <1>7, <3>1 DEF Tried
  <2>2. ASSUME op.id.actor \in y.blocked
        PROVE  FALSE
    <3>1. PICK i \in DOMAIN q : q[i].id.actor = op.id.actor
      BY <1>5, <2>2
    <3>2. PICK j \in 1 .. k : q[i] = d[j]
      BY <1>5
    <3>3. d[j] \in S /\ IsMessage(d[j]) /\ d[j].id.actor = op.id.actor /\ IdLess(d[j].id, op.id)
      BY <1>1, <1>2, <1>8, <3>1, <3>2
    <3>4. d[j].id # op.id /\ d[j].id.counter < op.id.counter
      BY <1>3, <3>3, LessIsStrict DEF IsMessage
    <3>5. ~Precedes(op, d[j])
      BY <1>3, <3>3, <3>4 DEF Precedes, IsMessage, Identity
    <3>6. Precedes(d[j], op)
      BY <1>3, <3>3, <3>4, <3>5 DEF World, Orderly, Twins
    <3>7. Ready(x, d[j])
      BY <1>3, <1>4, <1>10, <3>3, <3>6, CoversChain DEF Ready, Precedes, IsMessage
    <3> QED  BY <1>10, <3>7
  <2> QED  BY <2>1, <2>2
<1>11. CASE stays
  <2> DEFINE t == Append(q, op)
             c == [y.b EXCEPT !.deferred = t]
  <2>1. z = [b |-> c, blocked |-> y.blocked \cup {op.id.actor}]
    BY <1>11, Zenon DEF RetryOne, step, q
  <2>2. /\ t \in Seq(S) /\ Sorted(t) /\ Len(t) = Len(q) + 1
        /\ DOMAIN t = DOMAIN q \cup {Len(q) + 1} /\ t[Len(q) + 1] = op
        /\ \A i \in DOMAIN q : t[i] = q[i]
    <3>1. q \in Seq(S) /\ Sorted(q) /\ op \in S
      BY <1>3, <1>4
    <3> HIDE DEF stays, z, c
    <3> QED  BY <3>1, <1>9, AppendSorted
  <2> HIDE DEF t
  <2>3. /\ DOMAIN c = Fields /\ c.version = y.b.version /\ c.next = y.b.next
        /\ c.frontier = y.b.frontier /\ c.deferred = t /\ c.gaps = y.b.gaps
    BY <1>4 DEF Fields
  <2> HIDE DEF c
  <2>4. DOMAIN z = {"b", "blocked"} /\ z.b = c /\ z.blocked = y.blocked \cup {op.id.actor}
    BY <2>1
  <2> HIDE DEF z
  <2>5. Clocks(c, r, S, top)
    BY <1>4, <2>3 DEF Clocks
  <2>6. \A i \in DOMAIN t : \E j \in 1 .. (k + 1) : t[i] = d[j]
    BY <1>2, <1>5, <2>2 DEF op
  <2>7. \A i \in DOMAIN t : ~Observed(c.version, t[i].id)
    BY <1>5, <1>6, <2>2, <2>3
  <2>8. \A i \in DOMAIN d : i > k + 1 => ~Observed(c.version, d[i].id)
    BY <1>1, <1>5, <2>3
  <2>9. /\ \A a \in z.blocked : \E i \in DOMAIN t : t[i].id.actor = a
        /\ \A i \in DOMAIN t : t[i].id.actor \in z.blocked
    BY <1>5, <2>2, <2>4
  <2>10. (\E i \in 1 .. (k + 1) : Ready(x, d[i])) => Len(t) < k + 1
    <3>1. ASSUME \E i \in 1 .. (k + 1) : Ready(x, d[i])
          PROVE  \E i \in 1 .. k : Ready(x, d[i])
      BY <1>2, <1>10, <1>11, <3>1 DEF op
    <3> QED  BY <1>4, <1>5, <2>2, <3>1
  <2>11. (\A i \in 1 .. (k + 1) : ~Ready(x, d[i])) => c.version = x.version
    BY <1>2, <1>5, <2>3
  <2>12. Len(t) <= k + 1
    BY <1>4, <2>2
  <2>13. Going(x, r, S, top, k + 1, z)
    BY <1>4, <2>2, <2>3, <2>4, <2>5, <2>6, <2>7, <2>8, <2>9, <2>10, <2>11, <2>12 DEF Going, d
  <2> QED  BY <2>13 DEF z, op, d
<1>12. CASE ~stays
  <2> DEFINE c == IF step.verdict = "malformed" THEN Quarantine(step.b, op) ELSE step.b
  <2>1. z = [y EXCEPT !.b = c]
    BY <1>12, Zenon DEF RetryOne, step
  <2>2. DOMAIN z = {"b", "blocked"} /\ z.b = c /\ z.blocked = y.blocked
    BY <1>4, <2>1
  <2> HIDE DEF z
  <2>3. Leaves(y.b, op, step, r, S, top)
    BY <1>3, <1>4, <1>7, <1>12, TriedLeaves
  <2>4. /\ Clocks(c, r, S, top) /\ ObservedAll(c.version, y.b.version)
        /\ c.deferred = q /\ c.gaps = y.b.gaps
        /\ \A n \in S : Observed(c.version, n.id) => n.id = op.id \/ Observed(y.b.version, n.id)
    <3>1. Alike(step.b, c)
      <4>1. DOMAIN step.b = Fields
        BY <2>3 DEF Leaves, Clocks
      <4> QED  BY <4>1, QuarantineAlike DEF Alike
    <3> HIDE DEF c
    <3>2. Clocks(c, r, S, top)
      BY <2>3, <3>1, AlikeClocks DEF Leaves
    <3> QED  BY <2>3, <3>1, <3>2 DEF Leaves, Alike, q
  <2> HIDE DEF c
  <2>5. c.version \in Global
    BY <2>4 DEF Clocks
  <2>6. ObservedAll(c.version, x.version)
    BY <1>4, <2>4, <2>5, CoversChain
  <2>7. \A i \in DOMAIN q : \E j \in 1 .. (k + 1) : q[i] = d[j]
    BY <1>2, <1>5
  <2>8. \A i \in DOMAIN q : ~Observed(c.version, q[i].id)
    <3>1. ASSUME NEW i \in DOMAIN q
          PROVE  q[i] \in S /\ q[i].id # op.id
      BY <1>1, <1>2, <1>3, <1>5, <1>9, LessIsStrict DEF IsMessage
    <3> QED  BY <1>5, <2>4, <3>1
  <2>9. \A i \in DOMAIN d : i > k + 1 => ~Observed(c.version, d[i].id)
    <3>1. ASSUME NEW i \in DOMAIN d, i > k + 1
          PROVE  d[i] \in S /\ d[i].id # op.id /\ i > k
      <4>1. IdLess(op.id, d[i].id)
        BY <1>2, <3>1, <1>1 DEF Sorted, op
      <4> QED  BY <1>1, <1>2, <1>3, <3>1, <4>1, LessIsStrict DEF IsMessage
    <3> QED  BY <1>5, <2>4, <3>1
  <2>10. Len(q) < k + 1 /\ Len(q) <= k + 1
    BY <1>4
  <2>11. (\A i \in 1 .. (k + 1) : ~Ready(x, d[i])) => c.version = x.version
    <3>1. ASSUME \A i \in 1 .. (k + 1) : ~Ready(x, d[i])
          PROVE  FALSE
      <4>1. y.b.version = x.version /\ ~Ready(x, op)
        BY <1>2, <1>5, <3>1 DEF op
      <4> QED  BY <1>7, <1>12, <4>1 DEF Tried, Ready
    <3> QED  BY <3>1
  <2>12. Going(x, r, S, top, k + 1, z)
    BY <1>4, <1>5, <2>2, <2>4, <2>6, <2>7, <2>8, <2>9, <2>10, <2>11 DEF Going, d
  <2> QED  BY <2>12 DEF z, op, d
<1> QED  BY <1>11, <1>12

\* The folds of the model are those of FoldTheorems.
LEMMA FoldsAreFolds ==
    ASSUME NEW base, NEW t
    PROVE  /\ FoldLeft(RetryOne, base, t) = Retrying!Fold(base, t)
           /\ FoldLeft(RetryPass, base, t) = Passes!Fold(base, t)
           /\ FoldLeft(ApplyOne, base, t) = Offering!Fold(base, t)
<1>1. FoldLeft(RetryOne, base, t) = Retrying!Fold(base, t)
  BY DEF FoldLeft, MapThenFoldSet, Max, Retrying!Fold, Retrying!FoldLeft, Retrying!MapThenFoldSet, Retrying!Max
<1>2. FoldLeft(RetryPass, base, t) = Passes!Fold(base, t)
  BY DEF FoldLeft, MapThenFoldSet, Max, Passes!Fold, Passes!FoldLeft, Passes!MapThenFoldSet, Passes!Max
<1>3. FoldLeft(ApplyOne, base, t) = Offering!Fold(base, t)
  BY DEF FoldLeft, MapThenFoldSet, Max, Offering!Fold, Offering!FoldLeft, Offering!MapThenFoldSet, Offering!Max
<1> QED  BY <1>1, <1>2, <1>3

\* What retrying may leave of x.
Retried(x, y, r, S, top) ==
    /\ Clocks(y, r, S, top) /\ Waits(y, S)
    /\ y.gaps = x.gaps /\ ObservedAll(y.version, x.version)
    /\ Len(y.deferred) <= Len(x.deferred)

\* A pass shortens a queue with a message that is ready, and changes nothing
\* in one without.
LEMMA PassKeeps ==
    ASSUME NEW S, NEW top, World(S, top), NEW r \in Replica,
           NEW x, Clocks(x, r, S, top), Waits(x, S), NEW pass
    PROVE  LET y == RetryPass(x, pass)
           IN  /\ Retried(x, y, r, S, top)
               /\ Settled(x) => Settled(y)
               /\ ~Settled(x) => Len(y.deferred) < Len(x.deferred)
<1> DEFINE d == x.deferred
           n == Len(d)
           base == [b |-> [x EXCEPT !.deferred = << >>], blocked |-> {}]
           y == RetryPass(x, pass)
<1>1. /\ d \in Seq(S) /\ n \in Nat /\ DOMAIN d = 1 .. n /\ n <= MaxDeferred
      /\ \A i \in DOMAIN d : ~Observed(x.version, d[i].id) /\ ~GapConflicts(x.gaps, d[i]) /\ d[i].kind # "gap"
  BY DEF Waits, ToSet
<1>2. DOMAIN x = Fields /\ x.version \in Global
  BY DEF Clocks
<1>3. PICK f : Retrying!Steps(base, d, n, f) /\ Retrying!Fold(base, d) = f[1 .. n]
  BY <1>1, Retrying!FoldPrefixes
<1> HIDE DEF n
<1>4. Going(x, r, S, top, 0, base)
  <2> DEFINE c == [x EXCEPT !.deferred = << >>]
  <2>1. /\ DOMAIN c = Fields /\ c.version = x.version /\ c.next = x.next
        /\ c.frontier = x.frontier /\ c.deferred = << >> /\ c.gaps = x.gaps
    BY <1>2 DEF Fields
  <2> HIDE DEF c
  <2>2. DOMAIN base = {"b", "blocked"} /\ base.b = c /\ base.blocked = {}
    BY DEF c
  <2> HIDE DEF base
  <2>3. Clocks(c, r, S, top)
    BY <2>1 DEF Clocks
  <2>4. << >> \in Seq(S) /\ Len(<< >>) = 0 /\ DOMAIN << >> = {} /\ Sorted(<< >>)
    BY DEF Sorted
  <2>5. ObservedAll(c.version, x.version)
    BY <1>2, <2>1 DEF ObservedAll, Global
  <2>6. \A i \in DOMAIN x.deferred : i > 0 => ~Observed(c.version, x.deferred[i].id)
    BY <1>1, <2>1
  <2>7. ~(\E i \in 1 .. 0 : Ready(x, x.deferred[i]))
    OBVIOUS
  <2>8. Len(c.deferred) <= 0 /\ \A i \in DOMAIN c.deferred : FALSE
    BY <2>1, <2>4
  <2> QED  BY <2>1, <2>2, <2>3, <2>4, <2>5, <2>6, <2>7, <2>8 DEF Going
<1>5. Going(x, r, S, top, n, f[1 .. n])
  <2> DEFINE T == {k \in Nat : k <= n => Going(x, r, S, top, k, f[1 .. k])}
  <2> HIDE DEF base
  <2>1. 0 \in T
    BY <1>3, <1>4 DEF Retrying!Steps
  <2>2. ASSUME NEW k \in T
        PROVE  k + 1 \in T
    <3> SUFFICES ASSUME k + 1 <= n
                 PROVE  Going(x, r, S, top, k + 1, f[1 .. (k + 1)])
      OBVIOUS
    <3>1. k \in Nat /\ k < n /\ k <= n
      BY <1>1
    <3>2. Going(x, r, S, top, k, f[1 .. k])
      BY <3>1
    <3>3. f[1 .. (k + 1)] = RetryOne(f[1 .. k], d[k + 1])
      BY <1>3, <3>1 DEF Retrying!Steps
    <3> QED  BY <3>1, <3>2, <3>3, RetryOneGoesOn DEF n
  <2>3. T = Nat
    <3>1. T \in SUBSET Nat
      OBVIOUS
    <3> HIDE DEF T
    <3> QED  BY <2>1, <2>2, <3>1, Retrying!SetInduction
  <2> QED  BY <1>1, <2>3
<1>6. y = f[1 .. n].b
  <2>1. FoldLeft(RetryOne, base, d) = f[1 .. n]
    BY <1>3, FoldsAreFolds
  <2> QED  BY <2>1, Zenon DEF RetryPass
<1> HIDE DEF y, base
<1>7. /\ Clocks(y, r, S, top) /\ y.gaps = x.gaps /\ ObservedAll(y.version, x.version)
      /\ y.deferred \in Seq(S) /\ Len(y.deferred) <= n /\ Sorted(y.deferred)
      /\ \A i \in DOMAIN y.deferred : \E j \in 1 .. n : y.deferred[i] = d[j]
      /\ \A i \in DOMAIN y.deferred : ~Observed(y.version, y.deferred[i].id)
      /\ (\E i \in 1 .. n : Ready(x, d[i])) => Len(y.deferred) < n
      /\ (\A i \in 1 .. n : ~Ready(x, d[i])) => y.version = x.version
  BY <1>5, <1>6 DEF Going
<1>8. Len(y.deferred) \in Nat /\ Len(y.deferred) <= MaxDeferred
  <2>1. Len(y.deferred) \in Nat /\ MaxDeferred \in Nat
    BY <1>7, TextAssumption
  <2> QED  BY <1>1, <1>7, <2>1
<1>9. Waits(y, S)
  <2>1. ASSUME NEW m \in ToSet(y.deferred)
        PROVE  ~Observed(y.version, m.id) /\ ~GapConflicts(y.gaps, m) /\ m.kind # "gap"
    <3>1. PICK i \in DOMAIN y.deferred : m = y.deferred[i]
      BY DEF ToSet
    <3>2. PICK j \in DOMAIN d : m = d[j]
      BY <1>1, <1>7, <3>1
    <3> QED  BY <1>1, <1>7, <3>1, <3>2
  <2> QED  BY <1>7, <1>8, <2>1 DEF Waits
<1>10. Settled(x) => Settled(y)
  BY <1>1, <1>7 DEF Settled, Ready, ToSet
<1>11. ~Settled(x) => Len(y.deferred) < n
  BY <1>1, <1>7 DEF Settled, ToSet
<1> QED  BY <1>7, <1>9, <1>10, <1>11 DEF Retried, n, y

\* The whole of retry_deferred leaves no message that is ready.
LEMMA RetrySettles ==
    ASSUME NEW S, NEW top, World(S, top), NEW r \in Replica,
           NEW x, Clocks(x, r, S, top), Waits(x, S)
    PROVE  Retried(x, RetryDeferred(x), r, S, top) /\ Settled(RetryDeferred(x))
<1> DEFINE d == x.deferred
           n == Len(d)
           Goes(k, y) == Retried(x, y, r, S, top) /\ (Settled(y) \/ Len(y.deferred) <= n - k)
<1>1. d \in Seq(S) /\ n \in Nat
  BY DEF Waits
<1>2. PICK f : Passes!Steps(x, d, n, f) /\ Passes!Fold(x, d) = f[1 .. n]
  BY <1>1, Passes!FoldPrefixes
<1> HIDE DEF n
<1>3. Goes(0, x)
  <2>1. ObservedAll(x.version, x.version)
    BY DEF ObservedAll, Clocks, Global
  <2> QED  BY <1>1, <2>1 DEF Retried, n
<1>4. ASSUME NEW k \in Nat, NEW y, Goes(k, y), NEW pass
      PROVE  Goes(k + 1, RetryPass(y, pass))
  <2> DEFINE z == RetryPass(y, pass)
  <2>1. /\ Clocks(y, r, S, top) /\ Waits(y, S)
        /\ y.gaps = x.gaps /\ ObservedAll(y.version, x.version) /\ Len(y.deferred) <= n
    BY <1>4 DEF Retried, n
  <2>2. /\ Retried(y, z, r, S, top)
        /\ Settled(y) => Settled(z)
        /\ ~Settled(y) => Len(z.deferred) < Len(y.deferred)
    BY <2>1, PassKeeps
  <2> HIDE DEF z
  <2>3. /\ Clocks(z, r, S, top) /\ Waits(z, S)
        /\ z.gaps = y.gaps /\ ObservedAll(z.version, y.version) /\ Len(z.deferred) <= Len(y.deferred)
    BY <2>2 DEF Retried
  <2>4. x.version \in Global /\ y.version \in Global /\ z.version \in Global
    BY <2>1, <2>3 DEF Clocks
  <2>5. ObservedAll(z.version, x.version)
    BY <2>1, <2>3, <2>4, CoversChain
  <2>6. Len(y.deferred) \in Nat /\ Len(z.deferred) \in Nat
    BY <2>1, <2>3 DEF Waits
  <2>7. Retried(x, z, r, S, top)
    BY <1>1, <2>1, <2>3, <2>5, <2>6 DEF Retried, n
  <2>8. Settled(z) \/ Len(z.deferred) <= n - (k + 1)
    BY <1>1, <1>4, <2>2, <2>6
  <2> QED  BY <2>7, <2>8 DEF z
<1>5. Goes(n, f[1 .. n])
  <2> DEFINE T == {k \in Nat : k <= n => Goes(k, f[1 .. k])}
  <2> HIDE DEF Goes
  <2>1. 0 \in T
    BY <1>2, <1>3 DEF Passes!Steps
  <2>2. ASSUME NEW k \in T
        PROVE  k + 1 \in T
    <3> SUFFICES ASSUME k + 1 <= n
                 PROVE  Goes(k + 1, f[1 .. (k + 1)])
      OBVIOUS
    <3>1. k \in Nat /\ k < n /\ k <= n
      BY <1>1
    <3>2. Goes(k, f[1 .. k])
      BY <3>1
    <3>3. f[1 .. (k + 1)] = RetryPass(f[1 .. k], d[k + 1])
      BY <1>2, <3>1 DEF Passes!Steps
    <3> QED  BY <1>4, <3>1, <3>2, <3>3
  <2>3. T = Nat
    <3>1. T \in SUBSET Nat
      OBVIOUS
    <3> HIDE DEF T
    <3> QED  BY <2>1, <2>2, <3>1, Passes!SetInduction
  <2> QED  BY <1>1, <2>3
<1>6. RetryDeferred(x) = f[1 .. n]
  BY <1>2, FoldsAreFolds DEF RetryDeferred
<1> DEFINE y == RetryDeferred(x)
<1>7. Retried(x, y, r, S, top) /\ (Settled(y) \/ Len(y.deferred) <= 0)
  BY <1>1, <1>5, <1>6
<1> HIDE DEF y
<1>8. Settled(y)
  <2>1. y.deferred \in Seq(S)
    BY <1>7 DEF Retried, Waits
  <2> QED  BY <1>7, <2>1 DEF Settled, ToSet
<1> QED  BY <1>7, <1>8 DEF y

-----------------------------------------------------------------------------
(* Offering messages *)

\* The order of identities is total and transitive.
LEMMA LessIsTotal ==
    ASSUME NEW a \in Identity, NEW b \in Identity, NEW c \in Identity
    PROVE  /\ IdLess(a, b) /\ IdLess(b, c) => IdLess(a, c)
           /\ a = b \/ IdLess(a, b) \/ IdLess(b, a)
<1>1. /\ a.counter \in Nat /\ b.counter \in Nat /\ c.counter \in Nat
      /\ a.actor \in Nat /\ b.actor \in Nat /\ c.actor \in Nat
  BY ActorAssumption DEF Identity
<1>2. a = b <=> a.counter = b.counter /\ a.actor = b.actor
  BY DEF Identity
<1> QED  BY <1>1, <1>2 DEF IdLess

\* The messages of a sorted queue that come before another are its first ones.
LEMMA SmallerComeFirst ==
    ASSUME NEW S, \A m \in S : IsMessage(m), NEW q \in Seq(S), Sorted(q), NEW op \in S
    PROVE  LET P == {i \in DOMAIN q : IdLess(q[i].id, op.id)}
           IN  Cardinality(P) \in 0 .. Len(q) /\ P = 1 .. Cardinality(P)
<1> DEFINE L == Len(q)
           P == {i \in DOMAIN q : IdLess(q[i].id, op.id)}
           Rest == {i \in 1 .. L : i \notin P}
<1>1. L \in Nat /\ DOMAIN q = 1 .. L /\ P \subseteq 1 .. L
  OBVIOUS
<1>2. \A i, j \in 1 .. L : j \in P /\ i < j => i \in P
  <2> TAKE i, j \in 1 .. L
  <2> HAVE j \in P /\ i < j
  <2>1. q[i].id \in Identity /\ q[j].id \in Identity /\ op.id \in Identity
    BY <1>1 DEF IsMessage
  <2>2. IdLess(q[i].id, q[j].id) /\ IdLess(q[j].id, op.id)
    BY <1>1 DEF Sorted
  <2> QED  BY <1>1, <2>1, <2>2, LessIsTotal
<1> HIDE DEF P
<1>3. \E n \in 0 .. L : P = 1 .. n
  <2>1. CASE Rest = {}
    <3>1. \A i \in 1 .. L : i \in P
      BY <2>1
    <3>2. P = 1 .. L
      BY <1>1, <3>1
    <3>3. L \in 0 .. L
      BY <1>1
    <3> QED  BY <3>2, <3>3
  <2>2. CASE Rest # {}
    <3>0. Rest \subseteq Nat
      OBVIOUS
    <3>1. PICK e \in Rest : \A k \in Rest : ~(<<k, e>> \in OpToRel(<, Nat))
      <4> HIDE DEF Rest
      <4> QED  BY <2>2, <3>0, NatLessThanWellFounded, WFMin
    <3>2. e \in 1 .. L /\ e \notin P
      OBVIOUS
    <3>3. \A k \in Rest : ~(k < e)
      <4> HIDE DEF Rest
      <4> QED  BY <3>0, <3>1, Zenon DEF OpToRel
    <3>4. P = 1 .. (e - 1)
      <4>1. ASSUME NEW k \in P
            PROVE  k \in 1 .. (e - 1)
        <5>1. k \in 1 .. L /\ k # e /\ ~(e < k)
          BY <1>1, <1>2, <3>2
        <5> QED  BY <3>2, <5>1
      <4>2. ASSUME NEW k \in 1 .. (e - 1)
            PROVE  k \in P
        <5>1. k \in 1 .. L /\ k < e
          BY <1>1, <3>2
        <5> QED  BY <3>3, <5>1
      <4> QED  BY <4>1, <4>2
    <3> QED  BY <3>2, <3>4
  <2> QED  BY <2>1, <2>2
<1>4. PICK n \in 0 .. L : P = 1 .. n
  BY <1>3
<1>5. Cardinality(P) = n
  <2>1. n \in Int /\ 1 \in Int /\ n >= 0
    BY <1>1
  <2>2. Cardinality(1 .. n) = IF 1 > n THEN 0 ELSE n - 1 + 1
    BY <2>1, FS_Interval
  <2> QED  BY <1>4, <2>1, <2>2
<1> QED  BY <1>4, <1>5 DEF P

\* What inserting puts where.
LEMMA InsertedAt ==
    ASSUME NEW S, NEW s \in Seq(S), NEW k \in 1 .. Len(s) + 1, NEW e \in S
    PROVE  /\ InsertAt(s, k, e) \in Seq(S)
           /\ Len(InsertAt(s, k, e)) = Len(s) + 1
           /\ \A i \in 1 .. k - 1 : InsertAt(s, k, e)[i] = s[i]
           /\ InsertAt(s, k, e)[k] = e
           /\ \A i \in k + 1 .. Len(s) + 1 : InsertAt(s, k, e)[i] = s[i - 1]
<1> DEFINE a == SubSeq(s, 1, k - 1)
           b == SubSeq(s, k, Len(s))
           u == a \o <<e>>
           t == u \o b
<1>0. Len(s) \in Nat /\ k \in Nat
  OBVIOUS
<1>1. a \in Seq(S) /\ Len(a) = k - 1 /\ \A i \in 1 .. k - 1 : a[i] = s[i]
  BY <1>0
<1>2. b \in Seq(S) /\ Len(b) = Len(s) - k + 1 /\ \A i \in 1 .. Len(s) - k + 1 : b[i] = s[k + i - 1]
  BY <1>0
<1> HIDE DEF a, b
<1>3. u \in Seq(S) /\ Len(u) = k /\ (\A i \in 1 .. k - 1 : u[i] = a[i]) /\ u[k] = e
  BY <1>0, <1>1
<1> HIDE DEF u
<1>4. /\ t \in Seq(S) /\ Len(t) = k + Len(b)
      /\ \A i \in 1 .. k : t[i] = u[i]
      /\ \A i \in 1 .. Len(b) : t[k + i] = b[i]
  BY <1>0, <1>2, <1>3
<1> HIDE DEF t
<1>5. ASSUME NEW i \in k + 1 .. Len(s) + 1
      PROVE  t[i] = s[i - 1]
  <2>1. i - k \in 1 .. Len(b) /\ i = k + (i - k) /\ k + (i - k) - 1 = i - 1
    BY <1>0, <1>2
  <2>2. t[i] = b[i - k] /\ b[i - k] = s[k + (i - k) - 1]
    BY <1>2, <1>4, <2>1
  <2> QED  BY <2>1, <2>2
<1>6. InsertAt(s, k, e) = t
  BY DEF InsertAt, t, u, a, b
<1> QED  BY <1>0, <1>1, <1>2, <1>3, <1>4, <1>5, <1>6

\* enqueue_deferred keeps the queue in order.
LEMMA EnqueueKeeps ==
    ASSUME NEW S, \A m \in S : IsMessage(m), NEW q \in Seq(S), Sorted(q), NEW op \in S,
           \A i \in DOMAIN q : q[i].id # op.id
    PROVE  LET t == Enqueue(q, op)
           IN  /\ t \in Seq(S) /\ Len(t) = Len(q) + 1 /\ Sorted(t)
               /\ ToSet(t) = ToSet(q) \cup {op}
<1> DEFINE P == {i \in DOMAIN q : IdLess(q[i].id, op.id)}
           n == Cardinality(P)
           t == InsertAt(q, n + 1, op)
<1>1. n \in 0 .. Len(q) /\ P = 1 .. n
  BY SmallerComeFirst
<1>2. Enqueue(q, op) = t
  BY Zenon DEF Enqueue
<1>3. Len(q) \in Nat /\ DOMAIN q = 1 .. Len(q)
  OBVIOUS
<1>4. \A i \in DOMAIN q : q[i] \in S /\ q[i].id \in Identity /\ op.id \in Identity
  BY <1>3 DEF IsMessage
<1>5. \A i \in DOMAIN q : IF i <= n THEN IdLess(q[i].id, op.id) ELSE IdLess(op.id, q[i].id)
  <2> TAKE i \in DOMAIN q
  <2>1. i <= n <=> i \in P
    BY <1>1, <1>3
  <2>2. IdLess(q[i].id, op.id) \/ IdLess(op.id, q[i].id)
    BY <1>4, LessIsTotal
  <2> QED  BY <2>1, <2>2
<1> HIDE DEF P, n
<1>6. /\ t \in Seq(S) /\ Len(t) = Len(q) + 1
      /\ \A i \in 1 .. n : t[i] = q[i]
      /\ t[n + 1] = op
      /\ \A i \in n + 2 .. Len(q) + 1 : t[i] = q[i - 1]
  <2>1. n + 1 \in 1 .. Len(q) + 1 /\ n + 1 - 1 = n /\ n + 1 + 1 = n + 2
    BY <1>1, <1>3
  <2> DEFINE m == n + 1
  <2>2. m \in 1 .. Len(q) + 1
    BY <2>1
  <2> HIDE DEF m
  <2>3. /\ InsertAt(q, m, op) \in Seq(S) /\ Len(InsertAt(q, m, op)) = Len(q) + 1
        /\ \A i \in 1 .. m - 1 : InsertAt(q, m, op)[i] = q[i]
        /\ InsertAt(q, m, op)[m] = op
        /\ \A i \in m + 1 .. Len(q) + 1 : InsertAt(q, m, op)[i] = q[i - 1]
    BY <2>2, InsertedAt
  <2>4. t = InsertAt(q, m, op)
    BY DEF m
  <2> HIDE DEF t
  <2>5. /\ t \in Seq(S) /\ Len(t) = Len(q) + 1
        /\ \A i \in 1 .. m - 1 : t[i] = q[i]
        /\ t[m] = op
        /\ \A i \in m + 1 .. Len(q) + 1 : t[i] = q[i - 1]
    BY <2>3, <2>4
  <2>6. m = n + 1 /\ m - 1 = n /\ m + 1 = n + 2
    BY <1>1, <1>3 DEF m
  <2> QED  BY <2>5, <2>6
<1> HIDE DEF t
<1>7. DOMAIN t = 1 .. Len(q) + 1
  BY <1>3, <1>6
<1>8. ASSUME NEW i \in DOMAIN t, NEW j \in DOMAIN t, i < j
      PROVE  IdLess(t[i].id, t[j].id)
  <2>1. CASE i <= n /\ j <= n
    <3>1. i \in DOMAIN q /\ j \in DOMAIN q /\ t[i] = q[i] /\ t[j] = q[j]
      BY <1>1, <1>3, <1>6, <1>7, <2>1
    <3> QED  BY <1>8, <3>1 DEF Sorted
  <2>2. CASE i <= n /\ j = n + 1
    BY <1>1, <1>3, <1>5, <1>6, <1>7, <2>2
  <2>3. CASE i <= n /\ j > n + 1
    <3>1. /\ i \in DOMAIN q /\ j - 1 \in DOMAIN q /\ i < j - 1 
          /\ t[i] = q[i] /\ t[j] = q[j - 1]
      BY <1>1, <1>3, <1>6, <1>7, <2>3
    <3> QED  BY <3>1 DEF Sorted
  <2>4. CASE i = n + 1
    <3>1. j - 1 \in DOMAIN q /\ ~(j - 1 <= n) /\ t[i] = op /\ t[j] = q[j - 1]
      BY <1>1, <1>3, <1>6, <1>7, <1>8, <2>4
    <3> QED  BY <1>5, <3>1
  <2>5. CASE i > n + 1
    <3>1. /\ i - 1 \in DOMAIN q /\ j - 1 \in DOMAIN q /\ i - 1 < j - 1
          /\ t[i] = q[i - 1] /\ t[j] = q[j - 1]
      BY <1>1, <1>3, <1>6, <1>7, <1>8, <2>5
    <3> QED  BY <3>1 DEF Sorted
  <2> QED  BY <1>1, <1>3, <1>7, <1>8, <2>1, <2>2, <2>3, <2>4, <2>5
<1>9. ToSet(t) = ToSet(q) \cup {op}
  <2>1. ASSUME NEW m \in ToSet(t)
        PROVE  m \in ToSet(q) \cup {op}
    <3>1. PICK i \in DOMAIN t : m = t[i]
      BY DEF ToSet
    <3>2. i \in 1 .. n \/ i = n + 1 \/ i \in n + 2 .. Len(q) + 1
      BY <1>1, <1>3, <1>7
    <3>3. CASE i \in 1 .. n
      <4>1. i \in DOMAIN q /\ m = q[i]
        BY <1>1, <1>3, <1>6, <3>1, <3>3
      <4> QED  BY <4>1 DEF ToSet
    <3>4. CASE i \in n + 2 .. Len(q) + 1
      <4>1. i - 1 \in DOMAIN q /\ m = q[i - 1]
        BY <1>1, <1>3, <1>6, <3>1, <3>4
      <4> QED  BY <4>1 DEF ToSet
    <3> QED  BY <1>6, <3>1, <3>2, <3>3, <3>4
  <2>2. ASSUME NEW i \in DOMAIN q
        PROVE  q[i] \in ToSet(t)
    <3>1. CASE i <= n
      <4>1. i \in DOMAIN t /\ t[i] = q[i]
        BY <1>1, <1>3, <1>6, <1>7, <3>1
      <4> QED  BY <4>1 DEF ToSet
    <3>2. CASE i > n
      <4>1. i + 1 \in DOMAIN t /\ i + 1 \in n + 2 .. Len(q) + 1 /\ i + 1 - 1 = i
        BY <1>1, <1>3, <1>7, <3>2
      <4>2. t[i + 1] = q[i]
        BY <1>6, <4>1
      <4> QED  BY <4>1, <4>2 DEF ToSet
    <3> QED  BY <1>1, <1>3, <3>1, <3>2
  <2>3. n + 1 \in DOMAIN t
    BY <1>1, <1>3, <1>7
  <2>4. op \in ToSet(t)
    BY <1>6, <2>3 DEF ToSet
  <2>5. \A m \in ToSet(q) : m \in ToSet(t)
    BY <2>2 DEF ToSet
  <2> QED  BY <2>1, <2>4, <2>5
<1> QED  BY <1>2, <1>6, <1>8, <1>9 DEF Sorted

\* Deferring a message, or refusing it over the limit, keeps the queue.
LEMMA DeferKeeps ==
    ASSUME NEW S, NEW top, World(S, top), NEW r \in Replica,
           NEW x, Clocks(x, r, S, top), Waits(x, S),
           NEW op \in S, op \notin ToSet(x.deferred), op.kind # "gap",
           ~Observed(x.version, op.id), ~GapConflicts(x.gaps, op)
    PROVE  LET y == DeferOrQuarantine(x, op)
           IN  /\ Clocks(y, r, S, top) /\ Waits(y, S)
               /\ ToSet(y.deferred) \subseteq ToSet(x.deferred) \cup {op}
<1> DEFINE q == x.deferred
           t == Enqueue(q, op)
           y == [x EXCEPT !.deferred = t]
<1>1. CASE Len(q) >= MaxDeferred
  <2> DEFINE c == Quarantine(x, op)
  <2>1. DeferOrQuarantine(x, op) = c
    BY <1>1, Zenon DEF DeferOrQuarantine
  <2>2. Alike(x, c)
    BY QuarantineAlike DEF Clocks
  <2> HIDE DEF c
  <2>3. Clocks(c, r, S, top) /\ c.deferred = q /\ c.version = x.version /\ c.gaps = x.gaps
    BY <2>2, AlikeClocks DEF Alike
  <2>4. Waits(c, S)
    BY <2>3 DEF Waits
  <2> QED  BY <2>1, <2>3, <2>4
<1>2. CASE ~(Len(q) >= MaxDeferred)
  <2>1. DeferOrQuarantine(x, op) = y
    BY <1>2 DEF DeferOrQuarantine
  <2>2. /\ q \in Seq(S) /\ Sorted(q) /\ Len(q) <= MaxDeferred
        /\ \A m \in ToSet(q) : ~Observed(x.version, m.id) /\ ~GapConflicts(x.gaps, m) /\ m.kind # "gap"
    BY DEF Waits
  <2>3. \A m \in S : IsMessage(m)
    BY DEF World, Orderly
  <2>4. ASSUME NEW i \in DOMAIN q
        PROVE  q[i].id # op.id
    <3>1. q[i] \in S /\ q[i] # op /\ q[i].kind # "gap"
      BY <2>2 DEF ToSet
    <3> QED  BY <3>1, OperationsDiffer DEF World
  <2>5. t \in Seq(S) /\ Len(t) = Len(q) + 1 /\ Sorted(t) /\ ToSet(t) = ToSet(q) \cup {op}
    <3> HIDE DEF t, q
    <3> QED  BY <2>2, <2>3, <2>4, EnqueueKeeps DEF t
  <2> HIDE DEF t
  <2>6. DOMAIN x = Fields
    BY DEF Clocks
  <2>7. /\ DOMAIN y = Fields /\ y.version = x.version /\ y.next = x.next
        /\ y.frontier = x.frontier /\ y.deferred = t /\ y.gaps = x.gaps
    BY <2>6 DEF Fields
  <2> HIDE DEF y
  <2>8. Clocks(y, r, S, top)
    BY <2>7 DEF Clocks
  <2>9. Len(t) <= MaxDeferred
    <3>1. Len(q) \in Nat /\ MaxDeferred \in Nat
      BY <2>2, TextAssumption
    <3> QED  BY <1>2, <2>5, <3>1
  <2>10. Waits(y, S)
    BY <2>2, <2>5, <2>7, <2>9 DEF Waits
  <2> QED  BY <2>1, <2>5, <2>7, <2>8, <2>10
<1> QED  BY <1>1, <1>2

\* apply_one
LEMMA ApplyOneKeeps ==
    ASSUME NEW S, NEW top, World(S, top), NEW r \in Replica,
           NEW x, Clocks(x, r, S, top), Waits(x, S),
           NEW op \in S, op \notin ToSet(x.deferred), op.kind # "gap"
    PROVE  LET y == ApplyOne(x, op)
           IN  /\ Clocks(y, r, S, top) /\ Waits(y, S)
               /\ ToSet(y.deferred) \subseteq ToSet(x.deferred) \cup {op}
<1> DEFINE step == TryApply(x, op)
<1>1. CASE GapConflicts(x.gaps, op) \/ Observed(x.version, op.id)
  <2>1. ApplyOne(x, op) = x
    BY <1>1, Zenon DEF ApplyOne
  <2> QED  BY <2>1
<1>2. CASE ~GapConflicts(x.gaps, op) /\ ~Observed(x.version, op.id)
  <2>1. \/ ApplyOne(x, op) = DeferOrQuarantine(x, op)
        \/ step.verdict # "not_ready" /\ ApplyOne(x, op) = step.b
    BY <1>2, Zenon DEF ApplyOne
  <2>2. CASE ApplyOne(x, op) = DeferOrQuarantine(x, op)
    BY <1>2, <2>2, DeferKeeps
  <2>3. CASE step.verdict # "not_ready" /\ ApplyOne(x, op) = step.b
    <3> DEFINE y == step.b
    <3>1. DOMAIN x = Fields
      BY DEF Clocks
    <3>2. Tried(x, op, step)
      BY <1>2, <3>1, Tries
    <3> HIDE DEF step
    <3>3. Leaves(x, op, step, r, S, top)
      BY <2>3, <3>2, TriedLeaves
    <3>4. /\ Clocks(y, r, S, top) /\ y.deferred = x.deferred /\ y.gaps = x.gaps
          /\ \A n \in S : Observed(y.version, n.id) => n.id = op.id \/ Observed(x.version, n.id)
      BY <3>3 DEF Leaves
    <3> HIDE DEF y
    <3>5. ASSUME NEW m \in ToSet(y.deferred)
          PROVE  ~Observed(y.version, m.id) /\ ~GapConflicts(y.gaps, m) /\ m.kind # "gap"
      <4>1. m \in S /\ m # op
        BY <3>4, <3>5 DEF Waits, ToSet
      <4>2. ~Observed(x.version, m.id) /\ ~GapConflicts(x.gaps, m) /\ m.kind # "gap"
        BY <3>4, <3>5 DEF Waits
      <4>3. m.id # op.id
        BY <4>1, <4>2, OperationsDiffer DEF World
      <4> QED  BY <3>4, <4>1, <4>2, <4>3
    <3>6. Waits(y, S)
      BY <3>4, <3>5 DEF Waits
    <3> QED  BY <2>3, <3>4, <3>6 DEF y
  <2> QED  BY <2>1, <2>2, <2>3
<1> QED  BY <1>1, <1>2

\* Offering a batch of one or two messages.
LEMMA OfferKeeps ==
    ASSUME NEW S, NEW top, World(S, top), NEW r \in Replica,
           NEW x, Clocks(x, r, S, top), Waits(x, S), NEW a \in S, NEW c \in S,
           a \notin ToSet(x.deferred), a.kind # "gap", c \notin ToSet(x.deferred), c.kind # "gap"
    PROVE  LET y == FoldLeft(ApplyOne, x, IF a = c THEN <<a>> ELSE <<a, c>>)
           IN  Clocks(y, r, S, top) /\ Waits(y, S)
<1> DEFINE y == ApplyOne(x, a)
           z == ApplyOne(y, c)
<1>1. /\ Clocks(y, r, S, top) /\ Waits(y, S)
      /\ ToSet(y.deferred) \subseteq ToSet(x.deferred) \cup {a}
  BY ApplyOneKeeps
<1>2. FoldLeft(ApplyOne, x, <<a>>) = y
  <2>1. << >> \in Seq(S) /\ <<a>> = Append(<< >>, a)
    OBVIOUS
  <2>2. Offering!Fold(x, Append(<< >>, a)) = ApplyOne(Offering!Fold(x, << >>), a)
    BY <2>1, Offering!FoldAppend
  <2>3. Offering!Fold(x, << >>) = x
    BY Offering!FoldEmpty
  <2> QED  BY <2>1, <2>2, <2>3, FoldsAreFolds
<1>3. FoldLeft(ApplyOne, x, <<a, c>>) = z
  <2>1. <<a>> \in Seq(S) /\ <<a, c>> = Append(<<a>>, c)
    OBVIOUS
  <2>2. Offering!Fold(x, Append(<<a>>, c)) = ApplyOne(Offering!Fold(x, <<a>>), c)
    BY <2>1, Offering!FoldAppend
  <2> QED  BY <1>2, <2>1, <2>2, FoldsAreFolds
<1>4. CASE a = c
  BY <1>1, <1>2, <1>4
<1>5. CASE a # c
  <2>1. c \notin ToSet(y.deferred)
    BY <1>1, <1>5
  <2> HIDE DEF y
  <2>2. Clocks(z, r, S, top) /\ Waits(z, S)
    BY <1>1, <2>1, ApplyOneKeeps
  <2> QED  BY <1>3, <1>5, <2>2
<1> QED  BY <1>4, <1>5

-----------------------------------------------------------------------------
(* The invariant *)

\* How far every replica has come with its own counters.
Top == [q \in Replica |-> buffer[q].version[q]]

\* Every buffer has its clocks in order, and nothing ready among what waits.
TextInv ==
    /\ DOMAIN buffer = Replica
    /\ World(sent, Top)
    /\ \A r \in Replica :
          /\ Clocks(buffer[r], r, sent, Top)
          /\ Waits(buffer[r], sent)
          /\ Settled(buffer[r])
\* The parts of the invariant at one replica.
LEMMA InvAt ==
    ASSUME TextInv, NEW r \in Replica
    PROVE  /\ r \in Actor /\ Top \in [Replica -> Nat] /\ Top[r] = buffer[r].version[r]
           /\ Clocks(buffer[r], r, sent, Top) /\ Waits(buffer[r], sent) /\ Settled(buffer[r])
           /\ DOMAIN buffer[r] = Fields
           /\ buffer[r].version \in Global /\ buffer[r].next \in Nat
           /\ buffer[r].version[r] \in Nat /\ buffer[r].version[r] < buffer[r].next
<1>1. r \in Actor
  BY DEF Replica
<1>2. Clocks(buffer[r], r, sent, Top) /\ Waits(buffer[r], sent) /\ Settled(buffer[r])
  BY DEF TextInv
<1>3. Top \in [Replica -> Nat] /\ Top[r] = buffer[r].version[r]
  BY DEF TextInv, World, Top
<1>4. /\ DOMAIN buffer[r] = Fields
      /\ buffer[r].version \in Global /\ buffer[r].next \in Nat
      /\ buffer[r].version[r] < buffer[r].next
  BY <1>2 DEF Clocks
<1>5. buffer[r].version[r] \in Nat
  BY <1>1, <1>4 DEF Global
<1> QED  BY <1>1, <1>2, <1>3, <1>4, <1>5

-----------------------------------------------------------------------------
(* Steps that receive *)

\* A step that only changes what one replica has received.
LEMMA ReceivingKeeps ==
    ASSUME TextInv, NEW r \in Replica, NEW b, buffer' = [buffer EXCEPT ![r] = b], sent' = sent,
           Clocks(b, r, sent, Top), Waits(b, sent), Settled(b)
    PROVE  TextInv'
<1>1. DOMAIN buffer = Replica
  BY DEF TextInv
<1>2. DOMAIN buffer' = Replica /\ buffer'[r] = b /\ \A q \in Replica \ {r} : buffer'[q] = buffer[q]
  BY <1>1
<1>3. b.version[r] = buffer[r].version[r]
  BY InvAt DEF Clocks
<1>4. \A q \in Replica : buffer'[q].version[q] = buffer[q].version[q]
  BY <1>2, <1>3
<1>5. Top' = Top
  BY <1>4 DEF Top
<1>6. ASSUME NEW q \in Replica
      PROVE  Clocks(buffer'[q], q, sent, Top) /\ Waits(buffer'[q], sent) /\ Settled(buffer'[q])
  BY <1>2, InvAt
<1>7. World(sent, Top)
  BY DEF TextInv
<1> QED  BY <1>2, <1>5, <1>6, <1>7 DEF TextInv

\* apply_ops
LEMMA DeliverKeeps ==
    ASSUME TextInv, NEW r \in Replica, NEW a, NEW c,
           Deliver(r, IF a = c THEN <<a>> ELSE <<a, c>>)
    PROVE  TextInv'
<1> DEFINE b == buffer[r]
           batch == IF a = c THEN <<a>> ELSE <<a, c>>
           x == FoldLeft(ApplyOne, b, batch)
           y == RetryDeferred(x)
<1>1. ToSet(batch) = {a, c}
  BY DEF ToSet
<1>2. a \in sent /\ c \in sent /\ a \notin ToSet(b.deferred) /\ c \notin ToSet(b.deferred)
      /\ a.kind # "gap" /\ c.kind # "gap"
  BY <1>1 DEF Deliver
<1>3. buffer' = [buffer EXCEPT ![r] = y] /\ sent' = sent
  BY Zenon DEF Deliver, Becomes
<1>4. World(sent, Top) /\ Clocks(b, r, sent, Top) /\ Waits(b, sent)
  BY InvAt DEF TextInv
<1>5. Clocks(x, r, sent, Top) /\ Waits(x, sent)
  BY <1>2, <1>4, OfferKeeps
<1> HIDE DEF x
<1>6. Retried(x, y, r, sent, Top) /\ Settled(y)
  BY <1>4, <1>5, RetrySettles
<1>7. Clocks(y, r, sent, Top) /\ Waits(y, sent)
  BY <1>6 DEF Retried
<1> HIDE DEF y
<1> QED  BY <1>3, <1>6, <1>7, ReceivingKeeps

\* A gap more conflicts with what it conflicts with itself.
LEMMA OneMoreGap ==
    ASSUME NEW gaps, NEW gap, NEW m, ~GapConflicts(gaps, m), ~GapConflicts({gap}, m)
    PROVE  ~GapConflicts(gaps \cup {gap}, m)
<1>1. \A first, last : Overlaps(gaps \cup {gap}, first, last)
                          => Overlaps(gaps, first, last) \/ Overlaps({gap}, first, last)
  BY Zenon DEF Overlaps
<1> QED  BY <1>1, Zenon DEF GapConflicts, InGap

\* Accepting a gap whose evidence has arrived: nothing that waits lies in it.
LEMMA GapWaits ==
    ASSUME NEW S, NEW top, World(S, top), NEW r \in Replica,
           NEW x, Clocks(x, r, S, top), Waits(x, S), NEW gap \in S, Ready(x, gap),
           \A m \in ToSet(x.deferred) : ~GapConflicts({gap}, m)
    PROVE  LET y == Observing([x EXCEPT !.gaps = @ \cup {gap}], gap)
           IN  Clocks(y, r, S, top) /\ Waits(y, S)
<1> DEFINE c == [x EXCEPT !.gaps = @ \cup {gap}]
           y == Observing(c, gap)
<1>1. DOMAIN x = Fields
  BY DEF Clocks
<1>2. /\ DOMAIN c = Fields /\ c.version = x.version /\ c.next = x.next
      /\ c.frontier = x.frontier /\ c.deferred = x.deferred /\ c.gaps = x.gaps \cup {gap}
  BY <1>1 DEF Fields
<1> HIDE DEF c
<1>3. Clocks(c, r, S, top) /\ Ready(c, gap)
  BY <1>2 DEF Clocks, Ready
<1>4. /\ Clocks(y, r, S, top)
      /\ y.deferred = c.deferred /\ y.gaps = c.gaps
      /\ \A n \in S : Observed(y.version, n.id) => n.id = gap.id \/ Observed(c.version, n.id)
  BY <1>3, ObservingKeeps
<1> HIDE DEF y
<1>5. ASSUME NEW m \in ToSet(y.deferred)
      PROVE  ~Observed(y.version, m.id) /\ ~GapConflicts(y.gaps, m) /\ m.kind # "gap"
  <2>1. m \in S /\ m \in ToSet(x.deferred) /\ ~GapConflicts({gap}, m)
    <3>1. m \in ToSet(x.deferred)
      BY <1>2, <1>4
    <3>2. m \in S
      BY <3>1 DEF Waits, ToSet
    <3> QED  BY <3>1, <3>2, Zenon
  <2>0. m.id # gap.id
    <3>1. IsMessage(m) /\ IsMessage(gap)
      BY <2>1 DEF World, Orderly
    <3>2. ~Overlaps({gap}, m.first, m.id.counter)
      BY <2>1, Zenon DEF GapConflicts
    <3> QED  BY <3>1, <3>2 DEF Overlaps, IsMessage, Identity
  <2>2. ~Observed(x.version, m.id) /\ ~GapConflicts(x.gaps, m) /\ m.kind # "gap"
    BY <2>1 DEF Waits
  <2>3. ~GapConflicts(y.gaps, m)
    <3>1. ~GapConflicts(x.gaps \cup {gap}, m)
      BY <2>1, <2>2, OneMoreGap, Zenon
    <3>2. y.gaps = x.gaps \cup {gap}
      BY <1>2, <1>4
    <3> QED  BY <3>1, <3>2, Zenon
  <2> QED  BY <1>2, <1>4, <2>0, <2>1, <2>2, <2>3
<1>6. Waits(y, S)
  BY <1>2, <1>4, <1>5 DEF Waits
<1> QED  BY <1>4, <1>6 DEF y, c

\* apply_counter_gap
LEMMA ApplyGapKeeps ==
    ASSUME TextInv, NEW r \in Replica, NEW gap \in sent, gap.kind = "gap", ApplyGap(r, gap)
    PROVE  TextInv'
<1> DEFINE b == buffer[r]
           x == Observing([b EXCEPT !.gaps = @ \cup {gap}], gap)
           y == RetryDeferred(x)
<1>1. /\ ObservedAll(b.version, gap.version)
      /\ \A m \in ToSet(b.deferred) : ~GapConflicts({gap}, m)
      /\ buffer' = [buffer EXCEPT ![r] = y] /\ sent' = sent
  BY Zenon DEF ApplyGap, Bridge, Held, Becomes, GapApplied
<1>2. World(sent, Top) /\ Clocks(b, r, sent, Top) /\ Waits(b, sent)
  BY InvAt DEF TextInv
<1>4. Ready(b, gap)
  BY <1>1 DEF Ready
<1>5. Clocks(x, r, sent, Top) /\ Waits(x, sent)
  <2> HIDE DEF b
  <2> QED  BY <1>1, <1>2, <1>4, GapWaits
<1> HIDE DEF x
<1>6. Retried(x, y, r, sent, Top) /\ Settled(y)
  BY <1>2, <1>5, RetrySettles
<1>7. Clocks(y, r, sent, Top) /\ Waits(y, sent)
  BY <1>6 DEF Retried
<1> HIDE DEF y
<1> QED  BY <1>1, <1>6, <1>7, ReceivingKeeps

\* A buffer like the old one may take its place.
LEMMA AlikeKeeps ==
    ASSUME TextInv, NEW r \in Replica, NEW b, Alike(buffer[r], b),
           buffer' = [buffer EXCEPT ![r] = b], sent' = sent
    PROVE  TextInv'
<1>1. Clocks(buffer[r], r, sent, Top) /\ Waits(buffer[r], sent) /\ Settled(buffer[r])
  BY InvAt
<1>2. Clocks(b, r, sent, Top)
  BY <1>1, AlikeClocks
<1>3. Waits(b, sent) /\ Settled(b)
  BY <1>1 DEF Alike, Waits, Settled, Ready
<1> QED  BY <1>2, <1>3, ReceivingKeeps

\* checkpoint_state and restore_checkpoint_state
LEMMA RestoreKeeps ==
    ASSUME TextInv, NEW r \in Replica, RestoreCheckpoint(r)
    PROVE  TextInv'
<1> DEFINE b == buffer[r]
           rebuilt == [b EXCEPT !.frags = << >>, !.origins = {}, !.dels = {}, !.located = {},
                                !.valid = TRUE]
           c == SetFragments(rebuilt, b.frags)
<1>1. buffer' = [buffer EXCEPT ![r] = c] /\ sent' = sent
  BY Zenon DEF RestoreCheckpoint, Becomes
<1>2. DOMAIN b = Fields
  BY InvAt
<1>3. Alike(b, rebuilt)
  BY <1>2, Reindexed, Zenon
<1> HIDE DEF rebuilt
<1>4. Alike(rebuilt, c)
  BY <1>3, SetFragmentsAlike DEF Alike
<1>5. Alike(b, c)
  BY <1>3, <1>4, AlikeChain
<1> HIDE DEF c
<1> QED  BY <1>1, <1>5, AlikeKeeps

\* A nonempty set of naturals has a least element.
LEMMA MinOf ==
    ASSUME NEW S, S \subseteq Nat, S # {}
    PROVE  Min(S) \in S /\ \A y \in S : Min(S) <= y
<1>1. PICK x \in S : \A y \in S : ~(<<y, x>> \in OpToRel(<, Nat))
  BY NatLessThanWellFounded, WFMin
<1>2. \A y \in S : ~(y < x)
  BY <1>1, Zenon DEF OpToRel
<1>3. \A y \in S : x <= y
  BY <1>2
<1> QED  BY <1>3 DEF Min

\* collect_garbage
LEMMA CollectKeeps ==
    ASSUME TextInv, NEW r \in Replica, NEW pinned, CollectGarbage(r, pinned)
    PROVE  TextInv'
<1> DEFINE b == buffer[r]
<1>1. PICK f, u, l : /\ buffer' = [buffer EXCEPT ![r] =
                            [[b EXCEPT !.frontier = CertifiedFrontier] EXCEPT
                                !.frags = f, !.undo = u, !.located = l]]
                     /\ sent' = sent
  BY Zenon DEF CollectGarbage, Becomes
<1> DEFINE c == [[b EXCEPT !.frontier = CertifiedFrontier] EXCEPT !.frags = f, !.undo = u, !.located = l]
<1>2. DOMAIN b = Fields /\ Clocks(b, r, sent, Top) /\ Waits(b, sent) /\ Settled(b)
  BY InvAt
<1>3. /\ DOMAIN c = Fields /\ c.version = b.version /\ c.next = b.next
      /\ c.frontier = CertifiedFrontier /\ c.deferred = b.deferred /\ c.gaps = b.gaps
  BY <1>2 DEF Fields
<1>4. ASSUME NEW a \in Actor
      PROVE  CertifiedFrontier[a] \in Nat /\ CertifiedFrontier[a] <= b.version[a]
  <2> DEFINE S == {buffer[q].version[a] : q \in Replica}
  <2>1. S \subseteq Nat /\ S # {} /\ b.version[a] \in S
    BY InvAt DEF Global
  <2>2. CertifiedFrontier[a] = Min(S)
    BY DEF CertifiedFrontier
  <2> HIDE DEF S
  <2>3. Min(S) \in S /\ \A y \in S : Min(S) <= y
    BY <2>1, MinOf
  <2> QED  BY <2>1, <2>2, <2>3
<1>5. CertifiedFrontier \in Global
  <2>1. CertifiedFrontier = [a \in Actor |-> CertifiedFrontier[a]]
    BY DEF CertifiedFrontier
  <2> QED  BY <1>4, <2>1 DEF Global
<1>6. ObservedAll(b.version, CertifiedFrontier)
  <2>1. b.version \in Global
    BY <1>2 DEF Clocks
  <2> QED  BY <1>4, <2>1 DEF ObservedAll, Global
<1> HIDE DEF c
<1>7. Clocks(c, r, sent, Top)
  BY <1>2, <1>3, <1>5, <1>6 DEF Clocks
<1>8. Waits(c, sent) /\ Settled(c)
  BY <1>2, <1>3 DEF Waits, Settled, Ready
<1> QED  BY <1>1, <1>7, <1>8, ReceivingKeeps DEF c

-----------------------------------------------------------------------------
(* Steps that publish *)

\* m is the next message of r, made from all r has seen.
IsNext(m, r) ==
    /\ m.id \in Identity /\ m.id.actor = r /\ m.id.counter >= buffer[r].next
    /\ m.first.actor = r /\ m.first.counter <= m.id.counter
    /\ m.version = buffer[r].version

\* c is the buffer of r after it has published m.
Advanced(r, m, c) ==
    /\ DOMAIN c = Fields
    /\ c.version = Observe(buffer[r].version, m.id) /\ c.next = m.id.counter + 1
    /\ c.frontier = buffer[r].frontier /\ c.deferred = buffer[r].deferred
    /\ \/ c.gaps = buffer[r].gaps
       \/ /\ c.gaps = buffer[r].gaps \cup {m}
          /\ \A d \in ToSet(c.deferred) : ~GapConflicts({m}, d)

\* How far the replicas have come then.
Raised(r, m) == [Top EXCEPT ![r] = m.id.counter]

\* A next message names nothing beyond what its replica has come to.
LEMMA NextIsNew ==
    ASSUME TextInv, NEW r \in Replica, NEW m, IsNext(m, r)
    PROVE  /\ IsMessage(m) /\ m.id.counter > Top[r]
           /\ Raised(r, m) \in [Replica -> Nat]
           /\ Raised(r, m)[r] = m.id.counter
           /\ \A q \in Replica : Raised(r, m)[q] >= Top[q] /\ (q # r => Raised(r, m)[q] = Top[q])
<1>1. /\ r \in Actor /\ Top \in [Replica -> Nat] /\ Top[r] = buffer[r].version[r]
      /\ buffer[r].version \in Global /\ buffer[r].next \in Nat
      /\ buffer[r].version[r] < buffer[r].next
  BY InvAt
<1>2. /\ m.id \in Identity /\ m.id.actor = r /\ m.id.counter \in Nat
      /\ m.id.counter >= buffer[r].next /\ m.version = buffer[r].version
      /\ m.first.actor = r /\ m.first.counter <= m.id.counter
  BY DEF IsNext, Identity
<1>3. m.id.counter > Top[r]
  BY <1>1, <1>2
<1>4. Raised(r, m) \in [Replica -> Nat] /\ Raised(r, m)[r] = m.id.counter
      /\ \A q \in Replica : Raised(r, m)[q] >= Top[q] /\ (q # r => Raised(r, m)[q] = Top[q])
  BY <1>1, <1>2, <1>3 DEF Raised
<1> QED  BY <1>1, <1>2, <1>3, <1>4 DEF IsMessage

\* What a replica has seen covers what its own earlier messages were made from.
LEMMA OwnAreSeen ==
    ASSUME TextInv, NEW r \in Replica, NEW n \in sent, n.id.actor = r
    PROVE  /\ Observed(buffer[r].version, n.id) /\ ObservedAll(buffer[r].version, n.version)
           /\ n.id.counter <= Top[r]
<1>1. n.id.counter <= Top[r]
  BY DEF TextInv, World
<1>2. Observed(buffer[r].version, n.id)
  <2>1. n.id.counter \in Nat
    BY DEF TextInv, World, Orderly, IsMessage, Identity
  <2> QED  BY <1>1, <2>1, InvAt DEF Observed
<1>3. ObservedAll(buffer[r].version, n.version)
  BY <1>2, InvAt DEF Clocks, CausallyClosed
<1> QED  BY <1>1, <1>2, <1>3

\* The messages stay in chains.
LEMMA WorldGrows ==
    ASSUME TextInv, NEW r \in Replica, NEW m, IsNext(m, r)
    PROVE  World(sent \cup {m}, Raised(r, m))
<1> DEFINE top == Raised(r, m)
<1>1. /\ IsMessage(m) /\ m.id.counter > Top[r]
      /\ top \in [Replica -> Nat] /\ top[r] = m.id.counter
      /\ \A q \in Replica : top[q] >= Top[q] /\ (q # r => top[q] = Top[q])
  BY NextIsNew
<1>2. m.id.actor = r /\ m.version = buffer[r].version /\ m.id.counter \in Nat
  BY DEF IsNext, Identity
<1> HIDE DEF top
<1>3. World(sent, Top) /\ Top \in [Replica -> Nat]
  BY DEF TextInv, World
<1>4. \A n \in sent : IsMessage(n)
  BY <1>3 DEF World, Orderly
<1>5. ASSUME NEW n \in sent, n.id.actor = r
      PROVE  Precedes(n, m)
  <2>1. /\ Observed(m.version, n.id) /\ ObservedAll(m.version, n.version)
        /\ n.id.counter <= Top[r]
    BY <1>2, <1>5, OwnAreSeen
  <2>2. n.id.counter \in Nat /\ Top[r] \in Nat
    BY <1>3, <1>4 DEF IsMessage, Identity
  <2> QED  BY <1>1, <1>2, <2>1, <2>2 DEF Precedes
<1>6. Orderly(sent \cup {m})
  <2>1. \A n \in sent \cup {m} : IsMessage(n)
    BY <1>1, <1>4
  <2>2. ASSUME NEW n \in sent \cup {m}, NEW k \in sent \cup {m}, n.id.actor = k.id.actor
        PROVE  Twins(n, k) \/ Precedes(n, k) \/ Precedes(k, n)
    <3>1. CASE n \in sent /\ k \in sent
      BY <1>3, <2>2, <3>1 DEF World, Orderly
    <3>2. CASE n = m \/ k = m
      BY <1>2, <1>5, <2>2, <3>2 DEF Twins
    <3> QED  BY <3>1, <3>2
  <2> QED  BY <2>1, <2>2 DEF Orderly
<1>7. ASSUME NEW n \in sent
      PROVE  n.id.counter <= top[n.id.actor] /\ AtMost(n.version, top)
  <2>1. n.id.actor \in Replica /\ n.id.counter \in Nat /\ n.version \in Global
    BY <1>4 DEF IsMessage, Identity
  <2>2. n.id.counter <= Top[n.id.actor] /\ AtMost(n.version, Top)
    BY <1>3 DEF World
  <2>3. n.id.counter <= top[n.id.actor]
    BY <1>1, <1>3, <2>1, <2>2
  <2>4. \A q \in Replica : n.version[q] \in Nat
    BY <2>1 DEF Global, Replica
  <2> QED  BY <1>1, <1>3, <2>2, <2>3, <2>4 DEF AtMost
<1>8. m.id.counter <= top[m.id.actor] /\ AtMost(m.version, top)
  <2>1. AtMost(m.version, Top)
    BY <1>2, InvAt DEF Clocks
  <2>2. \A q \in Replica : m.version[q] \in Nat
    BY <1>1 DEF IsMessage, Global, Replica
  <2> QED  BY <1>1, <1>2, <1>3, <2>1, <2>2 DEF AtMost
<1>9. \A n \in sent \cup {m} : n.id.counter <= top[n.id.actor] /\ AtMost(n.version, top)
  BY <1>7, <1>8
<1> QED  BY <1>1, <1>6, <1>9 DEF World, top

\* The other replicas have not seen it.
LEMMA OthersKeep ==
    ASSUME TextInv, NEW r \in Replica, NEW m, IsNext(m, r), NEW q \in Replica \ {r}
    PROVE  /\ Clocks(buffer[q], q, sent \cup {m}, Raised(r, m))
           /\ Waits(buffer[q], sent \cup {m})
<1> DEFINE v == buffer[q].version
           top == Raised(r, m)
<1>1. /\ IsMessage(m) /\ m.id.counter > Top[r]
      /\ top \in [Replica -> Nat] /\ top[r] = m.id.counter
      /\ \A p \in Replica : top[p] >= Top[p] /\ (p # r => top[p] = Top[p])
  BY NextIsNew
<1> HIDE DEF top
<1>2. Clocks(buffer[q], q, sent, Top) /\ Waits(buffer[q], sent) /\ v \in Global /\ Top \in [Replica -> Nat]
  BY InvAt
<1>3. \A p \in Replica : v[p] \in Nat /\ v[p] <= Top[p]
  BY <1>2 DEF Clocks, AtMost, Global, Replica
<1>4. ~Observed(v, m.id)
  <2>1. m.id.actor = r /\ m.id.counter \in Nat
    BY DEF IsNext, Identity
  <2> QED  BY <1>1, <1>2, <1>3, <2>1 DEF Observed
<1>5. CausallyClosed(v, sent \cup {m})
  BY <1>2, <1>4 DEF CausallyClosed, Clocks
<1>6. AtMost(v, top)
  BY <1>1, <1>2, <1>3 DEF AtMost
<1>7. v[q] = top[q]
  BY <1>1, <1>2 DEF Clocks
<1>8. Clocks(buffer[q], q, sent \cup {m}, top)
  BY <1>2, <1>5, <1>6, <1>7 DEF Clocks
<1>9. Waits(buffer[q], sent \cup {m})
  BY <1>2 DEF Waits
<1> QED  BY <1>8, <1>9 DEF top

\* Its own replica has, and what waits there still does.
LEMMA OwnKeeps ==
    ASSUME TextInv, NEW r \in Replica, NEW m, IsNext(m, r), NEW c, Advanced(r, m, c)
    PROVE  /\ Clocks(c, r, sent \cup {m}, Raised(r, m))
           /\ Waits(c, sent \cup {m}) /\ Settled(c)
<1> DEFINE b == buffer[r]
           v == b.version
           w == c.version
           top == Raised(r, m)
<1>1. /\ IsMessage(m) /\ m.id.counter > Top[r]
      /\ top \in [Replica -> Nat] /\ top[r] = m.id.counter
      /\ \A p \in Replica : top[p] >= Top[p] /\ (p # r => top[p] = Top[p])
  BY NextIsNew
<1>2. /\ r \in Actor /\ Top \in [Replica -> Nat] /\ Top[r] = v[r]
      /\ Clocks(b, r, sent, Top) /\ Waits(b, sent) /\ Settled(b)
      /\ v \in Global
  BY InvAt
<1>3. m.id \in Identity /\ m.id.actor = r /\ m.id.counter \in Nat /\ m.version = v
  BY DEF IsNext, Identity
<1>4. w = [v EXCEPT ![r] = m.id.counter]
  BY <1>1, <1>2, <1>3 DEF Advanced, Observe
<1>5. /\ w \in Global /\ w[r] = m.id.counter
      /\ \A a \in Actor : v[a] \in Nat /\ w[a] \in Nat /\ w[a] >= v[a] /\ (a # r => w[a] = v[a])
  BY <1>1, <1>2, <1>3, <1>4 DEF Global
<1>6. /\ DOMAIN c = Fields /\ c.next = m.id.counter + 1 /\ c.frontier = b.frontier
      /\ c.deferred = b.deferred
      /\ \/ c.gaps = b.gaps
         \/ c.gaps = b.gaps \cup {m} /\ \A d \in ToSet(b.deferred) : ~GapConflicts({m}, d)
  BY DEF Advanced
<1> HIDE DEF top, w, v, b
<1>7. \A n \in sent : IsMessage(n) /\ n.id.actor \in Replica /\ n.id.counter \in Nat /\ n.version \in Global
  BY DEF TextInv, World, Orderly, IsMessage, Identity
<1>8. ASSUME NEW n \in sent, Observed(w, n.id)
      PROVE  Observed(v, n.id)
  <2>1. CASE n.id.actor = r
    BY <2>1, OwnAreSeen DEF v, b
  <2>2. CASE n.id.actor # r
    <3>1. n.id.actor \in Actor
      BY <1>7 DEF Replica
    <3> QED  BY <1>5, <1>8, <2>2, <3>1 DEF Observed
  <2> QED  BY <2>1, <2>2
<1>9. CausallyClosed(w, sent \cup {m})
  <2>1. ObservedAll(w, v)
    BY <1>5 DEF ObservedAll
  <2>2. ASSUME NEW n \in sent, Observed(w, n.id)
        PROVE  ObservedAll(w, n.version)
    <3>1. ObservedAll(v, n.version)
      BY <1>2, <1>8, <2>2 DEF Clocks, CausallyClosed, v
    <3> QED  BY <1>2, <1>5, <1>7, <2>1, <3>1, CoversChain
  <2> QED  BY <1>3, <2>1, <2>2 DEF CausallyClosed
<1>10. AtMost(w, top)
  <2>1. AtMost(v, Top)
    BY <1>2 DEF Clocks, v
  <2>2. Replica \subseteq Actor
    BY DEF Replica
  <2> QED  BY <1>1, <1>2, <1>5, <2>1, <2>2 DEF AtMost
<1>11. ObservedAll(w, c.frontier) /\ c.frontier \in Global
  <2>1. ObservedAll(v, b.frontier) /\ b.frontier \in Global
    BY <1>2 DEF Clocks, v
  <2> QED  BY <1>5, <1>6, <2>1 DEF ObservedAll, Global
<1>12. Clocks(c, r, sent \cup {m}, top)
  BY <1>1, <1>3, <1>5, <1>6, <1>9, <1>10, <1>11 DEF Clocks, w
<1>13. ASSUME NEW d \in ToSet(b.deferred)
       PROVE  /\ d \in sent /\ ~Observed(w, d.id) /\ ~GapConflicts(c.gaps, d) /\ d.kind # "gap"
              /\ ~Ready(c, d)
  <2>1. d \in sent /\ ~Observed(v, d.id) /\ ~GapConflicts(b.gaps, d) /\ d.kind # "gap" /\ ~Ready(b, d)
    BY <1>2 DEF Waits, ToSet, Settled, v
  <2>3. ~GapConflicts(c.gaps, d)
    <3>1. CASE c.gaps = b.gaps
      BY <2>1, <3>1, Zenon
    <3>2. CASE c.gaps = b.gaps \cup {m} /\ \A e \in ToSet(b.deferred) : ~GapConflicts({m}, e)
      <4>1. ~GapConflicts(b.gaps \cup {m}, d)
        BY <2>1, <3>2, OneMoreGap, Zenon
      <4> QED  BY <3>2, <4>1, Zenon
    <3> QED  BY <1>6, <3>1, <3>2
  <2>4. ~Ready(c, d)
    <3>1. PICK a \in Actor : ~(v[a] >= d.version[a])
      BY <2>1 DEF Ready, ObservedAll, v
    <3>2. a # r
      <4>1. d.version[r] <= Top[r] /\ d.version[r] \in Nat
        BY <1>2, <1>7, <2>1 DEF TextInv, World, AtMost, Global
      <4> QED  BY <1>2, <3>1, <4>1
    <3> QED  BY <1>5, <3>1, <3>2 DEF Ready, ObservedAll, w
  <2> QED  BY <1>8, <2>1, <2>3, <2>4
<1>14. Waits(c, sent \cup {m}) /\ Settled(c)
  <2>1. b.deferred \in Seq(sent) /\ Len(b.deferred) <= MaxDeferred /\ Sorted(b.deferred)
    BY <1>2 DEF Waits
  <2>2. b.deferred \in Seq(sent \cup {m})
    BY <2>1
  <2>3. \A d \in ToSet(c.deferred) : /\ ~Observed(c.version, d.id) /\ ~GapConflicts(c.gaps, d)
                                     /\ d.kind # "gap" /\ ~Ready(c, d)
    BY <1>6, <1>13 DEF w
  <2> QED  BY <1>6, <2>1, <2>2, <2>3 DEF Waits, Settled
<1> QED  BY <1>12, <1>14 DEF top

\* A step that publishes m.
LEMMA PublishingKeeps ==
    ASSUME TextInv, NEW r \in Replica, NEW m, IsNext(m, r), NEW b,
           Clocks(b, r, sent \cup {m}, Raised(r, m)), Waits(b, sent \cup {m}), Settled(b),
           buffer' = [buffer EXCEPT ![r] = b], sent' = sent \cup {m}
    PROVE  TextInv'
<1> DEFINE top == Raised(r, m)
<1>1. DOMAIN buffer = Replica
  BY DEF TextInv
<1>2. DOMAIN buffer' = Replica /\ buffer'[r] = b /\ \A q \in Replica \ {r} : buffer'[q] = buffer[q]
  BY <1>1
<1>3. top \in [Replica -> Nat] /\ \A q \in Replica : q # r => top[q] = Top[q]
  BY NextIsNew
<1> HIDE DEF top
<1>4. b.version[r] = top[r]
  BY DEF Clocks, top
<1>5. \A q \in Replica : buffer'[q].version[q] = top[q]
  BY <1>2, <1>3, <1>4, InvAt
<1>6. Top' = top
  <2>1. Top' = [q \in Replica |-> buffer'[q].version[q]]
    BY DEF Top
  <2>2. top = [q \in Replica |-> top[q]]
    BY <1>3
  <2> QED  BY <1>5, <2>1, <2>2
<1>7. World(sent \cup {m}, top)
  BY WorldGrows DEF top
<1>8. ASSUME NEW q \in Replica
      PROVE  Clocks(buffer'[q], q, sent \cup {m}, top) /\ Waits(buffer'[q], sent \cup {m}) /\ Settled(buffer'[q])
  <2>1. CASE q = r
    BY <1>2, <2>1 DEF top
  <2>2. CASE q # r
    <3>1. Clocks(buffer[q], q, sent \cup {m}, top) /\ Waits(buffer[q], sent \cup {m})
      BY <2>2, OthersKeep DEF top
    <3>2. Settled(buffer[q])
      BY InvAt
    <3> QED  BY <1>2, <2>2, <3>1, <3>2
  <2> QED  BY <2>1, <2>2
<1> QED  BY <1>2, <1>6, <1>7, <1>8 DEF TextInv

\* A step that publishes m and leaves the queue alone.
LEMMA AdvancingKeeps ==
    ASSUME TextInv, NEW r \in Replica, NEW m, IsNext(m, r), NEW c, Advanced(r, m, c),
           buffer' = [buffer EXCEPT ![r] = c], sent' = sent \cup {m}
    PROVE  TextInv'
  BY OwnKeeps, PublishingKeeps

\* The identity of a local operation.
LEMMA NewIdentityIsNew ==
    ASSUME TextInv, NEW r \in Replica, NEW n \in Nat
    PROVE  /\ NewIdentity(r, n) \in Identity /\ NewIdentity(r, n).actor = r
           /\ NewIdentity(r, n).counter = buffer[r].next + n
           /\ NewIdentity(r, n).counter \in Nat
           /\ NewIdentity(r, n).counter >= buffer[r].next
<1>1. /\ r \in Actor /\ buffer[r].next \in Nat
      /\ buffer[r].version[r] \in Nat /\ buffer[r].version[r] < buffer[r].next
  BY InvAt
<1> DEFINE k == buffer[r].next
           v == buffer[r].version[r]
<1>2. k + n \in Nat \ {0} /\ k + n >= k
  <2>1. k \in Nat /\ v \in Nat /\ v < k
    BY <1>1
  <2> HIDE DEF k, v
  <2> QED  BY <2>1
<1> QED  BY <1>1, <1>2 DEF NewIdentity, Identity

\* commit_local_history and what precedes it.
LEMMA CommitKeeps ==
    ASSUME TextInv, NEW r \in Replica, NEW b, Alike(buffer[r], b), NEW n \in Nat,
           NEW op, op.id = NewIdentity(r, n), op.first = NewIdentity(r, 0), op.version = buffer[r].version,
           NEW items, Commit(r, b, op, items)
    PROVE  TextInv'
<1>1. PICK h : /\ buffer' = [buffer EXCEPT ![r] =
                      [b EXCEPT !.version = Observe(@, op.id), !.next = op.id.counter + 1, !.history = h]]
               /\ sent' = sent \cup {op}
  BY Zenon DEF Commit, Becomes
<1> DEFINE c == [b EXCEPT !.version = Observe(@, op.id), !.next = op.id.counter + 1, !.history = h]
<1>2. IsNext(op, r)
  <2>1. /\ NewIdentity(r, 0).actor = r /\ NewIdentity(r, 0).counter = buffer[r].next + 0
        /\ buffer[r].next \in Nat
    BY NewIdentityIsNew, InvAt
  <2>2. /\ NewIdentity(r, n) \in Identity /\ NewIdentity(r, n).actor = r
        /\ NewIdentity(r, n).counter = buffer[r].next + n
        /\ NewIdentity(r, n).counter >= buffer[r].next
    BY NewIdentityIsNew
  <2> QED  BY <2>1, <2>2 DEF IsNext
<1>3. /\ DOMAIN b = Fields /\ b.version = buffer[r].version /\ b.frontier = buffer[r].frontier
      /\ b.deferred = buffer[r].deferred /\ b.gaps = buffer[r].gaps
  BY DEF Alike
<1>4. /\ DOMAIN c = Fields /\ c.version = Observe(b.version, op.id) /\ c.next = op.id.counter + 1
      /\ c.frontier = b.frontier /\ c.deferred = b.deferred /\ c.gaps = b.gaps
  BY <1>3 DEF Fields
<1> HIDE DEF c
<1>5. Advanced(r, op, c)
  BY <1>3, <1>4 DEF Advanced
<1> QED  BY <1>1, <1>2, <1>5, AdvancingKeeps DEF c

\* try_undo_group and try_redo_group
LEMMA ToggleKeeps ==
    ASSUME TextInv, NEW r \in Replica, NEW group, NEW history, Toggle(r, group, history)
    PROVE  TextInv'
<1> DEFINE b == buffer[r]
           id == NewIdentity(r, 0)
<1>1. PICK u, t, counts :
          /\ buffer' = [buffer EXCEPT ![r] =
                 [RecomputeVisibility([b EXCEPT !.undo = u], t)
                     EXCEPT !.version = Observe(@, id), !.next = @ + 1, !.history = history]]
          /\ sent' = sent \cup {[kind |-> "undo", id |-> id, first |-> id, version |-> b.version,
                                 counts |-> counts]}
  BY Zenon DEF Toggle, Becomes
<1> DEFINE m == [kind |-> "undo", id |-> id, first |-> id, version |-> b.version, counts |-> counts]
           x == [b EXCEPT !.undo = u]
           y == RecomputeVisibility(x, t)
           c == [y EXCEPT !.version = Observe(@, id), !.next = @ + 1, !.history = history]
<1>2. /\ id \in Identity /\ id.actor = r /\ id.counter >= b.next /\ id.counter = b.next + 0
      /\ b.next \in Nat
  BY NewIdentityIsNew, InvAt
<1>3. id.counter = b.next
  BY <1>2
<1> HIDE DEF id
<1>4. m.id = id /\ m.first = id /\ m.version = b.version
  OBVIOUS
<1>5. IsNext(m, r)
  BY <1>2, <1>4 DEF IsNext, Identity
<1>6. Alike(b, y)
  <2>1. DOMAIN b = Fields
    BY InvAt
  <2>2. Alike(b, x)
    BY <2>1, Reindexed
  <2> HIDE DEF x
  <2>3. Alike(x, y)
    BY <2>2, RecomputeAlike DEF Alike
  <2> QED  BY <2>2, <2>3, AlikeChain
<1> HIDE DEF m, y
<1>7. /\ DOMAIN y = Fields /\ y.version = b.version /\ y.next = b.next /\ y.frontier = b.frontier
      /\ y.deferred = b.deferred /\ y.gaps = b.gaps
  BY <1>6 DEF Alike
<1>8. /\ DOMAIN c = Fields /\ c.version = Observe(y.version, id) /\ c.next = y.next + 1
      /\ c.frontier = y.frontier /\ c.deferred = y.deferred /\ c.gaps = y.gaps
  BY <1>7 DEF Fields
<1> HIDE DEF c
<1>9. Advanced(r, m, c)
  BY <1>3, <1>4, <1>7, <1>8 DEF Advanced
<1>10. buffer' = [buffer EXCEPT ![r] = c] /\ sent' = sent \cup {m}
  BY <1>1 DEF c, y, m, x
<1> QED  BY <1>5, <1>9, <1>10, AdvancingKeeps

\* A counter that is declared lost.
LEMMA DeclareGapKeeps ==
    ASSUME TextInv, NEW r \in Replica, DeclareGap(r)
    PROVE  TextInv'
<1> DEFINE b == buffer[r]
           id == NewIdentity(r, 0)
           m == [kind |-> "gap", id |-> id, first |-> id, version |-> b.version]
           x == [b EXCEPT !.gaps = @ \cup {m}]
           c == Observing(x, m)
           y == RetryDeferred(c)
<1>1. /\ buffer' = [buffer EXCEPT ![r] = y] /\ sent' = sent \cup {m}
      /\ \A d \in ToSet(b.deferred) : ~GapConflicts({m}, d)
  BY Zenon DEF DeclareGap, Bridge, Held, Becomes, GapApplied
<1>2. /\ id \in Identity /\ id.actor = r /\ id.counter >= b.next /\ id.counter = b.next + 0
      /\ b.next \in Nat /\ DOMAIN b = Fields /\ b.version \in Global /\ r \in Actor
      /\ b.version[r] \in Nat
  BY NewIdentityIsNew, InvAt
<1>3. id.counter = b.next /\ id.counter \in Nat
  BY <1>2
<1> HIDE DEF id
<1>4. m.id = id /\ m.version = b.version /\ m.first = id
  OBVIOUS
<1>5. IsNext(m, r)
  BY <1>2, <1>3, <1>4 DEF IsNext
<1> HIDE DEF m
<1>6. /\ DOMAIN x = Fields /\ x.version = b.version /\ x.next = b.next
      /\ x.frontier = b.frontier /\ x.deferred = b.deferred /\ x.gaps = b.gaps \cup {m}
  BY <1>2 DEF Fields
<1> HIDE DEF x
<1>7. /\ DOMAIN c = Fields /\ c.version = Join(Observe(b.version, id), b.version)
      /\ c.next = id.counter + 1 /\ c.frontier = b.frontier
      /\ c.deferred = b.deferred /\ c.gaps = b.gaps \cup {m}
  BY <1>3, <1>4, <1>6 DEF Observing, Fields
<1>8. Join(Observe(b.version, id), b.version) = Observe(b.version, id)
  <2> DEFINE v == b.version
             w == Observe(v, id)
  <2>1. w \in Global /\ \A a \in Actor : v[a] \in Nat /\ w[a] \in Nat /\ w[a] >= v[a]
    BY <1>2, <1>3 DEF Observe, Global
  <2> HIDE DEF v, w
  <2>2. Join(w, v) = [a \in Actor |-> w[a]]
    BY <2>1 DEF Join
  <2>3. w = [a \in Actor |-> w[a]]
    BY <2>1 DEF Global
  <2> QED  BY <2>2, <2>3 DEF v, w
<1> HIDE DEF c
<1>9. Advanced(r, m, c)
  BY <1>1, <1>2, <1>4, <1>7, <1>8 DEF Advanced
<1>10. Clocks(c, r, sent \cup {m}, Raised(r, m)) /\ Waits(c, sent \cup {m})
  BY <1>5, <1>9, OwnKeeps
<1>11. World(sent \cup {m}, Raised(r, m))
  BY <1>5, WorldGrows
<1>12. Retried(c, y, r, sent \cup {m}, Raised(r, m)) /\ Settled(y)
  BY <1>10, <1>11, RetrySettles
<1>13. Clocks(y, r, sent \cup {m}, Raised(r, m)) /\ Waits(y, sent \cup {m})
  BY <1>12 DEF Retried
<1> HIDE DEF y
<1> QED  BY <1>1, <1>5, <1>12, <1>13, PublishingKeeps

\* A counter that is declared lost and was not.
LEMMA MisdeclareGapKeeps ==
    ASSUME TextInv, NEW r \in Replica, MisdeclareGap(r)
    PROVE  TextInv'
<1>1. PICK op \in sent :
          sent' = sent \cup {[kind |-> "gap", id |-> op.id, first |-> op.first, version |-> op.version]}
  BY Zenon DEF MisdeclareGap
<1> DEFINE m == [kind |-> "gap", id |-> op.id, first |-> op.first, version |-> op.version]
           S == sent \cup {m}
<1>2. m.kind = "gap" /\ m.id = op.id /\ m.first = op.first /\ m.version = op.version
  OBVIOUS
<1>3. buffer' = buffer /\ sent' = S
  BY <1>1 DEF MisdeclareGap
<1> HIDE DEF m
<1>4. World(sent, Top) /\ Orderly(sent)
  BY DEF TextInv, World
<1>5. \A n \in S : IsMessage(n)
  BY <1>2, <1>4 DEF Orderly, IsMessage
<1>6. ASSUME NEW n \in sent, n.id.actor = m.id.actor
      PROVE  Twins(m, n) \/ Precedes(m, n) \/ Precedes(n, m)
  <2>1. Twins(op, n) \/ Precedes(op, n) \/ Precedes(n, op)
    BY <1>2, <1>4, <1>6 DEF Orderly
  <2> QED  BY <1>2, <2>1 DEF Twins, Precedes
<1>7. Orderly(S)
  <2>1. ASSUME NEW n \in S, NEW k \in S, n.id.actor = k.id.actor
        PROVE  Twins(n, k) \/ Precedes(n, k) \/ Precedes(k, n)
    <3>1. CASE n \in sent /\ k \in sent
      BY <1>4, <2>1, <3>1 DEF Orderly
    <3>2. CASE n = m \/ k = m
      BY <1>6, <2>1, <3>2 DEF Twins
    <3> QED  BY <3>1, <3>2
  <2> QED  BY <1>5, <2>1 DEF Orderly
<1>8. World(S, Top)
  BY <1>2, <1>4, <1>7 DEF World
<1>9. ASSUME NEW q \in Replica
      PROVE  Clocks(buffer[q], q, S, Top) /\ Waits(buffer[q], S) /\ Settled(buffer[q])
  <2>1. Clocks(buffer[q], q, sent, Top) /\ Waits(buffer[q], sent) /\ Settled(buffer[q])
    BY InvAt
  <2>2. CausallyClosed(buffer[q].version, S)
    BY <1>2, <2>1 DEF Clocks, CausallyClosed
  <2> QED  BY <2>1, <2>2 DEF Clocks, Waits
<1>10. Top' = Top
  BY <1>3 DEF Top
<1>11. DOMAIN buffer = Replica
  BY DEF TextInv
<1> HIDE DEF S
<1> QED  BY <1>3, <1>8, <1>9, <1>10, <1>11 DEF TextInv

-----------------------------------------------------------------------------
(* Local operations *)

\* The edits of one operation insert a number of items.
LEMMA RangesCount ==
    ASSUME NEW r, NEW edits \in Ranges(r)
    PROVE  FoldLeft(LAMBDA k, e : k + e.n, 0, edits) \in Nat
<1>1. Lengths \subseteq Nat
  BY TextAssumption
<1>2. (\E e : edits = <<e>> /\ e.n \in Nat) \/ (\E e, f : edits = <<e, f>> /\ e.n \in Nat /\ f.n \in Nat)
  <2> DEFINE end == VisibleLength(buffer[r].frags)
             one == {e \in UNION {[from : {i}, to : i .. end, n : Lengths] : i \in 0 .. end} :
                        e.from < e.to \/ e.n > 0}
             pairs == {e \in one : e.from = e.to} \X {e \in one : e.n = 0}
  <2>1. ASSUME NEW e \in one
        PROVE  e.n \in Nat
    <3>1. PICK i \in 0 .. end : e \in [from : {i}, to : i .. end, n : Lengths]
      OBVIOUS
    <3>2. e.n \in Lengths
      BY <3>1
    <3> QED  BY <1>1, <3>2
  <2> HIDE DEF one
  <2>2. \/ \E e \in one : edits = <<e>>
        \/ edits \in pairs
    BY DEF Ranges, one
  <2>3. CASE edits \in pairs
    <3>1. PICK e \in one, f \in one : edits = <<e, f>>
      BY <2>3
    <3> QED  BY <2>1, <3>1
  <2> QED  BY <2>1, <2>2, <2>3
<1>3. FoldLeft(LAMBDA k, e : k + e.n, 0, edits) = Counting!Fold(0, edits)
  BY DEF FoldLeft, MapThenFoldSet, Max, Counting!Fold, Counting!FoldLeft, Counting!MapThenFoldSet,
         Counting!Max, Plus
<1>4. Counting!Fold(0, << >>) = 0
  BY Counting!FoldEmpty
<1>5. ASSUME NEW e, e.n \in Nat
      PROVE  Counting!Fold(0, <<e>>) = 0 + e.n
  <2>1. << >> \in Seq({e}) /\ <<e>> = Append(<< >>, e)
    OBVIOUS
  <2>2. Counting!Fold(0, Append(<< >>, e)) = Plus(Counting!Fold(0, << >>), e)
    BY <2>1, Counting!FoldAppend
  <2> QED  BY <1>4, <2>1, <2>2 DEF Plus
<1>6. ASSUME NEW e, NEW f, e.n \in Nat, f.n \in Nat
      PROVE  Counting!Fold(0, <<e, f>>) = (0 + e.n) + f.n
  <2>1. <<e>> \in Seq({e, f}) /\ f \in {e, f} /\ <<e, f>> = Append(<<e>>, f)
    OBVIOUS
  <2>2. Counting!Fold(0, Append(<<e>>, f)) = Plus(Counting!Fold(0, <<e>>), f)
    BY <2>1, Counting!FoldAppend
  <2> QED  BY <1>5, <1>6, <2>1, <2>2 DEF Plus
<1>7. Counting!Fold(0, edits) \in Nat
  BY <1>2, <1>5, <1>6
<1> QED  BY <1>3, <1>7

\* The buffer a local edit takes, direct or general.
LEMMA GeneralAlike ==
    ASSUME NEW b, DOMAIN b = Fields, NEW edits, NEW origin, NEW del
    PROVE  Alike(b, GeneralEdit(b, edits, origin, del).b)
<1>1. PICK f, x, y : GeneralEdit(b, edits, origin, del) = [b |-> SetFragments(b, f), new |-> x, runs |-> y]
  BY Zenon DEF GeneralEdit
<1>2. Alike(b, SetFragments(b, f))
  BY SetFragmentsAlike
<1> QED  BY <1>1, <1>2

\* try_apply_local_edit and try_apply_validated_local_edit
LEMMA LocalEditKeeps ==
    ASSUME TextInv, NEW r \in Replica, NEW edits \in Ranges(r), LocalEdit(r, edits)
    PROVE  TextInv'
<1> DEFINE b == buffer[r]
           n == FoldLeft(LAMBDA k, e : k + e.n, 0, edits)
           origin == NewIdentity(r, 0)
           id == NewIdentity(r, n)
           tried == IF Len(edits) = 1 THEN DirectEdit(b, edits[1], origin, id) ELSE No
           general == GeneralEdit(b, edits, origin, id)
<1>1. n \in Nat
  BY RangesCount
<1>2. DOMAIN b = Fields
  BY InvAt
<1>3. Answers(b, tried)
  BY <1>2, DirectEditAnswers, NoAnswers, Zenon
<1>4. Alike(b, general.b)
  BY <1>2, GeneralAlike
<1>5. \E result, items :
         /\ result = general \/ (tried.ok /\ \E new : result = [ok |-> TRUE, b |-> tried.b, runs |-> tried.runs, new |-> new])
         /\ Commit(r, result.b, EditOp(r, id, result.new, result.runs, FALSE), items)
  BY Zenon DEF LocalEdit
<1> HIDE DEF tried, general, n
<1>6. PICK result, items :
         /\ result = general \/ (tried.ok /\ \E new : result = [ok |-> TRUE, b |-> tried.b, runs |-> tried.runs, new |-> new])
         /\ Commit(r, result.b, EditOp(r, id, result.new, result.runs, FALSE), items)
  BY <1>5
<1>7. Alike(b, result.b)
  <2>1. CASE tried.ok /\ \E new : result = [ok |-> TRUE, b |-> tried.b, runs |-> tried.runs, new |-> new]
    <3>1. result.b = tried.b
      BY <2>1
    <3> QED  BY <1>3, <2>1, <3>1 DEF Answers
  <2> QED  BY <1>4, <1>6, <2>1
<1> DEFINE op == EditOp(r, id, result.new, result.runs, FALSE)
<1>8. op.id = NewIdentity(r, n) /\ op.first = NewIdentity(r, 0) /\ op.version = buffer[r].version
  <2>1. id = NewIdentity(r, n)
    OBVIOUS
  <2> HIDE DEF id
  <2>2. op.id = id /\ op.first = NewIdentity(r, 0) /\ op.version = buffer[r].version
    BY Zenon DEF EditOp
  <2> QED  BY <2>1, <2>2
<1> HIDE DEF op
<1>9. Commit(r, result.b, op, items)
  BY <1>6 DEF op
<1> HIDE DEF id
<1> QED  BY <1>1, <1>7, <1>8, <1>9, CommitKeeps

\* try_insert_item
LEMMA InsertItemKeeps ==
    ASSUME TextInv, NEW r \in Replica, NEW left, NEW n \in Nat, NEW marker, InsertItem(r, left, n, marker)
    PROVE  TextInv'
<1> DEFINE b == buffer[r]
           id == NewIdentity(r, n)
<1>1. DOMAIN b = Fields
  BY InvAt
<1>2. PICK direct, fs, new, items :
         /\ direct = No \/ \E run : direct = AppendRun(b, run)
         /\ Commit(r, IF direct.ok THEN direct.b ELSE SetFragments(b, fs), EditOp(r, id, new, {}, marker), items)
  BY Zenon DEF InsertItem
<1> DEFINE c == IF direct.ok THEN direct.b ELSE SetFragments(b, fs)
           op == EditOp(r, id, new, {}, marker)
<1>3. Answers(b, direct)
  BY <1>1, <1>2, NoAnswers, AppendRunAnswers, Zenon
<1>4. Alike(b, c)
  BY <1>1, <1>3, SetFragmentsAlike DEF Answers
<1>5. op.id = NewIdentity(r, n) /\ op.first = NewIdentity(r, 0) /\ op.version = buffer[r].version
  <2>1. id = NewIdentity(r, n)
    OBVIOUS
  <2> HIDE DEF id
  <2>2. op.id = id /\ op.first = NewIdentity(r, 0) /\ op.version = buffer[r].version
    BY Zenon DEF EditOp
  <2> QED  BY <2>1, <2>2
<1>6. Commit(r, c, op, items)
  BY <1>2
<1> HIDE DEF c, op
<1> QED  BY <1>4, <1>5, <1>6, CommitKeeps

\* try_remove_marker
LEMMA RemoveMarkerKeeps ==
    ASSUME TextInv, NEW r \in Replica, NEW i, RemoveMarker(r, i)
    PROVE  TextInv'
<1> DEFINE b == buffer[r]
           id == NewIdentity(r, 0)
<1>1. DOMAIN b = Fields
  BY InvAt
<1>2. PICK fs, runs :
         Commit(r, SetFragments(b, fs), EditOp(r, id, << >>, runs, TRUE), {})
  BY Zenon DEF RemoveMarker
<1> DEFINE c == SetFragments(b, fs)
           op == EditOp(r, id, << >>, runs, TRUE)
<1>3. Alike(b, c)
  BY <1>1, SetFragmentsAlike
<1>4. op.id = NewIdentity(r, 0) /\ op.first = NewIdentity(r, 0) /\ op.version = buffer[r].version
  <2>1. id = NewIdentity(r, 0)
    OBVIOUS
  <2> HIDE DEF id
  <2>2. op.id = id /\ op.first = NewIdentity(r, 0) /\ op.version = buffer[r].version
    BY Zenon DEF EditOp
  <2> QED  BY <2>1, <2>2
<1> HIDE DEF c, op
<1> QED  BY <1>2, <1>3, <1>4, CommitKeeps DEF c, op

\* try_undo_group
LEMMA UndoGroupKeeps ==
    ASSUME TextInv, NEW r \in Replica, NEW i, UndoGroup(r, i)
    PROVE  TextInv'
<1> DEFINE g == buffer[r].history.stack[i]
           h == UndoneAt(buffer[r].history, i)
<1>1. Toggle(r, g, h)
  BY DEF UndoGroup
<1> HIDE DEF g, h
<1> QED  BY <1>1, ToggleKeeps

\* try_redo_group
LEMMA RedoGroupKeeps ==
    ASSUME TextInv, NEW r \in Replica, NEW i, RedoGroup(r, i)
    PROVE  TextInv'
<1> DEFINE g == buffer[r].history.stack[i]
           h == RedoneAt(buffer[r].history, i)
<1>1. Toggle(r, g, h)
  BY DEF RedoGroup
<1> HIDE DEF g, h
<1> QED  BY <1>1, ToggleKeeps

\* Any local operation.
LEMMA LocalStepKeeps ==
    ASSUME TextInv, NEW r \in Replica, LocalStep(r)
    PROVE  TextInv'
<1>1. ASSUME NEW edits \in Ranges(r), LocalEdit(r, edits)
      PROVE  TextInv'
  BY <1>1, LocalEditKeeps
<1>2. ASSUME NEW off, InsertMarker(r, off)
      PROVE  TextInv'
  <2> DEFINE left == ElementBefore(buffer[r].frags, off)
  <2>1. InsertItem(r, left, 1, TRUE)
    BY <1>2 DEF InsertMarker
  <2> HIDE DEF left
  <2> QED  BY <2>1, InsertItemKeeps
<1>3. ASSUME NEW i, NEW side, NEW n \in Lengths \ {0}, InsertRelative(r, i, side, n)
      PROVE  TextInv'
  <2>1. n \in Nat
    BY TextAssumption
  <2>2. PICK left : InsertItem(r, left, n, FALSE)
    BY <1>3, Zenon DEF InsertRelative
  <2> QED  BY <2>1, <2>2, InsertItemKeeps
<1>4. ASSUME NEW i, RemoveMarker(r, i)
      PROVE  TextInv'
  BY <1>4, RemoveMarkerKeeps
<1>5. ASSUME NEW i, UndoGroup(r, i) \/ RedoGroup(r, i)
      PROVE  TextInv'
  BY <1>5, UndoGroupKeeps, RedoGroupKeeps
<1>6. \/ \E edits \in Ranges(r) : LocalEdit(r, edits)
      \/ \E off : InsertMarker(r, off)
      \/ \E i, side : \E n \in Lengths \ {0} : InsertRelative(r, i, side, n)
      \/ \E i : RemoveMarker(r, i)
      \/ \E i : UndoGroup(r, i) \/ RedoGroup(r, i)
  BY Zenon DEF LocalStep
<1> QED  BY <1>1, <1>2, <1>3, <1>4, <1>5, <1>6, Zenon

-----------------------------------------------------------------------------
(* The theorems *)

\* A step of a replica.
LEMMA NextKeeps ==
    ASSUME TextInv, [Next]_vars
    PROVE  TextInv'
<1>1. CASE UNCHANGED vars
  BY <1>1 DEF vars, TextInv, Top
<1>2. CASE Next
  <2>1. PICK r \in Replica : \/ LocalStep(r) \/ DeliverStep(r) \/ UpkeepStep(r)
                             \/ DeclareGap(r) \/ MisdeclareGap(r)
    BY <1>2, Zenon DEF Next
  <2>2. CASE LocalStep(r)
    BY <2>2, LocalStepKeeps
  <2>3. CASE DeliverStep(r)
    <3>1. \/ \E a, c : Deliver(r, IF a = c THEN <<a>> ELSE <<a, c>>)
          \/ \E gap \in sent : gap.kind = "gap" /\ ApplyGap(r, gap)
      BY <2>3, Zenon DEF DeliverStep
    <3> QED  BY <3>1, DeliverKeeps, ApplyGapKeeps, Zenon
  <2>4. CASE UpkeepStep(r)
    <3>1. RestoreCheckpoint(r) \/ \E pinned : CollectGarbage(r, pinned)
      BY <2>4, Zenon DEF UpkeepStep
    <3> QED  BY <3>1, RestoreKeeps, CollectKeeps, Zenon
  <2>5. CASE DeclareGap(r)
    BY <2>5, DeclareGapKeeps
  <2>6. CASE MisdeclareGap(r)
    BY <2>6, MisdeclareGapKeeps
  <2> QED  BY <2>1, <2>2, <2>3, <2>4, <2>5, <2>6
<1> QED  BY <1>1, <1>2

\* Every replica starts from the seed.
LEMMA InitEstablishes == Init => TextInv
<1> SUFFICES ASSUME Init PROVE TextInv
  OBVIOUS
<1>1. sent = {} /\ buffer = [r \in Replica |-> Seeded(r)]
  BY DEF Init
<1>2. SeedLength \in Nat /\ Seeder \in Actor /\ Seeder \notin Replica /\ Replica \subseteq Actor
  BY TextAssumption DEF Replica
<1>3. ASSUME NEW r \in Replica
      PROVE  /\ DOMAIN buffer[r] = Fields
             /\ buffer[r].version = [EmptyGlobal EXCEPT ![Seeder] = SeedLength + 1]
             /\ buffer[r].next = SeedLength + 2 /\ buffer[r].frontier = EmptyGlobal
             /\ buffer[r].deferred = << >> /\ buffer[r].gaps = {}
  BY <1>1 DEF Seeded, Fields
<1>4. EmptyGlobal \in Global /\ \A a \in Actor : EmptyGlobal[a] = 0
  BY DEF EmptyGlobal, Global
<1>5. ASSUME NEW r \in Replica
      PROVE  /\ buffer[r].version \in Global /\ \A q \in Replica : buffer[r].version[q] = 0
  <2> DEFINE w == [EmptyGlobal EXCEPT ![Seeder] = SeedLength + 1]
  <2>1. SeedLength + 1 \in Nat
    BY <1>2
  <2>2. w \in Global /\ \A q \in Replica : w[q] = 0
    BY <1>2, <1>4, <2>1 DEF Global
  <2>3. buffer[r].version = w
    BY <1>3
  <2> HIDE DEF w
  <2> QED  BY <2>2, <2>3
<1>6. Top = [q \in Replica |-> 0]
  BY <1>5 DEF Top
<1>7. World(sent, Top)
  BY <1>1, <1>6 DEF World, Orderly
<1>8. ASSUME NEW r \in Replica
      PROVE  Clocks(buffer[r], r, sent, Top)
  <2>1. ObservedAll(buffer[r].version, buffer[r].frontier)
    BY <1>3, <1>4, <1>5 DEF ObservedAll, Global
  <2>2. CausallyClosed(buffer[r].version, sent)
    BY <1>1 DEF CausallyClosed
  <2>3. AtMost(buffer[r].version, Top) /\ buffer[r].version[r] = Top[r] /\ buffer[r].version[r] = 0
    BY <1>5, <1>6 DEF AtMost
  <2> QED  BY <1>2, <1>3, <1>4, <1>5, <2>1, <2>2, <2>3 DEF Clocks
<1>9. ASSUME NEW r \in Replica
      PROVE  Waits(buffer[r], sent) /\ Settled(buffer[r])
  <2>1. buffer[r].deferred = << >>
    BY <1>3
  <2>2. << >> \in Seq(sent) /\ Len(<< >>) = 0 /\ ToSet(<< >>) = {} /\ Sorted(<< >>) /\ 0 <= MaxDeferred
    BY TextAssumption DEF ToSet, Sorted
  <2> QED  BY <2>1, <2>2 DEF Waits, Settled
<1> QED  BY <1>1, <1>7, <1>8, <1>9 DEF TextInv

\* In every reachable state the clocks, gaps and queue of every buffer are in
\* order and every queue is settled (ApplyOne, RetryDeferred, ApplyGap).
THEOREM TextInvariance == Spec => []TextInv
  BY InitEstablishes, NextKeeps, PTL DEF Spec

\* No deferred operation has all it waits for, whatever is edited, delivered,
\* collected, restored or declared lost (enqueue_deferred, retry_deferred).
THEOREM NothingReadyInText == Spec => []NothingReadyIsWaiting
<1>1. TextInv => NothingReadyIsWaiting
  BY DEF TextInv, Settled, Ready, NothingReadyIsWaiting
<1> QED  BY <1>1, TextInvariance, PTL

\* What a checkpoint says of clocks and of the queue is always what
\* restore_checkpoint_state demands: the version covers the reclamation cutoff,
\* the next counter is unused, and what waits fits the budget, is in strict
\* order, not yet observed and in no accepted counter gap.
THEOREM QueueIsRestorable ==
    Spec => [](\A r \in Replica :
                 LET b == buffer[r]
                 IN  /\ ObservedAll(b.version, b.frontier)
                     /\ b.version[r] < b.next
                     /\ Len(b.deferred) <= MaxDeferred
                     /\ \A i \in DOMAIN b.deferred :
                           /\ ~Observed(b.version, b.deferred[i].id)
                           /\ ~GapConflicts(b.gaps, b.deferred[i])
                           /\ i > 1 => IdLess(b.deferred[i - 1].id, b.deferred[i].id))
<1> DEFINE Restorable(b, r) ==
        /\ ObservedAll(b.version, b.frontier)
        /\ b.version[r] < b.next
        /\ Len(b.deferred) <= MaxDeferred
        /\ \A i \in DOMAIN b.deferred :
              /\ ~Observed(b.version, b.deferred[i].id)
              /\ ~GapConflicts(b.gaps, b.deferred[i])
              /\ i > 1 => IdLess(b.deferred[i - 1].id, b.deferred[i].id)
<1>1. TextInv => \A r \in Replica : Restorable(buffer[r], r)
  <2> SUFFICES ASSUME TextInv, NEW r \in Replica
               PROVE  Restorable(buffer[r], r)
    OBVIOUS
  <2> DEFINE b == buffer[r]
  <2>1. Clocks(b, r, sent, Top) /\ Waits(b, sent)
    BY DEF TextInv
  <2> HIDE DEF b
  <2>2. /\ b.deferred \in Seq(sent) /\ Len(b.deferred) <= MaxDeferred /\ Sorted(b.deferred)
        /\ \A m \in ToSet(b.deferred) : ~Observed(b.version, m.id) /\ ~GapConflicts(b.gaps, m)
    BY <2>1 DEF Waits
  <2>3. ASSUME NEW i \in DOMAIN b.deferred
        PROVE  /\ ~Observed(b.version, b.deferred[i].id) /\ ~GapConflicts(b.gaps, b.deferred[i])
               /\ i > 1 => IdLess(b.deferred[i - 1].id, b.deferred[i].id)
    <3>1. b.deferred[i] \in ToSet(b.deferred)
      BY DEF ToSet
    <3>2. i > 1 => i - 1 \in DOMAIN b.deferred /\ i - 1 < i
      BY <2>2
    <3> QED  BY <2>2, <3>1, <3>2 DEF Sorted
  <2>4. ObservedAll(b.version, b.frontier) /\ b.version[r] < b.next
    BY <2>1 DEF Clocks
  <2>5. Restorable(b, r)
    BY <2>2, <2>3, <2>4
  <2> QED  BY <2>5 DEF b
<1> QED  BY <1>1, TextInvariance, PTL
==============================================================================
