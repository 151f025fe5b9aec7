---------------------------- MODULE InboundProofs ----------------------------
(***************************************************************************)
(* What a session has receipted it has applied or still has waiting, and   *)
(* what a checkpoint covers it carries; for any producers, logs, causal    *)
(* pasts, budgets and failures.                                            *)
(*                                                                         *)
(* The argument: a delivery that waits in the engine is known and has a    *)
(* token, so neither replay nor poll offers it again and it waits once; a  *)
(* known delivery is applied or waits; so what checkpoint_core counts as   *)
(* represented is applied.  A replay leaves every delivery of the folder   *)
(* that its starting point did not cover applied, waiting or counted as    *)
(* refused.                                                                *)
(***************************************************************************)
EXTENDS Inbound, FiniteSetTheorems, WellFoundedInduction, TLAPS

Retrying  == INSTANCE FoldTheorems WITH Op <- RetryOne
Passes    == INSTANCE FoldTheorems WITH Op <- RetryAll
Refusing  == INSTANCE FoldTheorems WITH Op <- Quarantine
Replaying == INSTANCE FoldTheorems WITH Op <- ReplayDelivery
Visiting  == INSTANCE FoldTheorems WITH Op <- ReplayLog

LoggedIn(lg) == {d \in Delivery : d[2] <= lg[d[1]]}

Engines == [applied : SUBSET Delivery, waiting : Seq(Delivery)]

Present(e) == e.applied \cup Range(e.waiting)

\* A delivery waits once and not after it was applied.
EngineOK(e) ==
    /\ e \in Engines
    /\ IsInjective(e.waiting)
    /\ Range(e.waiting) \cap e.applied = {}

Frontiers == [Producer -> Nat]

Within(f, lg) == f \in Frontiers /\ \A p \in Producer : f[p] <= lg[p]

CoveredIn(f, S) == \A d \in Delivery : d[2] <= f[d[1]] => d \in S

Sessions ==
    [open : {TRUE}, engine : Engines, tokens : SUBSET Delivery, known : SUBSET Delivery,
     covered : Frontiers, quarantined : SUBSET Delivery, whole : BOOLEAN, rejected : BOOLEAN,
     frontier : Frontiers, latest : Nat, cutoff : SUBSET Delivery, collected : SUBSET Delivery,
     floor : SUBSET Delivery, unsure : BOOLEAN]

Checkpoints ==
    [id : Nat, engine : Engines, quarantined : SUBSET Delivery, covered : Frontiers,
     cutoff : SUBSET Delivery, collected : SUBSET Delivery]

\* What a session holds at every point, also in the middle of a replay.
Steady(x, lg) ==
    /\ x \in Sessions
    /\ EngineOK(x.engine)
    /\ Range(x.engine.waiting) \subseteq x.tokens \cap x.known
    /\ x.known \subseteq Present(x.engine)
    /\ x.engine.applied \cup x.tokens \subseteq LoggedIn(lg)
    /\ CoveredIn(x.covered, x.engine.applied)
    /\ Within(x.covered, lg)
    /\ Within(x.frontier, lg)

\* Applied, waiting, or counted as refused.
Accounted(x, d) == d \in Present(x.engine) \/ x.rejected

SessionOK(x, lg) ==
    /\ Steady(x, lg)
    /\ \A d \in Delivery : d[2] <= x.frontier[d[1]] => Accounted(x, d)

StoreOK(c, lg) ==
    /\ c \in Checkpoints
    /\ EngineOK(c.engine)
    /\ Present(c.engine) \subseteq LoggedIn(lg)
    /\ CoveredIn(c.covered, c.engine.applied)
    /\ Within(c.covered, lg)

LogOK(lg) == lg \in Frontiers /\ \A p \in Producer : lg[p] <= MaxSequence[p]

InboundInv ==
    /\ LogOK(log)
    /\ Within(receipts, log)
    /\ StoreOK(store, log)
    /\ s = Closed \/ SessionOK(s, log)

-----------------------------------------------------------------------------
(* Folds *)

\* The folds of the model are those of FoldTheorems.
LEMMA FoldsAreFolds ==
    ASSUME NEW base, NEW t
    PROVE  /\ FoldLeft(RetryOne, base, t) = Retrying!Fold(base, t)
           /\ FoldLeft(RetryAll, base, t) = Passes!Fold(base, t)
           /\ FoldLeft(Quarantine, base, t) = Refusing!Fold(base, t)
           /\ FoldLeft(ReplayDelivery, base, t) = Replaying!Fold(base, t)
           /\ FoldLeft(ReplayLog, base, t) = Visiting!Fold(base, t)
<1>1. FoldLeft(RetryOne, base, t) = Retrying!Fold(base, t)
  BY DEF FoldLeft, MapThenFoldSet, Max, Retrying!Fold, Retrying!FoldLeft, Retrying!MapThenFoldSet, Retrying!Max
<1>2. FoldLeft(RetryAll, base, t) = Passes!Fold(base, t)
  BY DEF FoldLeft, MapThenFoldSet, Max, Passes!Fold, Passes!FoldLeft, Passes!MapThenFoldSet, Passes!Max
<1>3. FoldLeft(Quarantine, base, t) = Refusing!Fold(base, t)
  BY DEF FoldLeft, MapThenFoldSet, Max, Refusing!Fold, Refusing!FoldLeft, Refusing!MapThenFoldSet, Refusing!Max
<1>4. FoldLeft(ReplayDelivery, base, t) = Replaying!Fold(base, t)
  BY DEF FoldLeft, MapThenFoldSet, Max, Replaying!Fold, Replaying!FoldLeft, Replaying!MapThenFoldSet, Replaying!Max
<1>5. FoldLeft(ReplayLog, base, t) = Visiting!Fold(base, t)
  BY DEF FoldLeft, MapThenFoldSet, Max, Visiting!Fold, Visiting!FoldLeft, Visiting!MapThenFoldSet, Visiting!Max
<1> QED  BY <1>1, <1>2, <1>3, <1>4, <1>5

-----------------------------------------------------------------------------
(* Finite sets and their enumerations *)

\* The largest element of a nonempty bounded set of naturals.
LEMMA MaxOf ==
    ASSUME NEW S, S \subseteq Nat, S # {}, NEW B \in Nat, \A n \in S : n <= B
    PROVE  Max(S) \in S /\ \A y \in S : y <= Max(S)
<1> DEFINE T == {B - n : n \in S}
<1>1. T \subseteq Nat /\ T # {}
  <2>1. \A n \in S : n \in Nat /\ n <= B
    OBVIOUS
  <2>2. \A n \in S : B - n \in Nat
    BY <2>1
  <2> QED  BY <2>2
<1>2. PICK t \in T : \A u \in T : ~(<<u, t>> \in OpToRel(<, Nat))
  <2> HIDE DEF T
  <2> QED  BY <1>1, NatLessThanWellFounded, WFMin
<1>3. t \in Nat /\ \A u \in T : u \in Nat /\ ~(u < t)
  <2> HIDE DEF T
  <2>1. \A u \in T : ~(u < t)
    BY <1>1, <1>2, Zenon DEF OpToRel
  <2> QED  BY <1>1, <2>1
<1>4. PICK x \in S : t = B - x
  BY <1>2
<1>5. \A y \in S : x >= y
  BY <1>3, <1>4
<1> QED  BY <1>5 DEF Max

\* Every delivery of a log is one the producer may publish.
LEMMA Deliveries ==
    ASSUME NEW p \in Producer, NEW n \in 1 .. MaxSequence[p]
    PROVE  <<p, n>> \in Delivery
  BY DEF Delivery

\* A delivery is a producer and a number.
LEMMA DeliveryParts ==
    ASSUME NEW d \in Delivery
    PROVE  d[1] \in Producer /\ d[2] \in Nat /\ d[2] >= 1 /\ d[2] <= MaxSequence[d[1]] /\ d = <<d[1], d[2]>>
<1>1. PICK p \in Producer : d \in {<<p, n>> : n \in 1 .. MaxSequence[p]}
  BY DEF Delivery
<1>2. PICK n \in 1 .. MaxSequence[p] : d = <<p, n>>
  BY <1>1
<1>3. MaxSequence[p] \in Nat
  BY InboundConstants
<1> QED  BY <1>2, <1>3

\* There are finitely many deliveries.
LEMMA DeliveriesAreFinite == IsFiniteSet(Delivery)
<1> DEFINE Of(p) == {<<p, n>> : n \in 1 .. MaxSequence[p]}
           All == {Of(p) : p \in Producer}
<1>1. IsFiniteSet(Producer)
  BY InboundConstants, FS_AddElement DEF Producer
<1>2. ASSUME NEW p \in Producer
      PROVE  IsFiniteSet(Of(p))
  <2> DEFINE f == [n \in 1 .. MaxSequence[p] |-> <<p, n>>]
  <2>1. IsFiniteSet(1 .. MaxSequence[p])
    <3>1. MaxSequence[p] \in Int /\ 1 \in Int
      BY InboundConstants
    <3> QED  BY <3>1, FS_Interval
  <2>2. f \in Surjection(1 .. MaxSequence[p], Of(p))
    BY DEF Surjection
  <2> HIDE DEF f, Of
  <2> QED  BY <2>1, <2>2, FS_Surjection
<1>3. IsFiniteSet(All)
  <2> DEFINE f == [p \in Producer |-> Of(p)]
  <2>1. f \in Surjection(Producer, All)
    BY DEF Surjection
  <2> HIDE DEF f, All
  <2> QED  BY <1>1, <2>1, FS_Surjection
<1>4. Delivery = UNION All
  BY DEF Delivery
<1>5. \A T \in All : IsFiniteSet(T)
  <2> HIDE DEF Of
  <2> QED  BY <1>2
<1> HIDE DEF All
<1> QED  BY <1>3, <1>4, <1>5, FS_UNION

\* SetToSeq enumerates a finite set once.
LEMMA Enumeration ==
    ASSUME NEW S, IsFiniteSet(S)
    PROVE  SetToSeq(S) \in Seq(S) /\ IsInjective(SetToSeq(S))
<1> DEFINE n == Cardinality(S)
<1>1. n \in Nat /\ ExistsBijection(1 .. n, S)
  BY FS_CardinalityType
<1>2. PICK f \in Bijection(1 .. n, S) : TRUE
  BY <1>1, Zenon DEF ExistsBijection
<1>3. f \in [1 .. n -> S] /\ IsInjective(f)
  BY <1>2 DEF Bijection, Injection
<1>4. SetToSeq(S) \in [1 .. n -> S] /\ IsInjective(SetToSeq(S))
  <2> HIDE DEF n
  <2>1. \E g \in [1 .. n -> S] : IsInjective(g)
    BY <1>3
  <2> QED  BY <2>1, Zenon DEF SetToSeq, n
<1> QED  BY <1>1, <1>4

\* A directory scan visits every producer.
LEMMA ScansVisitAll ==
    ASSUME NEW order \in DirectoryOrder
    PROVE  order \in Seq(Producer) /\ \A p \in Producer : \E i \in 1 .. Len(order) : order[i] = p
<1> DEFINE n == Cardinality(Producer)
           D == 1 .. n
<1>1. IsFiniteSet(Producer)
  BY InboundConstants, FS_AddElement DEF Producer
<1>2. n \in Nat
  BY <1>1, FS_CardinalityType
<1>3. order \in [D -> Producer] /\ \A i, j \in D : i # j => order[i] # order[j]
  BY DEF DirectoryOrder, SetToSeqs
<1>4. order \in Injection(D, Producer)
  BY <1>3 DEF Injection, IsInjective
<1>5. IsFiniteSet(D) /\ Cardinality(D) = n
  BY <1>2, FS_Interval
<1>6. order \in Surjection(D, Producer)
  <2> HIDE DEF D
  <2> QED  BY <1>1, <1>4, <1>5, FS_Injection
<1>7. order \in Seq(Producer) /\ Len(order) = n
  BY <1>2, <1>3
<1> QED  BY <1>6, <1>7 DEF Surjection

-----------------------------------------------------------------------------
(* The engine *)

\* A queue grows by a delivery that was not in it.
LEMMA AppendFresh ==
    ASSUME NEW w \in Seq(Delivery), IsInjective(w), NEW d \in Delivery, d \notin Range(w)
    PROVE  /\ Append(w, d) \in Seq(Delivery)
           /\ IsInjective(Append(w, d))
           /\ Range(Append(w, d)) = Range(w) \cup {d}
<1> DEFINE v == Append(w, d)
           n == Len(w)
<1>1. /\ n \in Nat /\ v \in Seq(Delivery) /\ Len(v) = n + 1 /\ v[n + 1] = d
      /\ \A i \in 1 .. n : v[i] = w[i]
      /\ DOMAIN w = 1 .. n /\ DOMAIN v = 1 .. (n + 1)
  OBVIOUS
<1> HIDE DEF v, n
<1>2. \A i \in 1 .. n : w[i] # d
  BY <1>1 DEF Range
<1>3. IsInjective(v)
  <2> SUFFICES ASSUME NEW i \in 1 .. (n + 1), NEW j \in 1 .. (n + 1), v[i] = v[j]
               PROVE  i = j
    BY <1>1 DEF IsInjective
  <2>1. CASE i \in 1 .. n /\ j \in 1 .. n
    BY <1>1, <2>1 DEF IsInjective
  <2>2. CASE i = n + 1 \/ j = n + 1
    BY <1>1, <1>2, <2>2
  <2> QED  BY <1>1, <2>1, <2>2
<1>4. Range(v) = Range(w) \cup {d}
  <2>1. \A x \in Range(v) : x \in Range(w) \cup {d}
    <3> SUFFICES ASSUME NEW i \in 1 .. (n + 1)
                 PROVE  v[i] \in Range(w) \cup {d}
      BY <1>1 DEF Range
    <3>1. i \in 1 .. n \/ i = n + 1
      BY <1>1
    <3> QED  BY <1>1, <3>1 DEF Range
  <2>2. \A x \in Range(w) : x \in Range(v)
    <3> SUFFICES ASSUME NEW i \in 1 .. n
                 PROVE  w[i] \in Range(v)
      BY <1>1 DEF Range
    <3>1. i \in 1 .. (n + 1) /\ v[i] = w[i]
      BY <1>1
    <3> QED  BY <1>1, <3>1 DEF Range
  <2>3. d \in Range(v)
    <3>1. n + 1 \in 1 .. (n + 1)
      BY <1>1
    <3> QED  BY <1>1, <3>1 DEF Range
  <2> QED  BY <2>1, <2>2, <2>3
<1> QED  BY <1>1, <1>3, <1>4 DEF v

\* The first k deliveries of a queue.
First(w, k) == {w[i] : i \in 1 .. k}

\* What a pass has made of the first k deliveries that waited.
AfterRetrying(x, k) ==
    {y \in Engines : /\ EngineOK(y)
                     /\ x.applied \subseteq y.applied
                     /\ Present(y) = x.applied \cup First(x.waiting, k)}

\* A pass goes through the queue one delivery at a time.
LEMMA RetryOneGoesOn ==
    ASSUME NEW x, EngineOK(x), NEW k \in Nat, k < Len(x.waiting),
           NEW y \in AfterRetrying(x, k)
    PROVE  RetryOne(y, x.waiting[k + 1]) \in AfterRetrying(x, k + 1)
<1> DEFINE w == x.waiting
           d == w[k + 1]
           z == RetryOne(y, d)
<1>1. /\ w \in Seq(Delivery) /\ x.applied \subseteq Delivery
      /\ DOMAIN w = 1 .. Len(w) /\ Len(w) \in Nat
      /\ IsInjective(w) /\ Range(w) \cap x.applied = {}
  BY DEF EngineOK, Engines
<1> HIDE DEF w
<1>2. k + 1 \in DOMAIN w /\ 1 .. k \subseteq DOMAIN w /\ k + 1 \notin 1 .. k
  BY <1>1 DEF w
<1>3. d \in Delivery /\ d \in Range(w)
  BY <1>1, <1>2 DEF Range
<1>4. d \notin First(w, k)
  BY <1>1, <1>2 DEF IsInjective, First
<1>5. First(w, k + 1) = First(w, k) \cup {d}
  <2>1. 1 .. (k + 1) = 1 .. k \cup {k + 1}
    OBVIOUS
  <2> QED  BY <2>1 DEF First
<1> HIDE DEF d
<1>6. /\ EngineOK(y) /\ y \in Engines /\ x.applied \subseteq y.applied
      /\ Present(y) = x.applied \cup First(w, k)
  BY DEF AfterRetrying, w
<1>7. d \notin y.applied /\ d \notin Range(y.waiting)
  BY <1>1, <1>3, <1>4, <1>6 DEF Present
<1>8. CASE Needs(d) \subseteq y.applied
  <2>1. z.applied = y.applied \cup {d} /\ z.waiting = y.waiting /\ z \in Engines
    BY <1>3, <1>6, <1>8 DEF RetryOne, Engines
  <2> HIDE DEF z
  <2>2. EngineOK(z)
    BY <1>6, <1>7, <2>1 DEF EngineOK
  <2>3. Present(z) = x.applied \cup First(w, k + 1)
    BY <1>5, <1>6, <2>1 DEF Present
  <2>4. x.applied \subseteq z.applied
    BY <1>6, <2>1
  <2> QED  BY <2>1, <2>2, <2>3, <2>4 DEF AfterRetrying, w, d, z
<1>9. CASE ~(Needs(d) \subseteq y.applied)
  <2>1. y.waiting \in Seq(Delivery) /\ IsInjective(y.waiting)
    BY <1>6 DEF EngineOK, Engines
  <2>2. /\ Append(y.waiting, d) \in Seq(Delivery) /\ IsInjective(Append(y.waiting, d))
        /\ Range(Append(y.waiting, d)) = Range(y.waiting) \cup {d}
    BY <1>3, <1>7, <2>1, AppendFresh
  <2>3. z.applied = y.applied /\ z.waiting = Append(y.waiting, d) /\ z \in Engines
    BY <1>6, <1>9, <2>2 DEF RetryOne, Engines
  <2> HIDE DEF z
  <2>4. EngineOK(z)
    BY <1>6, <1>7, <2>2, <2>3 DEF EngineOK
  <2>5. Present(z) = x.applied \cup First(w, k + 1)
    BY <1>5, <1>6, <2>2, <2>3 DEF Present
  <2>6. x.applied \subseteq z.applied
    BY <1>6, <2>3
  <2> QED  BY <2>3, <2>4, <2>5, <2>6 DEF AfterRetrying, w, d, z
<1> QED  BY <1>8, <1>9

\* The engine that retrying leaves of x.
Retried(x) ==
    {y \in Engines : EngineOK(y) /\ x.applied \subseteq y.applied /\ Present(y) = Present(x)}

\* A pass loses nothing, applies nothing twice and keeps the rest waiting once.
LEMMA RetryAllKeeps ==
    ASSUME NEW x, EngineOK(x), NEW pass
    PROVE  RetryAll(x, pass) \in Retried(x)
<1> DEFINE w == x.waiting
           base == [x EXCEPT !.waiting = << >>]
           A == [k \in Nat |-> AfterRetrying(x, k)]
<1>1. x \in Engines /\ w \in Seq(Delivery) /\ Len(w) \in Nat /\ DOMAIN w = 1 .. Len(w)
  BY DEF EngineOK, Engines
<1>2. base \in A[0]
  <2>1. base \in Engines /\ base.applied = x.applied /\ base.waiting = << >>
    <3>1. << >> \in Seq(Delivery)
      OBVIOUS
    <3>2. base = [applied |-> x.applied, waiting |-> << >>]
      BY <1>1 DEF Engines
    <3> QED  BY <1>1, <3>1, <3>2 DEF Engines
  <2>2. First(w, 0) = {}
    BY DEF First
  <2>3. Range(<< >>) = {} /\ IsInjective(<< >>)
    BY DEF Range, IsInjective
  <2> HIDE DEF base, w
  <2>4. EngineOK(base) /\ Present(base) = x.applied \cup First(w, 0)
    BY <2>1, <2>2, <2>3 DEF EngineOK, Present
  <2> QED  BY <2>1, <2>4 DEF AfterRetrying, w
<1>3. \A k \in Nat : k < Len(w) => \A y \in A[k] : RetryOne(y, w[k + 1]) \in A[k + 1]
  BY RetryOneGoesOn
<1>4. A[Len(w)] = AfterRetrying(x, Len(w))
  BY <1>1
<1>5. Retrying!Fold(base, w) \in A[Len(w)]
  <2> HIDE DEF base, A, w
  <2> QED  BY <1>1, <1>2, <1>3, Retrying!FoldFollows
<1>6. RetryAll(x, pass) = Retrying!Fold(base, w)
  BY FoldsAreFolds DEF RetryAll
<1>7. First(w, Len(w)) = Range(w)
  BY <1>1 DEF First, Range
<1> QED  BY <1>4, <1>5, <1>6, <1>7 DEF AfterRetrying, Retried, Present

\* So does the whole of retry_deferred.
LEMMA DrainKeeps ==
    ASSUME NEW e, EngineOK(e)
    PROVE  Drain(e) \in Retried(e)
<1>1. e \in Retried(e) /\ e.waiting \in Seq(Delivery)
  BY DEF Retried, EngineOK, Engines
<1>2. ASSUME NEW x \in Retried(e), NEW pass
      PROVE  RetryAll(x, pass) \in Retried(e)
  <2>1. EngineOK(x) /\ e.applied \subseteq x.applied /\ Present(x) = Present(e)
    BY DEF Retried
  <2>2. RetryAll(x, pass) \in Retried(x)
    BY <2>1, RetryAllKeeps
  <2> QED  BY <2>1, <2>2 DEF Retried
<1>3. Passes!Fold(e, e.waiting) \in Retried(e)
  BY <1>1, <1>2, Passes!FoldStays
<1> QED  BY <1>3, FoldsAreFolds DEF Drain

\* What offering d to the engine e answers.
OutcomeOK(e, d, o) ==
    /\ EngineOK(o.engine)
    /\ e.applied \subseteq o.engine.applied
    /\ \/ /\ o.kind \in {"applied", "duplicate"}
          /\ d \in o.engine.applied
          /\ Present(o.engine) = Present(e) \cup {d}
          /\ Range(o.engine.waiting) \subseteq Range(e.waiting)
       \/ /\ o.kind = "deferred"
          /\ o.engine.applied = e.applied
          /\ Range(o.engine.waiting) = Range(e.waiting) \cup {d}
       \/ o.kind = "rejected" /\ o.engine = e

\* A delivery that does not wait is applied, waits from now on, or changes nothing.
LEMMA OfferedIsSound ==
    ASSUME NEW e, EngineOK(e), NEW d \in Delivery, d \notin Range(e.waiting)
    PROVE  OutcomeOK(e, d, Offered(e, d))
<1>1. e \in Engines /\ IsInjective(e.waiting) /\ Range(e.waiting) \cap e.applied = {}
  BY DEF EngineOK
<1>2. CASE d \in e.applied
  <2>1. Offered(e, d) = [kind |-> "duplicate", engine |-> e]
    BY <1>2 DEF Offered
  <2>2. Present(e) = Present(e) \cup {d}
    BY <1>2 DEF Present
  <2> QED  BY <1>2, <2>1, <2>2 DEF OutcomeOK
<1>3. CASE d \notin e.applied /\ Needs(d) \subseteq e.applied
  <2> DEFINE f == [e EXCEPT !.applied = @ \cup {d}]
  <2>1. Offered(e, d) = [kind |-> "applied", engine |-> Drain(f)]
    BY <1>3 DEF Offered
  <2>2. f.applied = e.applied \cup {d} /\ f.waiting = e.waiting /\ f \in Engines
    BY <1>1 DEF Engines
  <2> HIDE DEF f
  <2>3. EngineOK(f)
    BY <1>1, <2>2 DEF EngineOK
  <2>4. Drain(f) \in Retried(f)
    BY <2>3, DrainKeeps
  <2> DEFINE g == Drain(f)
  <2>5. EngineOK(g) /\ f.applied \subseteq g.applied /\ Present(g) = Present(f)
    BY <2>4 DEF Retried
  <2> HIDE DEF g
  <2>6. Present(f) = Present(e) \cup {d}
    BY <2>2 DEF Present
  <2>7. Range(g.waiting) \cap g.applied = {}
    BY <2>5 DEF EngineOK
  <2>8. Range(g.waiting) \subseteq Range(e.waiting)
    BY <2>2, <2>5, <2>7 DEF Present
  <2>9. OutcomeOK(e, d, [kind |-> "applied", engine |-> g])
    BY <2>2, <2>5, <2>6, <2>8 DEF OutcomeOK
  <2> QED  BY <2>1, <2>9 DEF g
<1>4. CASE ~(Needs(d) \subseteq e.applied) /\ d \notin e.applied /\ Len(e.waiting) >= MaxWaiting
  <2>1. Offered(e, d) = [kind |-> "rejected", engine |-> e]
    BY <1>4 DEF Offered
  <2> QED  BY <2>1 DEF OutcomeOK
<1>5. CASE ~(Needs(d) \subseteq e.applied) /\ d \notin e.applied /\ ~(Len(e.waiting) >= MaxWaiting)
  <2> DEFINE f == [e EXCEPT !.waiting = Append(@, d)]
  <2>1. Offered(e, d) = [kind |-> "deferred", engine |-> f]
    BY <1>5 DEF Offered
  <2>2. e.waiting \in Seq(Delivery)
    BY <1>1 DEF Engines
  <2>3. /\ Append(e.waiting, d) \in Seq(Delivery) /\ IsInjective(Append(e.waiting, d))
        /\ Range(Append(e.waiting, d)) = Range(e.waiting) \cup {d}
    BY <1>1, <2>2, AppendFresh
  <2>4. f.applied = e.applied /\ f.waiting = Append(e.waiting, d) /\ f \in Engines
    BY <1>1, <2>3 DEF Engines
  <2> HIDE DEF f
  <2>5. EngineOK(f)
    BY <1>1, <1>5, <2>3, <2>4 DEF EngineOK
  <2>6. Range(f.waiting) = Range(e.waiting) \cup {d}
    BY <2>3, <2>4
  <2>7. OutcomeOK(e, d, [kind |-> "deferred", engine |-> f])
    BY <2>4, <2>5, <2>6 DEF OutcomeOK
  <2> QED  BY <2>1, <2>7
<1> QED  BY <1>2, <1>3, <1>4, <1>5

-----------------------------------------------------------------------------
(* The session *)

\* y differs from x only in what does not matter for what has been taken in.
SameIntake(x, y) ==
    /\ y \in Sessions
    /\ y.engine = x.engine /\ y.tokens = x.tokens /\ y.known = x.known
    /\ y.covered = x.covered /\ y.frontier = x.frontier

\* y has taken in at least what x has.
Grows(x, y) ==
    /\ y.covered = x.covered /\ y.frontier = x.frontier
    /\ Present(x.engine) \subseteq Present(y.engine)
    /\ x.rejected => y.rejected

\* A session stays steady as long as its intake is the same.
LEMMA SteadyStays ==
    ASSUME NEW lg, NEW x, Steady(x, lg), NEW y, SameIntake(x, y)
    PROVE  Steady(y, lg)
  BY DEF Steady, SameIntake

\* Refusing a delivery leaves the intake as it is, and is counted.
LEMMA QuarantineKeeps ==
    ASSUME NEW x \in Sessions, NEW d \in Delivery
    PROVE  SameIntake(x, Quarantine(x, d)) /\ Quarantine(x, d).rejected
<1> DEFINE y == [x EXCEPT !.rejected = TRUE]
           z == [y EXCEPT !.whole = FALSE]
           q == [y EXCEPT !.quarantined = @ \cup {d}]
<1>1. y \in Sessions /\ SameIntake(x, y) /\ y.rejected
  BY DEF Sessions, SameIntake
<1>2. Quarantine(x, d) \in {y, z, q}
  BY DEF Quarantine, Retain
<1> HIDE DEF y
<1>3. SameIntake(x, z) /\ z.rejected
  BY <1>1 DEF Sessions, SameIntake
<1>4. SameIntake(x, q) /\ q.rejected
  BY <1>1 DEF Sessions, SameIntake
<1> HIDE DEF z, q
<1> QED  BY <1>1, <1>2, <1>3, <1>4

\* y is x after the engine took d in with outcome o.
TakesIn(x, d, o, y) ==
    /\ y \in Sessions
    /\ y.engine = o.engine /\ y.known = x.known \cup {d}
    /\ y.tokens = x.tokens \cup (IF o.kind = "deferred" THEN {d} ELSE {})
    /\ y.covered = x.covered /\ y.frontier = x.frontier /\ y.rejected = x.rejected

\* A session that takes a delivery in stays steady, and has it.
LEMMA TakingIn ==
    ASSUME NEW lg, NEW x, Steady(x, lg), NEW d \in LoggedIn(lg),
           NEW o, OutcomeOK(x.engine, d, o), o.kind # "rejected", NEW y, TakesIn(x, d, o, y)
    PROVE  /\ Steady(y, lg) /\ Grows(x, y) /\ d \in Present(y.engine)
           /\ o.kind \in {"applied", "duplicate"} => d \in y.engine.applied
<1>1. d \in Delivery
  BY DEF LoggedIn
<1>2. /\ EngineOK(y.engine) /\ x.engine.applied \subseteq y.engine.applied
      /\ Present(y.engine) = Present(x.engine) \cup {d}
  BY DEF OutcomeOK, TakesIn, Present
<1>3. Range(y.engine.waiting) \subseteq Range(x.engine.waiting) \cup (IF o.kind = "deferred" THEN {d} ELSE {})
  BY DEF OutcomeOK, TakesIn
<1>4. /\ Range(x.engine.waiting) \subseteq x.tokens \cap x.known
      /\ x.known \subseteq Present(x.engine)
      /\ x.engine.applied \cup x.tokens \subseteq LoggedIn(lg)
  BY DEF Steady
<1>5. Range(y.engine.waiting) \subseteq y.tokens \cap y.known /\ y.known \subseteq Present(y.engine)
  BY <1>2, <1>3, <1>4 DEF TakesIn
<1>6. y.tokens \subseteq LoggedIn(lg)
  BY <1>4 DEF TakesIn
<1>7. y.engine.applied \subseteq LoggedIn(lg)
  <2>1. Present(x.engine) \subseteq LoggedIn(lg)
    BY <1>4 DEF Present
  <2> QED  BY <1>2, <2>1 DEF Present
<1>8. CoveredIn(y.covered, y.engine.applied)
  BY <1>2 DEF Steady, TakesIn, CoveredIn
<1>9. Steady(y, lg)
  BY <1>2, <1>5, <1>6, <1>7, <1>8 DEF Steady, TakesIn
<1>10. Grows(x, y) /\ d \in Present(y.engine)
  BY <1>2 DEF Grows, TakesIn
<1>11. o.kind \in {"applied", "duplicate"} => d \in y.engine.applied
  BY DEF OutcomeOK, TakesIn
<1> QED  BY <1>9, <1>10, <1>11

-----------------------------------------------------------------------------
(* Replay *)

\* What has grown twice has grown, and accounts for what it did.
LEMMA GrowsOn ==
    /\ \A x, y, z : Grows(x, y) /\ Grows(y, z) => Grows(x, z)
    /\ \A x, y, d : Grows(x, y) /\ Accounted(x, d) => Accounted(y, d)
    /\ \A x : Grows(x, x)
  BY DEF Grows, Accounted

\* A replayed delivery is applied, waits, or is counted as refused.
LEMMA ReplayDeliveryKeeps ==
    ASSUME NEW lg, NEW x, Steady(x, lg), NEW d \in LoggedIn(lg)
    PROVE  LET y == ReplayDelivery(x, d) IN Steady(y, lg) /\ Grows(x, y) /\ Accounted(y, d)
<1> DEFINE o == Offered(x.engine, d)
           after == [x EXCEPT !.engine = o.engine]
           y == ReplayDelivery(x, d)
           next == [after EXCEPT !.known = @ \union {d}]
           more == [after EXCEPT !.known = @ \union {d}, !.tokens = @ \union {d}]
<1>1. d \in Delivery /\ x \in Sessions /\ EngineOK(x.engine)
  BY DEF LoggedIn, Steady
<1>2. CASE y = Quarantine(x, d)
  <2>1. SameIntake(x, y) /\ y.rejected
    BY <1>1, <1>2, QuarantineKeeps
  <2> HIDE DEF y
  <2>2. Steady(y, lg)
    BY <2>1, SteadyStays
  <2>3. Grows(x, y) /\ Accounted(y, d)
    BY <2>1 DEF SameIntake, Grows, Accounted
  <2> QED  BY <2>2, <2>3 DEF y
<1>3. CASE d \in x.known /\ y = x
  <2>1. d \in Present(x.engine)
    BY <1>3 DEF Steady
  <2> HIDE DEF y
  <2>2. Grows(x, y) /\ Accounted(y, d) /\ Steady(y, lg)
    BY <1>3, <2>1, GrowsOn DEF Accounted
  <2> QED  BY <2>2 DEF y
<1>4. CASE d \notin x.known /\ y = CASE o.kind = "rejected" -> Quarantine(after, d)
                                      [] o.kind = "deferred" -> more
                                      [] OTHER -> next
  <2>1. d \notin Range(x.engine.waiting)
    BY <1>4 DEF Steady
  <2>2. OutcomeOK(x.engine, d, o)
    BY <1>1, <2>1, OfferedIsSound
  <2> HIDE DEF o
  <2>3. o.engine \in Engines
    BY <2>2 DEF OutcomeOK, EngineOK
  <2>4. after \in Sessions
    BY <1>1, <2>3 DEF Sessions
  <2>5. CASE o.kind = "rejected"
    <3>1. y = Quarantine(after, d)
      BY <1>4, <2>5
    <3>2. SameIntake(x, after)
      BY <1>1, <2>2, <2>4, <2>5 DEF OutcomeOK, SameIntake, Sessions
    <3> HIDE DEF y, after
    <3>3. SameIntake(after, y) /\ y.rejected
      BY <1>1, <2>4, <3>1, QuarantineKeeps
    <3>4. SameIntake(x, y)
      BY <3>2, <3>3 DEF SameIntake
    <3>5. Steady(y, lg)
      BY <3>4, SteadyStays
    <3>6. Grows(x, y) /\ Accounted(y, d)
      BY <3>3, <3>4 DEF SameIntake, Grows, Accounted
    <3> QED  BY <3>5, <3>6 DEF y
  <2>6. CASE o.kind # "rejected"
    <3>1. y = IF o.kind = "deferred" THEN more ELSE next
      BY <1>4, <2>6
    <3>2. TakesIn(x, d, o, IF o.kind = "deferred" THEN more ELSE next)
      BY <1>1, <2>3 DEF TakesIn, Sessions
    <3>3. TakesIn(x, d, o, y)
      BY <3>1, <3>2
    <3> HIDE DEF y, after, more, next
    <3>4. Steady(y, lg) /\ Grows(x, y) /\ d \in Present(y.engine)
      BY <2>2, <2>6, <3>3, TakingIn
    <3> QED  BY <3>4 DEF Accounted, y
  <2> QED  BY <2>5, <2>6
<1>5. \/ y = Quarantine(x, d)
      \/ d \in x.known /\ y = x
      \/ /\ d \notin x.known
         /\ y = CASE o.kind = "rejected" -> Quarantine(after, d)
                  [] o.kind = "deferred" -> more
                  [] OTHER -> next
  BY DEF ReplayDelivery
<1> QED  BY <1>2, <1>3, <1>4, <1>5

\* What a replay has made of x once it has been through the deliveries S.
Replayed(x, lg, S) == {y \in Sessions : Steady(y, lg) /\ Grows(x, y) /\ \A d \in S : Accounted(y, d)}

\* One more delivery.
LEMMA ReplayGoesOn ==
    ASSUME NEW lg, NEW x, NEW S, NEW y \in Replayed(x, lg, S), NEW d \in LoggedIn(lg)
    PROVE  ReplayDelivery(y, d) \in Replayed(x, lg, S \cup {d})
<1> DEFINE z == ReplayDelivery(y, d)
<1>1. Steady(y, lg) /\ Grows(x, y) /\ \A c \in S : Accounted(y, c)
  BY DEF Replayed
<1>2. Steady(z, lg) /\ Grows(y, z) /\ Accounted(z, d)
  BY <1>1, ReplayDeliveryKeeps
<1> HIDE DEF z
<1>3. Grows(x, z) /\ \A c \in S : Accounted(z, c)
  BY <1>1, <1>2, GrowsOn
<1>4. z \in Sessions
  BY <1>2 DEF Steady
<1> QED  BY <1>2, <1>3, <1>4 DEF Replayed, z

\* The deliveries of p's log behind the first n.
LogFrom(p, n) == {<<p, m>> : m \in (n + 1) .. log[p]}

\* One producer's log.
LEMMA ReplayLogKeeps ==
    ASSUME LogOK(log), NEW x, Steady(x, log), NEW p \in Producer, NEW n \in Nat, n <= log[p]
    PROVE  ReplayLog(x, <<p, n>>) \in Replayed(x, log, LogFrom(p, n))
<1> DEFINE w == TokensAfter(p, n)
           A == [k \in Nat |-> Replayed(x, log, {<<p, n + i>> : i \in 1 .. k})]
           N == log[p] - n
<1>1. log[p] \in Nat /\ log[p] <= MaxSequence[p] /\ MaxSequence[p] \in Nat /\ N \in Nat
  BY InboundConstants DEF LogOK, Frontiers
<1>2. ASSUME NEW i \in 1 .. N
      PROVE  <<p, n + i>> \in LoggedIn(log)
  <2>1. n + i \in 1 .. MaxSequence[p] /\ n + i <= log[p]
    BY <1>1
  <2>2. <<p, n + i>> \in Delivery
    BY <2>1, Deliveries
  <2> QED  BY <2>1, <2>2 DEF LoggedIn
<1>3. w \in Seq(LoggedIn(log)) /\ Len(w) = N /\ \A i \in 1 .. N : w[i] = <<p, n + i>>
  BY <1>1, <1>2 DEF TokensAfter
<1> HIDE DEF w
<1>4. x \in A[0]
  <2>1. x \in Replayed(x, log, {})
    BY GrowsOn DEF Replayed, Steady
  <2>2. {<<p, n + i>> : i \in 1 .. 0} = {}
    OBVIOUS
  <2> QED  BY <2>1, <2>2
<1>5. ASSUME NEW k \in Nat, k < Len(w), NEW y \in A[k]
      PROVE  ReplayDelivery(y, w[k + 1]) \in A[k + 1]
  <2>1. k + 1 \in 1 .. N /\ w[k + 1] = <<p, n + (k + 1)>>
    BY <1>1, <1>3, <1>5
  <2>2. ReplayDelivery(y, w[k + 1])
          \in Replayed(x, log, {<<p, n + i>> : i \in 1 .. k} \cup {<<p, n + (k + 1)>>})
    BY <1>2, <1>5, <2>1, ReplayGoesOn
  <2>3. {<<p, n + i>> : i \in 1 .. k} \cup {<<p, n + (k + 1)>>} = {<<p, n + i>> : i \in 1 .. (k + 1)}
    <3>1. 1 .. (k + 1) = 1 .. k \cup {k + 1}
      BY <1>5
    <3> QED  BY <3>1
  <2> QED  BY <2>2, <2>3
<1>6. A[N] = Replayed(x, log, LogFrom(p, n))
  <2>1. {<<p, n + i>> : i \in 1 .. N} = LogFrom(p, n)
    <3>1. \A m \in (n + 1) .. log[p] : m - n \in 1 .. N /\ n + (m - n) = m
      BY <1>1
    <3>2. \A i \in 1 .. N : n + i \in (n + 1) .. log[p]
      BY <1>1
    <3> HIDE DEF N
    <3> QED  BY <3>1, <3>2 DEF LogFrom
  <2> QED  BY <1>1, <2>1
<1> HIDE DEF A
<1>7. Replaying!Fold(x, w) \in A[Len(w)]
  BY <1>3, <1>4, <1>5, Replaying!FoldFollows
<1>8. ReplayLog(x, <<p, n>>) = Replaying!Fold(x, w)
  BY FoldsAreFolds DEF ReplayLog, w
<1> QED  BY <1>3, <1>6, <1>7, <1>8

\* The deliveries in the folder that from does not cover.
Uncovered(from) == {d \in LoggedIn(log) : d[2] > from[d[1]]}

\* Every log, in any order of the producers: whatever the starting point did not
\* cover is accounted for afterwards.
LEMMA ReplayKeeps ==
    ASSUME LogOK(log), NEW x, Steady(x, log), NEW order \in DirectoryOrder,
           NEW from, Within(from, log)
    PROVE  Replay(x, order, from) \in Replayed(x, log, Uncovered(from))
<1> DEFINE w == [i \in DOMAIN order |-> <<order[i], from[order[i]]>>]
           Done(k) == {d \in Uncovered(from) : \E i \in 1 .. k : d[1] = order[i]}
           A == [k \in Nat |-> Replayed(x, log, Done(k))]
<1>1. order \in Seq(Producer) /\ \A p \in Producer : \E i \in 1 .. Len(order) : order[i] = p
  BY ScansVisitAll
<1>2. \A p \in Producer : from[p] \in Nat /\ from[p] <= log[p]
  BY DEF Within, Frontiers
<1>3. /\ w \in Seq(Producer \X Nat) /\ Len(w) = Len(order)
      /\ \A i \in 1 .. Len(order) : w[i] = <<order[i], from[order[i]]>>
  <2>1. DOMAIN order = 1 .. Len(order) /\ Len(order) \in Nat /\ \A i \in 1 .. Len(order) : order[i] \in Producer
    BY <1>1
  <2>2. \A i \in 1 .. Len(order) : <<order[i], from[order[i]]>> \in Producer \X Nat
    BY <1>2, <2>1
  <2>3. w = [i \in 1 .. Len(order) |-> <<order[i], from[order[i]]>>]
    BY <2>1
  <2> HIDE DEF w
  <2> QED  BY <2>1, <2>2, <2>3
<1> HIDE DEF w
<1>4. x \in A[0]
  <2>1. Done(0) = {}
    OBVIOUS
  <2>2. x \in Replayed(x, log, {})
    BY GrowsOn DEF Replayed, Steady
  <2> QED  BY <2>1, <2>2
<1>5. ASSUME NEW k \in Nat, k < Len(w), NEW y \in A[k]
      PROVE  ReplayLog(y, w[k + 1]) \in A[k + 1]
  <2> DEFINE p == order[k + 1]
             z == ReplayLog(y, w[k + 1])
  <2>1. k + 1 \in 1 .. Len(order) /\ p \in Producer /\ w[k + 1] = <<p, from[p]>>
    <3>1. Len(order) \in Nat /\ k + 1 \in 1 .. Len(order)
      <4>1. order \in Seq(Producer)
        BY <1>1
      <4>2. Len(order) \in Nat
        BY <4>1
      <4>3. Len(w) = Len(order)
        BY <1>3
      <4>4. k \in Nat /\ k < Len(order)
        BY <1>5, <4>3
      <4> QED  BY <4>2, <4>4
    <3>2. \A i \in 1 .. Len(order) : order[i] \in Producer
      BY <1>1
    <3>3. w[k + 1] = <<order[k + 1], from[order[k + 1]]>>
      BY <1>3, <3>1
    <3> QED  BY <3>1, <3>2, <3>3
  <2>2. y \in Replayed(x, log, Done(k))
    BY <1>5
  <2>3. Steady(y, log) /\ Grows(x, y) /\ \A d \in Done(k) : Accounted(y, d)
    BY <2>2 DEF Replayed
  <2> HIDE DEF p
  <2>4. z \in Replayed(y, log, LogFrom(p, from[p]))
    BY <1>2, <2>1, <2>3, ReplayLogKeeps
  <2> HIDE DEF z
  <2>5. Steady(z, log) /\ Grows(y, z) /\ z \in Sessions /\ \A d \in LogFrom(p, from[p]) : Accounted(z, d)
    BY <2>4 DEF Replayed
  <2>6. ASSUME NEW d \in Done(k + 1)
        PROVE  Accounted(z, d)
    <3>1. d \in Delivery /\ d[2] <= log[d[1]] /\ d[2] > from[d[1]]
      BY DEF Uncovered, LoggedIn
    <3>2. PICK i \in 1 .. (k + 1) : d[1] = order[i]
      OBVIOUS
    <3>3. CASE i = k + 1
      <4>1. d[1] = p /\ d[2] \in (from[p] + 1) .. log[p] /\ d = <<p, d[2]>>
        BY <1>2, <2>1, <3>1, <3>2, <3>3, DeliveryParts DEF p, LogOK, Frontiers
      <4> QED  BY <2>5, <4>1 DEF LogFrom
    <3>4. CASE i \in 1 .. k
      <4>1. d \in Done(k)
        BY <3>2, <3>4
      <4> HIDE DEF Done
      <4> QED  BY <2>3, <2>5, <4>1, GrowsOn
    <3> QED  BY <1>5, <3>2, <3>3, <3>4
  <2>7. Grows(x, z)
    BY <2>3, <2>5, GrowsOn
  <2>8. z \in Replayed(x, log, Done(k + 1))
    <3> HIDE DEF Done
    <3> QED  BY <2>5, <2>6, <2>7 DEF Replayed
  <2> QED  BY <1>5, <2>8 DEF z
<1>6. A[Len(w)] = Replayed(x, log, Uncovered(from))
  <2>1. Done(Len(w)) = Uncovered(from)
    <3>1. \A d \in Uncovered(from) : d[1] \in Producer
      BY DeliveryParts DEF Uncovered, LoggedIn
    <3> QED  BY <1>1, <1>3, <3>1
  <2>2. Len(w) \in Nat
    BY <1>3
  <2> HIDE DEF Done
  <2> QED  BY <2>1, <2>2
<1> HIDE DEF A, Done
<1>7. Visiting!Fold(x, w) \in A[Len(w)]
  BY <1>3, <1>4, <1>5, Visiting!FoldFollows
<1>8. Replay(x, order, from) = Visiting!Fold(x, w)
  BY FoldsAreFolds DEF Replay, w
<1> QED  BY <1>6, <1>7, <1>8

-----------------------------------------------------------------------------
(* Opening *)

\* No producer is covered at all.
LEMMA NowhereIsWithin ==
    ASSUME LogOK(log)
    PROVE  /\ Within(Nowhere, log) /\ CoveredIn(Nowhere, {})
           /\ Uncovered(Nowhere) = LoggedIn(log)
<1>1. \A d \in Delivery : d[1] \in Producer /\ d[2] >= 1 /\ d[2] \in Nat
  BY DeliveryParts
<1>2. Within(Nowhere, log)
  BY DEF Within, Nowhere, Frontiers, LogOK
<1>3. \A d \in Delivery : Nowhere[d[1]] = 0
  BY <1>1 DEF Nowhere
<1>4. CoveredIn(Nowhere, {})
  BY <1>1, <1>3 DEF CoveredIn
<1>5. Uncovered(Nowhere) = LoggedIn(log)
  BY <1>1, <1>3 DEF Uncovered, LoggedIn
<1> QED  BY <1>2, <1>4, <1>5

\* The session that starts with nothing, and the one that starts over.
LEMMA NewSessionIsSteady ==
    ASSUME LogOK(log), NEW f, Within(f, log)
    PROVE  Steady([NewSession EXCEPT !.frontier = f], log)
<1> DEFINE x == [NewSession EXCEPT !.frontier = f]
<1>1. << >> \in Seq(Delivery) /\ Range(<< >>) = {} /\ IsInjective(<< >>)
  BY DEF Range, IsInjective
<1>2. EmptyEngine.applied = {} /\ EmptyEngine.waiting = << >> /\ EmptyEngine \in Engines
  BY <1>1 DEF EmptyEngine, Engines
<1>3. Nowhere \in Frontiers /\ f \in Frontiers
  BY NowhereIsWithin DEF Within
<1>4. /\ x \in Sessions /\ x.engine = EmptyEngine /\ x.tokens = {} /\ x.known = {}
      /\ x.covered = Nowhere /\ x.frontier = f
  BY <1>2, <1>3 DEF NewSession, Sessions
<1> HIDE DEF x
<1>5. EngineOK(x.engine)
  BY <1>1, <1>2, <1>4 DEF EngineOK
<1>6. Present(x.engine) = {}
  BY <1>1, <1>2, <1>4 DEF Present
<1> QED  BY <1>1, <1>2, <1>4, <1>5, <1>6, NowhereIsWithin DEF Steady, x

\* The session a checkpoint is restored into.
LEMMA RestoreIsSteady ==
    ASSUME LogOK(log), Within(receipts, log), NEW c, StoreOK(c, log)
    PROVE  Steady(Restore(c), log) /\ Restore(c).covered = c.covered /\ Restore(c).frontier = receipts
<1> DEFINE x == [NewSession EXCEPT
                   !.engine = c.engine, !.tokens = Range(c.engine.waiting),
                   !.known = Range(c.engine.waiting), !.covered = c.covered,
                   !.latest = c.id, !.cutoff = c.cutoff, !.collected = c.collected,
                   !.floor = c.engine.applied]
           q == SetToSeq(c.quarantined)
           A == {y \in Sessions : SameIntake(x, y)}
<1>1. /\ c \in Checkpoints /\ c.engine \in Engines /\ EngineOK(c.engine)
      /\ Range(c.engine.waiting) \in SUBSET Delivery
  BY DEF StoreOK, EngineOK, Engines, Range
<1>2. receipts \in Frontiers /\ Nowhere \in Frontiers
  BY NowhereIsWithin DEF Within
<1>3. /\ x \in Sessions /\ x.engine = c.engine /\ x.tokens = Range(c.engine.waiting)
      /\ x.known = Range(c.engine.waiting) /\ x.covered = c.covered /\ x.frontier = receipts
  BY <1>1, <1>2 DEF NewSession, Sessions, Checkpoints, Engines
<1> HIDE DEF x
<1>4. Steady(x, log)
  <2>1. Present(c.engine) \subseteq LoggedIn(log)
    BY DEF StoreOK
  <2> QED  BY <1>1, <1>3, <2>1 DEF Steady, StoreOK, Present
<1>5. q \in Seq(c.quarantined)
  <2>1. c.quarantined \in SUBSET Delivery
    BY <1>1 DEF Checkpoints
  <2>2. IsFiniteSet(c.quarantined)
    BY <2>1, DeliveriesAreFinite, FS_Subset
  <2> QED  BY <2>2, Enumeration
<1>6. x \in A
  BY <1>3 DEF SameIntake
<1>7. ASSUME NEW y \in A, NEW i \in 1 .. Len(q)
      PROVE  Quarantine(y, q[i]) \in A
  <2>1. q[i] \in Delivery
    BY <1>1, <1>5 DEF Checkpoints
  <2>2. SameIntake(y, Quarantine(y, q[i]))
    BY <2>1, QuarantineKeeps
  <2> QED  BY <2>2 DEF SameIntake
<1> HIDE DEF A, q
<1>8. Refusing!Fold(x, q) \in A
  BY <1>5, <1>6, <1>7, Refusing!FoldStays
<1>9. Restore(c) = Refusing!Fold(x, q)
  BY FoldsAreFolds DEF Restore, x, q
<1>10. SameIntake(x, Restore(c))
  BY <1>8, <1>9 DEF A
<1>11. Steady(Restore(c), log)
  BY <1>4, <1>10, SteadyStays
<1> QED  BY <1>3, <1>10, <1>11 DEF SameIntake

\* A session that has replayed whatever it did not cover accounts for the folder.
LEMMA ReplayedIsWhole ==
    ASSUME LogOK(log), NEW x, Steady(x, log), NEW order \in DirectoryOrder,
           NEW from, Within(from, log), CoveredIn(from, x.engine.applied)
    PROVE  LET y == Replay(x, order, from)
           IN SessionOK(y, log) /\ \A d \in LoggedIn(log) : Accounted(y, d)
<1> DEFINE y == Replay(x, order, from)
<1>1. y \in Replayed(x, log, Uncovered(from))
  BY ReplayKeeps
<1> HIDE DEF y
<1>2. Steady(y, log) /\ Grows(x, y) /\ \A d \in Uncovered(from) : Accounted(y, d)
  BY <1>1 DEF Replayed
<1>3. ASSUME NEW d \in LoggedIn(log)
      PROVE  Accounted(y, d)
  <2>1. d \in Delivery /\ d[1] \in Producer /\ d[2] \in Nat
    BY DeliveryParts DEF LoggedIn
  <2>2. from[d[1]] \in Nat
    BY <2>1 DEF Within, Frontiers
  <2>3. CASE d[2] > from[d[1]]
    BY <1>2, <2>3 DEF Uncovered
  <2>4. CASE d[2] <= from[d[1]]
    <3>1. d \in Present(x.engine)
      BY <2>1, <2>4 DEF CoveredIn, Present
    <3> QED  BY <1>2, <3>1 DEF Grows, Accounted
  <2> QED  BY <2>1, <2>2, <2>3, <2>4
<1>4. ASSUME NEW d \in Delivery, d[2] <= y.frontier[d[1]]
      PROVE  d \in LoggedIn(log)
  <2>1. d[1] \in Producer /\ d[2] \in Nat
    BY DeliveryParts
  <2>2. y.frontier[d[1]] <= log[d[1]] /\ y.frontier[d[1]] \in Nat /\ log[d[1]] \in Nat
    BY <1>2, <2>1 DEF Steady, Within, LogOK, Frontiers
  <2> QED  BY <1>4, <2>1, <2>2 DEF LoggedIn
<1> QED  BY <1>2, <1>3, <1>4 DEF SessionOK, y

\* However a session opens, it accounts for every delivery in the folder.
LEMMA OpenIsWhole ==
    ASSUME InboundInv, Open
    PROVE  SessionOK(s', log) /\ \A d \in LoggedIn(log) : Accounted(s', d)
<1>1. LogOK(log) /\ Within(receipts, log) /\ StoreOK(store, log)
  BY DEF InboundInv
<1>2. PICK order \in DirectoryOrder :
        \/ s' = Replay(Restore(store), order, store.covered)
        \/ s' = Replay(NewSession, order, Nowhere)
        \/ s' = Replay(ResetForFullReplay(Replay(Restore(store), order, store.covered)), order, Nowhere)
  BY Zenon DEF Open
<1>3. /\ Steady(Restore(store), log) /\ Restore(store).covered = store.covered
      /\ Within(store.covered, log) /\ CoveredIn(store.covered, Restore(store).engine.applied)
  <2>1. /\ Steady(Restore(store), log) /\ Restore(store).covered = store.covered
    BY <1>1, RestoreIsSteady
  <2> QED  BY <1>1, <2>1 DEF Steady, StoreOK
<1>4. Within(Nowhere, log)
  BY <1>1, NowhereIsWithin
<1>5. ASSUME NEW x, Steady(x, log)
      PROVE  CoveredIn(Nowhere, x.engine.applied)
  BY <1>1, NowhereIsWithin DEF CoveredIn
<1>6. CASE s' = Replay(Restore(store), order, store.covered)
  BY <1>1, <1>3, <1>6, ReplayedIsWhole
<1>7. CASE s' = Replay(NewSession, order, Nowhere)
  <2> DEFINE x == [NewSession EXCEPT !.frontier = receipts]
  <2>1. Steady(x, log)
    BY <1>1, NewSessionIsSteady
  <2>2. Steady(NewSession, log)
    <3>1. << >> \in Seq(Delivery)
      OBVIOUS
    <3>2. receipts \in Frontiers /\ Nowhere \in Frontiers
      BY <1>1, <1>4 DEF Within
    <3>3. SameIntake(x, NewSession)
      BY <3>1, <3>2 DEF NewSession, EmptyEngine, Engines, Sessions, SameIntake
    <3> HIDE DEF x
    <3> QED  BY <2>1, <3>3, SteadyStays
  <2> QED  BY <1>1, <1>4, <1>5, <1>7, <2>2, ReplayedIsWhole
<1>8. CASE s' = Replay(ResetForFullReplay(Replay(Restore(store), order, store.covered)), order, Nowhere)
  <2> DEFINE y == Replay(Restore(store), order, store.covered)
             z == ResetForFullReplay(y)
  <2>1. SessionOK(y, log)
    BY <1>1, <1>3, ReplayedIsWhole
  <2> HIDE DEF y
  <2>2. Within(y.frontier, log)
    BY <2>1 DEF SessionOK, Steady
  <2>3. Steady(z, log)
    BY <1>1, <2>2, NewSessionIsSteady DEF ResetForFullReplay
  <2> HIDE DEF z
  <2>4. s' = Replay(z, order, Nowhere)
    BY <1>8 DEF y, z
  <2> QED  BY <1>1, <1>4, <1>5, <2>3, <2>4, ReplayedIsWhole
<1> QED  BY <1>2, <1>6, <1>7, <1>8

-----------------------------------------------------------------------------
(* Steps *)

\* A session that has grown still accounts for what it has receipted.
LEMMA SessionGrows ==
    ASSUME NEW lg, NEW x, SessionOK(x, lg), NEW y, Steady(y, lg), Grows(x, y)
    PROVE  SessionOK(y, lg)
  BY DEF SessionOK, Grows, Accounted

\* A session with the same intake and the same refusals is as sound.
LEMMA SessionStays ==
    ASSUME NEW lg, NEW x, SessionOK(x, lg), NEW y, SameIntake(x, y), y.rejected = x.rejected
    PROVE  SessionOK(y, lg)
  BY SteadyStays DEF SessionOK, SameIntake, Accounted

\* What holds of a log holds of a longer one.
LEMMA LongerLogs ==
    ASSUME NEW lg, LogOK(lg), NEW more, LogOK(more), \A p \in Producer : lg[p] <= more[p]
    PROVE  /\ LoggedIn(lg) \subseteq LoggedIn(more)
           /\ \A f : Within(f, lg) => Within(f, more)
           /\ \A x : Steady(x, lg) => Steady(x, more)
           /\ \A x : SessionOK(x, lg) => SessionOK(x, more)
           /\ \A c : StoreOK(c, lg) => StoreOK(c, more)
<1>1. \A p \in Producer : lg[p] \in Nat /\ more[p] \in Nat
  BY DEF LogOK, Frontiers
<1>2. LoggedIn(lg) \subseteq LoggedIn(more)
  BY <1>1, DeliveryParts DEF LoggedIn
<1>3. \A f : Within(f, lg) => Within(f, more)
  BY <1>1 DEF Within, Frontiers
<1>4. \A x : Steady(x, lg) => Steady(x, more)
  BY <1>2, <1>3 DEF Steady
<1>5. \A x : SessionOK(x, lg) => SessionOK(x, more)
  BY <1>4 DEF SessionOK
<1>6. \A c : StoreOK(c, lg) => StoreOK(c, more)
  BY <1>2, <1>3 DEF StoreOK
<1> QED  BY <1>2, <1>3, <1>4, <1>5, <1>6

\* The handler loses nothing; what it commits is applied.
LEMMA HandleKeeps ==
    ASSUME NEW lg, NEW x, Steady(x, lg), NEW d \in LoggedIn(lg)
    PROVE  LET h == Handle(x, d)
           IN /\ Steady(h.session, lg) /\ Grows(x, h.session)
              /\ h.decision = "commit" => d \in h.session.engine.applied
<1> DEFINE o == Offered(x.engine, d)
           next == [x EXCEPT !.engine = o.engine, !.known = @ \union {d}]
           more == [next EXCEPT !.tokens = @ \union {d}]
           done == [x EXCEPT !.tokens = @ \ {d}, !.known = @ \union {d}]
           h == Handle(x, d)
<1>1. d \in Delivery /\ x \in Sessions /\ EngineOK(x.engine)
  BY DEF LoggedIn, Steady
<1>2. \/ h = [session |-> Quarantine(x, d), decision |-> "quarantine"]
      \/ h = [session |-> x, decision |-> "retry"]
      \/ d \in x.tokens /\ d \in x.engine.applied /\ h = [session |-> done, decision |-> "commit"]
      \/ d \notin x.tokens /\ o.kind \in {"applied", "duplicate"} /\ h = [session |-> next, decision |-> "commit"]
      \/ d \notin x.tokens /\ o.kind = "deferred" /\ h = [session |-> more, decision |-> "retry"]
  BY DEF Handle
<1>3. CASE h = [session |-> Quarantine(x, d), decision |-> "quarantine"]
  <2>1. SameIntake(x, Quarantine(x, d)) /\ Quarantine(x, d).rejected
    BY <1>1, QuarantineKeeps
  <2>2. Steady(Quarantine(x, d), lg)
    BY <2>1, SteadyStays
  <2>3. Grows(x, Quarantine(x, d))
    BY <2>1 DEF SameIntake, Grows
  <2> QED  BY <1>3, <2>2, <2>3
<1>4. CASE h = [session |-> x, decision |-> "retry"]
  BY <1>4, GrowsOn
<1>5. CASE d \in x.tokens /\ d \in x.engine.applied /\ h = [session |-> done, decision |-> "commit"]
  <2>1. /\ done \in Sessions /\ done.engine = x.engine /\ done.tokens = x.tokens \ {d}
        /\ done.known = x.known \cup {d} /\ done.covered = x.covered /\ done.frontier = x.frontier
        /\ done.rejected = x.rejected
    BY <1>1 DEF Sessions
  <2> HIDE DEF done
  <2>2. d \notin Range(x.engine.waiting)
    BY <1>1, <1>5 DEF EngineOK
  <2>3. Steady(done, lg)
    BY <1>5, <2>1, <2>2 DEF Steady, Present
  <2>4. Grows(x, done)
    BY <2>1 DEF Grows
  <2> QED  BY <1>5, <2>1, <2>3, <2>4
<1>6. ASSUME d \notin x.tokens
      PROVE  OutcomeOK(x.engine, d, o)
  <2>1. d \notin Range(x.engine.waiting)
    BY <1>6 DEF Steady
  <2> QED  BY <1>1, <2>1, OfferedIsSound
<1>7. ASSUME d \notin x.tokens
      PROVE  /\ o.kind \in {"applied", "duplicate"} => TakesIn(x, d, o, next)
             /\ o.kind = "deferred" => TakesIn(x, d, o, more)
  <2>1. o.engine \in Engines
    BY <1>6, <1>7 DEF OutcomeOK, EngineOK
  <2> HIDE DEF o
  <2> QED  BY <1>1, <2>1 DEF TakesIn, Sessions
<1>8. CASE d \notin x.tokens /\ o.kind \in {"applied", "duplicate"} /\ h = [session |-> next, decision |-> "commit"]
  <2> HIDE DEF o, next
  <2>1. o.kind # "rejected" /\ TakesIn(x, d, o, next) /\ OutcomeOK(x.engine, d, o)
    BY <1>6, <1>7, <1>8
  <2>2. Steady(next, lg) /\ Grows(x, next) /\ d \in next.engine.applied
    BY <1>8, <2>1, TakingIn
  <2> QED  BY <1>8, <2>2
<1>9. CASE d \notin x.tokens /\ o.kind = "deferred" /\ h = [session |-> more, decision |-> "retry"]
  <2> HIDE DEF o, more
  <2>1. o.kind # "rejected" /\ TakesIn(x, d, o, more) /\ OutcomeOK(x.engine, d, o)
    BY <1>6, <1>7, <1>9
  <2>2. Steady(more, lg) /\ Grows(x, more)
    BY <2>1, TakingIn
  <2> QED  BY <1>9, <2>2
<1> QED  BY <1>2, <1>3, <1>4, <1>5, <1>8, <1>9

\* recover replays into the open session.
LEMMA RecoverIsSound ==
    ASSUME InboundInv, Recover
    PROVE  InboundInv'
<1>1. PICK order \in DirectoryOrder : s' = Replay(s, order, Nowhere)
  BY DEF Recover
<1>2. s.open /\ UNCHANGED <<log, receipts, store>>
  BY DEF Recover
<1>3. LogOK(log) /\ SessionOK(s, log)
  BY <1>2 DEF InboundInv, Closed
<1>4. Steady(s, log) /\ Within(Nowhere, log) /\ CoveredIn(Nowhere, s.engine.applied)
  BY <1>3, NowhereIsWithin DEF SessionOK, CoveredIn
<1>5. SessionOK(s', log)
  BY <1>1, <1>3, <1>4, ReplayedIsWhole
<1> QED  BY <1>2, <1>5 DEF InboundInv

\* A session opens on whatever checkpoint there is.
LEMMA OpenIsSound ==
    ASSUME InboundInv, Open
    PROVE  InboundInv'
<1>1. UNCHANGED <<log, receipts, store>>
  BY DEF Open
<1>2. SessionOK(s', log)
  BY OpenIsWhole
<1> QED  BY <1>1, <1>2 DEF InboundInv

\* A commit advances the receipt over a delivery that is applied.
LEMMA CommitIsSound ==
    ASSUME LogOK(log), NEW y, SessionOK(y, log), NEW p \in Peer,
           y.frontier[p] + 1 <= log[p], <<p, y.frontier[p] + 1>> \in y.engine.applied
    PROVE  SessionOK([y EXCEPT !.frontier[p] = y.frontier[p] + 1], log)
<1> DEFINE n == y.frontier[p] + 1
           z == [y EXCEPT !.frontier[p] = y.frontier[p] + 1]
<1>1. /\ y \in Sessions /\ y.frontier \in Frontiers /\ p \in Producer /\ n \in Nat
      /\ \A q \in Producer : y.frontier[q] <= log[q]
  <2>1. y \in Sessions /\ Within(y.frontier, log) /\ p \in Producer
    BY DEF SessionOK, Steady, Producer
  <2> QED  BY <2>1 DEF Within, Frontiers
<1>2. [y.frontier EXCEPT ![p] = n] \in Frontiers
  BY <1>1 DEF Frontiers
<1>3. /\ z \in Sessions /\ z.frontier = [y.frontier EXCEPT ![p] = n] /\ z.engine = y.engine
      /\ z.tokens = y.tokens /\ z.known = y.known /\ z.covered = y.covered /\ z.rejected = y.rejected
  <2>1. z = [y EXCEPT !.frontier = [y.frontier EXCEPT ![p] = n]]
    OBVIOUS
  <2> HIDE DEF z
  <2> QED  BY <1>1, <1>2, <2>1 DEF Sessions
<1> HIDE DEF z
<1>4. Within(z.frontier, log)
  BY <1>1, <1>2, <1>3 DEF Within, Frontiers
<1>5. Steady(z, log)
  BY <1>3, <1>4 DEF SessionOK, Steady
<1>6. ASSUME NEW d \in Delivery, d[2] <= z.frontier[d[1]]
      PROVE  Accounted(z, d)
  <2>1. d[1] \in Producer /\ d[2] \in Nat /\ d = <<d[1], d[2]>>
    BY DeliveryParts
  <2>2. CASE d[1] = p /\ d[2] = n
    BY <1>3, <2>1, <2>2 DEF Accounted, Present
  <2>3. CASE ~(d[1] = p /\ d[2] = n)
    <3>1. d[2] <= y.frontier[d[1]]
      BY <1>1, <1>3, <1>6, <2>1, <2>3 DEF Frontiers
    <3>2. Accounted(y, d)
      BY <3>1 DEF SessionOK
    <3> QED  BY <1>3, <3>2 DEF Accounted
  <2> QED  BY <2>2, <2>3
<1> QED  BY <1>5, <1>6 DEF SessionOK, z

\* One record of one peer, whatever becomes of its receipt.
LEMMA DeliverIsSound ==
    ASSUME InboundInv, NEW p \in Peer, Deliver(p)
    PROVE  InboundInv'
<1> DEFINE n == s.frontier[p] + 1
           h == Handle(s, <<p, n>>)
<1>1. s.open /\ s.frontier[p] < log[p] /\ UNCHANGED <<log, store>>
  BY DEF Deliver
<1>2. LogOK(log) /\ SessionOK(s, log) /\ Steady(s, log) /\ Within(receipts, log) /\ StoreOK(store, log)
  BY <1>1 DEF InboundInv, Closed, SessionOK
<1>3. /\ p \in Producer /\ s.frontier[p] \in Nat /\ log[p] \in Nat /\ log[p] <= MaxSequence[p]
      /\ MaxSequence[p] \in Nat
  BY <1>2, InboundConstants DEF Steady, Within, LogOK, Frontiers, Producer
<1>4. n \in 1 .. MaxSequence[p] /\ n <= log[p] /\ n \in Nat
  BY <1>1, <1>3
<1>5. <<p, n>> \in LoggedIn(log)
  BY <1>3, <1>4, Deliveries DEF LoggedIn
<1>6. /\ Steady(h.session, log) /\ Grows(s, h.session)
      /\ h.decision = "commit" => <<p, n>> \in h.session.engine.applied
  BY <1>2, <1>5, HandleKeeps
<1>7. \/ /\ h.decision = "commit"
         /\ s' = [h.session EXCEPT !.frontier[p] = n] /\ receipts' = [receipts EXCEPT ![p] = n]
      \/ s' = h.session /\ receipts' \in {receipts, [receipts EXCEPT ![p] = n]}
  BY DEF Deliver
<1>8. SessionOK(h.session, log) /\ h.session.frontier[p] = s.frontier[p]
  BY <1>2, <1>6, SessionGrows DEF Grows
<1> HIDE DEF h
<1>9. SessionOK(s', log)
  <2>1. CASE s' = h.session
    BY <1>8, <2>1
  <2>2. CASE h.decision = "commit" /\ s' = [h.session EXCEPT !.frontier[p] = n]
    <3>1. h.session.frontier[p] + 1 = n
      BY <1>8
    <3>2. /\ h.session.frontier[p] + 1 <= log[p]
          /\ <<p, h.session.frontier[p] + 1>> \in h.session.engine.applied
      BY <1>4, <1>6, <2>2, <3>1
    <3>3. SessionOK([h.session EXCEPT !.frontier[p] = h.session.frontier[p] + 1], log)
      BY <1>2, <1>8, <3>2, CommitIsSound
    <3> QED  BY <2>2, <3>1, <3>3
  <2> QED  BY <1>7, <2>1, <2>2
<1>10. Within(receipts', log)
  <2>1. Within([receipts EXCEPT ![p] = n], log)
    BY <1>2, <1>3, <1>4 DEF Within, Frontiers
  <2> QED  BY <1>2, <1>7, <2>1
<1> QED  BY <1>1, <1>2, <1>9, <1>10 DEF InboundInv

\* The folder grows by a delivery of a peer.
LEMMA ArriveIsSound ==
    ASSUME InboundInv, NEW p \in Peer, Arrive(p)
    PROVE  InboundInv'
<1>1. log[p] < MaxSequence[p] /\ log' = [log EXCEPT ![p] = @ + 1] /\ UNCHANGED <<receipts, store, s>>
  BY DEF Arrive
<1>2. LogOK(log) /\ p \in Producer /\ \A q \in Producer : log[q] \in Nat /\ MaxSequence[q] \in Nat
  BY InboundConstants DEF InboundInv, LogOK, Frontiers, Producer
<1>3. LogOK(log') /\ \A q \in Producer : log[q] <= log'[q]
  BY <1>1, <1>2 DEF LogOK, Frontiers
<1>4. Within(receipts, log') /\ StoreOK(store, log') /\ (s = Closed \/ SessionOK(s, log'))
  BY <1>2, <1>3, LongerLogs DEF InboundInv
<1> QED  BY <1>1, <1>3, <1>4 DEF InboundInv

\* The owner publishes an edit of a session that has taken everything in.
LEMMA EditIsSound ==
    ASSUME InboundInv, Edit
    PROVE  InboundInv'
<1> DEFINE d == <<Self, log[Self] + 1>>
<1>1. /\ s.open /\ Complete(s) /\ log[Self] < MaxSequence[Self]
      /\ s' = [s EXCEPT !.engine.applied = @ \union {d}, !.known = @ \union {d}]
      /\ log' = [log EXCEPT ![Self] = @ + 1] /\ UNCHANGED <<receipts, store>>
  BY DEF Edit
<1>2. /\ LogOK(log) /\ Self \in Producer /\ \A q \in Producer : log[q] \in Nat /\ MaxSequence[q] \in Nat
      /\ SessionOK(s, log) /\ StoreOK(store, log) /\ Within(receipts, log)
  BY <1>1, InboundConstants DEF InboundInv, LogOK, Frontiers, Producer, Closed
<1>3. LogOK(log') /\ \A q \in Producer : log[q] <= log'[q]
  BY <1>1, <1>2 DEF LogOK, Frontiers
<1>4. Within(receipts, log') /\ StoreOK(store, log') /\ SessionOK(s, log')
  BY <1>2, <1>3, LongerLogs
<1>5. d \in LoggedIn(log')
  <2>1. log[Self] + 1 \in 1 .. MaxSequence[Self] /\ log'[Self] = log[Self] + 1
    BY <1>1, <1>2 DEF LogOK, Frontiers
  <2> QED  BY <1>2, <2>1, Deliveries DEF LoggedIn
<1>6. s \in Sessions /\ s.engine \in Engines /\ EngineOK(s.engine) /\ s.engine.waiting = << >>
  BY <1>1, <1>2 DEF SessionOK, Steady, EngineOK, Complete
<1> HIDE DEF d
<1>7. d \in Delivery
  BY <1>5 DEF LoggedIn
<1>8. /\ s' \in Sessions /\ s'.engine \in Engines
      /\ s'.engine.applied = s.engine.applied \cup {d} /\ s'.engine.waiting = << >>
      /\ s'.tokens = s.tokens /\ s'.known = s.known \cup {d} /\ s'.covered = s.covered
      /\ s'.frontier = s.frontier /\ s'.rejected = s.rejected
  <2> DEFINE e == [s.engine EXCEPT !.applied = @ \union {d}]
  <2>1. e \in Engines /\ e.applied = s.engine.applied \cup {d} /\ e.waiting = << >>
    BY <1>6, <1>7 DEF Engines
  <2>2. s' = [s EXCEPT !.engine = e, !.known = @ \union {d}]
    BY <1>1
  <2> HIDE DEF e
  <2> QED  BY <1>6, <1>7, <2>1, <2>2 DEF Sessions
<1>9. Range(<< >>) = {} /\ IsInjective(<< >>)
  BY DEF Range, IsInjective
<1>10. EngineOK(s'.engine)
  BY <1>8, <1>9 DEF EngineOK
<1>11. Steady(s', log')
  BY <1>4, <1>5, <1>6, <1>8, <1>9, <1>10 DEF SessionOK, Steady, Present, CoveredIn
<1>12. Grows(s, s')
  BY <1>6, <1>8, <1>9 DEF Grows, Present
<1>13. SessionOK(s', log')
  BY <1>4, <1>11, <1>12, SessionGrows
<1> QED  BY <1>1, <1>3, <1>4, <1>13 DEF InboundInv

-----------------------------------------------------------------------------
(* Checkpoints *)

\* What a session represents, it has applied.
LEMMA CoverageIsApplied ==
    ASSUME LogOK(log), NEW x, Steady(x, log)
    PROVE  Within(Coverage(x), log) /\ CoveredIn(Coverage(x), x.engine.applied)
<1> DEFINE S(p) == {n \in 1 .. log[p] : \A m \in 1 .. n : Represented(x, <<p, m>>)}
           c == Coverage(x)
<1>1. ASSUME NEW p \in Producer
      PROVE  c[p] \in Nat /\ c[p] <= log[p] /\ \A m \in 1 .. c[p] : Represented(x, <<p, m>>)
  <2> DEFINE T == {0} \cup S(p)
  <2>1. log[p] \in Nat
    BY DEF LogOK, Frontiers
  <2>2. T \subseteq Nat /\ T # {} /\ \A n \in T : n <= log[p]
    BY <2>1
  <2>3. c[p] = Max(T)
    BY DEF Coverage
  <2> HIDE DEF T, c
  <2>4. c[p] \in T
    BY <2>1, <2>2, <2>3, MaxOf
  <2> QED  BY <2>1, <2>2, <2>4 DEF T
<1>2. c \in Frontiers
  <2>1. c = [p \in Producer |-> c[p]]
    BY DEF Coverage
  <2> HIDE DEF c
  <2> QED  BY <1>1, <2>1 DEF Frontiers
<1> HIDE DEF c
<1>3. ASSUME NEW d \in Delivery, d[2] <= c[d[1]]
      PROVE  d \in x.engine.applied
  <2>1. d[1] \in Producer /\ d[2] \in Nat /\ d[2] >= 1 /\ d = <<d[1], d[2]>>
    BY DeliveryParts
  <2>2. d[2] \in 1 .. c[d[1]]
    BY <1>1, <1>3, <2>1
  <2>3. Represented(x, d)
    BY <1>1, <2>1, <2>2
  <2>4. d \notin x.tokens \/ d \in x.engine.applied
    BY <2>3 DEF Represented, Outstanding
  <2>5. d[2] <= x.covered[d[1]] \/ d \in x.known
    BY <2>3 DEF Represented
  <2>6. CASE d[2] <= x.covered[d[1]]
    BY <2>6 DEF Steady, CoveredIn
  <2>7. CASE d \in x.known
    BY <2>4, <2>7 DEF Steady, Present
  <2> QED  BY <2>5, <2>6, <2>7
<1> QED  BY <1>1, <1>2, <1>3 DEF Within, CoveredIn, c

\* A captured checkpoint covers what it carries.
LEMMA CaptureIsSound ==
    ASSUME LogOK(log), NEW x, Steady(x, log), NEW old \in Checkpoints
    PROVE  StoreOK(Capture(x, old), log) /\ Capture(x, old).covered = Coverage(x)
<1> DEFINE c == Capture(x, old)
           W == x.tokens \ x.engine.applied
<1>1. /\ x \in Sessions /\ x.engine \in Engines /\ old.id \in Nat
      /\ x.engine.applied \cup x.tokens \subseteq LoggedIn(log) /\ W \in SUBSET Delivery
  BY DEF Steady, EngineOK, Checkpoints, LoggedIn
<1>2. IsFiniteSet(W)
  BY <1>1, DeliveriesAreFinite, FS_Subset
<1>3. SetToSeq(W) \in Seq(W) /\ IsInjective(SetToSeq(W))
  <2> HIDE DEF W
  <2> QED  BY <1>2, Enumeration
<1>4. Range(SetToSeq(W)) \subseteq W /\ SetToSeq(W) \in Seq(Delivery)
  <2> HIDE DEF W
  <2> QED  BY <1>1, <1>3 DEF Range
<1>5. Within(Coverage(x), log) /\ CoveredIn(Coverage(x), x.engine.applied)
  BY CoverageIsApplied
<1>6. /\ c.engine.applied = x.engine.applied /\ c.engine.waiting = SetToSeq(W)
      /\ c.engine \in Engines /\ c.covered = Coverage(x)
  BY <1>1, <1>4 DEF Capture, Engines
<1>7. c \in Checkpoints
  <2>1. Coverage(x) \in Frontiers
    BY <1>5 DEF Within
  <2> QED  BY <1>1, <1>6, <2>1 DEF Capture, Checkpoints, Sessions
<1> HIDE DEF c
<1>8. EngineOK(c.engine)
  BY <1>3, <1>4, <1>6 DEF EngineOK
<1>9. Present(c.engine) \subseteq LoggedIn(log)
  BY <1>1, <1>4, <1>6 DEF Present
<1> QED  BY <1>5, <1>6, <1>7, <1>8, <1>9 DEF StoreOK, c

\* What a publication works on and leaves behind.
Disks == [s : Sessions, store : Checkpoints, receipts : Frontiers, bad : {0, 1}]

PublicationOK(o) ==
    /\ o \in Disks
    /\ SessionOK(o.s, log) /\ StoreOK(o.store, log) /\ Within(o.receipts, log)

\* Receipts move to what the checkpoint covers.
Moved(f, c, some) == [p \in Producer |-> IF p \in some THEN c.covered[p] ELSE f[p]]

\* A moved receipt is still within the log.
LEMMA MovedIsWithin ==
    ASSUME NEW f, Within(f, log), NEW c, Within(c.covered, log), NEW some
    PROVE  Within(Moved(f, c, some), log)
  BY DEF Within, Frontiers, Moved

\* The session after its checkpoint was named and some receipts rewritten.
LEMMA PublishedIsSound ==
    ASSUME LogOK(log), NEW x, SessionOK(x, log), NEW c, StoreOK(c, log),
           CoveredIn(c.covered, x.engine.applied), NEW some
    PROVE  SessionOK([Published(x, c) EXCEPT !.frontier = Moved(x.frontier, c, some)], log)
<1> DEFINE f == Moved(x.frontier, c, some)
           z == [Published(x, c) EXCEPT !.frontier = Moved(x.frontier, c, some)]
<1>1. /\ x \in Sessions /\ Within(x.frontier, log) /\ c \in Checkpoints /\ Within(c.covered, log)
      /\ c.covered \in Frontiers /\ c.id \in Nat
  BY DEF SessionOK, Steady, StoreOK, Within, Checkpoints
<1>2. Within(f, log) /\ f \in Frontiers
  <2>1. Within(f, log)
    BY <1>1, MovedIsWithin
  <2> QED  BY <2>1 DEF Within
<1> HIDE DEF f
<1>3. /\ z \in Sessions /\ z.engine = x.engine /\ z.tokens = x.tokens /\ z.known = x.known
      /\ z.covered = c.covered /\ z.frontier = f /\ z.rejected = x.rejected
  BY <1>1, <1>2 DEF Published, Sessions, f
<1> HIDE DEF z
<1>4. Steady(z, log)
  BY <1>1, <1>2, <1>3 DEF SessionOK, Steady
<1>5. ASSUME NEW d \in Delivery, d[2] <= z.frontier[d[1]]
      PROVE  Accounted(z, d)
  <2>1. d[1] \in Producer
    BY DeliveryParts
  <2>2. z.frontier[d[1]] \in {c.covered[d[1]], x.frontier[d[1]]}
    BY <1>3, <2>1 DEF f, Moved
  <2>3. CASE z.frontier[d[1]] = c.covered[d[1]]
    <3>1. d \in x.engine.applied
      BY <1>5, <2>3 DEF CoveredIn
    <3> QED  BY <1>3, <3>1 DEF Accounted, Present
  <2>4. CASE z.frontier[d[1]] = x.frontier[d[1]]
    <3>1. Accounted(x, d)
      BY <1>5, <2>4 DEF SessionOK
    <3> QED  BY <1>3, <3>1 DEF Accounted
  <2> QED  BY <2>2, <2>3, <2>4
<1> QED  BY <1>4, <1>5 DEF SessionOK, z

\* Whatever fails on the way, a publication leaves a sound session and store.
LEMMA PublicationsAreSound ==
    ASSUME LogOK(log), NEW x, SessionOK(x, log), NEW back, SessionOK(back, log),
           NEW d, PublicationOK(d), NEW o \in Publications(x, back, d)
    PROVE  PublicationOK(o)
<1> DEFINE c == Capture(x, d.store)
           named(some) == [s |-> [Published(x, c) EXCEPT !.frontier = Moved(@, c, some)],
                           store |-> c, receipts |-> Moved(d.receipts, c, some),
                           bad |-> IF some = ReceiptsAfter(x, c) THEN 0 ELSE 1]
           unsure(m) == [d EXCEPT !.s = [x EXCEPT !.unsure = TRUE], !.store = m, !.bad = 1]
           undone == [d EXCEPT !.s = back, !.bad = 1]
<1>1. /\ x \in Sessions /\ back \in Sessions /\ Steady(x, log)
      /\ d \in Disks /\ SessionOK(d.s, log) /\ StoreOK(d.store, log) /\ Within(d.receipts, log)
      /\ d.store \in Checkpoints
  BY DEF SessionOK, Steady, PublicationOK, StoreOK
<1>2. StoreOK(c, log) /\ CoveredIn(c.covered, x.engine.applied)
  <2>1. StoreOK(c, log) /\ c.covered = Coverage(x)
    BY <1>1, CaptureIsSound
  <2> HIDE DEF c
  <2> QED  BY <1>1, <2>1, CoverageIsApplied
<1>3. \/ o = undone
      \/ \E m \in {d.store, c} : o = unsure(m)
      \/ \E some \in SUBSET ReceiptsAfter(x, c) : o = named(some)
  BY DEF Publications, Moved
<1> HIDE DEF c
<1>4. CASE o = undone
  <2>1. o \in Disks /\ o.s = back /\ o.store = d.store /\ o.receipts = d.receipts
    BY <1>1, <1>4 DEF Disks
  <2> QED  BY <1>1, <2>1 DEF PublicationOK
<1>5. ASSUME NEW m \in {d.store, c}, o = unsure(m)
      PROVE  PublicationOK(o)
  <2> DEFINE y == [x EXCEPT !.unsure = TRUE]
  <2>1. SameIntake(x, y) /\ y.rejected = x.rejected
    BY <1>1 DEF Sessions, SameIntake
  <2> HIDE DEF y
  <2>2. SessionOK(y, log) /\ y \in Sessions
    BY <2>1, SessionStays DEF SameIntake
  <2>3. StoreOK(m, log) /\ m \in Checkpoints
    BY <1>1, <1>2 DEF StoreOK
  <2>4. o = [d EXCEPT !.s = y, !.store = m, !.bad = 1]
    BY <1>5 DEF y
  <2>5. o \in Disks /\ o.s = y /\ o.store = m /\ o.receipts = d.receipts
    BY <1>1, <2>2, <2>3, <2>4 DEF Disks
  <2> QED  BY <1>1, <2>2, <2>3, <2>5 DEF PublicationOK
<1>6. ASSUME NEW some, o = named(some)
      PROVE  PublicationOK(o)
  <2> DEFINE y == [Published(x, c) EXCEPT !.frontier = Moved(x.frontier, c, some)]
  <2>1. SessionOK(y, log) /\ y \in Sessions
    <3>1. SessionOK(y, log)
      BY <1>2, PublishedIsSound
    <3> HIDE DEF y
    <3> QED  BY <3>1 DEF SessionOK, Steady
  <2>2. Within(Moved(d.receipts, c, some), log) /\ Moved(d.receipts, c, some) \in Frontiers
    <3>1. Within(Moved(d.receipts, c, some), log)
      BY <1>1, <1>2, MovedIsWithin DEF StoreOK
    <3> QED  BY <3>1 DEF Within
  <2>3. c \in Checkpoints
    BY <1>2 DEF StoreOK
  <2>4. Published(x, c).frontier = x.frontier
    BY <1>1 DEF Published, Sessions
  <2>5. o = [s |-> y, store |-> c, receipts |-> Moved(d.receipts, c, some),
             bad |-> IF some = ReceiptsAfter(x, c) THEN 0 ELSE 1]
    BY <1>6, <2>4
  <2> HIDE DEF y
  <2>6. o \in Disks
    BY <2>1, <2>2, <2>3, <2>5 DEF Disks
  <2> QED  BY <1>2, <2>1, <2>2, <2>5, <2>6 DEF PublicationOK
<1> QED  BY <1>3, <1>4, <1>5, <1>6

\* A publication starts from a sound disk and ends the step.
LEMMA PublicationSteps ==
    ASSUME InboundInv
    PROVE  /\ s.open => PublicationOK(Disk) /\ SessionOK(s, log)
           /\ \A o : PublicationOK(o) /\ Become(o) => InboundInv'
<1>1. ASSUME s.open
      PROVE  PublicationOK(Disk) /\ SessionOK(s, log)
  <2>1. SessionOK(s, log) /\ StoreOK(store, log) /\ Within(receipts, log)
    BY <1>1 DEF InboundInv, Closed
  <2>2. s \in Sessions /\ store \in Checkpoints /\ receipts \in Frontiers
    BY <2>1 DEF SessionOK, Steady, StoreOK, Within
  <2> QED  BY <2>1, <2>2 DEF PublicationOK, Disks, Disk
<1>2. ASSUME NEW o, PublicationOK(o), Become(o)
      PROVE  InboundInv'
  BY <1>2 DEF Become, PublicationOK, InboundInv
<1> QED  BY <1>1, <1>2

\* publish_checkpoint.
LEMMA PublishCheckpointIsSound ==
    ASSUME InboundInv, PublishCheckpoint
    PROVE  InboundInv'
<1>1. PICK o \in Publications(s, s, Disk) : Become(o)
  BY DEF PublishCheckpoint
<1>2. PublicationOK(Disk) /\ SessionOK(s, log) /\ LogOK(log)
  BY PublicationSteps DEF PublishCheckpoint, InboundInv
<1>3. PublicationOK(o)
  BY <1>2, PublicationsAreSound
<1> QED  BY <1>1, <1>3, PublicationSteps

\* Installing a frontier publishes a checkpoint that names it.
LEMMA InstallationsAreSound ==
    ASSUME InboundInv, s.open, NEW frontier \in Certified, NEW o \in Installations(frontier)
    PROVE  PublicationOK(o)
<1> DEFINE x == [s EXCEPT !.cutoff = frontier]
<1>1. PublicationOK(Disk) /\ SessionOK(s, log) /\ LogOK(log) /\ s \in Sessions /\ store \in Checkpoints
  BY PublicationSteps DEF InboundInv, SessionOK, Steady, StoreOK
<1>2. frontier \in SUBSET Delivery
  BY <1>1 DEF Certified, Checkpoints, Engines
<1>3. SameIntake(s, x) /\ x.rejected = s.rejected
  BY <1>1, <1>2 DEF Sessions, SameIntake
<1>4. o \in Publications(x, s, Disk)
  BY DEF Installations
<1> HIDE DEF x
<1>5. SessionOK(x, log)
  BY <1>1, <1>3, SessionStays
<1> QED  BY <1>1, <1>4, <1>5, PublicationsAreSound

\* install_reclamation_frontier.
LEMMA InstallFrontierIsSound ==
    ASSUME InboundInv, InstallFrontier
    PROVE  InboundInv'
<1>1. PICK frontier \in Certified : CanReclaim(frontier) /\ \E o \in Installations(frontier) : Become(o)
  BY DEF InstallFrontier
<1>2. PICK o \in Installations(frontier) : Become(o)
  BY <1>1
<1>3. s.open
  BY <1>1 DEF CanReclaim
<1>4. PublicationOK(o)
  BY <1>2, <1>3, InstallationsAreSound
<1> QED  BY <1>2, <1>4, PublicationSteps

\* collect_garbage.
LEMMA CollectGarbageIsSound ==
    ASSUME InboundInv, CollectGarbage
    PROVE  InboundInv'
<1>1. PICK frontier \in Certified :
        /\ CanReclaim(frontier)
        /\ \E o \in Installations(frontier) :
             \/ Become(o)
             \/ \E c \in Publications([o.s EXCEPT !.collected = frontier, !.floor = frontier], o.s, o) : Become(c)
  BY DEF CollectGarbage
<1>2. PICK o \in Installations(frontier) :
        \/ Become(o)
        \/ \E c \in Publications([o.s EXCEPT !.collected = frontier, !.floor = frontier], o.s, o) : Become(c)
  BY <1>1
<1>3. s.open
  BY <1>1 DEF CanReclaim
<1>4. PublicationOK(o)
  BY <1>2, <1>3, InstallationsAreSound
<1>5. CASE Become(o)
  BY <1>4, <1>5, PublicationSteps
<1>6. ASSUME NEW c \in Publications([o.s EXCEPT !.collected = frontier, !.floor = frontier], o.s, o), Become(c)
      PROVE  InboundInv'
  <2> DEFINE x == [o.s EXCEPT !.collected = frontier, !.floor = frontier]
  <2>1. SessionOK(o.s, log) /\ o.s \in Sessions /\ LogOK(log) /\ store \in Checkpoints
    BY <1>4 DEF InboundInv, PublicationOK, SessionOK, Steady, StoreOK
  <2>2. frontier \in SUBSET Delivery
    BY <2>1 DEF Certified, Checkpoints, Engines
  <2>3. SameIntake(o.s, x) /\ x.rejected = o.s.rejected
    BY <2>1, <2>2 DEF Sessions, SameIntake
  <2>4. c \in Publications(x, o.s, o)
    OBVIOUS
  <2> HIDE DEF x
  <2>5. SessionOK(x, log)
    BY <2>1, <2>3, SessionStays
  <2>6. PublicationOK(c)
    BY <1>4, <2>1, <2>4, <2>5, PublicationsAreSound
  <2> QED  BY <1>6, <2>6, PublicationSteps
<1> QED  BY <1>2, <1>5, <1>6

-----------------------------------------------------------------------------
(* Theorems *)

\* Nothing has been published, received or stored.
LEMMA InitIsSound == Init => InboundInv
<1> SUFFICES ASSUME Init
             PROVE  InboundInv
  OBVIOUS
<1>1. LogOK(log) /\ log = Nowhere /\ receipts = Nowhere /\ store = NoCheckpoint /\ s = Closed
  BY InboundConstants DEF Init, LogOK, Frontiers, Nowhere
<1>2. Within(Nowhere, log) /\ CoveredIn(Nowhere, {}) /\ Nowhere \in Frontiers
  BY <1>1, NowhereIsWithin DEF Within
<1>3. << >> \in Seq(Delivery) /\ Range(<< >>) = {} /\ IsInjective(<< >>)
  BY DEF Range, IsInjective
<1>4. EmptyEngine.applied = {} /\ EmptyEngine.waiting = << >> /\ EmptyEngine \in Engines
  BY <1>3 DEF EmptyEngine, Engines
<1>5. EngineOK(EmptyEngine) /\ Present(EmptyEngine) = {}
  BY <1>3, <1>4 DEF EngineOK, Present
<1>6. store \in Checkpoints /\ store.engine = EmptyEngine /\ store.covered = Nowhere
  BY <1>1, <1>2, <1>4 DEF NoCheckpoint, Checkpoints
<1>7. StoreOK(store, log)
  BY <1>2, <1>4, <1>5, <1>6 DEF StoreOK
<1> QED  BY <1>1, <1>2, <1>7 DEF InboundInv

\* Every step keeps the invariant.
LEMMA NextIsSound == InboundInv /\ [Next]_vars => InboundInv'
<1> SUFFICES ASSUME InboundInv, [Next]_vars
             PROVE  InboundInv'
  OBVIOUS
<1>1. CASE Open
  BY <1>1, OpenIsSound
<1>2. CASE Recover
  BY <1>2, RecoverIsSound
<1>3. CASE Edit
  BY <1>3, EditIsSound
<1>4. CASE Stop
  BY <1>4 DEF Stop, InboundInv
<1>5. CASE ChangeMembership
  BY <1>5 DEF ChangeMembership, InboundInv
<1>6. ASSUME NEW p \in Peer, Deliver(p) \/ Arrive(p)
      PROVE  InboundInv'
  BY <1>6, DeliverIsSound, ArriveIsSound
<1>7. CASE PublishCheckpoint
  BY <1>7, PublishCheckpointIsSound
<1>8. CASE InstallFrontier
  BY <1>8, InstallFrontierIsSound
<1>9. CASE CollectGarbage
  BY <1>9, CollectGarbageIsSound
<1>10. CASE UNCHANGED vars
  BY <1>10 DEF vars, InboundInv
<1> QED  BY <1>1, <1>2, <1>3, <1>4, <1>5, <1>6, <1>7, <1>8, <1>9, <1>10 DEF Next

\* InboundInv is an invariant, for any number of producers and deliveries.
THEOREM IntakeInvariance == Spec => []InboundInv
<1> QED  BY InitIsSound, NextIsSound, PTL DEF Spec

\* What the recoverable checkpoint covers is in the engine it carries, and what
\* waits in it is not applied (checkpoint_core's scan).
THEOREM CoverageRestores == Spec => []CoverageIsRestorable
<1>1. InboundInv => CoverageIsRestorable
  BY DEF InboundInv, StoreOK, CoveredIn, EngineOK, CoverageIsRestorable
<1> QED  BY <1>1, IntakeInvariance, PTL

\* A session that is ready for local edits has applied all it has receipted
\* (ready, the receipts FileOpStream::poll and persist_checkpoint_receipts write).
THEOREM ReadyHasReceipted == Spec => []ReadyHasAllCommitted
<1>1. InboundInv => ReadyHasAllCommitted
  <2> SUFFICES ASSUME InboundInv, s.open, Complete(s), NEW d \in Delivery, d[2] <= s.frontier[d[1]]
               PROVE  d \in s.engine.applied
    BY DEF ReadyHasAllCommitted
  <2>1. SessionOK(s, log)
    BY DEF InboundInv, Closed
  <2>2. d \in s.engine.applied \/ d \in Range(s.engine.waiting) \/ s.rejected
    BY <2>1 DEF SessionOK, Accounted, Present
  <2>3. Range(<< >>) = {}
    BY DEF Range
  <2> QED  BY <2>2, <2>3 DEF Complete
<1> QED  BY <1>1, IntakeInvariance, PTL

\* The engine holds a waiting delivery once (deferred_tokens, replayed_payload_hashes).
THEOREM DeliveriesWaitOnce == Spec => []WaitsOnce
<1>1. InboundInv => WaitsOnce
  BY DEF InboundInv, SessionOK, Steady, EngineOK, WaitsOnce, Closed
<1> QED  BY <1>1, IntakeInvariance, PTL

\* A session that opens complete has applied exactly the deliveries in the folder
\* (open, replay_uncovered, reset_for_full_replay).
THEOREM OpeningIsWhole == Spec => OpensWithWholeLog
<1>1. ASSUME InboundInv, Open, Complete(s')
      PROVE  s'.engine.applied = Logged
  <2>1. SessionOK(s', log) /\ \A d \in LoggedIn(log) : Accounted(s', d)
    BY <1>1, OpenIsWhole
  <2>2. s'.engine.waiting = << >> /\ ~s'.rejected /\ Range(<< >>) = {}
    BY <1>1 DEF Complete, Range
  <2>3. LoggedIn(log) \subseteq s'.engine.applied
    BY <2>1, <2>2 DEF Accounted, Present
  <2>4. s'.engine.applied \subseteq LoggedIn(log)
    BY <2>1 DEF SessionOK, Steady
  <2> QED  BY <2>3, <2>4 DEF Logged, LoggedIn
<1>2. InboundInv /\ [Next]_vars => [Open /\ Complete(s') => s'.engine.applied = Logged]_vars
  BY <1>1
<1> QED  BY <1>2, IntakeInvariance, PTL DEF Spec, OpensWithWholeLog
==============================================================================
