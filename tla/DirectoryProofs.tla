---------------------------- MODULE DirectoryProofs ----------------------------
(***************************************************************************)
(* What two users of replace_atomically promise, for any history of failed *)
(* writes, crashes and power failures: the identity file never gives an    *)
(* identity twice, and the checkpoint store recovers what it reported as   *)
(* published.                                                              *)
(*                                                                         *)
(* Identities: one process owns the state at a time; its counters, and     *)
(* those of every image of the file a later owner could read, are above    *)
(* every identity handed out under their actor, since an identity is       *)
(* handed out only after its reservation was confirmed; and an actor that  *)
(* is new has never issued anything.                                       *)
(*                                                                         *)
(* Checkpoints: in every image a power failure can leave, one manifest of  *)
(* the last published generation or a newer one has all it names, and the  *)
(* manifests that new are of the epoch last published.  A publication      *)
(* only overwrites the older slot, and is reported once the directory is   *)
(* confirmed.                                                              *)
(***************************************************************************)
EXTENDS ReplicaState, CheckpointStore, FiniteSetTheorems, TLAPS

-----------------------------------------------------------------------------
(* Directories: replace_atomically and a power failure, for any names *)

Image(names, contents) == [names -> {<<>>} \cup {<<c>> : c \in contents}]

\* A directory in which a process reads one of the images a power failure can
\* leave.
Directory(names, contents) ==
    {d \in [now : Image(names, contents), may : SUBSET Image(names, contents)] : d.now \in d.may}

\* A new directory is empty, in every image.
LEMMA NewDirectoryIsDirectory ==
    ASSUME NEW names, NEW contents
    PROVE  /\ NewDirectory(names) \in Directory(names, contents)
           /\ \A x \in NewDirectory(names).may : x = [n \in names |-> <<>>]
  BY DEF NewDirectory, Directory, Image

\* replace_atomically keeps a directory one.
LEMMA ReplaceKeepsDirectory ==
    ASSUME NEW names, NEW contents, NEW d \in Directory(names, contents),
           NEW name \in names, NEW c \in contents, NEW result \in ReplaceResults
    PROVE  Replace(d, name, c, result) \in Directory(names, contents)
<1> DEFINE new(x) == [x EXCEPT ![name] = <<c>>]
<1>1. \A x \in Image(names, contents) : new(x) \in Image(names, contents)
  BY DEF Image
<1>2. CASE result = "ok"
  <2>1. Replace(d, name, c, result) = [now |-> new(d.now), may |-> {new(d.now)}]
    BY <1>2 DEF Replace
  <2> QED  BY <2>1, <1>1 DEF Directory
<1>3. CASE result = "io_error"
  <2>1. Replace(d, name, c, result) = d
    BY <1>3 DEF Replace
  <2> QED  BY <2>1
<1>4. CASE result = "commit_uncertain"
  <2>1. Replace(d, name, c, result)
          = [now |-> new(d.now), may |-> d.may \cup {new(x) : x \in d.may}]
    BY <1>4 DEF Replace
  <2>2. d.now \in Image(names, contents) /\ d.may \subseteq Image(names, contents) /\ d.now \in d.may
    BY DEF Directory
  <2>3. new(d.now) \in {new(x) : x \in d.may}
    BY <2>2
  <2>4. {new(x) : x \in d.may} \subseteq Image(names, contents)
    BY <2>2, <1>1
  <2> HIDE DEF new
  <2> QED  BY <2>1, <2>2, <2>3, <2>4, <1>1 DEF Directory
<1> QED  BY <1>2, <1>3, <1>4 DEF ReplaceResults

\* Every image of a replaced file is an old image, or an old image with the new
\* contents in this file; and the new contents are in all of them once the
\* replacement is confirmed.
LEMMA ReplaceImages ==
    ASSUME NEW names, NEW contents, NEW d \in Directory(names, contents),
           NEW name \in names, NEW c \in contents, NEW result \in ReplaceResults,
           NEW x \in Replace(d, name, c, result).may
    PROVE  /\ \/ x \in d.may
              \/ \E y \in d.may : x = [y EXCEPT ![name] = <<c>>]
           /\ x \in d.may \/ x[name] = <<c>>
           /\ result = "ok" => x[name] = <<c>>
<1> DEFINE new(y) == [y EXCEPT ![name] = <<c>>]
<1>1. \A y \in d.may : new(y)[name] = <<c>>
  BY DEF Directory, Image
<1>2. d.now \in d.may
  BY DEF Directory
<1>3. CASE result = "ok"
  <2>1. Replace(d, name, c, result).may = {new(d.now)}
    BY <1>3 DEF Replace
  <2> QED  BY <2>1, <1>1, <1>2
<1>4. CASE result = "io_error"
  <2>1. Replace(d, name, c, result).may = d.may
    BY <1>4 DEF Replace
  <2> QED  BY <2>1, <1>4
<1>5. CASE result = "commit_uncertain"
  <2>1. Replace(d, name, c, result).may = d.may \cup {new(y) : y \in d.may}
    BY <1>5 DEF Replace
  <2> QED  BY <2>1, <1>1, <1>5
<1> QED  BY <1>3, <1>4, <1>5 DEF ReplaceResults

\* After a power failure the directory is one of the images, and only that.
LEMMA PowerLostImage ==
    ASSUME NEW names, NEW contents, NEW d \in Directory(names, contents), NEW e \in PowerLost(d)
    PROVE  e \in Directory(names, contents) /\ e.may = {e.now} /\ e.now \in d.may
  BY DEF PowerLost, Directory

-----------------------------------------------------------------------------
(* Identities *)

Counters == [StreamName -> Nat]
State == [actor : Nat, next : Counters]
Identity == [actor : Nat, stream : StreamName, counter : Nat]
OwnerRecord == [open : BOOLEAN, actor : Nat, next : Counters, failed : BOOLEAN,
                writers : SUBSET StreamName, stuck : SUBSET StreamName]

ReplicaTypeOK ==
    /\ device \in Directory({StateFile}, State)
    /\ owners \in [Process -> OwnerRecord]
    /\ handedOut \in [DOMAIN handedOut -> Nat] /\ DOMAIN handedOut \subseteq Identity
    /\ actors \in Nat

OneOwner == \A p, q \in Process : IsOwner(p) /\ IsOwner(q) => p = q

\* State c, of the file or of an owner, knows the identity i of its actor.
Knows(c, i) == i.actor = c.actor => i.counter < c.next[i.stream]

\* c may go on issuing identities: its actor was generated, and it knows all.
Sound(c) == c.actor <= actors /\ \A i \in DOMAIN handedOut : Knows(c, i)

IssuedOnce ==
    \A i \in DOMAIN handedOut : handedOut[i] = 1 /\ i.counter < Exhausted /\ i.actor <= actors

OwnersAreSound == \A p \in Process : IsOwner(p) => Sound(owners[p])
ImagesAreSound == \A x \in device.may : x[StateFile] # <<>> => Sound(x[StateFile][1])

ReplicaInv ==
    ReplicaTypeOK /\ OneOwner /\ IssuedOnce /\ OwnersAreSound /\ ImagesAreSound

-----------------------------------------------------------------------------
(* Lemmas about the operators *)

\* check_claim finds a corrupt record exactly when the state does not know an
\* identity of its own actor.
LEMMA ClaimIsKnown ==
    ASSUME NEW c, c.actor \in Nat, c.next \in Counters, NEW i \in Identity
    PROVE  CheckClaim(c, i) # "corrupt_record" <=> Knows(c, i)
<1>1. i.actor \in Nat /\ i.counter \in Nat /\ i.stream \in StreamName /\ c.next[i.stream] \in Nat
  BY DEF Identity, Counters
<1>2. CASE i.actor # c.actor
  BY <1>2 DEF CheckClaim, Knows
<1>3. CASE i.actor = c.actor
  BY <1>1, <1>3 DEF CheckClaim, Knows
<1> QED  BY <1>2, <1>3

\* Owner o has counted on from owner c, by the run of stream s.
Advanced(c, o, s, count) ==
    /\ o.actor = c.actor /\ o.next[s] >= c.next[s] + count
    /\ \A t \in StreamName : o.next[t] >= c.next[t]

\* The counter of a reservation is raised by its length, whatever becomes of the
\* handle.
LEMMA RecordAdvances ==
    ASSUME NEW c \in OwnerRecord, NEW s \in StreamName, NEW count \in Nat,
           NEW stuck \in SUBSET StreamName
    PROVE  /\ [c EXCEPT !.next[s] = @ + count] \in OwnerRecord
           /\ Advanced(c, [c EXCEPT !.next[s] = @ + count], s, count)
           /\ [c EXCEPT !.next[s] = @ + count, !.stuck = stuck] \in OwnerRecord
           /\ Advanced(c, [c EXCEPT !.next[s] = @ + count, !.stuck = stuck], s, count)
<1> DEFINE n == [c.next EXCEPT ![s] = @ + count]
           o == [c EXCEPT !.next = n]
           h == [c EXCEPT !.next = n, !.stuck = stuck]
<1>1. c.next \in Counters
  BY DEF OwnerRecord
<1>2. /\ n \in Counters /\ n[s] >= c.next[s] + count
      /\ \A t \in StreamName : n[t] >= c.next[t]
  BY <1>1 DEF Counters
<1> HIDE DEF n
<1>3. o \in OwnerRecord /\ o.actor = c.actor /\ o.next = n
  BY <1>2 DEF OwnerRecord
<1>4. h \in OwnerRecord /\ h.actor = c.actor /\ h.next = n
  BY <1>2 DEF OwnerRecord
<1>5. /\ o = [c EXCEPT !.next[s] = @ + count]
      /\ h = [c EXCEPT !.next[s] = @ + count, !.stuck = stuck]
  BY DEF n
<1> HIDE DEF o, h
<1> QED  BY <1>2, <1>3, <1>4, <1>5 DEF Advanced

\* fork_identity gives the record another actor.
LEMMA RecordForks ==
    ASSUME NEW c \in OwnerRecord, NEW result, actors \in Nat
    PROVE  Forked(c, result) \in OwnerRecord /\ Forked(c, result).actor = actors + 1
<1>1. NewCounters \in Counters /\ actors + 1 \in Nat
  BY DEF NewCounters, Counters
<1>2. CASE result = "ok"
  <2>1. Forked(c, result) = [c EXCEPT !.actor = actors + 1, !.next = NewCounters, !.failed = FALSE]
    BY <1>2 DEF Forked
  <2> QED  BY <2>1, <1>1 DEF OwnerRecord
<1>3. CASE result # "ok"
  <2>1. Forked(c, result) = [c EXCEPT !.actor = actors + 1, !.next = NewCounters, !.failed = TRUE]
    BY <1>3 DEF Forked
  <2> QED  BY <2>1, <1>1 DEF OwnerRecord
<1> QED  BY <1>2, <1>3

\* What persist leaves: a directory whose images are old ones or hold the
\* owner's present counters, all of them once the write is confirmed.
LEMMA PersistImages ==
    ASSUME device \in Directory({StateFile}, State), NEW o \in OwnerRecord,
           NEW result \in ReplaceResults
    PROVE  /\ Persisted(o, result) \in Directory({StateFile}, State)
           /\ \A x \in Persisted(o, result).may :
                 /\ x \in device.may \/ x[StateFile] = <<Contents(o)>>
                 /\ result = "ok" => x[StateFile] = <<Contents(o)>>
<1>1. Contents(o) \in State
  BY DEF Contents, State, OwnerRecord
<1>2. StateFile \in {StateFile}
  OBVIOUS
<1> QED  BY <1>1, <1>2, ReplaceKeepsDirectory, ReplaceImages DEF Persisted

\* A step that changes one owner and issues nothing keeps the invariant's parts
\* about owners, if that owner is sound after it.
LEMMA OwnerStep ==
    ASSUME ReplicaInv, NEW p \in Process, NEW o \in OwnerRecord,
           owners' = [owners EXCEPT ![p] = o],
           handedOut' = handedOut, actors' \in Nat, actors' >= actors,
           o.open => /\ \A q \in Process \ {p} : ~IsOwner(q)
                     /\ o.actor <= actors' /\ \A i \in DOMAIN handedOut : Knows(o, i)
    PROVE  /\ owners' \in [Process -> OwnerRecord]
           /\ handedOut' \in [DOMAIN handedOut' -> Nat] /\ DOMAIN handedOut' \subseteq Identity
           /\ OneOwner' /\ OwnersAreSound' /\ IssuedOnce'
<1> USE DEF ReplicaInv, ReplicaTypeOK
<1>1. owners' \in [Process -> OwnerRecord]
  OBVIOUS
<1>2. \A q \in Process : owners'[q] = IF q = p THEN o ELSE owners[q]
  OBVIOUS
<1>3. OneOwner'
  BY <1>2 DEF OneOwner, IsOwner
<1>4. OwnersAreSound'
  <2> SUFFICES ASSUME NEW q \in Process, IsOwner(q)'
               PROVE  Sound(owners[q])'
    BY DEF OwnersAreSound
  <2>1. CASE q = p
    BY <2>1, <1>2 DEF Sound, IsOwner, Knows
  <2>2. CASE q # p
    <3>1. owners'[q] = owners[q] /\ IsOwner(q)
      BY <2>2, <1>2 DEF IsOwner
    <3>2. owners[q].actor \in Nat
      BY DEF OwnerRecord
    <3> QED  BY <3>1, <3>2 DEF OwnersAreSound, Sound, Knows
  <2> QED  BY <2>1, <2>2
<1>5. IssuedOnce'
  BY DEF IssuedOnce, Identity
<1> QED  BY <1>1, <1>3, <1>4, <1>5

\* The same for the file, when a sound owner is persisted.
LEMMA ImageStep ==
    ASSUME ReplicaInv, NEW o \in OwnerRecord, NEW result \in ReplaceResults,
           device' = Persisted(o, result),
           handedOut' = handedOut, actors' \in Nat, actors' >= actors,
           o.actor <= actors' /\ \A i \in DOMAIN handedOut : Knows(o, i)
    PROVE  device' \in Directory({StateFile}, State) /\ ImagesAreSound'
<1> USE DEF ReplicaInv, ReplicaTypeOK
<1>1. device' \in Directory({StateFile}, State)
  BY PersistImages
<1>2. ASSUME NEW x \in device'.may, x[StateFile] # <<>>
      PROVE  x[StateFile][1].actor <= actors' /\ \A i \in DOMAIN handedOut : Knows(x[StateFile][1], i)
  <2>1. CASE x \in device.may
    <3>1. x[StateFile][1].actor \in Nat
      BY <2>1, <1>2 DEF Directory, Image, State
    <3> QED  BY <2>1, <3>1, <1>2 DEF ImagesAreSound, Sound
  <2>2. CASE x[StateFile] = <<Contents(o)>>
    BY <2>2 DEF Contents, Knows
  <2> QED  BY <2>1, <2>2, <1>2, PersistImages
<1>3. ImagesAreSound'
  BY <1>2 DEF ImagesAreSound, Sound, Knows
<1> QED  BY <1>1, <1>3

-----------------------------------------------------------------------------
(* The invariant is inductive *)

\* The first process finds an empty directory.
LEMMA InitIsSound == ReplicaInit => ReplicaInv
<1> SUFFICES ASSUME ReplicaInit
             PROVE  ReplicaInv
  OBVIOUS
<1> USE DEF ReplicaInit
<1>1. Unopened \in OwnerRecord
  BY DEF Unopened, Owner, OwnerRecord, NewCounters, Counters
<1>2. device \in Directory({StateFile}, State)
  BY NewDirectoryIsDirectory
<1>3. \A x \in device.may : x[StateFile] = <<>>
  BY NewDirectoryIsDirectory
<1>4. ReplicaTypeOK
  BY <1>1, <1>2 DEF ReplicaTypeOK
<1>5. \A p \in Process : ~IsOwner(p)
  BY DEF IsOwner, Unopened, Owner
<1>6. OneOwner /\ OwnersAreSound
  BY <1>5 DEF OneOwner, OwnersAreSound
<1>7. IssuedOnce
  <2>1. DOMAIN handedOut = {}
    OBVIOUS
  <2> QED  BY <2>1 DEF IssuedOnce
<1>8. ImagesAreSound
  BY <1>3 DEF ImagesAreSound
<1> QED  BY <1>4, <1>6, <1>7, <1>8 DEF ReplicaInv

\* open of an existing file: the new owner knows what its image knows.
LEMMA OpenExistingIsSound ==
    ASSUME ReplicaInv, NEW p \in Process, OpenExisting(p)
    PROVE  ReplicaInv'
<1> USE DEF ReplicaInv, ReplicaTypeOK
<1> DEFINE c == device.now[StateFile][1]
           o == Opened(c.actor, c.next)
<1>1. c \in State /\ device.now \in device.may /\ device.now[StateFile] # <<>>
  BY DEF OpenExisting, Directory, Image
<1>2. Sound(c)
  BY <1>1 DEF ImagesAreSound
<1>3. o \in OwnerRecord /\ o.actor = c.actor /\ o.next = c.next
  BY <1>1 DEF Opened, Owner, OwnerRecord, State
<1>4. owners' = [owners EXCEPT ![p] = o] /\ \A q \in Process : ~IsOwner(q)
  BY DEF OpenExisting, DirectoryIsFree
<1>5. \A i \in DOMAIN handedOut : Knows(o, i)
  BY <1>2, <1>3 DEF Sound, Knows
<1>6. UNCHANGED <<device, handedOut, actors>>
  BY DEF OpenExisting
<1>7. /\ owners' \in [Process -> OwnerRecord]
      /\ OneOwner' /\ OwnersAreSound' /\ IssuedOnce'
  <2> HIDE DEF o, ReplicaInv
  <2>1. o.actor <= actors' /\ actors' >= actors /\ actors' \in Nat
    BY <1>1, <1>2, <1>3, <1>6 DEF Sound, State, ReplicaInv
  <2> QED  BY <2>1, <1>3, <1>4, <1>5, <1>6, OwnerStep
<1>8. ImagesAreSound'
  BY <1>6 DEF ImagesAreSound, Sound, Knows
<1> QED  BY <1>6, <1>7, <1>8

\* The first open: an actor that has issued nothing.
LEMMA OpenFirstIsSound ==
    ASSUME ReplicaInv, NEW p \in Process, OpenFirst(p)
    PROVE  ReplicaInv'
<1> USE DEF ReplicaInv, ReplicaTypeOK
<1> DEFINE new == Opened(actors + 1, NewCounters)
<1>1. new \in OwnerRecord /\ new.actor = actors + 1
  BY DEF Opened, Owner, OwnerRecord, NewCounters, Counters
<1>2. PICK result \in ReplaceResults :
          /\ device' = Persisted(new, result)
          /\ owners' = IF result = "ok" THEN [owners EXCEPT ![p] = new] ELSE owners
  BY DEF OpenFirst
<1>3. actors' = actors + 1 /\ handedOut' = handedOut /\ \A q \in Process : ~IsOwner(q)
  BY DEF OpenFirst, DirectoryIsFree
<1>4. \A i \in DOMAIN handedOut : Knows(new, i)
  BY <1>1 DEF IssuedOnce, Identity, Knows
<1> HIDE DEF new
<1>a. actors' \in Nat /\ actors' >= actors /\ new.actor <= actors'
  BY <1>1, <1>3
<1>5. device' \in Directory({StateFile}, State) /\ ImagesAreSound'
  <2> HIDE DEF ReplicaInv, ReplicaTypeOK
  <2> QED  BY <1>1, <1>2, <1>3, <1>4, <1>a, ImageStep
<1>6. /\ owners' \in [Process -> OwnerRecord]
      /\ OneOwner' /\ OwnersAreSound' /\ IssuedOnce'
  <2>1. CASE result = "ok"
    <3> HIDE DEF ReplicaInv, ReplicaTypeOK
    <3>1. owners' = [owners EXCEPT ![p] = new]
      BY <2>1, <1>2
    <3> QED  BY <3>1, <1>1, <1>3, <1>4, <1>a, OwnerStep
  <2>2. CASE result # "ok"
    <3>1. owners' = owners
      BY <2>2, <1>2
    <3> QED  BY <3>1, <1>3 DEF OneOwner, OwnersAreSound, IssuedOnce, IsOwner, Identity
  <2> QED  BY <2>1, <2>2
<1> QED  BY <1>3, <1>5, <1>6

\* acquire_writer, release_writer and observe: the counters of the owner only
\* grow, and the file is untouched.
LEMMA OwnerOnlyIsSound ==
    ASSUME ReplicaInv, NEW p \in Process, AcquireWriter(p) \/ ReleaseWriter(p) \/ Observe(p)
    PROVE  ReplicaInv'
<1> USE DEF ReplicaInv, ReplicaTypeOK
<1>1. UNCHANGED <<device, handedOut, actors>> /\ IsOwner(p)
  BY DEF AcquireWriter, ReleaseWriter, Observe
<1>2. PICK o \in OwnerRecord :
          /\ owners' = [owners EXCEPT ![p] = o]
          /\ o.actor = owners[p].actor
          /\ \A s \in StreamName : o.next[s] >= owners[p].next[s]
  <2> DEFINE Grown(o) == /\ owners' = [owners EXCEPT ![p] = o]
                         /\ o.actor = owners[p].actor
                         /\ \A t \in StreamName : o.next[t] >= owners[p].next[t]
  <2>a. owners[p] \in OwnerRecord /\ \A t \in StreamName : owners[p].next[t] \in Nat
    BY DEF OwnerRecord, Counters
  <2>1. ASSUME NEW s \in StreamName, owners' = [owners EXCEPT ![p].writers = @ \cup {s}]
        PROVE  \E o \in OwnerRecord : Grown(o)
    <3> DEFINE o == [owners[p] EXCEPT !.writers = @ \cup {s}]
    <3>1. o \in OwnerRecord
      BY <2>a DEF OwnerRecord
    <3>2. o.actor = owners[p].actor /\ o.next = owners[p].next
      BY <2>a DEF OwnerRecord
    <3>3. owners' = [owners EXCEPT ![p] = o]
      BY <2>1
    <3> HIDE DEF o
    <3>4. \A t \in StreamName : o.next[t] >= owners[p].next[t]
      BY <3>2, <2>a
    <3> QED  BY <3>1, <3>2, <3>3, <3>4
  <2>2. ASSUME owners' = [owners EXCEPT ![p].writers = {}]
        PROVE  \E o \in OwnerRecord : Grown(o)
    <3> DEFINE o == [owners[p] EXCEPT !.writers = {}]
    <3>1. o \in OwnerRecord
      BY <2>a DEF OwnerRecord
    <3>2. o.actor = owners[p].actor /\ o.next = owners[p].next
      BY <2>a DEF OwnerRecord
    <3>3. owners' = [owners EXCEPT ![p] = o]
      BY <2>2
    <3> HIDE DEF o
    <3>4. \A t \in StreamName : o.next[t] >= owners[p].next[t]
      BY <3>2, <2>a
    <3> QED  BY <3>1, <3>2, <3>3, <3>4
  <2>3. ASSUME NEW s \in StreamName, NEW seen \in Nat,
               owners' = [owners EXCEPT ![p].next[s] = Raised(@, seen)]
        PROVE  \E o \in OwnerRecord : Grown(o)
    <3> DEFINE n == Raised(owners[p].next[s], seen)
               o == [owners[p] EXCEPT !.next[s] = n]
    <3>1. n \in Nat /\ n >= owners[p].next[s]
      BY <2>a DEF Raised
    <3> HIDE DEF n
    <3>2. o \in OwnerRecord
      BY <3>1, <2>a DEF OwnerRecord, Counters
    <3>3. o.actor = owners[p].actor /\ \A t \in StreamName : o.next[t] >= owners[p].next[t]
      BY <3>1, <2>a DEF OwnerRecord, Counters
    <3>4. owners' = [owners EXCEPT ![p] = o]
      BY <2>3 DEF n
    <3> HIDE DEF o
    <3> QED  BY <3>2, <3>3, <3>4
  <2>4. 2 \in Nat /\ Exhausted - 1 \in Nat /\ Exhausted \in Nat
    BY ReplicaStateAssumption
  <2>5. Observe(p) => \E s \in StreamName, seen \in Nat :
                         owners' = [owners EXCEPT ![p].next[s] = Raised(@, seen)]
    BY <2>4 DEF Observe, OwnerRecord
  <2> QED  BY <2>1, <2>2, <2>3, <2>5 DEF AcquireWriter, ReleaseWriter
<1>3. o.actor <= actors /\ \A i \in DOMAIN handedOut : Knows(o, i)
  <2>1. Sound(owners[p])
    BY <1>1 DEF OwnersAreSound
  <2>2. \A i \in DOMAIN handedOut : i.stream \in StreamName /\ i.counter \in Nat
    BY DEF Identity
  <2>3. \A s \in StreamName : o.next[s] \in Nat /\ owners[p].next[s] \in Nat
    BY DEF OwnerRecord, Counters
  <2> QED  BY <1>2, <2>1, <2>2, <2>3 DEF Sound, Knows
<1>4. \A q \in Process \ {p} : ~IsOwner(q)
  BY <1>1 DEF OneOwner
<1>5. /\ owners' \in [Process -> OwnerRecord]
      /\ OneOwner' /\ OwnersAreSound' /\ IssuedOnce'
  <2> HIDE DEF ReplicaInv
  <2>1. actors' \in Nat /\ actors' >= actors
    BY <1>1 DEF ReplicaInv
  <2> QED  BY <2>1, <1>1, <1>2, <1>3, <1>4, OwnerStep
<1>6. ImagesAreSound'
  BY <1>1 DEF ImagesAreSound, Sound, Knows
<1> QED  BY <1>1, <1>5, <1>6

\* What reserve_run hands out is new: it lies at or above the owner's counter,
\* which every earlier identity of the actor is below, and under the last value.
LEMMA RunIsNew ==
    ASSUME ReplicaInv, NEW p \in Process, IsOwner(p), NEW s \in StreamName,
           NEW count \in Nat, Fits(owners[p].next[s], count),
           NEW i \in Run(owners[p], s, count)
    PROVE  /\ i \in Identity /\ i \notin DOMAIN handedOut
           /\ i.actor = owners[p].actor /\ i.stream = s
           /\ i.counter < owners[p].next[s] + count /\ i.counter < Exhausted
<1>1. owners[p].actor \in Nat /\ owners[p].next[s] \in Nat /\ Exhausted \in Nat
  BY ReplicaStateAssumption DEF ReplicaInv, ReplicaTypeOK, OwnerRecord, Counters
<1>2. PICK c \in owners[p].next[s]..(owners[p].next[s] + count - 1) :
          i = [actor |-> owners[p].actor, stream |-> s, counter |-> c]
  BY DEF Run
<1>3. c \in Nat /\ c >= owners[p].next[s] /\ c < owners[p].next[s] + count /\ c < Exhausted
  BY <1>1 DEF Fits
<1>4. i \notin DOMAIN handedOut
  <2> SUFFICES ASSUME i \in DOMAIN handedOut PROVE FALSE
    OBVIOUS
  <2>1. Knows(owners[p], i)
    BY DEF ReplicaInv, OwnersAreSound, Sound
  <2> QED  BY <2>1, <1>1, <1>2, <1>3 DEF Knows
<1> QED  BY <1>1, <1>2, <1>3, <1>4 DEF Identity

\* next_operation and reserve_run: whatever the write does, the owner and every
\* image stay above what was handed out.
LEMMA ReserveIsSound ==
    ASSUME ReplicaInv, NEW p \in Process, NEW s \in StreamName, NEW count \in Nat,
           NEW result \in ReplaceResults, Reserve(p, s, count, result),
           NEW o \in OwnerRecord, owners' = [owners EXCEPT ![p] = o],
           Advanced(owners[p], o, s, count)
    PROVE  ReplicaInv'
<1> DEFINE moved == [owners[p] EXCEPT !.next[s] = @ + count]
           run == Run(owners[p], s, count)
<1>1. owners[p] \in OwnerRecord /\ owners[p].next \in Counters /\ owners[p].actor \in Nat
  BY DEF ReplicaInv, ReplicaTypeOK, OwnerRecord
<1>2. moved \in OwnerRecord /\ Advanced(owners[p], moved, s, count)
  BY <1>1, RecordAdvances
<1>3. /\ IsOwner(p) /\ Fits(owners[p].next[s], count) /\ actors' = actors
      /\ device' = Persisted(moved, result)
      /\ handedOut' = IF result # "ok" THEN handedOut
                      ELSE [i \in DOMAIN handedOut \cup run |->
                               (IF i \in DOMAIN handedOut THEN handedOut[i] ELSE 0)
                               + (IF i \in run THEN 1 ELSE 0)]
  BY DEF Reserve, Handed
<1>4. \A i \in run : /\ i \in Identity /\ i \notin DOMAIN handedOut
                     /\ i.actor = owners[p].actor /\ i.stream = s
                     /\ i.counter < owners[p].next[s] + count /\ i.counter < Exhausted
  BY <1>3, RunIsNew
<1>5. Sound(owners[p]) /\ \A q \in Process \ {p} : ~IsOwner(q)
  BY <1>3 DEF ReplicaInv, OwnersAreSound, OneOwner
<1>6. ASSUME NEW c \in OwnerRecord, Advanced(owners[p], c, s, count)
      PROVE  \A i \in DOMAIN handedOut \cup run : Knows(c, i)
  <2>a. \A t \in StreamName : c.next[t] \in Nat /\ owners[p].next[t] \in Nat
    BY <1>1 DEF OwnerRecord, Counters
  <2>1. ASSUME NEW i \in DOMAIN handedOut
        PROVE  Knows(c, i)
    <3>1. Knows(owners[p], i) /\ i.stream \in StreamName /\ i.counter \in Nat
      BY <1>5 DEF Sound, ReplicaInv, ReplicaTypeOK, Identity
    <3>2. c.actor = owners[p].actor /\ c.next[i.stream] >= owners[p].next[i.stream]
      BY <3>1, <1>6 DEF Advanced
    <3> QED  BY <2>a, <3>1, <3>2 DEF Knows
  <2>2. ASSUME NEW i \in run
        PROVE  Knows(c, i)
    <3>1. c.next[s] >= owners[p].next[s] + count
      BY <1>6 DEF Advanced
    <3>2. i \in Identity /\ i.stream = s /\ i.counter < owners[p].next[s] + count
      BY <1>4
    <3>3. i.counter \in Nat
      BY <3>2 DEF Identity
    <3> QED  BY <2>a, <3>1, <3>2, <3>3 DEF Knows
  <2> QED  BY <2>1, <2>2
<1>b. \A i \in DOMAIN handedOut \cup run : Knows(o, i)
  BY <1>6
<1>7. /\ actors \in Nat /\ actors' \in Nat /\ actors' >= actors
      /\ o.actor <= actors' /\ moved.actor <= actors' /\ o.actor <= actors
  BY <1>1, <1>2, <1>3, <1>5 DEF Sound, Advanced, ReplicaInv, ReplicaTypeOK
<1>8. \A i \in DOMAIN handedOut \cup run : Knows(moved, i)
  BY <1>2, <1>6
<1> HIDE DEF moved, run
<1>9. CASE result # "ok"
  <2>1. handedOut' = handedOut
    BY <1>3, <1>9
  <2>2. device' \in Directory({StateFile}, State) /\ ImagesAreSound'
    BY <2>1, <1>2, <1>3, <1>7, <1>8, ImageStep
  <2>3. /\ owners' \in [Process -> OwnerRecord]
        /\ handedOut' \in [DOMAIN handedOut' -> Nat] /\ DOMAIN handedOut' \subseteq Identity
        /\ OneOwner' /\ OwnersAreSound' /\ IssuedOnce'
    BY <2>1, <1>5, <1>b, <1>7, OwnerStep
  <2> QED  BY <2>2, <2>3, <1>7 DEF ReplicaInv, ReplicaTypeOK
<1>10. CASE result = "ok"
  <2>1. /\ DOMAIN handedOut' = DOMAIN handedOut \cup run
        /\ \A i \in DOMAIN handedOut : handedOut'[i] = handedOut[i]
        /\ \A i \in run : handedOut'[i] = 1
    <3>1. \A i \in DOMAIN handedOut : handedOut[i] \in Nat
      BY DEF ReplicaInv, ReplicaTypeOK
    <3> QED  BY <3>1, <1>3, <1>4, <1>10
  <2>2. IssuedOnce' /\ DOMAIN handedOut' \subseteq Identity
    <3>1. \A i \in DOMAIN handedOut :
             handedOut[i] = 1 /\ i.counter < Exhausted /\ i.actor <= actors /\ i \in Identity
      BY DEF ReplicaInv, ReplicaTypeOK, IssuedOnce
    <3>2. \A i \in run : i.actor <= actors
      BY <1>4, <1>5 DEF Sound
    <3>3. IssuedOnce'
      BY <3>1, <3>2, <2>1, <1>3, <1>4 DEF IssuedOnce
    <3> QED  BY <3>1, <3>3, <2>1, <1>4
  <2>3. handedOut' \in [DOMAIN handedOut' -> Nat]
    <3>1. \A i \in DOMAIN handedOut' : handedOut'[i] = 1
      BY <2>2 DEF IssuedOnce
    <3>2. handedOut' = [i \in DOMAIN handedOut' |-> handedOut'[i]]
      BY <1>3, <1>10
    <3> QED  BY <3>1, <3>2
  <2>4. device' \in Directory({StateFile}, State) /\ \A x \in device'.may : x[StateFile] = <<Contents(moved)>>
    BY <1>2, <1>3, <1>10, PersistImages DEF ReplicaInv, ReplicaTypeOK
  <2>5. ImagesAreSound'
    BY <2>1, <2>4, <1>7, <1>8 DEF ImagesAreSound, Sound, Contents, Knows
  <2>6. owners' \in [Process -> OwnerRecord] /\ \A q \in Process : owners'[q] = IF q = p THEN o ELSE owners[q]
    BY DEF ReplicaInv, ReplicaTypeOK
  <2>7. OneOwner'
    BY <2>6, <1>5 DEF OneOwner, IsOwner
  <2>8. OwnersAreSound'
    BY <2>1, <2>6, <1>5, <1>b, <1>7 DEF OwnersAreSound, IsOwner, Sound, Knows
  <2> QED  BY <2>2, <2>3, <2>4, <2>5, <2>6, <2>7, <2>8, <1>7 DEF ReplicaInv, ReplicaTypeOK
<1> QED  BY <1>9, <1>10

\* The two operations that reserve.
LEMMA ReservationsAreSound ==
    ASSUME ReplicaInv, NEW p \in Process, NextOperation(p) \/ ReserveRun(p)
    PROVE  ReplicaInv'
<1>a. owners \in [Process -> OwnerRecord] /\ owners[p] \in OwnerRecord /\ MaxRun \in Nat
  BY ReplicaStateAssumption DEF ReplicaInv, ReplicaTypeOK
<1>1. CASE NextOperation(p)
  <2>1. PICK s \in StreamName, result \in ReplaceResults :
            /\ Reserve(p, s, 1, result)
            /\ owners' = [owners EXCEPT ![p].next[s] = @ + 1]
    BY <1>1 DEF NextOperation
  <2> DEFINE o == [owners[p] EXCEPT !.next[s] = @ + 1]
  <2>2. o \in OwnerRecord /\ Advanced(owners[p], o, s, 1)
    BY <1>a, RecordAdvances
  <2>3. owners' = [owners EXCEPT ![p] = o]
    BY <2>1, <1>a
  <2>4. 1 \in Nat
    OBVIOUS
  <2> HIDE DEF o
  <2> QED  BY <2>1, <2>2, <2>3, <2>4, ReserveIsSound
<1>2. CASE ReserveRun(p)
  <2>1. PICK s \in StreamName, count \in 1..MaxRun, result \in ReplaceResults :
            /\ Reserve(p, s, count, result)
            /\ owners' = [owners EXCEPT ![p].next[s] = @ + count,
                                        ![p].stuck = IF result = "ok" THEN @ ELSE @ \cup {s}]
    BY <1>2 DEF ReserveRun
  <2> DEFINE stuck == IF result = "ok" THEN owners[p].stuck ELSE owners[p].stuck \cup {s}
             o == [owners[p] EXCEPT !.next[s] = @ + count, !.stuck = stuck]
  <2>2. count \in Nat /\ stuck \in SUBSET StreamName /\ owners' = [owners EXCEPT ![p] = o]
    <3>1. count \in Nat /\ stuck \in SUBSET StreamName
      BY <1>a DEF OwnerRecord
    <3>2. owners' = [owners EXCEPT ![p] = o]
      BY <2>1
    <3> QED  BY <3>1, <3>2
  <2> HIDE DEF stuck
  <2>3. o \in OwnerRecord /\ Advanced(owners[p], o, s, count)
    BY <1>a, <2>2, RecordAdvances
  <2> HIDE DEF o
  <2> QED  BY <2>1, <2>2, <2>3, ReserveIsSound
<1> QED  BY <1>1, <1>2

\* fork_identity: the actor is new, and the counters with it.
LEMMA ForkIsSound ==
    ASSUME ReplicaInv, NEW p \in Process, ForkIdentity(p)
    PROVE  ReplicaInv'
<1>1. PICK result \in ReplaceResults :
          /\ IsOwner(p)
          /\ owners' = [owners EXCEPT ![p] = Forked(owners[p], result)]
          /\ device' = Persisted(owners'[p], result)
          /\ actors' = actors + 1 /\ handedOut' = handedOut
  BY DEF ForkIdentity
<1> DEFINE o == Forked(owners[p], result)
<1>2. owners \in [Process -> OwnerRecord] /\ owners[p] \in OwnerRecord /\ actors \in Nat
  BY DEF ReplicaInv, ReplicaTypeOK
<1>3. o \in OwnerRecord /\ o.actor = actors + 1
  BY <1>2, RecordForks
<1>4. \A i \in DOMAIN handedOut : Knows(o, i)
  BY <1>2, <1>3 DEF ReplicaInv, ReplicaTypeOK, IssuedOnce, Identity, Knows
<1>5. \A q \in Process \ {p} : ~IsOwner(q)
  BY <1>1 DEF ReplicaInv, OneOwner
<1>6. actors' \in Nat /\ actors' >= actors /\ o.actor <= actors'
  BY <1>1, <1>2, <1>3
<1> HIDE DEF o
<1>7. owners' = [owners EXCEPT ![p] = o] /\ device' = Persisted(o, result)
  BY <1>1, <1>2 DEF o
<1>8. device' \in Directory({StateFile}, State) /\ ImagesAreSound'
  BY <1>1, <1>3, <1>4, <1>6, <1>7, ImageStep
<1>9. /\ owners' \in [Process -> OwnerRecord]
      /\ handedOut' \in [DOMAIN handedOut' -> Nat] /\ DOMAIN handedOut' \subseteq Identity
      /\ OneOwner' /\ OwnersAreSound' /\ IssuedOnce'
  BY <1>1, <1>3, <1>4, <1>5, <1>6, <1>7, OwnerStep
<1> QED  BY <1>6, <1>8, <1>9 DEF ReplicaInv, ReplicaTypeOK

\* close, with or without a flush that succeeds: the owner it writes is sound.
LEMMA CloseIsSound ==
    ASSUME ReplicaInv, NEW p \in Process, Close(p)
    PROVE  ReplicaInv'
<1>1. PICK result \in ReplaceResults :
          device' = IF owners[p].failed THEN device ELSE Persisted(owners[p], result)
  BY DEF Close
<1>2. IsOwner(p) /\ owners' = [owners EXCEPT ![p] = Unopened] /\ UNCHANGED <<handedOut, actors>>
  BY DEF Close
<1>3. Unopened \in OwnerRecord /\ ~Unopened.open
  BY DEF Unopened, Owner, OwnerRecord, NewCounters, Counters
<1>4. owners[p] \in OwnerRecord /\ actors' \in Nat /\ actors' >= actors /\ Sound(owners[p])
  BY <1>2 DEF ReplicaInv, ReplicaTypeOK, OwnersAreSound
<1>5. owners[p].actor <= actors' /\ \A i \in DOMAIN handedOut : Knows(owners[p], i)
  BY <1>2, <1>4 DEF Sound
<1>6. /\ owners' \in [Process -> OwnerRecord]
      /\ handedOut' \in [DOMAIN handedOut' -> Nat] /\ DOMAIN handedOut' \subseteq Identity
      /\ OneOwner' /\ OwnersAreSound' /\ IssuedOnce'
  BY <1>2, <1>3, <1>4, OwnerStep
<1>7. device' \in Directory({StateFile}, State) /\ ImagesAreSound'
  <2>1. CASE owners[p].failed
    BY <2>1, <1>1, <1>2 DEF ReplicaInv, ReplicaTypeOK, ImagesAreSound, Sound, Knows
  <2>2. CASE ~owners[p].failed
    BY <2>2, <1>1, <1>2, <1>4, <1>5, ImageStep
  <2> QED  BY <2>1, <2>2
<1> QED  BY <1>4, <1>6, <1>7 DEF ReplicaInv, ReplicaTypeOK

\* A power failure leaves one of the images, and no owner.
LEMMA PowerFailureIsSound ==
    ASSUME ReplicaInv, PowerFailure
    PROVE  ReplicaInv'
<1>1. device' \in PowerLost(device) /\ owners' = [q \in Process |-> Unopened] /\ UNCHANGED <<handedOut, actors>>
  BY DEF PowerFailure
<1>2. Unopened \in OwnerRecord /\ ~Unopened.open
  BY DEF Unopened, Owner, OwnerRecord, NewCounters, Counters
<1>3. device' \in Directory({StateFile}, State) /\ device'.may \subseteq device.may
  BY <1>1, PowerLostImage DEF ReplicaInv, ReplicaTypeOK
<1>4. owners' \in [Process -> OwnerRecord] /\ \A q \in Process : ~IsOwner(q)'
  BY <1>1, <1>2 DEF IsOwner
<1>5. ReplicaTypeOK'
  BY <1>1, <1>3, <1>4 DEF ReplicaInv, ReplicaTypeOK
<1>6. OneOwner' /\ OwnersAreSound' /\ IssuedOnce'
  BY <1>1, <1>4 DEF ReplicaInv, OneOwner, OwnersAreSound, IssuedOnce
<1>7. ImagesAreSound'
  BY <1>1, <1>3 DEF ReplicaInv, ImagesAreSound, Sound, Knows
<1> QED  BY <1>5, <1>6, <1>7 DEF ReplicaInv

-----------------------------------------------------------------------------
(* Theorems *)

\* In every reachable state, at most one process owns the state, and its owner
\* and every image of the file are above all that was handed out.
THEOREM ReplicaInvariance == ReplicaSpec => []ReplicaInv
<1>1. ReplicaInit => ReplicaInv
  BY InitIsSound
<1>2. ReplicaInv /\ [ReplicaNext]_replicaVars => ReplicaInv'
  <2> SUFFICES ASSUME ReplicaInv, [ReplicaNext]_replicaVars
               PROVE  ReplicaInv'
    OBVIOUS
  <2>1. ASSUME NEW p \in Process,
               \/ OpenExisting(p) \/ OpenFirst(p) \/ AcquireWriter(p) \/ ReleaseWriter(p)
               \/ NextOperation(p) \/ ReserveRun(p) \/ Observe(p) \/ ForkIdentity(p) \/ Close(p)
        PROVE  ReplicaInv'
    BY <2>1, OpenExistingIsSound, OpenFirstIsSound, OwnerOnlyIsSound, ReservationsAreSound,
       ForkIsSound, CloseIsSound
  <2>2. CASE PowerFailure
    BY <2>2, PowerFailureIsSound
  <2>3. CASE UNCHANGED replicaVars
    BY <2>3 DEF replicaVars, ReplicaInv, ReplicaTypeOK, OneOwner, IssuedOnce, OwnersAreSound,
                ImagesAreSound, Sound, Knows, IsOwner
  <2> QED  BY <2>1, <2>2, <2>3 DEF ReplicaNext
<1> QED  BY <1>1, <1>2, PTL DEF ReplicaSpec

\* ReplicaState and ReplicaAllocator issue an identity at most once and never at
\* the counter's last value, and check_claim recognises every issued identity,
\* in whichever process owns the state now or reads it after a power failure.
THEOREM IssuesOnce == ReplicaSpec => []IdentityIssuedOnce
<1>1. ReplicaInv => IdentityIssuedOnce
  <2> SUFFICES ASSUME ReplicaInv, NEW i \in DOMAIN handedOut
               PROVE  /\ handedOut[i] = 1 /\ i.counter < Exhausted
                      /\ \A p \in Process : IsOwner(p) => CheckClaim(owners[p], i) # "corrupt_record"
                      /\ \A x \in device.may :
                            x[StateFile] # <<>> => CheckClaim(x[StateFile][1], i) # "corrupt_record"
    BY DEF IdentityIssuedOnce
  <2>1. handedOut[i] = 1 /\ i.counter < Exhausted /\ i \in Identity
    BY DEF ReplicaInv, ReplicaTypeOK, IssuedOnce
  <2>2. ASSUME NEW p \in Process, IsOwner(p)
        PROVE  CheckClaim(owners[p], i) # "corrupt_record"
    <3>1. owners[p].actor \in Nat /\ owners[p].next \in Counters /\ Knows(owners[p], i)
      BY <2>2 DEF ReplicaInv, ReplicaTypeOK, OwnerRecord, OwnersAreSound, Sound
    <3> QED  BY <3>1, <2>1, ClaimIsKnown
  <2>3. ASSUME NEW x \in device.may, x[StateFile] # <<>>
        PROVE  CheckClaim(x[StateFile][1], i) # "corrupt_record"
    <3>1. x[StateFile][1] \in State /\ Knows(x[StateFile][1], i)
      BY <2>3 DEF ReplicaInv, ReplicaTypeOK, Directory, Image, ImagesAreSound, Sound
    <3>2. x[StateFile][1].actor \in Nat /\ x[StateFile][1].next \in Counters
      BY <3>1 DEF State
    <3> QED  BY <3>1, <3>2, <2>1, ClaimIsKnown
  <2> QED  BY <2>1, <2>2, <2>3
<1> QED  BY <1>1, ReplicaInvariance, PTL

-----------------------------------------------------------------------------
(* Checkpoints *)

ManifestRecord ==
    [generation : Nat \ {0}, shareable : Shareable, local : {<<>>} \cup {<<l>> : l \in Local}]

\* What publish writes to a slot: the local core is bound to the shareable one.
InSlot(m, slot) ==
    /\ m \in ManifestRecord /\ m.generation % 2 = slot
    /\ m.local # <<>> => BindsTo(m.shareable, m.local[1])

SlotsOK(x) ==
    \A slot \in {0, 1} : x[<<"manifest", slot>>] # <<>> =>
        \E m : InSlot(m, slot) /\ x[<<"manifest", slot>>] = <<m>>

StoreFiles(d) ==
    d \in Directory(Names, {TRUE} \cup ManifestRecord) /\ \A x \in d.may : SlotsOK(x)

\* Image x has all that manifest m names.
HasNamed(x, m) == \A n \in Named(m) : x[n] # <<>>

\* In image x a manifest of generation g or a newer one has all it names, and
\* all manifests that new are of epoch e.
HoldsSince(x, g, e) ==
    /\ \E m \in Manifests(x) : m.generation >= g /\ m.shareable.context = e /\ HasNamed(x, m)
    /\ \A m \in Manifests(x) : m.generation >= g => m.shareable.context = e

Recoverable(d, g, e) == \A x \in d.may : HoldsSince(x, g, e)

StoreInv ==
    /\ StoreFiles(files)
    /\ engine \in 0..MaxOperations /\ epoch \in 1..MaxEpochs
    /\ exposed \in BOOLEAN /\ storeFaults \in 0..MaxStoreFaults
    /\ stored \in [generation : Nat, epoch : 0..MaxEpochs, version : 0..MaxOperations]
    /\ stored.epoch <= epoch
    /\ ~exposed /\ stored.epoch = epoch => Recoverable(files, stored.generation, epoch)

-----------------------------------------------------------------------------
(* Names and manifests *)

\* The name of an artifact is no slot's.
LEMMA ArtifactNames ==
    ASSUME NEW m, m.shareable \in Shareable, m.local \in {<<>>} \cup {<<l>> : l \in Local}
    PROVE  /\ Named(m) \subseteq Names
           /\ \A n \in Named(m), slot \in {0, 1} : n # <<"manifest", slot>>
           /\ Named(m) = {ArtifactPath("shareable", m.shareable)}
                         \cup (IF m.local = <<>> THEN {} ELSE {ArtifactPath("local", m.local[1])})
<1>1. CASE m.local = <<>>
  <2>1. ToSet(m.local) = {}
    BY <1>1 DEF ToSet
  <2>2. Named(m) = {ArtifactPath("shareable", m.shareable)}
    BY <2>1 DEF Named
  <2>3. ArtifactPath("shareable", m.shareable) \in Names
    BY DEF Names
  <2>4. \A slot \in {0, 1} : ArtifactPath("shareable", m.shareable) # <<"manifest", slot>>
    BY DEF ArtifactPath
  <2> QED  BY <1>1, <2>2, <2>3, <2>4
<1>2. ASSUME NEW l \in Local, m.local = <<l>>
      PROVE  /\ Named(m) \subseteq Names
             /\ \A n \in Named(m), slot \in {0, 1} : n # <<"manifest", slot>>
             /\ Named(m) = {ArtifactPath("shareable", m.shareable), ArtifactPath("local", m.local[1])}
             /\ m.local # <<>>
  <2>1. ToSet(m.local) = {l} /\ m.local[1] = l /\ m.local # <<>>
    BY <1>2 DEF ToSet
  <2>2. Named(m) = {ArtifactPath("shareable", m.shareable), ArtifactPath("local", l)}
    BY <2>1 DEF Named
  <2>3. ArtifactPath("shareable", m.shareable) \in Names /\ ArtifactPath("local", l) \in Names
    BY DEF Names
  <2>4. \A slot \in {0, 1} : /\ ArtifactPath("shareable", m.shareable) # <<"manifest", slot>>
                             /\ ArtifactPath("local", l) # <<"manifest", slot>>
    BY DEF ArtifactPath
  <2> QED  BY <2>1, <2>2, <2>3, <2>4
<1> QED  BY <1>1, <1>2

\* The manifests of an image are what its slots hold, each in the slot of its
\* generation.
LEMMA ManifestSlots ==
    ASSUME NEW x, SlotsOK(x), NEW m
    PROVE  m \in Manifests(x)
             <=> \E slot \in {0, 1} : InSlot(m, slot) /\ x[<<"manifest", slot>>] = <<m>>
<1>1. ASSUME m \in Manifests(x)
      PROVE  \E slot \in {0, 1} : InSlot(m, slot) /\ x[<<"manifest", slot>>] = <<m>>
  <2>1. PICK slot \in {0, 1} : x[<<"manifest", slot>>] # <<>> /\ m = x[<<"manifest", slot>>][1]
    BY <1>1 DEF Manifests
  <2>2. PICK c : InSlot(c, slot) /\ x[<<"manifest", slot>>] = <<c>>
    BY <2>1 DEF SlotsOK
  <2>3. <<c>>[1] = c
    OBVIOUS
  <2> QED  BY <2>1, <2>2, <2>3
<1>2. ASSUME NEW slot \in {0, 1}, x[<<"manifest", slot>>] = <<m>>
      PROVE  m \in Manifests(x)
  <2>1. <<m>>[1] = m /\ <<m>> # <<>>
    OBVIOUS
  <2> QED  BY <1>2, <2>1 DEF Manifests
<1> QED  BY <1>1, <1>2

\* So a manifest has its generation's slot.
LEMMA ManifestInItsSlot ==
    ASSUME NEW x, SlotsOK(x), NEW m \in Manifests(x)
    PROVE  /\ m \in ManifestRecord /\ m.generation \in Nat \ {0}
           /\ m.local # <<>> => BindsTo(m.shareable, m.local[1])
           /\ x[ManifestPath(m.generation)] = <<m>>
<1>1. PICK slot \in {0, 1} : InSlot(m, slot) /\ x[<<"manifest", slot>>] = <<m>>
  BY ManifestSlots
<1> QED  BY <1>1 DEF InSlot, ManifestPath, ManifestRecord

\* Latest is the greatest generation.
LEMMA LatestIsGreatest ==
    ASSUME NEW x, SlotsOK(x)
    PROVE  /\ Latest(x) \in Nat
           /\ \A m \in Manifests(x) : m.generation <= Latest(x)
           /\ Manifests(x) # {} => \E m \in Manifests(x) : m.generation = Latest(x)
<1> DEFINE in(slot) == IF x[<<"manifest", slot>>] = <<>> THEN 0 ELSE x[<<"manifest", slot>>][1].generation
           S == {0} \cup {m.generation : m \in Manifests(x)}
<1>1. \A slot \in {0, 1} : in(slot) \in Nat
  <2> TAKE slot \in {0, 1}
  <2>1. CASE x[<<"manifest", slot>>] # <<>>
    <3>1. PICK c : InSlot(c, slot) /\ x[<<"manifest", slot>>] = <<c>>
      BY <2>1 DEF SlotsOK
    <3>2. <<c>>[1] = c /\ <<c>> # <<>>
      OBVIOUS
    <3> QED  BY <3>1, <3>2 DEF InSlot, ManifestRecord
  <2> QED  BY <2>1
<1>2. S = {0, in(0), in(1)}
  BY DEF Manifests
<1> HIDE DEF in
<1>3. \E g \in S : \A h \in S : g >= h
  <2>1. in(0) >= in(1) \/ in(1) >= in(0)
    BY <1>1
  <2>2. \A h \in S : h = 0 \/ h = in(0) \/ h = in(1)
    BY <1>2
  <2>3. in(0) \in S /\ in(1) \in S /\ in(0) \in Nat /\ in(1) \in Nat
    BY <1>1, <1>2
  <2> HIDE DEF S
  <2>4. CASE in(0) >= in(1)
    <3>1. \A h \in S : in(0) >= h
      BY <2>2, <2>3, <2>4
    <3> QED  BY <2>3, <3>1
  <2>5. CASE in(1) >= in(0)
    <3>1. \A h \in S : in(1) >= h
      BY <2>2, <2>3, <2>5
    <3> QED  BY <2>3, <3>1
  <2> QED  BY <2>1, <2>4, <2>5
<1>4. Latest(x) \in S /\ \A h \in S : Latest(x) >= h
  BY <1>3 DEF Latest, Max
<1>5. S \subseteq Nat
  BY <1>1, <1>2
<1>6. \A m \in Manifests(x) : m.generation \in S /\ m.generation \in Nat \ {0}
  BY ManifestInItsSlot
<1>7. Latest(x) \in Nat /\ \A m \in Manifests(x) : m.generation <= Latest(x)
  BY <1>4, <1>5, <1>6
<1>8. ASSUME NEW m \in Manifests(x)
      PROVE  \E c \in Manifests(x) : c.generation = Latest(x)
  <2>1. Latest(x) # 0
    BY <1>7, <1>6
  <2> QED  BY <2>1, <1>4
<1> QED  BY <1>7, <1>8

-----------------------------------------------------------------------------
(* Storing artifacts *)

\* Image y has the slots of x, and nothing that x has is missing.
Onto(x, y) ==
    /\ \A slot \in {0, 1} : y[<<"manifest", slot>>] = x[<<"manifest", slot>>]
    /\ \A n \in Names : x[n] # <<>> => y[n] # <<>>

\* Only artifacts were stored between directories d and c.
Grows(d, c) == Onto(d.now, c.now) /\ \A y \in c.may : \E x \in d.may : Onto(x, y)

\* Two images with the same slots have the same manifests.
LEMMA OntoManifests ==
    ASSUME NEW x, NEW y, Onto(x, y)
    PROVE  Manifests(y) = Manifests(x)
  BY DEF Onto, Manifests

\* What is recoverable stays so while artifacts are stored.
LEMMA GrowsHolds ==
    ASSUME NEW d, NEW c, Grows(d, c), StoreFiles(d), NEW g, NEW e, Recoverable(d, g, e)
    PROVE  Recoverable(c, g, e)
<1> SUFFICES ASSUME NEW y \in c.may PROVE HoldsSince(y, g, e)
  BY DEF Recoverable
<1>1. PICK x \in d.may : Onto(x, y)
  BY DEF Grows
<1>2. Manifests(y) = Manifests(x) /\ HoldsSince(x, g, e) /\ SlotsOK(x)
  BY <1>1, OntoManifests DEF Recoverable, StoreFiles
<1>3. ASSUME NEW m \in Manifests(x), HasNamed(x, m) PROVE HasNamed(y, m)
  <2>1. m \in ManifestRecord
    BY <1>2, ManifestInItsSlot
  <2>2. Named(m) \subseteq Names
    BY <2>1, ArtifactNames DEF ManifestRecord
  <2> QED  BY <1>1, <1>3, <2>2 DEF HasNamed, Onto
<1> QED  BY <1>2, <1>3 DEF HoldsSince

\* Storing more and more is storing.
LEMMA GrowsOn ==
    ASSUME NEW d, NEW c, NEW b, Grows(d, c), Grows(c, b)
    PROVE  Grows(d, b)
<1>1. \A x, y, z : Onto(x, y) /\ Onto(y, z) => Onto(x, z)
  BY DEF Onto
<1> QED  BY <1>1 DEF Grows

\* Replacing an artifact only stores.
LEMMA ArtifactStored ==
    ASSUME NEW d, StoreFiles(d), NEW n \in Names,
           \A slot \in {0, 1} : n # <<"manifest", slot>>,
           NEW result \in ReplaceResults
    PROVE  LET c == Replace(d, n, TRUE, result)
           IN /\ StoreFiles(c) /\ Grows(d, c)
              /\ result = "ok" => c.now[n] # <<>> /\ c.may = {c.now}
<1> DEFINE C == {TRUE} \cup ManifestRecord
           c == Replace(d, n, TRUE, result)
           new(x) == [x EXCEPT ![n] = <<TRUE>>]
<1>1. d \in Directory(Names, C) /\ TRUE \in C
  BY DEF StoreFiles
<1>2. c \in Directory(Names, C)
  BY <1>1, ReplaceKeepsDirectory
<1>3. d.now \in d.may /\ d.now \in Image(Names, C) /\ d.may \subseteq Image(Names, C)
  BY <1>1 DEF Directory
<1>4. ASSUME NEW x \in Image(Names, C) PROVE Onto(x, new(x)) /\ new(x)[n] # <<>>
  <2>1. x \in [Names -> {<<>>} \cup {<<k>> : k \in C}]
    BY DEF Image
  <2>2. <<"manifest", 0>> \in Names /\ <<"manifest", 1>> \in Names /\ <<TRUE>> # <<>>
    BY DEF Names
  <2> QED  BY <2>1, <2>2 DEF Onto
<1>5. Onto(d.now, d.now) /\ \A x \in d.may : Onto(x, x)
  BY DEF Onto
<1>6. /\ c.now = d.now \/ c.now = new(d.now)
      /\ \A y \in c.may : y \in d.may \/ \E x \in d.may : y = new(x)
      /\ result = "ok" => c.now = new(d.now) /\ c.may = {c.now}
  <2>1. CASE result = "ok"
    <3>1. c = [now |-> new(d.now), may |-> {new(d.now)}]
      BY <2>1 DEF Replace
    <3> HIDE DEF c
    <3> QED  BY <3>1, <1>3
  <2>2. CASE result = "io_error"
    <3>1. c = d
      BY <2>2 DEF Replace
    <3> HIDE DEF c
    <3> QED  BY <3>1, <2>2
  <2>3. CASE result = "commit_uncertain"
    <3>1. c = [now |-> new(d.now), may |-> d.may \cup {new(x) : x \in d.may}]
      BY <2>3 DEF Replace
    <3> HIDE DEF c
    <3> QED  BY <3>1, <2>3
  <2> QED  BY <2>1, <2>2, <2>3 DEF ReplaceResults
<1> HIDE DEF c, new
<1>7. Grows(d, c)
  <2>1. Onto(d.now, c.now)
    BY <1>3, <1>4, <1>5, <1>6
  <2>2. \A x \in d.may : Onto(x, x) /\ Onto(x, new(x))
    BY <1>3, <1>4, <1>5
  <2>3. ASSUME NEW y \in c.may PROVE \E x \in d.may : Onto(x, y)
    BY <1>6, <2>2
  <2> QED  BY <2>1, <2>3 DEF Grows
<1>8. ASSUME NEW y \in c.may PROVE SlotsOK(y)
  <2>1. PICK x \in d.may : Onto(x, y)
    BY <1>7 DEF Grows
  <2> QED  BY <2>1 DEF Onto, SlotsOK, StoreFiles
<1> QED  BY <1>2, <1>3, <1>4, <1>6, <1>7, <1>8 DEF StoreFiles, c

Running(run) == run = [files |-> run.files, io |-> run.io, code |-> run.code]

\* What a step of a publication that stores artifact n may do to it.
StoresOnly(run, after, n) ==
    /\ Running(run) => Running(after)
    /\ StoreFiles(after.files) /\ Grows(run.files, after.files)
    /\ after.code = "ok" =>
          /\ run.code = "ok" /\ after.files.now[n] # <<>>
          /\ after.files = run.files \/ after.files.may = {after.files.now}

\* store_immutable does no more, wherever the publication failed before.
LEMMA StoreImmutableStores ==
    ASSUME NEW run, StoreFiles(run.files), NEW n \in Names,
           \A slot \in {0, 1} : n # <<"manifest", slot>>,
           NEW at, NEW result \in ReplaceResults
    PROVE  StoresOnly(run, StoreImmutable(run, n, at, result), n)
<1> DEFINE after == StoreImmutable(run, n, at, result)
           end == Ends(run, at, result)
           c == Replace(run.files, n, TRUE, end)
<1>1. Grows(run.files, run.files)
  BY DEF Grows, Onto
<1>2. CASE run.files.now[n] # <<>>
  <2>1. after = run
    BY <1>2 DEF StoreImmutable
  <2> QED  BY <1>1, <1>2, <2>1 DEF StoresOnly
<1>3. CASE run.files.now[n] = <<>> /\ run.code # "ok"
  <2>1. after = run
    BY <1>3 DEF StoreImmutable, Replacing
  <2> QED  BY <1>1, <1>3, <2>1 DEF StoresOnly
<1>4. CASE run.files.now[n] = <<>> /\ run.code = "ok"
  <2>1. after = [files |-> c, io |-> run.io + 1, code |-> end]
    BY <1>4 DEF StoreImmutable, Replacing
  <2>2. end \in ReplaceResults
    BY DEF Ends, ReplaceResults
  <2> HIDE DEF end
  <2>3. StoreFiles(c) /\ Grows(run.files, c) /\ (end = "ok" => c.now[n] # <<>> /\ c.may = {c.now})
    BY <2>2, ArtifactStored
  <2> HIDE DEF c, after
  <2>4. after.files = c /\ after.code = end /\ Running(after)
    BY <2>1 DEF Running
  <2>5. StoresOnly(run, after, n)
    BY <1>4, <2>3, <2>4 DEF StoresOnly
  <2> QED  BY <2>5 DEF after
<1> QED  BY <1>2, <1>3, <1>4

\* Both artifacts of a publication; once it goes on to the manifest, all that it
\* names is there, and was there before or nothing is in doubt.
LEMMA ArtifactsStored ==
    ASSUME StoreFiles(files), NEW s \in Shareable, NEW l \in {<<>>} \cup {<<x>> : x \in Local},
           NEW at, NEW result \in ReplaceResults
    PROVE  LET shared == StoreImmutable(Begun(files), ArtifactPath("shareable", s), at, result)
               both == IF l = <<>> THEN shared
                       ELSE StoreImmutable(shared, ArtifactPath("local", l[1]), at, result)
           IN /\ StoreFiles(both.files) /\ Grows(files, both.files) /\ Running(both)
              /\ both.code = "ok" =>
                    /\ \A n \in Named([shareable |-> s, local |-> l]) : both.files.now[n] # <<>>
                    /\ both.files = files \/ both.files.may = {both.files.now}
<1> DEFINE m == [shareable |-> s, local |-> l]
           a == ArtifactPath("shareable", s)
           b == ArtifactPath("local", l[1])
           shared == StoreImmutable(Begun(files), a, at, result)
           both == IF l = <<>> THEN shared ELSE StoreImmutable(shared, b, at, result)
<1>1. m.shareable = s /\ m.local = l
  OBVIOUS
<1>2. /\ Named(m) \subseteq Names
      /\ \A n \in Named(m), slot \in {0, 1} : n # <<"manifest", slot>>
      /\ Named(m) = {a} \cup (IF l = <<>> THEN {} ELSE {b})
  <2> HIDE DEF m
  <2> QED  BY <1>1, ArtifactNames
<1>3. Begun(files).files = files /\ Begun(files).code = "ok" /\ Running(Begun(files))
  BY DEF Begun, Running
<1> HIDE DEF m, a, b
<1>4. StoresOnly(Begun(files), shared, a)
  BY <1>2, <1>3, StoreImmutableStores
<1>5. CASE l = <<>>
  <2>1. both = shared
    BY <1>5
  <2>2. Named(m) = {a}
    BY <1>2, <1>5
  <2> HIDE DEF both, shared
  <2> QED  BY <1>3, <1>4, <2>1, <2>2 DEF StoresOnly, both, shared, a, b, m
<1>6. CASE l # <<>>
  <2> DEFINE after == StoreImmutable(shared, b, at, result)
  <2>1. both = after
    BY <1>6
  <2>2. Named(m) = {a, b} /\ a \in Names
    BY <1>2, <1>6
  <2> HIDE DEF both, shared
  <2>3. StoreFiles(shared.files)
    BY <1>4 DEF StoresOnly
  <2>4. StoresOnly(shared, after, b)
    BY <1>2, <2>2, <2>3, StoreImmutableStores
  <2> HIDE DEF after
  <2>5. StoreFiles(both.files) /\ Grows(files, both.files) /\ Running(both)
    BY <1>3, <1>4, <2>1, <2>4, GrowsOn DEF StoresOnly
  <2>6. ASSUME both.code = "ok"
        PROVE  /\ \A n \in Named(m) : both.files.now[n] # <<>>
               /\ both.files = files \/ both.files.may = {both.files.now}
    <3>1. /\ shared.code = "ok" /\ both.files.now[b] # <<>>
          /\ both.files = shared.files \/ both.files.may = {both.files.now}
          /\ Onto(shared.files.now, both.files.now)
      BY <2>1, <2>4, <2>6 DEF StoresOnly, Grows
    <3>2. /\ shared.files.now[a] # <<>>
          /\ shared.files = files \/ shared.files.may = {shared.files.now}
      BY <1>3, <1>4, <3>1 DEF StoresOnly
    <3>3. both.files.now[a] # <<>>
      BY <2>2, <3>1, <3>2 DEF Onto
    <3>4. both.files = files \/ both.files.may = {both.files.now}
      BY <3>1, <3>2
    <3> QED  BY <2>2, <3>1, <3>3, <3>4
  <2> QED  BY <2>5, <2>6 DEF both, shared, a, b, m
<1> QED  BY <1>5, <1>6

-----------------------------------------------------------------------------
(* Replacing a manifest *)

\* A well-formed manifest, in whatever slot.
Written(m) == m.generation \in Nat \ {0} /\ InSlot(m, m.generation % 2)

Placed(x, m) == [x EXCEPT ![ManifestPath(m.generation)] = <<m>>]

\* Image x with manifest m: m is in its slot, the other slot and the artifacts
\* are as they were.
LEMMA ManifestPlaced ==
    ASSUME NEW x \in Image(Names, {TRUE} \cup ManifestRecord), SlotsOK(x), NEW m, Written(m)
    PROVE  /\ SlotsOK(Placed(x, m)) /\ m \in Manifests(Placed(x, m))
           /\ \A k \in Manifests(Placed(x, m)) : k = m \/ k \in Manifests(x)
           /\ \A k \in Manifests(x) :
                 k.generation % 2 # m.generation % 2 => k \in Manifests(Placed(x, m))
           /\ \A k \in ManifestRecord : HasNamed(Placed(x, m), k) <=> HasNamed(x, k)
<1> DEFINE p == m.generation % 2
           y == Placed(x, m)
<1>1. p \in {0, 1} /\ ManifestPath(m.generation) = <<"manifest", p>> /\ InSlot(m, p)
  BY DEF Written, ManifestPath
<1>2. <<"manifest", p>> \in Names
  BY <1>1 DEF Names
<1>3. x \in [Names -> {<<>>} \cup {<<c>> : c \in {TRUE} \cup ManifestRecord}]
  BY DEF Image
<1>4. y[<<"manifest", p>>] = <<m>> /\ \A n \in Names : n # <<"manifest", p>> => y[n] = x[n]
  BY <1>1, <1>2, <1>3 DEF Placed
<1>5. \A slot \in {0, 1} : <<"manifest", slot>> \in Names /\ (slot # p => <<"manifest", slot>> # <<"manifest", p>>)
  BY DEF Names
<1> HIDE DEF y, p
<1>6. \A slot \in {0, 1} : slot # p => y[<<"manifest", slot>>] = x[<<"manifest", slot>>]
  BY <1>4, <1>5
<1>7. SlotsOK(y)
  BY <1>1, <1>4, <1>6 DEF SlotsOK
<1>8. m \in Manifests(y)
  BY <1>1, <1>4, <1>7, ManifestSlots
<1>9. ASSUME NEW k \in Manifests(y) PROVE k = m \/ k \in Manifests(x)
  <2>1. PICK slot \in {0, 1} : InSlot(k, slot) /\ y[<<"manifest", slot>>] = <<k>>
    BY <1>7, ManifestSlots
  <2>2. CASE slot = p
    <3>1. <<k>> = <<m>>
      BY <1>4, <2>1, <2>2
    <3> QED  BY <3>1
  <2>3. CASE slot # p
    BY <1>6, <2>1, <2>3, ManifestSlots
  <2> QED  BY <2>2, <2>3
<1>10. ASSUME NEW k \in Manifests(x), k.generation % 2 # p PROVE k \in Manifests(y)
  <2>1. PICK slot \in {0, 1} : InSlot(k, slot) /\ x[<<"manifest", slot>>] = <<k>>
    BY ManifestSlots
  <2>2. slot # p
    BY <1>10, <2>1 DEF InSlot
  <2> QED  BY <1>6, <1>7, <2>1, <2>2, ManifestSlots
<1>11. ASSUME NEW k \in ManifestRecord PROVE HasNamed(y, k) <=> HasNamed(x, k)
  <2>1. k.shareable \in Shareable /\ k.local \in {<<>>} \cup {<<l>> : l \in Local}
    BY DEF ManifestRecord
  <2>2. Named(k) \subseteq Names /\ \A n \in Named(k), slot \in {0, 1} : n # <<"manifest", slot>>
    BY <2>1, ArtifactNames
  <2>3. \A n \in Named(k) : y[n] = x[n]
    BY <1>1, <1>4, <2>2
  <2> QED  BY <2>3 DEF HasNamed
<1> QED  BY <1>7, <1>8, <1>9, <1>10, <1>11 DEF y, p

\* Replacing a manifest keeps the store's files well formed.
LEMMA ManifestReplaced ==
    ASSUME NEW d, StoreFiles(d), NEW m, Written(m), NEW result \in ReplaceResults
    PROVE  LET c == Replace(d, ManifestPath(m.generation), m, result)
           IN /\ StoreFiles(c)
              /\ result = "ok" => c = [now |-> Placed(d.now, m), may |-> {Placed(d.now, m)}]
              /\ result = "io_error" => c = d
              /\ result = "commit_uncertain" =>
                   c = [now |-> Placed(d.now, m), may |-> d.may \cup {Placed(x, m) : x \in d.may}]
<1> DEFINE C == {TRUE} \cup ManifestRecord
           n == ManifestPath(m.generation)
           c == Replace(d, n, m, result)
<1>1. d \in Directory(Names, C) /\ m \in C
  BY DEF StoreFiles, Written, InSlot
<1>2. n \in Names
  BY DEF Names, ManifestPath, Written
<1>3. c \in Directory(Names, C)
  BY <1>1, <1>2, ReplaceKeepsDirectory
<1>4. d.now \in d.may /\ d.may \subseteq Image(Names, C) /\ \A x \in d.may : SlotsOK(x)
  BY <1>1 DEF Directory, StoreFiles
<1>5. /\ result = "ok" => c = [now |-> Placed(d.now, m), may |-> {Placed(d.now, m)}]
      /\ result = "io_error" => c = d
      /\ result = "commit_uncertain" =>
           c = [now |-> Placed(d.now, m), may |-> d.may \cup {Placed(x, m) : x \in d.may}]
  BY DEF Replace, Placed
<1> HIDE DEF c, n
<1>6. ASSUME NEW y \in c.may PROVE SlotsOK(y)
  <2>1. y \in d.may \/ \E x \in d.may : y = Placed(x, m)
    <3>1. CASE result = "ok"
      BY <1>4, <1>5, <3>1
    <3>2. CASE result = "io_error"
      BY <1>5, <3>2
    <3>3. CASE result = "commit_uncertain"
      BY <1>5, <3>3
    <3> QED  BY <3>1, <3>2, <3>3 DEF ReplaceResults
  <2> QED  BY <2>1, <1>4, ManifestPlaced
<1> QED  BY <1>3, <1>5, <1>6 DEF StoreFiles, c, n

\* Confirmed: the new manifest, complete, is the only one of its generation or
\* a newer one.
LEMMA ConfirmedIsRecoverable ==
    ASSUME NEW d, StoreFiles(d), NEW m, Written(m), m.generation = Latest(d.now) + 1,
           HasNamed(d.now, m)
    PROVE  /\ HoldsSince(Placed(d.now, m), m.generation, m.shareable.context)
           /\ Latest(Placed(d.now, m)) = m.generation
<1> DEFINE x == d.now
           y == Placed(d.now, m)
<1>1. x \in Image(Names, {TRUE} \cup ManifestRecord) /\ SlotsOK(x)
  BY DEF StoreFiles, Directory
<1>2. /\ SlotsOK(y) /\ m \in Manifests(y)
      /\ \A k \in Manifests(y) : k = m \/ k \in Manifests(x)
      /\ \A k \in ManifestRecord : HasNamed(y, k) <=> HasNamed(x, k)
  BY <1>1, ManifestPlaced
<1>3. m \in ManifestRecord /\ m.generation \in Nat
  BY DEF Written, InSlot
<1>4. HasNamed(y, m)
  BY <1>2, <1>3
<1>5. Latest(x) \in Nat /\ \A k \in Manifests(x) : k.generation <= Latest(x) /\ k.generation \in Nat
  BY <1>1, LatestIsGreatest, ManifestInItsSlot
<1>6. Latest(y) \in Nat /\ \A k \in Manifests(y) : k.generation <= Latest(y)
  BY <1>2, LatestIsGreatest
<1>7. \E k \in Manifests(y) : k.generation = Latest(y)
  BY <1>2, LatestIsGreatest
<1> HIDE DEF x, y
<1>8. \A k \in Manifests(y) : k.generation >= m.generation => k = m
  <2> SUFFICES ASSUME NEW k \in Manifests(y), k # m PROVE ~(k.generation >= m.generation)
    OBVIOUS
  <2>1. k.generation <= Latest(x) /\ k.generation \in Nat
    BY <1>2, <1>5
  <2>2. m.generation = Latest(x) + 1
    BY DEF x
  <2> QED  BY <1>5, <2>1, <2>2
<1>9. HoldsSince(y, m.generation, m.shareable.context)
  BY <1>2, <1>3, <1>4, <1>8 DEF HoldsSince
<1>10. m.generation <= Latest(y)
  BY <1>2, <1>6
<1>11. Latest(y) = m.generation
  BY <1>3, <1>6, <1>7, <1>8, <1>10
<1> QED  BY <1>9, <1>11 DEF y, x

\* The newest manifest is new enough, and of the epoch.
LEMMA LatestIsCurrent ==
    ASSUME NEW x, SlotsOK(x), NEW g \in Nat, NEW e, HoldsSince(x, g, e)
    PROVE  /\ Latest(x) >= g
           /\ \E k \in Manifests(x) : k.generation = Latest(x) /\ k.shareable.context = e
<1>1. PICK c \in Manifests(x) : c.generation >= g
  BY DEF HoldsSince
<1>2. Latest(x) \in Nat /\ c.generation <= Latest(x) /\ c.generation \in Nat
  BY LatestIsGreatest, ManifestInItsSlot
<1>3. Latest(x) >= g
  BY <1>1, <1>2
<1>4. PICK k \in Manifests(x) : k.generation = Latest(x)
  BY <1>1, LatestIsGreatest
<1> QED  BY <1>3, <1>4 DEF HoldsSince

\* A rename in doubt: with its artifacts in every image the new manifest does;
\* otherwise the newest old one, safe and in the other slot, still does.
LEMMA UncertainIsRecoverable ==
    ASSUME NEW d, StoreFiles(d), NEW m, Written(m), m.generation = Latest(d.now) + 1,
           NEW g \in Nat, NEW e, Recoverable(d, g, e), m.shareable.context = e,
           \/ \A x \in d.may : HasNamed(x, m)
           \/ \A k \in Manifests(d.now) : k.generation = Latest(d.now) => SafeManifest(d, k),
           NEW x \in d.may
    PROVE  HoldsSince(Placed(x, m), g, e)
<1> DEFINE y == Placed(x, m)
<1>1. /\ x \in Image(Names, {TRUE} \cup ManifestRecord) /\ SlotsOK(x)
      /\ d.now \in d.may /\ SlotsOK(d.now)
  BY DEF StoreFiles, Directory
<1>2. /\ SlotsOK(y) /\ m \in Manifests(y)
      /\ \A k \in Manifests(y) : k = m \/ k \in Manifests(x)
      /\ \A k \in Manifests(x) : k.generation % 2 # m.generation % 2 => k \in Manifests(y)
      /\ \A k \in ManifestRecord : HasNamed(y, k) <=> HasNamed(x, k)
  BY <1>1, ManifestPlaced
<1> HIDE DEF y
<1>3. m \in ManifestRecord /\ m.generation \in Nat
  BY DEF Written, InSlot
<1>4. HoldsSince(x, g, e) /\ HoldsSince(d.now, g, e)
  BY <1>1 DEF Recoverable
<1>5. \A k \in Manifests(y) : k.generation >= g => k.shareable.context = e
  BY <1>2, <1>4 DEF HoldsSince
<1>6. Latest(d.now) >= g /\ Latest(d.now) \in Nat
  BY <1>1, <1>4, LatestIsCurrent, LatestIsGreatest
<1>7. PICK k \in Manifests(d.now) : k.generation = Latest(d.now) /\ k.shareable.context = e
  BY <1>1, <1>4, LatestIsCurrent
<1>8. m.generation >= g
  BY <1>6
<1>9. CASE HasNamed(x, m)
  <2>1. HasNamed(y, m)
    BY <1>2, <1>3, <1>9
  <2> QED  BY <1>2, <1>5, <1>8, <2>1 DEF HoldsSince, y
<1>10. CASE SafeManifest(d, k)
  <2>1. k \in ManifestRecord /\ d.now[ManifestPath(k.generation)] = <<k>>
    BY <1>1, ManifestInItsSlot
  <2>2. x[ManifestPath(k.generation)] = <<k>>
    BY <1>10, <2>1 DEF SafeManifest, IsDurable
  <2>3. HasNamed(x, k)
    BY <1>10 DEF SafeManifest, IsDurable, HasNamed
  <2>4. k \in Manifests(x)
    <3>1. PICK slot \in {0, 1} : InSlot(k, slot)
      BY <1>1, ManifestSlots
    <3>2. x[<<"manifest", slot>>] = <<k>>
      BY <2>2, <3>1 DEF InSlot, ManifestPath
    <3> QED  BY <1>1, <3>1, <3>2, ManifestSlots
  <2>5. k.generation % 2 # m.generation % 2
    <3>1. \A i \in Nat : i % 2 # (i + 1) % 2
      OBVIOUS
    <3> QED  BY <1>6, <1>7, <3>1
  <2>6. k \in Manifests(y) /\ HasNamed(y, k)
    BY <1>2, <2>1, <2>3, <2>4, <2>5
  <2> QED  BY <1>5, <1>6, <1>7, <2>6 DEF HoldsSince, y
<1> QED  BY <1>7, <1>9, <1>10

-----------------------------------------------------------------------------
(* A publication *)

\* What publish does, in full or stopped by a failure: reported, the store holds
\* the new manifest; else what was recoverable still is, unless the publication
\* exposed the store.
LEMMA PublishedRecoverable ==
    ASSUME StoreFiles(files), NEW s \in Shareable, NEW l \in {<<>>} \cup {<<x>> : x \in Local},
           l # <<>> => BindsTo(s, l[1]), NEW at, NEW result \in ReplaceResults
    PROVE  LET run == Published(s, l, at, result)
           IN /\ StoreFiles(run.files) /\ Latest(run.files.now) \in Nat
              /\ run.code = "ok" => Recoverable(run.files, Latest(run.files.now), s.context)
              /\ \A g \in Nat :
                    run.code # "ok" /\ ~Exposes(run, s, l) /\ Recoverable(files, g, s.context)
                      => Recoverable(run.files, g, s.context)
<1> DEFINE shared == StoreImmutable(Begun(files), ArtifactPath("shareable", s), at, result)
           both == IF l = <<>> THEN shared
                   ELSE StoreImmutable(shared, ArtifactPath("local", l[1]), at, result)
           m == NextManifest(both, s, l)
           named == [shareable |-> s, local |-> l]
           end == Ends(both, at, result)
           c == Replace(both.files, ManifestPath(m.generation), m, end)
           run == Published(s, l, at, result)
<1>1. /\ StoreFiles(both.files) /\ Grows(files, both.files) /\ Running(both)
      /\ both.code = "ok" => /\ \A n \in Named(named) : both.files.now[n] # <<>>
                             /\ both.files = files \/ both.files.may = {both.files.now}
  BY ArtifactsStored
<1>2. run = IF both.code = "ok" /\ m.generation > LastGeneration
            THEN [both EXCEPT !.code = "counter_exhausted"]
            ELSE IF both.code # "ok" THEN both
            ELSE [files |-> c, io |-> both.io + 1, code |-> end]
  BY DEF Published, Replacing
<1> HIDE DEF shared, both
<1>3. end \in ReplaceResults
  BY DEF Ends, ReplaceResults
<1>4. both.files.now \in both.files.may /\ SlotsOK(both.files.now)
  BY <1>1 DEF StoreFiles, Directory
<1>5. /\ m.generation = Latest(both.files.now) + 1 /\ m.shareable = s /\ m.local = l
      /\ Latest(both.files.now) \in Nat
  BY <1>4, LatestIsGreatest DEF NextManifest
<1>6. Written(m)
  <2>1. m = [generation |-> m.generation, shareable |-> s, local |-> l]
    BY DEF NextManifest
  <2>2. m.generation \in Nat \ {0}
    BY <1>5
  <2> HIDE DEF m
  <2>3. m \in ManifestRecord
    BY <2>1, <2>2 DEF ManifestRecord
  <2> QED  BY <1>5, <2>2, <2>3 DEF Written, InSlot
<1>7. Named(m) = Named(named)
  BY <1>5 DEF Named
<1>8. /\ StoreFiles(c)
      /\ end = "ok" => c = [now |-> Placed(both.files.now, m), may |-> {Placed(both.files.now, m)}]
      /\ end = "io_error" => c = both.files
      /\ end = "commit_uncertain" =>
           c = [now |-> Placed(both.files.now, m),
                may |-> both.files.may \cup {Placed(x, m) : x \in both.files.may}]
  <2> HIDE DEF end, m
  <2> QED  BY <1>1, <1>3, <1>6, ManifestReplaced
<1> HIDE DEF m, end, c, run
\* Stopped before the manifest: only artifacts were stored.
<1>9. ASSUME run.files = both.files
      PROVE  /\ StoreFiles(run.files) /\ Latest(run.files.now) \in Nat
             /\ \A g \in Nat : Recoverable(files, g, s.context) => Recoverable(run.files, g, s.context)
  BY <1>1, <1>5, <1>9, GrowsHolds
<1>10. CASE both.code # "ok" \/ m.generation > LastGeneration
  <2>1. run.files = both.files /\ run.code # "ok"
    BY <1>1, <1>2, <1>10 DEF Running
  <2> QED  BY <1>9, <2>1 DEF run
<1>11. CASE both.code = "ok" /\ ~(m.generation > LastGeneration)
  <2>1. run.files = c /\ run.code = end
    BY <1>2, <1>11
  <2>2. HasNamed(both.files.now, m)
    BY <1>1, <1>7, <1>11 DEF HasNamed
  <2>3. /\ HoldsSince(Placed(both.files.now, m), m.generation, s.context)
        /\ Latest(Placed(both.files.now, m)) = m.generation
    BY <1>1, <1>5, <1>6, <2>2, ConfirmedIsRecoverable
  <2>4. CASE end = "ok"
    <3>1. run.files.now = Placed(both.files.now, m) /\ run.files.may = {Placed(both.files.now, m)}
      BY <1>8, <2>1, <2>4
    <3>2. Recoverable(run.files, m.generation, s.context)
      BY <2>3, <3>1 DEF Recoverable
    <3> QED  BY <1>6, <1>8, <2>1, <2>3, <2>4, <3>1, <3>2 DEF Written, run
  <2>5. CASE end = "io_error"
    <3>1. run.files = both.files /\ run.code # "ok"
      BY <1>8, <2>1, <2>5
    <3> QED  BY <1>9, <3>1 DEF run
  <2>6. CASE end = "commit_uncertain"
    <3>1. /\ run.files.now = Placed(both.files.now, m) /\ run.code # "ok"
          /\ run.files.may = both.files.may \cup {Placed(x, m) : x \in both.files.may}
      BY <1>8, <2>1, <2>6
    <3>2. Latest(run.files.now) = m.generation /\ m.generation \in Nat
      BY <1>6, <2>3, <3>1 DEF Written
    <3>3. ASSUME NEW g \in Nat, ~Exposes(run, s, l), Recoverable(files, g, s.context)
          PROVE  Recoverable(run.files, g, s.context)
      <4>1. Recoverable(both.files, g, s.context)
        BY <1>1, <3>3, GrowsHolds
      <4>2. \/ \A x \in both.files.may : HasNamed(x, m)
            \/ \A k \in Manifests(both.files.now) :
                  k.generation = Latest(both.files.now) => SafeManifest(both.files, k)
        <5>1. CASE both.files.may = {both.files.now}
          BY <2>2, <5>1
        <5>2. CASE both.files = files
          <6>1. Latest(run.files.now) > Latest(files.now)
            BY <1>5, <3>2, <5>2
          <6>2. \/ \A n \in Named(m) : IsDurable(files, n)
                \/ \A k \in Manifests(files.now) :
                      k.generation = Latest(files.now) => SafeManifest(files, k)
            BY <1>7, <3>1, <3>3, <6>1 DEF Exposes
          <6>3. (\A n \in Named(m) : IsDurable(files, n)) => \A x \in both.files.may : HasNamed(x, m)
            BY <2>2, <5>2 DEF HasNamed, IsDurable
          <6> QED  BY <5>2, <6>2, <6>3
        <5> QED  BY <1>1, <1>11, <5>1, <5>2
      <4>3. \A x \in both.files.may : HoldsSince(Placed(x, m), g, s.context)
        BY <1>1, <1>5, <1>6, <3>3, <4>1, <4>2, UncertainIsRecoverable
      <4> QED  BY <3>1, <4>1, <4>3 DEF Recoverable
    <3> QED  BY <1>8, <2>1, <3>1, <3>2, <3>3 DEF run
  <2> QED  BY <1>3, <2>4, <2>5, <2>6 DEF ReplaceResults
<1> QED  BY <1>10, <1>11

\* recover finds the manifest that holds, or a newer one that is complete too.
LEMMA RecoverFinds ==
    ASSUME NEW x, SlotsOK(x), NEW g \in Nat, NEW e, HoldsSince(x, g, e)
    PROVE  Recover(x, e).generation >= g
<1> DEFINE candidates == {m \in Manifests(x) : Complete(x, m, e)}
           Best(m) == m \in candidates /\ \A k \in candidates : k.generation <= m.generation
           best == CHOOSE m \in candidates : \A k \in candidates : k.generation <= m.generation
<1>1. PICK c \in Manifests(x) : c.generation >= g /\ c.shareable.context = e /\ HasNamed(x, c)
  BY DEF HoldsSince
<1>2. Complete(x, c, e)
  <2>1. /\ c \in ManifestRecord /\ (c.local # <<>> => BindsTo(c.shareable, c.local[1]))
    BY <1>1, ManifestInItsSlot
  <2>2. Named(c) = {ArtifactPath("shareable", c.shareable)}
                   \cup (IF c.local = <<>> THEN {} ELSE {ArtifactPath("local", c.local[1])})
    BY <2>1, ArtifactNames DEF ManifestRecord
  <2> QED  BY <1>1, <2>1, <2>2 DEF Complete, HasNamed
<1>3. \A m \in candidates : m.generation \in Nat \ {0} /\ x[ManifestPath(m.generation)] = <<m>>
  BY ManifestInItsSlot
<1>4. \A m \in candidates : ManifestPath(m.generation) \in {<<"manifest", 0>>, <<"manifest", 1>>}
  <2> TAKE m \in candidates
  <2> HIDE DEF candidates
  <2>1. m.generation % 2 = 0 \/ m.generation % 2 = 1
    BY <1>3
  <2> QED  BY <2>1 DEF ManifestPath
<1>5. c \in candidates
  BY <1>2
<1> HIDE DEF candidates
<1>6. \E m \in candidates : Best(m)
  <2>1. CASE \A k \in candidates : k.generation <= c.generation
    BY <1>5, <2>1
  <2>2. ASSUME NEW k \in candidates, ~(k.generation <= c.generation)
        PROVE  \E m \in candidates : Best(m)
    <3>1. c.generation < k.generation
      BY <1>3, <1>5, <2>2
    <3>2. ASSUME NEW h \in candidates PROVE h.generation <= k.generation
      <4>1. \/ ManifestPath(h.generation) = ManifestPath(c.generation)
            \/ ManifestPath(h.generation) = ManifestPath(k.generation)
            \/ ManifestPath(c.generation) = ManifestPath(k.generation)
        BY <1>4, <1>5
      <4>2. ~(ManifestPath(c.generation) = ManifestPath(k.generation))
        <5> SUFFICES ASSUME ManifestPath(c.generation) = ManifestPath(k.generation) PROVE FALSE
          OBVIOUS
        <5>1. <<c>> = <<k>>
          BY <1>3, <1>5
        <5>2. c = k
          BY <5>1
        <5> QED  BY <1>3, <1>5, <3>1, <5>2
      <4>3. h = c \/ h = k
        <5>1. <<h>> = <<c>> \/ <<h>> = <<k>>
          BY <1>3, <1>5, <4>1, <4>2
        <5> QED  BY <5>1
      <4> QED  BY <1>3, <1>5, <3>1, <4>3
    <3> QED  BY <3>2
  <2> QED  BY <2>1, <2>2
<1>7. best \in candidates /\ \A k \in candidates : k.generation <= best.generation
  BY <1>6
<1>8. Recover(x, e).generation = best.generation
  BY <1>5 DEF Recover, candidates
<1> HIDE DEF best
<1> QED  BY <1>1, <1>3, <1>5, <1>7, <1>8

-----------------------------------------------------------------------------
(* The invariant *)

\* A new store is empty and has published nothing.
LEMMA StoreStarts == StoreInit => StoreInv
<1> SUFFICES ASSUME StoreInit PROVE StoreInv
  OBVIOUS
<1>1. files \in Directory(Names, {TRUE} \cup ManifestRecord)
  BY NewDirectoryIsDirectory DEF StoreInit
<1>2. \A x \in files.may : x = [n \in Names |-> <<>>]
  BY NewDirectoryIsDirectory DEF StoreInit
<1>3. \A x \in files.may : SlotsOK(x)
  <2>1. \A slot \in {0, 1} : <<"manifest", slot>> \in Names
    BY DEF Names
  <2> QED  BY <1>2, <2>1 DEF SlotsOK
<1>4. MaxEpochs \in Nat \ {0} /\ MaxOperations \in Nat /\ MaxStoreFaults \in Nat
  BY CheckpointStoreAssumption
<1>5. stored \in [generation : Nat, epoch : 0..MaxEpochs, version : 0..MaxOperations] /\ stored.epoch = 0
  BY <1>4 DEF StoreInit, NothingStored
<1>6. engine \in 0..MaxOperations /\ epoch \in 1..MaxEpochs /\ epoch = 1
  BY <1>4 DEF StoreInit
<1>7. StoreFiles(files) /\ exposed \in BOOLEAN /\ storeFaults \in 0..MaxStoreFaults
  <2>1. StoreFiles(files)
    BY <1>1, <1>3 DEF StoreFiles
  <2>2. exposed = FALSE
    BY DEF StoreInit
  <2>3. exposed \in BOOLEAN
    BY <2>2
  <2>4. storeFaults \in 0..MaxStoreFaults
    BY <1>4 DEF StoreInit
  <2> QED  BY <2>1, <2>3, <2>4
<1>8. stored.epoch <= epoch /\ stored.epoch # epoch
  BY <1>5, <1>6
<1> QED  BY <1>5, <1>6, <1>7, <1>8 DEF StoreInv

\* A publication, reported or not.
LEMMA PublishKeepsInv ==
    ASSUME StoreInv, PublishCheckpoint
    PROVE  StoreInv'
<1> DEFINE s == [context |-> epoch, version |-> engine]
<1>1. PICK l \in Companions(s), at \in 1..3, result \in ReplaceResults :
        LET run == Published(s, l, at, result)
        IN /\ result # "ok" => at <= run.io /\ storeFaults < MaxStoreFaults
           /\ files' = run.files
           /\ stored' = IF run.code # "ok" THEN stored
                        ELSE [generation |-> Latest(run.files.now), epoch |-> epoch, version |-> engine]
           /\ exposed' = (run.code # "ok" /\ (exposed \/ Exposes(run, s, l)))
           /\ storeFaults' = IF result = "ok" THEN storeFaults ELSE storeFaults + 1
           /\ UNCHANGED <<engine, epoch>>
  BY DEF PublishCheckpoint
<1> DEFINE run == Published(s, l, at, result)
<1>2. s \in Shareable /\ s.context = epoch
  BY DEF Shareable, StoreInv
<1>3. l \in {<<>>} \cup {<<x>> : x \in Local} /\ (l # <<>> => BindsTo(s, l[1]))
  <2>1. l = <<>> \/ \E x \in Local : l = <<x>> /\ BindsTo(s, x)
    BY <1>1 DEF Companions
  <2>2. CASE l = <<>>
    BY <2>2
  <2>3. ASSUME NEW x \in Local, l = <<x>>, BindsTo(s, x)
        PROVE  l \in {<<>>} \cup {<<k>> : k \in Local} /\ BindsTo(s, l[1])
    <3>1. l[1] = x
      BY <2>3
    <3> QED  BY <2>3, <3>1
  <2> QED  BY <2>1, <2>2, <2>3
<1> HIDE DEF s
<1>4. /\ StoreFiles(run.files) /\ Latest(run.files.now) \in Nat
      /\ run.code = "ok" => Recoverable(run.files, Latest(run.files.now), s.context)
      /\ \A g \in Nat :
            run.code # "ok" /\ ~Exposes(run, s, l) /\ Recoverable(files, g, s.context)
              => Recoverable(run.files, g, s.context)
  BY <1>2, <1>3, PublishedRecoverable DEF StoreInv
<1>5. /\ files' = run.files /\ engine' = engine /\ epoch' = epoch
      /\ stored' = IF run.code # "ok" THEN stored
                   ELSE [generation |-> Latest(run.files.now), epoch |-> epoch, version |-> engine]
      /\ exposed' = (run.code # "ok" /\ (exposed \/ Exposes(run, s, l)))
  BY <1>1
<1>6. storeFaults' \in 0..MaxStoreFaults
  BY <1>1, CheckpointStoreAssumption DEF StoreInv
<1> HIDE DEF run
<1>7. exposed' \in BOOLEAN
  BY <1>5
<1>8. CASE run.code = "ok"
  <2>1. stored' = [generation |-> Latest(run.files.now), epoch |-> epoch, version |-> engine]
    BY <1>5, <1>8
  <2>2. epoch \in 0..MaxEpochs /\ engine \in 0..MaxOperations
    BY CheckpointStoreAssumption DEF StoreInv
  <2>3. stored' \in [generation : Nat, epoch : 0..MaxEpochs, version : 0..MaxOperations]
    BY <1>4, <2>1, <2>2
  <2>4. Recoverable(run.files, stored'.generation, epoch) /\ stored'.epoch <= epoch
    BY <1>2, <1>4, <1>8, <2>1, CheckpointStoreAssumption DEF StoreInv
  <2> QED  BY <1>4, <1>5, <1>6, <1>7, <2>3, <2>4 DEF StoreInv
<1>9. CASE run.code # "ok"
  <2>1. stored' = stored
    BY <1>5, <1>9
  <2>2. ~exposed' => ~exposed /\ ~Exposes(run, s, l)
    BY <1>5, <1>9
  <2>3. stored.generation \in Nat
    BY DEF StoreInv
  <2>4. ~exposed' /\ stored.epoch = epoch => Recoverable(run.files, stored.generation, epoch)
    BY <1>2, <1>4, <1>9, <2>2, <2>3 DEF StoreInv
  <2> QED  BY <1>4, <1>5, <1>6, <1>7, <2>1, <2>4 DEF StoreInv
<1> QED  BY <1>8, <1>9

\* A membership bundle, a confirmed directory and a power failure lose nothing
\* recoverable.
LEMMA FilesOnlyKeepInv ==
    ASSUME StoreInv, StoreFiles(files'), Grows(files, files'),
           UNCHANGED <<engine, epoch, stored, exposed>>, storeFaults' \in 0..MaxStoreFaults
    PROVE  StoreInv'
<1>1. ~exposed /\ stored.epoch = epoch => Recoverable(files', stored.generation, epoch)
  BY GrowsHolds DEF StoreInv
<1> QED  BY <1>1 DEF StoreInv

\* A membership bundle is an artifact no manifest names.
LEMMA BundleKeepsInv ==
    ASSUME StoreInv, PublishMembershipBundle
    PROVE  StoreInv'
<1>1. PICK e \in 1..epoch, result \in ReplaceResults :
        LET name == ArtifactPath("membership", e)
        IN /\ result # "ok" => storeFaults < MaxStoreFaults
           /\ files' = IF files.now[name] # <<>> THEN ResyncArtifact(result)
                       ELSE Replace(files, name, TRUE, result)
           /\ storeFaults' = IF result = "ok" THEN storeFaults ELSE storeFaults + 1
           /\ UNCHANGED <<engine, epoch, stored, exposed>>
  BY DEF PublishMembershipBundle
<1> DEFINE name == ArtifactPath("membership", e)
<1>2. e \in 1..MaxEpochs
  BY CheckpointStoreAssumption DEF StoreInv
<1>3. name \in Names /\ \A slot \in {0, 1} : name # <<"manifest", slot>>
  BY <1>2 DEF Names, ArtifactPath
<1>4. storeFaults' \in 0..MaxStoreFaults
  BY <1>1, CheckpointStoreAssumption DEF StoreInv
<1> HIDE DEF name
<1>5. StoreFiles(files)
  BY DEF StoreInv
<1>6. StoreFiles(Replace(files, name, TRUE, result)) /\ Grows(files, Replace(files, name, TRUE, result))
  BY <1>3, <1>5, ArtifactStored
<1>7. StoreFiles(ResyncArtifact(result)) /\ Grows(files, ResyncArtifact(result))
  <2>1. /\ files.now \in files.may
        /\ files \in [now : Image(Names, {TRUE} \cup ManifestRecord),
                      may : SUBSET Image(Names, {TRUE} \cup ManifestRecord)]
    BY <1>5 DEF StoreFiles, Directory
  <2>2. \A x : Onto(x, x)
    BY DEF Onto
  <2>3. CASE result = "ok"
    <3>1. ResyncArtifact(result) = [files EXCEPT !.may = {files.now}]
      BY <2>3 DEF ResyncArtifact, SyncDirectory
    <3>2. ResyncArtifact(result) = [now |-> files.now, may |-> {files.now}]
      BY <2>1, <3>1
    <3> QED  BY <1>5, <2>1, <2>2, <3>2 DEF StoreFiles, Directory, Grows
  <2>4. CASE result # "ok"
    BY <1>5, <2>2, <2>4 DEF ResyncArtifact, SyncDirectory, Grows
  <2> QED  BY <2>3, <2>4
<1>8. StoreFiles(files') /\ Grows(files, files')
  <2>1. files' = Replace(files, name, TRUE, result) \/ files' = ResyncArtifact(result)
    BY <1>1 DEF name
  <2> QED  BY <1>6, <1>7, <2>1
<1>9. UNCHANGED <<engine, epoch, stored, exposed>>
  BY <1>1
<1> QED  BY <1>4, <1>8, <1>9, FilesOnlyKeepInv

\* A power failure leaves one of the images.
LEMMA PowerKeepsInv ==
    ASSUME StoreInv, LosePower
    PROVE  StoreInv'
<1>1. /\ files \in Directory(Names, {TRUE} \cup ManifestRecord) /\ StoreFiles(files)
      /\ files' \in PowerLost(files)
  BY DEF StoreInv, StoreFiles, LosePower
<1>2. /\ files' \in Directory(Names, {TRUE} \cup ManifestRecord)
      /\ files'.may = {files'.now} /\ files'.now \in files.may
  BY <1>1, PowerLostImage
<1>3. StoreFiles(files')
  BY <1>1, <1>2 DEF StoreFiles
<1>4. ~exposed /\ stored.epoch = epoch => Recoverable(files', stored.generation, epoch)
  BY <1>2 DEF StoreInv, Recoverable
<1>5. storeFaults' \in 0..MaxStoreFaults /\ UNCHANGED <<engine, epoch, stored, exposed>>
  BY CheckpointStoreAssumption DEF StoreInv, LosePower
<1> QED  BY <1>3, <1>4, <1>5 DEF StoreInv

\* Every step keeps the invariant.
LEMMA StoreStep == StoreInv /\ [StoreNext]_storeVars => StoreInv'
<1> SUFFICES ASSUME StoreInv, [StoreNext]_storeVars PROVE StoreInv'
  OBVIOUS
<1>1. CASE PublishCheckpoint
  BY <1>1, PublishKeepsInv
<1>2. CASE PublishMembershipBundle
  BY <1>2, BundleKeepsInv
<1>3. CASE Integrate
  <2>1. engine' \in 0..MaxOperations
    BY <1>3, CheckpointStoreAssumption DEF Integrate, StoreInv
  <2> QED  BY <1>3, <2>1 DEF Integrate, StoreInv
<1>4. CASE NextEpoch
  <2>1. epoch' \in 1..MaxEpochs /\ epoch' = epoch + 1 /\ UNCHANGED <<files, engine, stored, exposed, storeFaults>>
    BY <1>4, CheckpointStoreAssumption DEF NextEpoch, StoreInv
  <2>2. stored.epoch \in Nat /\ epoch \in Nat /\ stored.epoch <= epoch
    BY CheckpointStoreAssumption DEF StoreInv
  <2>3. stored.epoch # epoch' /\ stored.epoch <= epoch'
    BY <2>1, <2>2
  <2> QED  BY <2>1, <2>3 DEF StoreInv
<1>5. CASE LosePower
  BY <1>5, PowerKeepsInv
<1>6. CASE UNCHANGED storeVars
  BY <1>6 DEF storeVars, StoreInv
<1> QED  BY <1>1, <1>2, <1>3, <1>4, <1>5, <1>6 DEF StoreNext

\* CheckpointStore::publish and replace_atomically: whatever fails, and in
\* whatever order, what was reported is in every image a power failure can leave.
THEOREM StoreInvariance == StoreSpec => []StoreInv
<1> QED  BY StoreStarts, StoreStep, PTL DEF StoreSpec

\* RecoversStored (CheckpointStore::recover): the checkpoint last reported as
\* published in this epoch, or a newer one, is what recover finds after any
\* power failure, while no publication has put both manifests in doubt.
THEOREM StoredIsRecovered == StoreSpec => []RecoversStored
<1>1. StoreInv => RecoversStored
  <2> SUFFICES ASSUME StoreInv, ~exposed, stored.epoch = epoch, NEW x \in files.may \cup {files.now}
               PROVE  Recover(x, epoch).generation >= stored.generation
    BY DEF RecoversStored
  <2>1. x \in files.may /\ SlotsOK(x)
    BY DEF StoreInv, StoreFiles, Directory
  <2>2. HoldsSince(x, stored.generation, epoch) /\ stored.generation \in Nat
    BY <2>1 DEF StoreInv, Recoverable
  <2> QED  BY <2>1, <2>2, RecoverFinds
<1> QED  BY <1>1, StoreInvariance, PTL
================================================================================
