--------------------------- MODULE CheckpointStore ---------------------------
(***************************************************************************)
(* CheckpointStore: content-addressed artifacts, two alternating manifests *)
(* that name them, and recovery from the newest manifest whose artifacts   *)
(* are there.  The name of an artifact stands for its bytes.               *)
(***************************************************************************)
EXTENDS DurableDirectory, FiniteSets, FiniteSetsExt, SequencesExt

CONSTANTS
    MaxOperations,     \* bound: operations the engine integrates
    LastGeneration,    \* UINT64_MAX: the generation after which publish refuses
    MaxEpochs,         \* bound: membership epochs
    MaxStoreFaults     \* bound: failed I/O steps and power failures

ASSUME CheckpointStoreAssumption ==
    {MaxOperations, LastGeneration, MaxEpochs, MaxStoreFaults} \subseteq Nat /\ MaxEpochs > 0

VARIABLES
    files,      \* the store's directory
    engine,     \* operations the session's engine holds
    epoch,      \* the context recover() is asked for
    stored,     \* the last publication reported as successful
    exposed,    \* since the last publication neither manifest was sure of its artifacts
    storeFaults \* faults so far

storeVars == <<files, engine, epoch, stored, exposed, storeFaults>>

-----------------------------------------------------------------------------
(* Artifacts, manifests and their names *)

\* decode_checkpoint_core: the context and causal frontier of a shareable core.
Shareable == [context : 1..MaxEpochs, version : 0..MaxOperations]

\* decode_checkpoint_local_core: it names its shareable core; `next` is the
\* writer's counter, `history` the newest operation its undo groups name.
Local == [of : Shareable, next : 1..(MaxOperations + 1), history : 0..MaxOperations]

ManifestPath(generation) == <<"manifest", generation % 2>>
ArtifactPath(kind, content) == <<kind, content>>

Names == {<<"manifest", slot>> : slot \in {0, 1}}
         \cup {ArtifactPath("shareable", s) : s \in Shareable}
         \cup {ArtifactPath("local", l) : l \in Local}
         \cup {ArtifactPath("membership", e) : e \in 1..MaxEpochs}

\* validate_local_bundle
BindsTo(s, l) == l.of = s /\ l.next > s.version /\ l.history <= s.version

-----------------------------------------------------------------------------
(* publish *)

\* One publication in progress; the I/O step numbered `at` ends in `result`.
Begun(d) == [files |-> d, io |-> 0, code |-> "ok"]
Ends(run, at, result) == IF run.io + 1 = at THEN result ELSE "ok"

Replacing(run, name, contents, at, result) ==
    IF run.code # "ok" THEN run
    ELSE [files |-> Replace(run.files, name, contents, Ends(run, at, result)),
          io |-> run.io + 1, code |-> Ends(run, at, result)]

\* store_immutable: nothing to do if the bytes are there already.
StoreImmutable(run, name, at, result) ==
    IF run.files.now[name] # <<>> THEN run ELSE Replacing(run, name, TRUE, at, result)

Manifests(image) ==
    {image[<<"manifest", slot>>][1] : slot \in {s \in {0, 1} : image[<<"manifest", s>>] # <<>>}}

Latest(image) == Max({0} \cup {m.generation : m \in Manifests(image)})

\* The slot the next generation overwrites: never the newest manifest's.
NextManifest(run, s, l) ==
    [generation |-> Latest(run.files.now) + 1, shareable |-> s, local |-> l]

Published(s, l, at, result) ==
    LET shared == StoreImmutable(Begun(files), ArtifactPath("shareable", s), at, result)
        both == IF l = <<>> THEN shared
                ELSE StoreImmutable(shared, ArtifactPath("local", l[1]), at, result)
        manifest == NextManifest(both, s, l)
    IN IF both.code = "ok" /\ manifest.generation > LastGeneration
       THEN [both EXCEPT !.code = "counter_exhausted"]
       ELSE Replacing(both, ManifestPath(manifest.generation), manifest, at, result)

\* What a manifest names, and whether its slot and all of that is there and
\* durable.
Named(m) == {ArtifactPath("shareable", m.shareable)} \cup {ArtifactPath("local", x) : x \in ToSet(m.local)}
SafeManifest(d, m) ==
    \A n \in Named(m) \cup {ManifestPath(m.generation)} : d.now[n] # <<>> /\ IsDurable(d, n)

\* A publication exposes the store when it renames a manifest whose artifacts
\* are not durable while the other manifest is in doubt too.
Exposes(run, s, l) ==
    /\ run.code # "ok" /\ Latest(run.files.now) > Latest(files.now)
    /\ \E n \in Named([shareable |-> s, local |-> l]) : ~IsDurable(files, n)
    /\ \E m \in Manifests(files.now) : m.generation = Latest(files.now) /\ ~SafeManifest(files, m)

\* The owner's companion: its counter and history are at the engine's frontier.
Companions(s) ==
    {<<>>} \cup {<<l>> : l \in {x \in Local : BindsTo(s, x) /\ x.next = s.version + 1 /\ x.history = s.version}}

\* CheckpointStore::publish of the engine's present state, with or without the
\* owner's companion.
PublishCheckpoint ==
    \E l \in Companions([context |-> epoch, version |-> engine]),
       at \in 1..3, result \in ReplaceResults :
        LET s == [context |-> epoch, version |-> engine]
            run == Published(s, l, at, result)
        IN /\ result = "ok" => at = 1
           /\ result # "ok" => at <= run.io /\ storeFaults < MaxStoreFaults
           /\ files' = run.files
           /\ stored' = IF run.code # "ok" THEN stored
                        ELSE [generation |-> Latest(run.files.now), epoch |-> epoch, version |-> engine]
           /\ exposed' = (run.code # "ok" /\ (exposed \/ Exposes(run, s, l)))
           /\ storeFaults' = IF result = "ok" THEN storeFaults ELSE storeFaults + 1
           /\ UNCHANGED <<engine, epoch>>

-----------------------------------------------------------------------------
(* recover *)

\* Is the candidate complete, bound and of the context asked for?
Complete(image, m, context) ==
    /\ image[ArtifactPath("shareable", m.shareable)] # <<>>
    /\ m.shareable.context = context
    /\ m.local # <<>> => /\ image[ArtifactPath("local", m.local[1])] # <<>>
                         /\ BindsTo(m.shareable, m.local[1])

NothingStored == [generation |-> 0, epoch |-> 0, version |-> 0]

\* The newest candidate that is; none is an error or an absent store.
RecoverMutant(image, context) ==
    LET newest == {m \in Manifests(image) : m.generation = Latest(image) /\ Complete(image, m, context)}
    IN IF newest = {} THEN NothingStored
       ELSE LET m == CHOOSE x \in newest : TRUE
            IN [generation |-> m.generation, epoch |-> context, version |-> m.shareable.version]
Recover(image, context) ==
    LET candidates == {m \in Manifests(image) : Complete(image, m, context)}
        best == CHOOSE m \in candidates : \A x \in candidates : x.generation <= m.generation
    IN IF candidates = {} THEN NothingStored
       ELSE [generation |-> best.generation, epoch |-> context, version |-> best.shareable.version]

-----------------------------------------------------------------------------
(* Membership bundles and the rest of the behaviour *)

\* publish_membership_bundle: bytes that are there already pass a new barrier
\* before they are reported as stored.
ResyncArtifact(result) == SyncDirectory(files, result)

PublishMembershipBundle ==
    \E e \in 1..epoch, result \in ReplaceResults :
        LET name == ArtifactPath("membership", e)
        IN /\ result # "ok" => storeFaults < MaxStoreFaults
           /\ files' = IF files.now[name] # <<>> THEN ResyncArtifact(result)
                       ELSE Replace(files, name, TRUE, result)
           /\ storeFaults' = IF result = "ok" THEN storeFaults ELSE storeFaults + 1
           /\ UNCHANGED <<engine, epoch, stored, exposed>>

Integrate ==
    /\ engine < MaxOperations
    /\ engine' = engine + 1
    /\ UNCHANGED <<files, epoch, stored, exposed, storeFaults>>

NextEpoch ==
    /\ epoch < MaxEpochs
    /\ epoch' = epoch + 1
    /\ UNCHANGED <<files, engine, stored, exposed, storeFaults>>

\* The machine stops; the session comes back with the recovered checkpoint and
\* replays the rest of the log.
LosePower ==
    /\ storeFaults < MaxStoreFaults
    /\ files' \in PowerLost(files)
    /\ storeFaults' = storeFaults + 1
    /\ UNCHANGED <<engine, epoch, stored, exposed>>

StoreInit ==
    /\ files = NewDirectory(Names)
    /\ engine = 0 /\ epoch = 1
    /\ stored = NothingStored /\ exposed = FALSE /\ storeFaults = 0

StoreNext ==
    PublishCheckpoint \/ PublishMembershipBundle \/ Integrate \/ NextEpoch \/ LosePower

StoreSpec == StoreInit /\ [][StoreNext]_storeVars

-----------------------------------------------------------------------------
(* Properties *)

\* CheckpointStore.h: a failed manifest replacement leaves the previous
\* manifest recoverable.  Whatever a power failure leaves, recover() finds the
\* checkpoint last reported as published in this epoch or a newer one, also
\* when attempts failed half-way and one manifest names an artifact that did
\* not survive, as long as the other manifest was not in doubt as well.
RecoversStored ==
    ~exposed /\ stored.epoch = epoch =>
        \A image \in files.may \cup {files.now} :
            Recover(image, epoch).generation >= stored.generation
=============================================================================
