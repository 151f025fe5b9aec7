---------------------------- MODULE ReplicaState ----------------------------
(***************************************************************************)
(* ReplicaState: the actor of a device and its counter per stream, in one  *)
(* private file that every process of the device opens in turn under a     *)
(* lock; and the ReplicaAllocator handles through which engines draw runs  *)
(* of identities from it.  An actor is named by the order of its making.   *)
(***************************************************************************)
EXTENDS DurableDirectory

CONSTANTS
    Process,      \* processes of one device
    StreamName,   \* streams the device writes
    Exhausted,    \* CheckedCounter::kExhausted, UINT64_MAX in the code
    MaxRun,       \* bound: identities of one operation
    MaxActors,    \* bound: actors generated
    MaxDeviceFaults  \* bound: failed writes, crashes and power failures

ASSUME ReplicaStateAssumption ==
    /\ Process # {} /\ StreamName # {}
    /\ Exhausted \in Nat \ {0} /\ {MaxRun, MaxActors, MaxDeviceFaults} \subseteq Nat

VARIABLES
    device,    \* the private directory, with one file
    owners,    \* [Process -> ReplicaState], Unopened without one
    handedOut, \* [identity -> times it was handed out]
    actors,    \* actors generated
    deviceFaults

replicaVars == <<device, owners, handedOut, actors, deviceFaults>>

StateFile == "replica.state"

\* CheckedCounter starts at one; a stream that is not in the file is new.
NewCounters == [s \in StreamName |-> 1]

Owner(open, actor, next) ==
    [open |-> open, actor |-> actor, next |-> next, failed |-> FALSE,
     writers |-> {}, stuck |-> {}]
Opened(actor, next) == Owner(TRUE, actor, next)
Unopened == Owner(FALSE, 0, NewCounters)

\* ProcessLease on replica.lock: one process at a time.
IsOwner(p) == owners[p].open
DirectoryIsFree == \A q \in Process : ~IsOwner(q)

-----------------------------------------------------------------------------
(* CheckedCounter *)

\* reserve_run: tested by subtraction, the last value is never issued.
Fits(next, count) == next # Exhausted /\ count - 1 <= (Exhausted - 1) - next

\* observe: at the last value there is nothing to raise to.
Raised(next, seen) == IF seen # Exhausted /\ seen + 1 > next THEN seen + 1 ELSE next

-----------------------------------------------------------------------------
(* Operations *)

Contents(owner) == [actor |-> owner.actor, next |-> owner.next]
Persisted(owner, result) == Replace(device, StateFile, Contents(owner), result)

Costs(result) ==
    /\ result # "ok" => deviceFaults < MaxDeviceFaults
    /\ deviceFaults' = IF result = "ok" THEN deviceFaults ELSE deviceFaults + 1

\* open: what the file says, or on the first run a new actor, persisted before
\* it is used.
OpenExisting(p) ==
    /\ DirectoryIsFree /\ ~IsOwner(p)
    /\ device.now[StateFile] # <<>>
    /\ LET state == device.now[StateFile][1]
       IN owners' = [owners EXCEPT ![p] = Opened(state.actor, state.next)]
    /\ UNCHANGED <<device, handedOut, actors, deviceFaults>>

OpenFirst(p) ==
    /\ DirectoryIsFree /\ ~IsOwner(p)
    /\ device.now[StateFile] = <<>> /\ actors < MaxActors
    /\ \E result \in ReplaceResults :
          LET new == Opened(actors + 1, NewCounters)
          IN /\ Costs(result)
             /\ device' = Persisted(new, result)
             /\ owners' = IF result = "ok" THEN [owners EXCEPT ![p] = new] ELSE owners
    /\ actors' = actors + 1
    /\ UNCHANGED handedOut

\* acquire_writer for one stream.
AcquireWriter(p) ==
    /\ IsOwner(p) /\ ~owners[p].failed
    /\ \E s \in StreamName \ owners[p].writers :
          owners' = [owners EXCEPT ![p].writers = @ \cup {s}]
    /\ UNCHANGED <<device, handedOut, actors, deviceFaults>>

\* release_writer: every stream at once; the handles stay as they are.
ReleaseWriter(p) ==
    /\ IsOwner(p) /\ owners[p].writers # {}
    /\ owners' = [owners EXCEPT ![p].writers = {}]
    /\ UNCHANGED <<device, handedOut, actors, deviceFaults>>

\* The run [base, base + count) of the stream under the owner's actor.
Run(owner, s, count) ==
    {[actor |-> owner.actor, stream |-> s, counter |-> c] :
        c \in owner.next[s]..(owner.next[s] + count - 1)}

\* What is given to the engine: only a run whose reservation was persisted.
HandedMutant(result) == result # "io_error"
Handed(result) == result = "ok"

\* ReplicaState::reserve_run and next_operation: the counter moves, the whole
\* state is persisted, then the run is handed out.  A failed write does not
\* move the counter back.
Reserve(p, s, count, result) ==
    LET owner == owners[p]
        moved == [owner EXCEPT !.next[s] = @ + count]
    IN /\ IsOwner(p) /\ ~owner.failed
       /\ Fits(owner.next[s], count)
       /\ Costs(result)
       /\ device' = Persisted(moved, result)
       /\ handedOut' = IF ~Handed(result) THEN handedOut
                       ELSE [i \in DOMAIN handedOut \cup Run(owner, s, count) |->
                                (IF i \in DOMAIN handedOut THEN handedOut[i] ELSE 0)
                                + (IF i \in Run(owner, s, count) THEN 1 ELSE 0)]
       /\ UNCHANGED actors

NextOperation(p) ==
    \E s \in StreamName, result \in ReplaceResults :
        /\ Reserve(p, s, 1, result)
        /\ owners' = [owners EXCEPT ![p].next[s] = @ + 1]

\* ReplicaAllocator::reserve_run: after a failed write the handle gives out
\* nothing more.
ReserveRun(p) ==
    \E s \in StreamName, count \in 1..MaxRun, result \in ReplaceResults :
        /\ s \in owners[p].writers \ owners[p].stuck
        /\ Reserve(p, s, count, result)
        /\ owners' = [owners EXCEPT ![p].next[s] = @ + count,
                                    ![p].stuck = IF result = "ok" THEN @ ELSE @ \cup {s}]

\* ReplicaAllocator::observe: in memory only.
Observe(p) ==
    /\ IsOwner(p) /\ ~owners[p].failed
    /\ \E s \in owners[p].writers \ owners[p].stuck, seen \in {2, Exhausted - 1, Exhausted} :
          owners' = [owners EXCEPT ![p].next[s] = Raised(@, seen)]
    /\ UNCHANGED <<device, handedOut, actors, deviceFaults>>

\* fork_identity: a new actor with new counters, once no stream is written.
Forked(owner, result) == [owner EXCEPT !.actor = actors + 1, !.next = NewCounters, !.failed = (result # "ok")]

ForkIdentity(p) ==
    \E result \in ReplaceResults :
        /\ IsOwner(p) /\ ~owners[p].failed /\ owners[p].writers = {}
        /\ actors < MaxActors
        /\ Costs(result)
        /\ owners' = [owners EXCEPT ![p] = Forked(owners[p], result)]
        /\ device' = Persisted(owners'[p], result)
        /\ actors' = actors + 1
        /\ UNCHANGED handedOut

\* flush and close; without the flush it is a crash of the process, and the
\* lock goes with it.
Close(p) ==
    /\ IsOwner(p)
    /\ \E result \in ReplaceResults :
          /\ Costs(result)
          /\ device' = IF owners[p].failed THEN device ELSE Persisted(owners[p], result)
    /\ owners' = [owners EXCEPT ![p] = Unopened]
    /\ UNCHANGED <<handedOut, actors>>

\* The machine stops: every process with it, and what was not durable.
PowerFailure ==
    /\ deviceFaults < MaxDeviceFaults
    /\ device' \in PowerLost(device)
    /\ owners' = [p \in Process |-> Unopened]
    /\ deviceFaults' = deviceFaults + 1
    /\ UNCHANGED <<handedOut, actors>>

ReplicaInit ==
    /\ device = NewDirectory({StateFile})
    /\ owners = [p \in Process |-> Unopened]
    /\ handedOut = <<>> /\ actors = 0 /\ deviceFaults = 0

ReplicaNext ==
    \/ \E p \in Process : \/ OpenExisting(p) \/ OpenFirst(p) \/ AcquireWriter(p) \/ ReleaseWriter(p)
                          \/ NextOperation(p) \/ ReserveRun(p) \/ Observe(p) \/ ForkIdentity(p) \/ Close(p)
    \/ PowerFailure

ReplicaSpec == ReplicaInit /\ [][ReplicaNext]_replicaVars

-----------------------------------------------------------------------------
(* Properties *)

\* check_claim: an operation that claims this device's actor is recognised as
\* another writer's when its identity was issued here.
CheckClaim(owner, i) ==
    CASE i.actor # owner.actor -> "ok"
      [] i.actor = owner.actor /\ i.counter <= owner.next[i.stream] - 1 -> "actor_conflict"
      [] OTHER -> "corrupt_record"

\* An identity is handed out at most once and never at the counter's last
\* value, over failed and unconfirmed writes, forks, restarts of either
\* process and power failures; and whichever process owns the state, or would
\* read it after a power failure, knows that it was issued.
IdentityIssuedOnce ==
    \A i \in DOMAIN handedOut :
        /\ handedOut[i] = 1 /\ i.counter < Exhausted
        /\ \A p \in Process : IsOwner(p) => CheckClaim(owners[p], i) # "corrupt_record"
        /\ \A x \in device.may : x[StateFile] # <<>> => CheckClaim(x[StateFile][1], i) # "corrupt_record"
=============================================================================
