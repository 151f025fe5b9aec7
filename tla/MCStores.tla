------------------------------ MODULE MCStores ------------------------------
(***************************************************************************)
(* The durable state of a device in one run: the membership journal, the   *)
(* retention journal and the certificates built on it, the checkpoint      *)
(* store and the identity file.  They share no file, so a behaviour        *)
(* belongs to one of them.                                                 *)
(***************************************************************************)
EXTENDS Membership, Reclamation, CheckpointStore, ReplicaState

VARIABLE which      \* the component of this behaviour

MCStreams == <<"comments", "text">>

\* Sums of what happens in one behaviour of Reclamation: many operations with
\* failed writes, or few with several checkpoints and epochs.
MCBudgets ==
    LET upTo(o, c, e, f) ==
            [operations |-> o, checkpoints |-> c, epochs |-> e, faults |-> f]
    IN {upTo(2, 0, 0, 2), upTo(2, 1, 0, 0), upTo(1, 2, 1, 0), upTo(1, 1, 2, 0), upTo(1, 1, 0, 1)}

\* The budget only matters to Reclamation.
MCInit ==
    /\ which \in {"membership", "reclamation", "checkpoints", "identities"}
    /\ MembershipInit /\ ReclamationInit /\ StoreInit /\ ReplicaInit
    /\ which # "reclamation" => left = CHOOSE b \in Budgets : TRUE

MCNext ==
    /\ which' = which
    /\ \/ which = "membership" /\ MembershipNext
          /\ UNCHANGED <<reclamationVars, storeVars, replicaVars>>
       \/ which = "reclamation" /\ ReclamationNext
          /\ UNCHANGED <<membershipVars, storeVars, replicaVars>>
       \/ which = "checkpoints" /\ StoreNext
          /\ UNCHANGED <<membershipVars, reclamationVars, replicaVars>>
       \/ which = "identities" /\ ReplicaNext
          /\ UNCHANGED <<membershipVars, reclamationVars, storeVars>>

MCSpec ==
    MCInit /\ [][MCNext]_<<which, membershipVars, reclamationVars, storeVars, replicaVars>>
=============================================================================
