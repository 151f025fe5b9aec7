------------------------------- MODULE Clock -------------------------------
(***************************************************************************)
(* Identities and sparse version vectors (crdt/Clock.cpp, Engine.h).       *)
(*                                                                         *)
(* An identity is a counter issued by an actor.  Actors are opaque byte    *)
(* strings with a total order in the code; here they are positive numbers  *)
(* with the usual order.  Counter 0 is never issued, so the record with    *)
(* counter 0 stands for an absent identity (an empty std::optional).       *)
(*                                                                         *)
(* A version vector ("Global") is a sparse sorted list of pairs in the     *)
(* code, where an absent actor reads as 0.  Here it is the total function  *)
(* that get() computes.                                                    *)
(***************************************************************************)
EXTENDS Naturals, FiniteSets

CONSTANT Actor

ASSUME ActorAssumption == Actor \subseteq Nat \ {0} /\ IsFiniteSet(Actor)

Identity == [counter : Nat \ {0}, actor : Actor]

NoId == [counter |-> 0, actor |-> 0]

\* Mutant of IdLess: no tie-break between actors.
IdLessByCounter(a, b) == a.counter < b.counter

\* Identity::operator< : counter first, then the actor's bytes.
IdLess(a, b) ==
    \/ a.counter < b.counter
    \/ a.counter = b.counter /\ a.actor < b.actor

Global == [Actor -> Nat]

EmptyGlobal == [a \in Actor |-> 0]

\* Global::observe keeps the larger counter of an actor; counter 0 is ignored.
Observe(v, id) ==
    IF id \in Identity /\ id.counter > v[id.actor]
    THEN [v EXCEPT ![id.actor] = id.counter]
    ELSE v

\* Global::observed
Observed(v, id) == v[id.actor] >= id.counter

\* Mutant of ObservedAll: one actor's counter is enough.
ObservedSome(v, w) == \E a \in Actor : v[a] >= w[a]

\* Global::observed_all : v covers every pair of w.
ObservedAll(v, w) == \A a \in Actor : v[a] >= w[a]

\* Global::join
Join(v, w) == [a \in Actor |-> IF v[a] >= w[a] THEN v[a] ELSE w[a]]

\* operation_is_covered : the identity is at or below a certified frontier.
\* An absent actor (0) and a zero counter fail closed.
Covered(frontier, id) ==
    /\ id \in Identity
    /\ id.counter <= frontier[id.actor]
=============================================================================
