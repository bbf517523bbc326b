------------------------------- MODULE SetPool -------------------------------
(***************************************************************************)
(* What a pool of indices promises: an index is free or held by one user,  *)
(* never both, and a user is given the smallest free one.  WorkerLifecycle *)
(* shows that a worker's pciePool, with everything the worker's goroutines *)
(* do to it, implements this.                                              *)
(***************************************************************************)
EXTENDS Naturals

CONSTANT Indices   \* the indices the pool manages, natural numbers

VARIABLES free, held

Init == free = Indices /\ held = {}

Get(i) ==
    /\ i \in free /\ \A j \in free : i <= j
    /\ free' = free \ {i} /\ held' = held \cup {i}

Put(i) ==
    /\ i \in held
    /\ held' = held \ {i} /\ free' = free \cup {i}

Next == \E i \in Indices : Get(i) \/ Put(i)

Spec == Init /\ [][Next]_<<free, held>>
=============================================================================
