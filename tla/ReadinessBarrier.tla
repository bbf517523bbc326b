--------------------------- MODULE ReadinessBarrier ---------------------------
(***************************************************************************)
(* What the start-up of SGroups promises, without pods, threads or locks.  *)
(* A SGroup is free, being built, deployed on the worker, or released to   *)
(* the scheduler.  A build may be given up until the SGroup is deployed.   *)
(* |up| grows as NF threads report.  A SGroup is released once, and only   *)
(* at an instant when every SGroup deployed on the worker is up.           *)
(***************************************************************************)
EXTENDS FiniteSets

CONSTANT SGroups

VARIABLES phase,  \* where each SGroup is
          up      \* the deployed SGroups whose NF threads have all reported

Phases == {"free", "building", "deployed", "released"}

Deployed == {g \in SGroups : phase[g] \in {"deployed", "released"}}

Init == /\ phase = [g \in SGroups |-> "free"]
        /\ up = {}

Move(g, from, to) == /\ phase[g] = from
                     /\ phase' = [phase EXCEPT ![g] = to]

Take(g)   == Move(g, "free", "building") /\ UNCHANGED up
GiveUp(g) == Move(g, "building", "free") /\ UNCHANGED up

\* The threads of a chain may have reported before the chain is deployed.
Deploy(g) == /\ Move(g, "building", "deployed")
             /\ up' \in {up, up \cup {g}}

ComeUp(g) == /\ g \in Deployed \ up
             /\ up' = up \cup {g}
             /\ UNCHANGED phase

Release(g) == /\ Deployed \subseteq up
              /\ Move(g, "deployed", "released")
              /\ UNCHANGED up

Next == \E g \in SGroups :
            Take(g) \/ GiveUp(g) \/ Deploy(g) \/ ComeUp(g) \/ Release(g)

Spec == Init /\ [][Next]_<<phase, up>>
=============================================================================
