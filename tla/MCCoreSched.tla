---------------------------- MODULE MCCoreSched ----------------------------
(* Bounds for TLC of CoreSched: SGroups, cores and flows are model values. *)
EXTENDS CoreSched, SequencesExt

\* SGroups and flows are interchangeable, and so are the cores that can be
\* picked; used by the runs that check safety only.
CONSTANTS Others

ASSUME OtherCores == Others = Cores \ {IdleCore}

Symmetry == Permutations(SGroups) \cup Permutations(Others)

\* Where liveness is checked, which excludes symmetry, SGroups are deployed in one
\* order.  The others differ in the SGroups' names only, and no fairness asks for
\* a deployment.
Order == SetToSeq(SGroups)
InOrder == Next /\ IsPrefix(sgroups', Order)

MCFairSpec == Init /\ [][InOrder]_vars /\ Fairness
=============================================================================
