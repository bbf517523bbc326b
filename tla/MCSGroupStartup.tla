--------------------------- MODULE MCSGroupStartup ---------------------------
(* Bounds for TLC of SGroupStartup: SGroups and pods are model values. *)
EXTENDS SGroupStartup

CONSTANTS g1, g2

\* Chains of two NFs and of one.
MCChainLen == [g \in SGroups |-> IF g = g1 THEN 2 ELSE 1]

MCSingle == [g \in SGroups |-> 1]

MCPorts == 1..Cardinality(Pods)
=============================================================================
