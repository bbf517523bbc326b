----------------------------- MODULE MCFlowAssign -----------------------------
(***************************************************************************)
(* TLC instance of FlowAssign: one worker with two SGroups, one user with  *)
(* an "exp" DAG, a flow to it, and one of background traffic typed on the  *)
(* command line.  The DAG of "add" is a second one.                        *)
(***************************************************************************)
EXTENDS FlowAssign
CONSTANTS a, b, w1, u1
MCSGroups == {a, b}
MCFreeAtStart == [w \in {w1} |-> <<a, b>>]
MCUsers == {u1}
MCWorkers == {w1}
MCFlows == {[src |-> 1, dstPort |-> 8080, background |-> None]}
MCTypedFlows == {[src |-> 1, dstPort |-> 1000, background |-> w1]}
MCExpFlowlet == [src |-> Wildcard, dstPort |-> 8080]
=============================================================================
