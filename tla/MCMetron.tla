------------------------------- MODULE MCMetron -------------------------------
(***************************************************************************)
(* TLC instance of Metron: one worker with two SGroups and two cores, one  *)
(* with one of each; one metronStartUp, one handler, and one SGroup whose  *)
(* set-up is followed RPC by RPC.                                          *)
(***************************************************************************)
EXTENDS Metron
CONSTANTS a, b, c, w1, w2, c1, c2, s1, h1
MCSGroups == {a, b, c}
MCWorkers == {w1, w2}
MCFreeAtStart == [w \in MCWorkers |-> IF w = w1 THEN <<a, b>> ELSE <<c>>]
MCCores == [w \in MCWorkers |-> IF w = w1 THEN {c1, c2} ELSE {c1}]
MCStartups == {s1}
MCHandlers == {h1}
MCDetailed == {c}
=============================================================================
