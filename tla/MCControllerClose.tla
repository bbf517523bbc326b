-------------------------- MODULE MCControllerClose --------------------------
(***************************************************************************)
(* TLC instance of ControllerClose: two workers, two tests, and the code's *)
(* 5 idle samples and 10 samples for metrics scaled down to 2 and 3.       *)
(***************************************************************************)
EXTENDS ControllerClose
CONSTANTS w1, w2
MCWorkers == {w1, w2}
=============================================================================
