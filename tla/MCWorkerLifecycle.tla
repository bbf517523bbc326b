-------------------------- MODULE MCWorkerLifecycle --------------------------
(***************************************************************************)
(* TLC instance of WorkerLifecycle: the two SGroups of a worker with three *)
(* PCIe devices, so that the heap has an element to sift.                  *)
(***************************************************************************)
EXTENDS WorkerLifecycle
CONSTANTS a, b
MCSGroups == {a, b}
=============================================================================
