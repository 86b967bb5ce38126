---------------------------- MODULE MCWorkerYield ----------------------------
(* Instances of WorkerYield for TLC.                                       *)
EXTENDS WorkerYield

MCTicks == 1 .. 5
=============================================================================
