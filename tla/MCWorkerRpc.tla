---------------------------- MODULE MCWorkerRpc ----------------------------
(* A small instance of WorkerRpc for TLC. *)
EXTENDS WorkerRpc
=============================================================================
