--------------------------- MODULE MCWorkerSession ---------------------------
(* Small instances of WorkerSession for TLC. *)
EXTENDS WorkerSession
=============================================================================
