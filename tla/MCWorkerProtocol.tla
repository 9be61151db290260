-------------------------- MODULE MCWorkerProtocol --------------------------
(* Small instances of WorkerProtocol. *)
EXTENDS WorkerProtocol
=============================================================================
