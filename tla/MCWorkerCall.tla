---------------------------- MODULE MCWorkerCall ----------------------------
(* Small instances of WorkerCall for model checking. *)
EXTENDS WorkerCall
=============================================================================
