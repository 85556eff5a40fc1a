--------------------------- MODULE MCEventStream ---------------------------
(* Small instances of EventStream for model checking. *)
EXTENDS EventStream
=============================================================================
