--------------------------- MODULE MCChangeStream ---------------------------
(* ChangeStream for TLC.  The run checks liveness, so no symmetry is used. *)
EXTENDS ChangeStream
=============================================================================
