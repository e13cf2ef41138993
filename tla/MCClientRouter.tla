--------------------------- MODULE MCClientRouter ---------------------------
(* The router of both builds for TLC. *)
EXTENDS WasmRouter
=============================================================================
