--------------------------- MODULE MCClientHandle ---------------------------
(* ClientHandle for TLC. *)
EXTENDS ClientHandle
=============================================================================
