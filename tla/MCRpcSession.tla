---------------------------- MODULE MCRpcSession ----------------------------
(* RpcSession for TLC.  The run checks liveness, so no symmetry is used. *)
EXTENDS RpcSession
=============================================================================
