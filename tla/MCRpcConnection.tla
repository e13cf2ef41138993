-------------------------- MODULE MCRpcConnection --------------------------
(* RpcConnection for TLC.  The run checks liveness, so no symmetry is used. *)
EXTENDS RpcConnection
=============================================================================
