---------------------------- MODULE MCRpcServer -----------------------------
(***************************************************************************)
(* RpcServer for TLC.                                                      *)
(***************************************************************************)
EXTENDS RpcServer
=============================================================================
