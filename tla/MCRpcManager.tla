---------------------------- MODULE MCRpcManager ----------------------------
(* RPC between two executors for model checking.                           *)
EXTENDS RpcManager
=============================================================================
