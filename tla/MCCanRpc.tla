------------------------------ MODULE MCCanRpc ------------------------------
(* One RPC route over CAN for model checking.                              *)
EXTENDS CanRpc
=============================================================================
