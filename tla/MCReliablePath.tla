--------------------------- MODULE MCReliablePath ---------------------------
(* A reliable CAN Channel for model checking.                              *)
EXTENDS ReliablePath
=============================================================================
