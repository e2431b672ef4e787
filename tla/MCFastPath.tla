----------------------------- MODULE MCFastPath -----------------------------
(* A best-effort CAN Channel for model checking.                           *)
EXTENDS FastPath
=============================================================================
