-------------------------- MODULE MCThreadExecutor --------------------------
(* An executor with a small queue and two threads for model checking.      *)
EXTENDS ThreadExecutor
=============================================================================
