------------------------------- MODULE MCNode -------------------------------
(* A node with two Modules and two single-threaded executors.              *)
EXTENDS Node
=============================================================================
