-------------------------- MODULE MCChannelManager --------------------------
(* A Channel between a pool and a serial executor for model checking.      *)
EXTENDS ChannelManager
=============================================================================
