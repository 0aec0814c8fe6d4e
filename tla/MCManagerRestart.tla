-------------------------- MODULE MCManagerRestart --------------------------
(* Instances of ManagerRestart for TLC. *)
EXTENDS ManagerRestart
MCDefaultGroup == [d \in Default |-> "dst"]
=============================================================================
