------------------------ MODULE MCConcurrentRequests ------------------------
(* An instance of ConcurrentRequests for TLC. *)
EXTENDS ConcurrentRequests
MCDefaultGroup == [d \in Default |-> "dst"]
=============================================================================
