---------------------------- MODULE MCMapsManager ----------------------------
(* Instances of MapsManager for TLC. *)
EXTENDS MapsManager, TLC
MCDefaultGroup == [d \in Default |-> "dst"]
Symmetry == Permutations(DstKey) \cup Permutations(Named) \cup Permutations(Bucket)
=============================================================================
