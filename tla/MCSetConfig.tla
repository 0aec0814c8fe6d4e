----------------------------- MODULE MCSetConfig -----------------------------
(* Instances of SetConfig for TLC. *)
EXTENDS SetConfig, TLC
MCSubsystem == <<"src", "dst">>
Symmetry == Permutations(Name)
=============================================================================
