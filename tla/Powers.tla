------------------------------- MODULE Powers --------------------------------
(***************************************************************************)
(* 1 << n without overflow, as a function that the proofs can unfold: the  *)
(* powers of the standard modules are opaque to the provers.               *)
(***************************************************************************)
EXTENDS Naturals

Pow2[n \in Nat] == IF n = 0 THEN 1 ELSE 2 * Pow2[n - 1]
=============================================================================
