--------------------------- MODULE MCRevalidation ---------------------------
(***************************************************************************)
(* Revalidation for TLC: keys and workers are interchangeable.             *)
(***************************************************************************)
EXTENDS Revalidation, TLC

Symmetry == Permutations(Keys) \cup Permutations(Workers)
=============================================================================
