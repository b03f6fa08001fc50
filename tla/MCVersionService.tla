-------------------------- MODULE MCVersionService --------------------------
(***************************************************************************)
(* VersionService for TLC. Request slots are interchangeable, and so are   *)
(* workers and keys; the runs that check liveness use no symmetry.         *)
(***************************************************************************)
EXTENDS VersionService, TLC

Symmetry ==
    Permutations(Requests) \cup Permutations(Workers) \cup Permutations(Keys)
=============================================================================
