-------------------------- MODULE MCTokenProvider --------------------------
(***************************************************************************)
(* TokenProvider for TLC: two tokens, callers interchangeable.             *)
(***************************************************************************)
EXTENDS TokenProvider, TLC

CONSTANTS t1, t2

TwoTokens == <<t1, t2>>

Symmetry == Permutations(Users)
=============================================================================
