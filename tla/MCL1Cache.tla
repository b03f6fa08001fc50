----------------------------- MODULE MCL1Cache -----------------------------
(***************************************************************************)
(* L1Cache for TLC: four keys and records of three sizes in a budget of    *)
(* four, so that all keys fit with small records, a large one evicts       *)
(* several of them and the oversized one fits nowhere.                     *)
(***************************************************************************)
EXTENDS L1Cache

CONSTANTS small, large, oversized

SizeOf == [p \in Keys \X {small, large, oversized} |->
             CASE p[2] = small -> 1 [] p[2] = large -> 3 [] OTHER -> 5]
=============================================================================
