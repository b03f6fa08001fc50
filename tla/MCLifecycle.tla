---------------------------- MODULE MCLifecycle ----------------------------
(***************************************************************************)
(* Lifecycle for TLC: requests that finish before, during and after the    *)
(* shutdown, a log queue of one, and a timeout of two ticks.               *)
(***************************************************************************)
EXTENDS Lifecycle

CONSTANTS r1, r2, r3
=============================================================================
