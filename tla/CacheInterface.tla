--------------------------- MODULE CacheInterface ---------------------------
(***************************************************************************)
(* The forgetting map of CacheStore seen by its callers: call is the last  *)
(* call made to it with what it returned. A lookup returns the record last *)
(* stored under the key, or nothing.                                       *)
(***************************************************************************)
EXTENDS CacheStore

VARIABLE call   \* the last call, its key, and the record given or returned

Called(op, k, rec) == call' = [op |-> op, key |-> k, record |-> rec]

CallInit == call = [op |-> "none", key |-> None, record |-> None]

GetCall(k) == Called("get", k, store[k]) /\ UNCHANGED store

SetCall(k, rec) == Set(k, rec) /\ Called("set", k, rec)

InterfaceInit == Init /\ CallInit

InterfaceNext ==
    \E k \in Keys : GetCall(k) \/ \E rec \in Records : SetCall(k, rec)

InterfaceSpec == InterfaceInit /\ [][InterfaceNext]_<<store, call>>
=============================================================================
