----------------------------- MODULE CacheStore -----------------------------
(***************************************************************************)
(* What the version service relies on from its cache (the CacheStore       *)
(* interface of internal/service/version/service.go): a map that may       *)
(* forget. Storing a record may drop records, the new one included, and    *)
(* nothing else changes the map.                                           *)
(***************************************************************************)
CONSTANTS
    Keys,       \* the cache keys
    Records,    \* what can be stored
    None        \* no record

VARIABLE store  \* store[k]: the record a lookup of k returns, or None

Init == store = [k \in Keys |-> None]

\* The map after storing rec under k, when the keys in kept survive.
Stored(k, rec, kept) ==
    [j \in Keys |-> IF j \notin kept THEN None
                    ELSE IF j = k THEN rec ELSE store[j]]

Set(k, rec) == \E kept \in SUBSET Keys : store' = Stored(k, rec, kept)
=============================================================================
