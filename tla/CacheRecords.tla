---------------------------- MODULE CacheRecords ----------------------------
(***************************************************************************)
(* Cache records and the policy decisions taken on them                    *)
(* (internal/cache/record.go, internal/cache/state.go and the helpers of   *)
(* internal/service/version/service.go).                                   *)
(*                                                                         *)
(* A payload is the number of the upstream version it was read from, an    *)
(* ETag is the number of the version it names (NoETag: none was sent).     *)
(* 200 stands for every positive record; 404 stands for 404 and 410.       *)
(***************************************************************************)
EXTENDS Integers

CONSTANTS
    HardTTL,        \* CACHE_HARD_TTL; 0 disables hard expiry
    NegativeTTL,    \* CACHE_NEGATIVE_TTL
    None            \* absent record, key, call or response

ASSUME PolicyAssumption ==
    /\ HardTTL \in Nat
    /\ NegativeTTL \in Nat \ {0}

NoETag == 0

Record == [status: {200, 404}, version: Nat, etag: Nat,
           checkedAt: Nat, expiresAt: Nat]

ASSUME NoneIsNoRecord == None \notin Record

isNegativeCacheableStatus(rec) == rec.status = 404

\* Seeded fault: a record is still served at the instant it expires.
FaultyIsHardExpired(rec, t) == HardTTL > 0 /\ rec.expiresAt < t

isHardExpired(rec, t) == HardTTL > 0 /\ rec.expiresAt <= t

shouldServeNegativeCachedRecord(rec, t) == rec.expiresAt > t

\* The cache-hit decision of Service.handle, on the record a lookup returned.
Servable(rec, t) ==
    /\ rec # None
    /\ IF isNegativeCacheableStatus(rec)
       THEN shouldServeNegativeCachedRecord(rec, t)
       ELSE ~isHardExpired(rec, t)

\* The validator a conditional request carries: only positive records give one.
ConditionalETag(rec) ==
    IF rec # None /\ rec.status = 200 THEN rec.etag ELSE NoETag

PositiveRecord(v, e, t) ==
    [status |-> 200, version |-> v, etag |-> e,
     checkedAt |-> t, expiresAt |-> t + HardTTL]

NegativeRecord(v, t) ==
    [status |-> 404, version |-> v, etag |-> NoETag,
     checkedAt |-> t, expiresAt |-> t + NegativeTTL]

\* A 304 keeps payload, status and validator and renews both times.
Revalidated(rec, t) ==
    [rec EXCEPT !.checkedAt = t, !.expiresAt = t + HardTTL]
=============================================================================
