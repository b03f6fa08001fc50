------------------------------- MODULE L1Cache -------------------------------
(***************************************************************************)
(* The in-memory cache of internal/cache/l1: a map of entries, a list of   *)
(* its keys from the most to the least recently used, and a running total  *)
(* of the memory its entries are estimated to take. Every operation holds  *)
(* the mutex from its first access to its last and is one step.            *)
(***************************************************************************)
EXTENDS Integers, SequencesExt

CONSTANTS
    Keys, Records, None,
    EntrySize,      \* EntrySize[k, rec]: estimateEntryUsage
    MaxUsageBytes   \* CACHE_L1_MAX_GB in bytes

ASSUME L1Assumption ==
    /\ EntrySize \in [Keys \X Records -> Nat \ {0}]
    /\ MaxUsageBytes \in Nat \ {0}
    /\ None \notin Records

VARIABLES
    entries,        \* key -> record and its size, for the cached keys
    recency,        \* the cached keys, the most recently used first
    usageBytes,     \* the running total
    call,           \* the last call, as in CacheInterface
    usedAfter       \* <<k, j>>: k was used later than j, if j ever was (history)

vars == <<entries, recency, usageBytes, call, usedAfter>>

Entry == [record: Records, sizeBytes: Nat]

TypeOK ==
    /\ DOMAIN entries \subseteq Keys
    /\ \A k \in DOMAIN entries : entries[k] \in Entry
    /\ recency \in Seq(Keys)
    /\ usageBytes \in Nat
    /\ call \in [op: {"none", "get", "set"}, key: Keys \cup {None},
                 record: Records \cup {None}]
    /\ usedAfter \subseteq Keys \X Keys

Init ==
    /\ entries = [k \in {} |-> None]
    /\ recency = <<>>
    /\ usageBytes = 0
    /\ call = [op |-> "none", key |-> None, record |-> None]
    /\ usedAfter = {}

-----------------------------------------------------------------------------

\* A use of k, after that of every other key.
Use(k) == usedAfter' = {p \in usedAfter : p[2] # k} \cup ({k} \X (Keys \ {k}))

\* s with its element k moved to the front.
MoveToFront(s, k) ==
    LET at == CHOOSE i \in DOMAIN s : s[i] = k
    IN  [i \in DOMAIN s |-> IF i = 1 THEN k
                            ELSE IF i <= at THEN s[i - 1] ELSE s[i]]

\* Seeded fault: a key that is there gets a second list element.
FaultyTouched(s, k) == <<k>> \o s

\* s after a use of k: k first, whether or not it was there.
Touched(s, k) == IF k \in ToSet(s) THEN MoveToFront(s, k) ELSE <<k>> \o s

\* Seeded fault: a lookup does not count as a use.
FaultyGet(k) ==
    /\ k \in DOMAIN entries
    /\ call' = [op |-> "get", key |-> k, record |-> entries[k].record]
    /\ Use(k)
    /\ UNCHANGED <<entries, recency, usageBytes>>

Get(k) ==
    /\ k \in DOMAIN entries
    /\ recency' = MoveToFront(recency, k)
    /\ call' = [op |-> "get", key |-> k, record |-> entries[k].record]
    /\ Use(k)
    /\ UNCHANGED <<entries, usageBytes>>

\* Seeded fault: a miss leaves an empty entry behind.
FaultyMiss(k) ==
    /\ k \notin DOMAIN entries
    /\ entries' = [j \in DOMAIN entries \cup {k} |->
                     IF j = k THEN [record |-> None, sizeBytes |-> 0]
                              ELSE entries[j]]
    /\ call' = [op |-> "get", key |-> k, record |-> None]
    /\ UNCHANGED <<recency, usageBytes, usedAfter>>

Miss(k) ==
    /\ k \notin DOMAIN entries
    /\ call' = [op |-> "get", key |-> k, record |-> None]
    /\ UNCHANGED <<entries, recency, usageBytes, usedAfter>>

\* left[n] is the total once all but the first n entries are evicted.
Left(all, order, usage) ==
    LET left[n \in 0..Len(order)] ==
            IF n = Len(order) THEN usage
            ELSE LET rest == left[n + 1] - all[order[n + 1]].sizeBytes
                 IN  IF rest < 0 THEN 0 ELSE rest
    IN  left

\* Seeded fault: the loop goes on while the budget is just met.
FaultyStops(left, n) ==
    /\ n > 0 => left[n] < MaxUsageBytes
    /\ \A m \in DOMAIN left : m > n => left[m] >= MaxUsageBytes

\* The loop of evictToBudgetLocked stops with n entries: the first total
\* within the budget, or the empty list.
Stops(left, n) ==
    /\ n > 0 => left[n] <= MaxUsageBytes
    /\ \A m \in DOMAIN left : m > n => left[m] > MaxUsageBytes

evictToBudget(all, order, usage) ==
    LET left == Left(all, order, usage)
    IN  \E n \in 0..Len(order) :
          /\ Stops(left, n)
          /\ recency' = SubSeq(order, 1, n)
          /\ entries' = [k \in ToSet(SubSeq(order, 1, n)) |-> all[k]]
          /\ usageBytes' = left[n]

\* Seeded fault: an overwritten entry is counted again.
FaultyReleased(k) == 0

\* What an overwritten entry gives back to the total.
Released(k) == IF k \in DOMAIN entries THEN entries[k].sizeBytes ELSE 0

\* Seeded fault: overwriting an entry keeps its old record.
FaultyWritten(k, rec) ==
    [j \in DOMAIN entries \cup {k} |->
        IF j # k THEN entries[j]
        ELSE [record    |-> IF k \in DOMAIN entries THEN entries[k].record
                                                    ELSE rec,
              sizeBytes |-> EntrySize[k, rec]]]

Written(k, rec) ==
    [j \in DOMAIN entries \cup {k} |->
        IF j = k THEN [record |-> rec, sizeBytes |-> EntrySize[k, rec]]
                 ELSE entries[j]]

Set(k, rec) ==
    /\ evictToBudget(Written(k, rec), Touched(recency, k),
                     usageBytes - Released(k) + EntrySize[k, rec])
    /\ call' = [op |-> "set", key |-> k, record |-> rec]
    /\ Use(k)

Next ==
    \E k \in Keys : Get(k) \/ Miss(k) \/ \E rec \in Records : Set(k, rec)

Spec == Init /\ [][Next]_vars

-----------------------------------------------------------------------------

\* The running total is the sum of the sizes of what is cached, through
\* overwrites and evictions (cache.go:99-118, 165), and within the budget.
WithinBudget ==
    /\ usageBytes =
         MapThenSumSet(LAMBDA k : entries[k].sizeBytes, DOMAIN entries)
    /\ usageBytes <= MaxUsageBytes

\* The recency list has the cached keys, each once: an eviction always finds
\* its entry (cache.go:152-163) and no entry escapes eviction.
RecencyMatches ==
    /\ ToSet(recency) = DOMAIN entries
    /\ \A i, j \in DOMAIN recency : recency[i] = recency[j] => i = j

\* Eviction is by use: a key that stays was used later, by a lookup or a
\* store, than every key that goes (cache.go:66, 84, 104, 109, 147).
EvictsLeastRecentlyUsed ==
    [][\A k \in DOMAIN entries \cap DOMAIN entries' :
         \A j \in DOMAIN entries \ DOMAIN entries' :
            <<k, j>> \in usedAfter']_vars

\* Storing keeps the new record unless it exceeds the budget by itself, and
\* drops no more than it must: something it drops would not fit beside what
\* stays (cache.go:145-169).
EvictsNoMoreThanNeeded ==
    [][call'.op = "set" =>
         LET k       == call'.key
             size(j) == IF j = k THEN EntrySize[k, call'.record]
                                 ELSE entries[j].sizeBytes
             dropped == (DOMAIN entries \cup {k}) \ DOMAIN entries'
         IN  /\ size(k) <= MaxUsageBytes => k \notin dropped
             /\ dropped # {} =>
                  \E j \in dropped : usageBytes' + size(j) > MaxUsageBytes
      ]_vars

\* The service's view of the cache: CacheInterface.
Cache == INSTANCE CacheInterface WITH
    store <- [k \in Keys |-> IF k \in DOMAIN entries THEN entries[k].record
                                                     ELSE None]

\* Callers cannot tell this cache from a map that forgets: a lookup returns
\* the last record stored for the key or nothing (service.go:500-517).
ImplementsCacheInterface == Cache!InterfaceSpec
=============================================================================
