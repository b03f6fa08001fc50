-------------------------- MODULE RequestPrepCache --------------------------
(***************************************************************************)
(* The memo of prepared requests                                           *)
(* (internal/service/version/request_prep_cache.go): concurrent callers    *)
(* look a URL up under the read lock, prepare it without a lock, and store *)
(* it under the write lock if there is room. Nothing leaves the memo.      *)
(***************************************************************************)
EXTENDS Integers, FiniteSets

CONSTANTS
    URLs, Callers,
    Prepared,       \* Prepared[u]: what prepareRequest returns for u
    maxEntries,
    None

ASSUME PrepAssumption ==
    /\ DOMAIN Prepared = URLs
    /\ maxEntries \in Nat \ {0}
    /\ None \notin URLs

VARIABLES
    entries,        \* the memo
    caller          \* caller[c]: its GetOrPrepare, in progress or returned

vars == <<entries, caller>>

Init ==
    /\ entries = [u \in {} |-> None]
    /\ caller = [c \in Callers |->
                   [pc |-> "done", url |-> None, result |-> None]]

Returns(c, u, prepared) ==
    caller' = [caller EXCEPT ![c] =
                 [pc |-> "done", url |-> u, result |-> prepared]]

Lookup(c, u) ==
    /\ caller[c].pc = "done"
    /\ \/ u \in DOMAIN entries /\ Returns(c, u, entries[u])
       \/ /\ u \notin DOMAIN entries
          /\ caller' = [caller EXCEPT ![c] =
                          [pc |-> "missed", url |-> u, result |-> None]]
    /\ UNCHANGED entries

WithEntry(u) ==
    [v \in DOMAIN entries \cup {u} |-> IF v = u THEN Prepared[u] ELSE entries[v]]

HasRoom == Cardinality(DOMAIN entries) < maxEntries

\* Seeded fault: the answer is read from the memo, where it may not be.
FaultyStore(c) ==
    LET u == caller[c].url
    IN  /\ caller[c].pc = "missed"
        /\ entries' = IF u \notin DOMAIN entries /\ HasRoom THEN WithEntry(u)
                                                            ELSE entries
        /\ Returns(c, u, IF u \in DOMAIN entries' THEN entries'[u] ELSE None)

\* Seeded fault: the room seen at the lookup is not checked again.
UncheckedStore(c) ==
    LET u == caller[c].url
    IN  /\ caller[c].pc = "missed"
        /\ entries' = WithEntry(u)
        /\ Returns(c, u, Prepared[u])

Store(c) ==
    LET u == caller[c].url
    IN  /\ caller[c].pc = "missed"
        /\ \/ /\ u \in DOMAIN entries
              /\ UNCHANGED entries
              /\ Returns(c, u, entries[u])
           \/ /\ u \notin DOMAIN entries
              /\ entries' = IF HasRoom THEN WithEntry(u) ELSE entries
              /\ Returns(c, u, Prepared[u])

Next == \E c \in Callers : Store(c) \/ \E u \in URLs : Lookup(c, u)

Spec == Init /\ [][Next]_vars

-----------------------------------------------------------------------------

\* The memo never exceeds its limit, although callers that missed at the same
\* time all store after the room was looked at (request_prep_cache.go:46-54).
WithinLimit == Cardinality(DOMAIN entries) <= maxEntries

\* A caller gets what prepareRequest gives for its own URL, from the memo or
\* not, whoever stored it and also when the memo is full.
Transparent ==
    \A c \in Callers : caller[c].pc = "done" /\ caller[c].url # None =>
        caller[c].result = Prepared[caller[c].url]
=============================================================================
