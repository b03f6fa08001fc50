----------------------- MODULE RequestPrepCacheProofs -----------------------
(***************************************************************************)
(* The memo of prepared requests is bounded and invisible, for any number  *)
(* of URLs and callers and any limit.                                      *)
(***************************************************************************)
EXTENDS RequestPrepCache, FiniteSetTheorems, TLAPS

Answers == {Prepared[u] : u \in URLs}

\* A caller that missed has a URL; the memo is a finite part of Prepared.
MemoInv ==
    /\ DOMAIN entries \subseteq URLs /\ IsFiniteSet(DOMAIN entries)
    /\ entries = [u \in DOMAIN entries |-> Prepared[u]]

CallersInv ==
    /\ caller \in [Callers -> [pc: {"missed", "done"}, url: URLs \cup {None},
                               result: Answers \cup {None}]]
    /\ \A c \in Callers : caller[c].pc = "missed" => caller[c].url \in URLs

Inv == MemoInv /\ CallersInv /\ WithinLimit /\ Transparent

LEMMA InvInit == Init => Inv
<1> SUFFICES ASSUME Init PROVE Inv
  OBVIOUS
<1>1. DOMAIN entries = {}
  BY DEF Init
<1>2. MemoInv
  BY <1>1, FS_EmptySet DEF MemoInv, Init
<1>3. CallersInv /\ Transparent
  BY DEF CallersInv, Transparent, Init
<1>4. WithinLimit
  BY <1>1, FS_EmptySet, PrepAssumption DEF WithinLimit
<1> QED
  BY <1>2, <1>3, <1>4 DEF Inv

\* A caller that returns what was prepared for its URL keeps the callers' part.
LEMMA ReturnsPrepared ==
    ASSUME CallersInv, Transparent,
           NEW c \in Callers, NEW u \in URLs, Returns(c, u, Prepared[u])
    PROVE  CallersInv' /\ Transparent'
<1>1. Prepared[u] \in Answers
  BY PrepAssumption DEF Answers
<1> QED
  BY <1>1 DEF CallersInv, Transparent, Returns

\* A new entry is finite growth by one: it fits if there was room.
LEMMA EntryAdded ==
    ASSUME MemoInv, HasRoom, NEW u \in URLs, u \notin DOMAIN entries,
           entries' = WithEntry(u)
    PROVE  MemoInv' /\ WithinLimit'
<1>1. DOMAIN entries' = DOMAIN entries \cup {u}
  BY DEF WithEntry
<1>2. IsFiniteSet(DOMAIN entries') /\
      Cardinality(DOMAIN entries') = Cardinality(DOMAIN entries) + 1
  BY <1>1, FS_AddElement DEF MemoInv
<1>3. Cardinality(DOMAIN entries) \in Nat
  BY FS_CardinalityType DEF MemoInv
<1>4. MemoInv'
  BY <1>1, <1>2 DEF MemoInv, WithEntry
<1> QED
  BY <1>2, <1>3, <1>4, PrepAssumption DEF HasRoom, WithinLimit

LEMMA InvLookup ==
    ASSUME Inv, NEW c \in Callers, NEW u \in URLs, Lookup(c, u)
    PROVE  Inv'
<1>1. MemoInv' /\ WithinLimit'
  BY DEF Inv, Lookup, MemoInv, WithinLimit
<1>2. CASE u \in DOMAIN entries
  <2>1. Returns(c, u, Prepared[u])
    BY <1>2 DEF Lookup, Inv, MemoInv
  <2> QED
    BY <2>1, <1>1, ReturnsPrepared DEF Inv
<1>3. CASE u \notin DOMAIN entries
  BY <1>1, <1>3 DEF Lookup, Inv, CallersInv, Transparent
<1> QED
  BY <1>2, <1>3

LEMMA InvStore ==
    ASSUME Inv, NEW c \in Callers, Store(c)
    PROVE  Inv'
<1> DEFINE u == caller[c].url
<1>1. u \in URLs
  BY DEF Store, Inv, CallersInv
<1>2. Returns(c, u, Prepared[u])
  BY DEF Store, Inv, MemoInv
<1>3. CallersInv' /\ Transparent'
  BY <1>1, <1>2, ReturnsPrepared DEF Inv
<1>4. CASE u \notin DOMAIN entries /\ HasRoom
  BY <1>1, <1>4, EntryAdded, <1>3 DEF Store, Inv
<1>5. CASE ~(u \notin DOMAIN entries /\ HasRoom)
  BY <1>5, <1>3 DEF Store, Inv, MemoInv, WithinLimit
<1> QED
  BY <1>4, <1>5

LEMMA InvStep == Inv /\ [Next]_vars => Inv'
<1> SUFFICES ASSUME Inv, [Next]_vars PROVE Inv'
  OBVIOUS
<1>1. CASE UNCHANGED vars
  BY <1>1 DEF Inv, MemoInv, CallersInv, WithinLimit, Transparent, vars
<1>2. CASE Next
  BY <1>2, InvLookup, InvStore DEF Next
<1> QED
  BY <1>1, <1>2

LEMMA Invariant == Spec => []Inv
BY InvInit, InvStep, PTL DEF Spec

\* The memo never exceeds its limit (request_prep_cache.go:46-54), however
\* many callers miss at the same time.
THEOREM MemoIsBounded == Spec => []WithinLimit
<1>1. Inv => WithinLimit
  BY DEF Inv
<1> QED
  BY <1>1, Invariant, PTL

\* Every caller gets what prepareRequest gives for its own URL
\* (request_prep_cache.go:38-56).
THEOREM MemoIsTransparent == Spec => []Transparent
<1>1. Inv => Transparent
  BY DEF Inv
<1> QED
  BY <1>1, Invariant, PTL
=============================================================================
