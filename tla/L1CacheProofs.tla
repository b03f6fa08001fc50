---------------------------- MODULE L1CacheProofs ----------------------------
(***************************************************************************)
(* The accounting of L1Cache, its recency list and the order of eviction   *)
(* are right, and L1Cache implements the forgetting map its callers see,   *)
(* for every set of keys and records, every size and every budget.         *)
(***************************************************************************)
EXTENDS L1Cache, Counting

Distinct(s) == \A i, j \in DOMAIN s : s[i] = s[j] => i = j

\* k leads t, and what is behind it in t is in the order of s.
Leads(k, s, t) ==
    /\ 1 \in DOMAIN t /\ t[1] = k
    /\ \A i, j \in DOMAIN t :
         1 < i /\ i < j => \E a, b \in DOMAIN s : a < b /\ t[i] = s[a] /\ t[j] = s[b]

Heads(s, n) == {s[i] : i \in 1..n}

LEMMA MoveToFrontProperties ==
    ASSUME NEW s \in Seq(Keys), Distinct(s), NEW k \in ToSet(s)
    PROVE  /\ MoveToFront(s, k) \in Seq(Keys)
           /\ ToSet(MoveToFront(s, k)) = ToSet(s)
           /\ Distinct(MoveToFront(s, k))
           /\ Leads(k, s, MoveToFront(s, k))
<1> DEFINE at == CHOOSE i \in DOMAIN s : s[i] = k
           t  == MoveToFront(s, k)
<1>1. at \in 1..Len(s) /\ s[at] = k /\ k \in Keys
  BY DEF ToSet
<1>2. DOMAIN t = 1..Len(s)
  BY DEF MoveToFront
<1>3. \A i \in 1..Len(s) : t[i] = IF i = 1 THEN k
                                  ELSE IF i <= at THEN s[i - 1] ELSE s[i]
  BY DEF MoveToFront
<1> HIDE DEF at, t
<1>4. \A i \in 1..Len(s) : t[i] \in Keys
  BY <1>1, <1>3
<1>5. t = [i \in 1..Len(s) |-> t[i]]
  BY <1>2 DEF t, MoveToFront
<1>6. t \in Seq(Keys)
  BY <1>4, <1>5
<1>7. ToSet(t) \subseteq ToSet(s)
  BY <1>1, <1>2, <1>3 DEF ToSet
<1>8. ASSUME NEW i \in 1..Len(s)
      PROVE  \E j \in 1..Len(s) : t[j] = s[i]
  <2>1. CASE i = at
    BY <1>1, <1>3, <2>1
  <2>2. CASE i < at
    <3>1. i + 1 \in 1..Len(s) /\ t[i + 1] = s[i]
      BY <1>1, <1>3, <2>2
    <3> QED BY <3>1
  <2>3. CASE i > at
    <3>1. t[i] = s[i]
      BY <1>1, <1>3, <2>3
    <3> QED BY <3>1
  <2> QED BY <1>1, <2>1, <2>2, <2>3
<1>9. ToSet(s) \subseteq ToSet(t)
  <2>1. DOMAIN s = 1..Len(s)
    OBVIOUS
  <2> QED BY <1>2, <1>8, <2>1 DEF ToSet
<1>10. Distinct(t)
  BY <1>1, <1>2, <1>3 DEF Distinct
<1>11. Leads(k, s, t)
  <2>1. ASSUME NEW i \in 1..Len(s), NEW j \in 1..Len(s), 1 < i, i < j
        PROVE  \E a, b \in 1..Len(s) : a < b /\ t[i] = s[a] /\ t[j] = s[b]
    <3>1. CASE j <= at
      <4>1. i - 1 \in 1..Len(s) /\ j - 1 \in 1..Len(s) /\ i - 1 < j - 1
        BY <2>1
      <4>2. t[i] = s[i - 1] /\ t[j] = s[j - 1]
        BY <1>1, <1>3, <2>1, <3>1
      <4> QED BY <4>1, <4>2
    <3>2. CASE i <= at /\ at < j
      <4>1. i - 1 \in 1..Len(s) /\ i - 1 < j
        BY <2>1
      <4>2. t[i] = s[i - 1] /\ t[j] = s[j]
        BY <1>1, <1>3, <2>1, <3>2
      <4> QED BY <4>1, <4>2
    <3>3. CASE at < i
      <4>1. t[i] = s[i] /\ t[j] = s[j]
        BY <1>1, <1>3, <2>1, <3>3
      <4> QED BY <2>1, <4>1
    <3> QED BY <1>1, <2>1, <3>1, <3>2, <3>3
  <2>2. DOMAIN s = 1..Len(s)
    OBVIOUS
  <2>3. t[1] = k /\ 1 \in DOMAIN t
    BY <1>1, <1>2, <1>3
  <2>4. ASSUME NEW i \in DOMAIN t, NEW j \in DOMAIN t, 1 < i, i < j
        PROVE  \E a, b \in DOMAIN s : a < b /\ t[i] = s[a] /\ t[j] = s[b]
    <3>1. i \in 1..Len(s) /\ j \in 1..Len(s)
      BY <1>2
    <3>2. PICK a, b \in 1..Len(s) : a < b /\ t[i] = s[a] /\ t[j] = s[b]
      BY <2>1, <2>4, <3>1
    <3> QED BY <2>2, <3>2
  <2> QED BY <2>3, <2>4 DEF Leads
<1> QED BY <1>6, <1>7, <1>9, <1>10, <1>11 DEF t

LEMMA TouchedProperties ==
    ASSUME NEW s \in Seq(Keys), Distinct(s), NEW k \in Keys
    PROVE  /\ Touched(s, k) \in Seq(Keys)
           /\ ToSet(Touched(s, k)) = ToSet(s) \cup {k}
           /\ Distinct(Touched(s, k))
           /\ Leads(k, s, Touched(s, k))
<1>1. CASE k \in ToSet(s)
  BY <1>1, MoveToFrontProperties DEF Touched
<1>2. CASE k \notin ToSet(s)
  <2> DEFINE t == <<k>> \o s
  <2>1. /\ t \in Seq(Keys) /\ Len(t) = Len(s) + 1 /\ t[1] = k
        /\ \A i \in 2..Len(t) : t[i] = s[i - 1]
    OBVIOUS
  <2>2. \A i \in 1..Len(s) : t[i + 1] = s[i]
    BY <2>1
  <2> HIDE DEF t
  <2>3. ToSet(t) = ToSet(s) \cup {k}
    <3>1. ToSet(t) \subseteq ToSet(s) \cup {k}
      <4>1. /\ DOMAIN s = 1..Len(s) /\ DOMAIN t = 1..Len(t)
            /\ \A i \in 2..Len(t) : i - 1 \in 1..Len(s)
            /\ \A i \in 1..Len(t) : i = 1 \/ i \in 2..Len(t)
        BY <2>1
      <4>2. \A i \in DOMAIN t : t[i] \in ToSet(s) \cup {k}
        <5> SUFFICES ASSUME NEW i \in DOMAIN t PROVE t[i] \in ToSet(s) \cup {k}
          OBVIOUS
        <5>1. CASE i = 1
          BY <2>1, <5>1
        <5>2. CASE i \in 2..Len(t)
          BY <2>1, <4>1, <5>2 DEF ToSet
        <5> QED BY <4>1, <5>1, <5>2
      <4> QED BY <4>2 DEF ToSet
    <3>2. k \in ToSet(t)
      BY <2>1 DEF ToSet
    <3>3. ToSet(s) \subseteq ToSet(t)
      <4>1. /\ DOMAIN s = 1..Len(s) /\ DOMAIN t = 1..Len(t)
            /\ \A i \in 1..Len(s) : i + 1 \in 1..Len(t)
        BY <2>1
      <4> QED BY <2>2, <4>1 DEF ToSet
    <3> QED BY <3>1, <3>2, <3>3
  <2>4. Distinct(t)
    <3>1. \A i \in DOMAIN s : s[i] # k
      BY <1>2 DEF ToSet
    <3>2. /\ DOMAIN s = 1..Len(s) /\ DOMAIN t = 1..Len(t)
          /\ \A i \in DOMAIN t : i # 1 => i - 1 \in DOMAIN s /\ t[i] = s[i - 1]
          /\ \A i, j \in DOMAIN t : i - 1 = j - 1 => i = j
      BY <2>1
    <3> QED BY <2>1, <3>1, <3>2 DEF Distinct
  <2>5. Leads(k, s, t)
    <3>1. ASSUME NEW i \in DOMAIN t, NEW j \in DOMAIN t, 1 < i, i < j
          PROVE  \E a, b \in DOMAIN s : a < b /\ t[i] = s[a] /\ t[j] = s[b]
      <4>1. /\ i - 1 \in DOMAIN s /\ j - 1 \in DOMAIN s /\ i - 1 < j - 1
            /\ t[i] = s[i - 1] /\ t[j] = s[j - 1]
        BY <2>1, <3>1
      <4> QED BY <4>1
    <3>2. 1 \in DOMAIN t /\ t[1] = k
      BY <2>1
    <3> QED BY <3>1, <3>2 DEF Leads
  <2> QED BY <1>2, <2>1, <2>3, <2>4, <2>5 DEF Touched, t
<1> QED BY <1>1, <1>2

LEMMA PrefixProperties ==
    ASSUME NEW s \in Seq(Keys), Distinct(s), NEW n \in 0..Len(s)
    PROVE  /\ SubSeq(s, 1, n) \in Seq(Keys)
           /\ ToSet(SubSeq(s, 1, n)) = Heads(s, n)
           /\ Heads(s, n) \subseteq ToSet(s)
           /\ Distinct(SubSeq(s, 1, n))
<1>1. /\ SubSeq(s, 1, n) \in Seq(Keys) /\ Len(SubSeq(s, 1, n)) = n
      /\ \A i \in 1..n : SubSeq(s, 1, n)[i] = s[i]
  OBVIOUS
<1>2. DOMAIN SubSeq(s, 1, n) = 1..n /\ 1..n \subseteq DOMAIN s
  BY <1>1
<1>3. ToSet(SubSeq(s, 1, n)) = Heads(s, n)
  BY <1>1, <1>2 DEF ToSet, Heads
<1>4. Heads(s, n) \subseteq ToSet(s)
  BY <1>2 DEF ToSet, Heads
<1>5. Distinct(SubSeq(s, 1, n))
  BY <1>1, <1>2 DEF Distinct
<1> QED BY <1>1, <1>3, <1>4, <1>5

-----------------------------------------------------------------------------
(* The two recursions, in terms of Total. *)

Sizes(all) == [k \in DOMAIN all |-> all[k].sizeBytes]

LEMMA SumIsTotal ==
    ASSUME NEW S, IsFiniteSet(S), NEW all, \A k \in S : all[k].sizeBytes \in Nat,
           S = DOMAIN all
    PROVE  MapThenSumSet(LAMBDA k : all[k].sizeBytes, S) = Total(S, Sizes(all))
<1> DEFINE x(s)  == CHOOSE e \in s : TRUE
           P(g)  == g = [s \in SUBSET S |-> IF s = {} THEN 0
                                            ELSE all[x(s)].sizeBytes + g[s \ {x(s)}]]
           f == Sizes(all)
           G     == [s \in SUBSET S |-> Total(s, f)]
           iter  == CHOOSE g : P(g)
           T     == {s \in SUBSET S : iter[s] = Total(s, f)}
<1>1. MapThenSumSet(LAMBDA k : all[k].sizeBytes, S) = iter[S]
  BY DEF MapThenSumSet, MapThenFoldSet
<1>2. \A s \in SUBSET S : s # {} => x(s) \in s
  OBVIOUS
<1>3. \A k \in S : f[k] = all[k].sizeBytes /\ f[k] \in Nat
  BY DEF Sizes
<1> HIDE DEF x, f
<1>4. Total({}, f) = 0
  BY TotalOfNone
<1>5. ASSUME NEW s \in SUBSET S, s # {}
      PROVE  Total(s, f) = all[x(s)].sizeBytes + Total(s \ {x(s)}, f)
  <2>1. IsFiniteSet(s) /\ x(s) \in s /\ \A k \in s : f[k] \in Nat
    BY <1>2, <1>3, <1>5, FS_Subset
  <2>2. Total(s, f) = Total(s \ {x(s)}, f) + f[x(s)] /\ Total(s \ {x(s)}, f) \in Nat
    BY <2>1, TotalSplit
  <2> QED
    BY <2>1, <2>2, <1>3
<1>6. P(G)
  <2>1. \A s \in SUBSET S : s # {} => G[s \ {x(s)}] = Total(s \ {x(s)}, f)
    OBVIOUS
  <2> QED
    BY <1>4, <1>5, <2>1
<1>7. P(iter)
  <2> HIDE DEF P
  <2> QED
    BY <1>6
<1>8. {} \in T
  BY <1>4, <1>7
<1>9. ASSUME NEW s \in SUBSET S, s # {}, s \ {x(s)} \in T
      PROVE  s \in T
  <2>1. iter[s] = all[x(s)].sizeBytes + iter[s \ {x(s)}]
    <3> HIDE DEF iter
    <3> QED
      BY <1>7, <1>9
  <2> HIDE DEF iter
  <2> QED
    BY <1>5, <1>9, <2>1
<1> HIDE DEF T
<1>10. SUBSET S \subseteq T
  <2>1. \A s \in SUBSET S : s # {} => \E k \in s : s \ {k} \in T => s \in T
    BY <1>2, <1>9
  <2> QED
    BY <1>8, <2>1, SubsetInduction, SMTT(30)
<1> QED
  BY <1>1, <1>10 DEF T, f

LEMMA LeftIsTotal ==
    ASSUME NEW order \in Seq(Keys), Distinct(order),
           NEW all, DOMAIN all = ToSet(order), IsFiniteSet(DOMAIN all),
           \A k \in DOMAIN all : all[k].sizeBytes \in Nat,
           NEW usage, usage = Total(DOMAIN all, Sizes(all)),
           NEW n \in 0..Len(order)
    PROVE  /\ Left(all, order, usage)[n] = Total(Heads(order, n), Sizes(all))
           /\ DOMAIN Left(all, order, usage) = 0..Len(order)
<1> DEFINE N == Len(order)
           f == Sizes(all)
           size(i) == all[order[i]].sizeBytes
           B(g, i) == IF i = N THEN usage
                      ELSE LET rest == g[i + 1] - size(i + 1) IN IF rest < 0 THEN 0 ELSE rest
           P(g) == g = [i \in 0..N |-> B(g, i)]
           G == [i \in 0..N |-> Total(Heads(order, i), f)]
           left == CHOOSE g : P(g)
           T == {i \in 0..N : left[i] = Total(Heads(order, i), f)}
<1>1. Left(all, order, usage) = left
  BY DEF Left
<1>2. N \in Nat /\ DOMAIN order = 1..N /\ n \in 0..N
  OBVIOUS
<1> HIDE DEF N
<1>3. Total(Heads(order, N), f) = usage
  <2>1. Heads(order, N) = DOMAIN all
    BY <1>2 DEF Heads, ToSet
  <2> QED
    BY <2>1
<1>4. ASSUME NEW i \in 0..N, i # N
      PROVE  /\ Total(Heads(order, i + 1), f) - size(i + 1) = Total(Heads(order, i), f)
             /\ Total(Heads(order, i), f) \in Nat
  <2> DEFINE k == order[i + 1]
  <2>1. i + 1 \in 1..N
    BY <1>2, <1>4
  <2>2. /\ k \in Heads(order, i + 1) /\ k \in DOMAIN all
        /\ Heads(order, i + 1) \subseteq DOMAIN all
        /\ Heads(order, i) = Heads(order, i + 1) \ {k}
    <3>1. /\ \A j \in 1..N : order[j] \in DOMAIN all
          /\ \A j \in 1..N : order[j] = k => j = i + 1
      BY <1>2, <2>1 DEF ToSet, Distinct
    <3>2. 1..i + 1 = 1..i \cup {i + 1} /\ i + 1 \notin 1..i /\ 1..i + 1 \subseteq 1..N
      BY <1>2, <2>1
    <3> QED
      BY <2>1, <3>1, <3>2 DEF Heads
  <2>3. f[k] = size(i + 1) /\ \A j \in DOMAIN all : f[j] \in Nat
    BY <2>2 DEF Sizes
  <2> HIDE DEF k, f
  <2>4. IsFiniteSet(Heads(order, i + 1)) /\ \A j \in Heads(order, i + 1) : f[j] \in Nat
    BY <2>2, <2>3, FS_Subset
  <2>5. /\ Total(Heads(order, i + 1), f) = Total(Heads(order, i + 1) \ {k}, f) + f[k]
        /\ Total(Heads(order, i + 1) \ {k}, f) \in Nat
    BY <2>2, <2>4, TotalSplit
  <2>6. f[k] \in Nat
    BY <2>2, <2>3
  <2> QED
    BY <2>2, <2>3, <2>5, <2>6
<1> HIDE DEF f, size
<1>5. P(G)
  <2>1. ASSUME NEW i \in 0..N
        PROVE  G[i] = B(G, i)
    <3>1. CASE i = N
      BY <1>3, <3>1
    <3>2. CASE i # N
      <4>1. G[i] = Total(Heads(order, i), f) /\ G[i + 1] = Total(Heads(order, i + 1), f)
        BY <1>2, <3>2
      <4> HIDE DEF G
      <4> QED
        BY <1>4, <3>2, <4>1
    <3> QED
      BY <3>1, <3>2
  <2> HIDE DEF B
  <2> QED
    BY <2>1
<1>6. P(left)
  <2> HIDE DEF P
  <2> QED
    BY <1>5
<1> HIDE DEF left, G
<1>7. \A i \in 0..N : left[i] = B(left, i)
  <2> HIDE DEF B
  <2> QED
    BY <1>6
<1>8. N \in T
  BY <1>2, <1>3, <1>7
<1>9. ASSUME NEW i \in 0..N - 1, i + 1 \in T
      PROVE  i \in T
  <2>1. i \in 0..N /\ i # N
    BY <1>2
  <2>2. left[i] = IF left[i + 1] - size(i + 1) < 0 THEN 0 ELSE left[i + 1] - size(i + 1)
    BY <1>7, <2>1
  <2>3. left[i + 1] = Total(Heads(order, i + 1), f)
    BY <1>9
  <2> HIDE DEF B
  <2> QED
    BY <1>4, <2>1, <2>2, <2>3
<1> HIDE DEF T
<1>10. 0..N \subseteq T
  BY <1>2, <1>8, <1>9, Descent
<1>11. DOMAIN left = 0..N
  BY <1>6
<1> QED
  BY <1>1, <1>2, <1>10, <1>11 DEF T, f, N

-----------------------------------------------------------------------------
(* The invariant. The total is the sum of the sizes, so no eviction takes   *)
(* it below zero; and the list is in the order of use, so that what goes    *)
(* from its end was used before all that stays.                             *)

UsageInv ==
    /\ IsFiniteSet(DOMAIN entries)
    /\ usageBytes = Total(DOMAIN entries, Sizes(entries))
    /\ usageBytes <= MaxUsageBytes

Ordered(s, after) == \A i, j \in DOMAIN s : i < j => <<s[i], s[j]>> \in after

\* The operator, because the provers do not take a function of two arguments.
NewSize(k, rec) == EntrySize[k, rec]

Inv == TypeOK /\ RecencyMatches /\ UsageInv /\ Ordered(recency, usedAfter)

LEMMA InvInit == Init => Inv
<1> SUFFICES ASSUME Init
             PROVE  Inv
  OBVIOUS
<1>1. DOMAIN entries = {}
  BY DEF Init
<1>2. TypeOK
  BY <1>1 DEF Init, TypeOK
<1>3. RecencyMatches
  BY <1>1 DEF Init, RecencyMatches, ToSet
<1>4. UsageInv
  <2>1. Total(DOMAIN entries, Sizes(entries)) = 0
    BY <1>1, TotalOfNone
  <2>2. MaxUsageBytes \in Nat
    BY L1Assumption
  <2> QED BY <1>1, <2>1, <2>2, FS_EmptySet DEF Init, UsageInv
<1>5. Ordered(recency, usedAfter)
  BY DEF Init, Ordered
<1> QED BY <1>2, <1>3, <1>4, <1>5 DEF Inv

\* A list that puts the key in use first stays in the order of use.
LEMMA UseKeepsOrder ==
    ASSUME NEW s \in Seq(Keys), Ordered(s, usedAfter), NEW k \in Keys, Use(k),
           NEW t \in Seq(Keys), Distinct(t), Leads(k, s, t)
    PROVE  Ordered(t, usedAfter')
<1>1. ASSUME NEW i \in DOMAIN t, NEW j \in DOMAIN t, i < j
      PROVE  <<t[i], t[j]>> \in usedAfter'
  <2>1. t[j] \in Keys /\ t[1] = k /\ 1 \in DOMAIN t /\ i \in 1..Len(t)
    BY DEF Leads
  <2>2. t[j] # k
    BY <1>1, <2>1 DEF Distinct
  <2>3. CASE i = 1
    BY <2>1, <2>2, <2>3 DEF Use
  <2>4. CASE 1 < i
    <3>1. PICK a, b \in DOMAIN s : a < b /\ t[i] = s[a] /\ t[j] = s[b]
      BY <1>1, <2>4 DEF Leads
    <3>2. <<t[i], t[j]>> \in usedAfter
      BY <3>1 DEF Ordered
    <3> QED BY <2>2, <3>2 DEF Use
  <2> QED BY <2>1, <2>3, <2>4
<1> QED BY <1>1 DEF Ordered

LEMMA UseType ==
    ASSUME TypeOK, NEW k \in Keys, Use(k)
    PROVE  usedAfter' \subseteq Keys \X Keys
BY DEF TypeOK, Use

\* What is there before the loop of evictToBudgetLocked.
IsWritten(all, k, rec) ==
    /\ DOMAIN all = DOMAIN entries \cup {k} /\ IsFiniteSet(DOMAIN all)
    /\ \A j \in DOMAIN all : all[j] \in Entry
    /\ Sizes(all)[k] = NewSize(k, rec)
    /\ \A j \in DOMAIN entries : j # k => Sizes(all)[j] = Sizes(entries)[j]

LEMMA WrittenEntries ==
    ASSUME Inv, NEW k \in Keys, NEW rec \in Records,
           NEW all, all = Written(k, rec)
    PROVE  IsWritten(all, k, rec)
<1> DEFINE D   == DOMAIN entries
           new == [record |-> rec, sizeBytes |-> NewSize(k, rec)]
<1>1. NewSize(k, rec) \in Nat
  BY L1Assumption, Zenon DEF NewSize
<1>2. new \in Entry /\ new.sizeBytes = NewSize(k, rec)
  BY <1>1 DEF Entry
<1>3. DOMAIN all = D \cup {k}
  BY Zenon DEF Written
<1>4. all[k] = new /\ \A j \in D : j # k => all[j] = entries[j]
  BY Zenon DEF Written, NewSize
<1>5. \A j \in D : entries[j] \in Entry
  BY DEF Inv, TypeOK
<1> HIDE DEF new
<1>6. IsFiniteSet(D)
  BY DEF Inv, UsageInv
<1>7. IsFiniteSet(D \cup {k})
  BY <1>6, FS_AddElement
<1>8. \A j \in D \cup {k} : all[j] \in Entry
  BY <1>2, <1>4, <1>5
<1>9. Sizes(all)[k] = NewSize(k, rec)
  BY <1>2, <1>3, <1>4 DEF Sizes
<1>10. \A j \in D : j # k => Sizes(all)[j] = Sizes(entries)[j]
  BY <1>3, <1>4 DEF Sizes
<1> QED BY <1>3, <1>7, <1>8, <1>9, <1>10 DEF IsWritten

LEMMA SizesType ==
    ASSUME NEW all, \A j \in DOMAIN all : all[j] \in Entry
    PROVE  \A j \in DOMAIN all : Sizes(all)[j] = all[j].sizeBytes /\ Sizes(all)[j] \in Nat
BY DEF Sizes, Entry

\* Its total is the one that Set computes.
LEMMA WrittenTotal ==
    ASSUME Inv, NEW k \in Keys, NEW rec \in Records,
           NEW all, all = Written(k, rec)
    PROVE  usageBytes - Released(k) + NewSize(k, rec) = Total(DOMAIN all, Sizes(all))
<1> DEFINE D == DOMAIN entries
           f == Sizes(entries)
           g == Sizes(all)
<1>1. NewSize(k, rec) \in Nat
  BY L1Assumption, Zenon DEF NewSize
<1>2. /\ DOMAIN all = D \cup {k} /\ IsFiniteSet(D \cup {k})
      /\ \A j \in DOMAIN all : all[j] \in Entry
      /\ g[k] = NewSize(k, rec) /\ \A j \in D : j # k => g[j] = f[j]
  BY WrittenEntries DEF IsWritten
<1>3. IsFiniteSet(D) /\ usageBytes = Total(D, f)
  BY DEF Inv, UsageInv
<1>4. \A j \in D : f[j] \in Nat /\ f[j] = entries[j].sizeBytes
  BY SizesType DEF Inv, TypeOK
<1>5. \A j \in D \cup {k} : g[j] \in Nat
  BY <1>2, SizesType
<1> HIDE DEF f, g, D
<1>6. Total((D \cup {k}) \ {k}, g) = Total(D \ {k}, f)
  <2>1. (D \cup {k}) \ {k} = D \ {k}
    OBVIOUS
  <2>2. \A j \in D \ {k} : g[j] = f[j]
    BY <1>2
  <2> QED BY <2>1, <2>2, TotalOfSame
<1>7. /\ Total(D \cup {k}, g) = Total(D \ {k}, f) + NewSize(k, rec)
      /\ Total(D \ {k}, f) \in Nat
  <2>1. /\ Total(D \cup {k}, g) = Total((D \cup {k}) \ {k}, g) + g[k]
        /\ Total((D \cup {k}) \ {k}, g) \in Nat
    BY <1>2, <1>5, TotalSplit
  <2> QED BY <1>2, <1>6, <2>1
<1>8. usageBytes - Released(k) = Total(D \ {k}, f)
  <2>1. CASE k \in D
    <3>1. Total(D, f) = Total(D \ {k}, f) + f[k]
      BY <1>3, <1>4, <2>1, TotalSplit
    <3>2. Released(k) = f[k] /\ f[k] \in Nat
      BY <1>4, <2>1 DEF Released, D
    <3> QED BY <1>3, <1>7, <3>1, <3>2
  <2>2. CASE k \notin D
    <3>1. D \ {k} = D /\ Released(k) = 0
      BY <2>2 DEF Released, D
    <3>2. Total(D \ {k}, f) \in Nat /\ usageBytes = Total(D \ {k}, f)
      BY <1>3, <1>7, <3>1
    <3> QED BY <3>1, <3>2
  <2> QED BY <2>1, <2>2
<1> QED BY <1>1, <1>2, <1>7, <1>8 DEF g

\* A store: n entries stay, the first of the list, and one more would not fit.
SetDoes(k, order, all) ==
    /\ order \in Seq(Keys) /\ Distinct(order) /\ Leads(k, recency, order)
    /\ ToSet(order) = DOMAIN all
    /\ \E n \in 0..Len(order) :
         /\ recency' = SubSeq(order, 1, n)
         /\ ToSet(recency') = Heads(order, n) /\ DOMAIN entries' = Heads(order, n)
         /\ Heads(order, n) \subseteq DOMAIN all
         /\ \A j \in DOMAIN entries' : entries'[j] = all[j]
         /\ usageBytes' = Total(Heads(order, n), Sizes(all))
         /\ n > 0 => usageBytes' <= MaxUsageBytes
         /\ \A m \in n + 1..Len(order) : Total(Heads(order, m), Sizes(all)) > MaxUsageBytes

LEMMA SetEffect ==
    ASSUME Inv, NEW k \in Keys, NEW rec \in Records, Set(k, rec),
           NEW order, order = Touched(recency, k),
           NEW all, all = Written(k, rec)
    PROVE  SetDoes(k, order, all)
<1> DEFINE usage == usageBytes - Released(k) + NewSize(k, rec)
           left  == Left(all, order, usage)
<1>1. recency \in Seq(Keys) /\ Distinct(recency) /\ ToSet(recency) = DOMAIN entries
  BY DEF Inv, TypeOK, RecencyMatches, Distinct
<1>2. /\ order \in Seq(Keys) /\ Distinct(order) /\ Leads(k, recency, order)
      /\ ToSet(order) = DOMAIN entries \cup {k}
  BY <1>1, TouchedProperties
<1>3. /\ DOMAIN all = ToSet(order) /\ IsFiniteSet(DOMAIN all)
      /\ \A j \in DOMAIN all : all[j].sizeBytes \in Nat
      /\ usage = Total(DOMAIN all, Sizes(all))
  BY <1>2, WrittenEntries, WrittenTotal DEF IsWritten, Entry
<1>4. PICK n \in 0..Len(order) :
        /\ Stops(left, n)
        /\ recency' = SubSeq(order, 1, n)
        /\ entries' = [j \in ToSet(SubSeq(order, 1, n)) |-> all[j]]
        /\ usageBytes' = left[n]
  BY DEF Set, evictToBudget, NewSize
<1> HIDE DEF usage
<1>5. \A m \in 0..Len(order) : left[m] = Total(Heads(order, m), Sizes(all))
  BY <1>2, <1>3, LeftIsTotal
<1>6. DOMAIN left = 0..Len(order)
  <2>1. 0 \in 0..Len(order)
    BY <1>2
  <2> QED BY <1>2, <1>3, <2>1, LeftIsTotal
<1> HIDE DEF left
<1>7. ToSet(SubSeq(order, 1, n)) = Heads(order, n) /\ Heads(order, n) \subseteq ToSet(order)
  BY <1>2, PrefixProperties
<1>8. ASSUME NEW m \in n + 1..Len(order)
      PROVE  Total(Heads(order, m), Sizes(all)) > MaxUsageBytes
  <2>1. m \in 0..Len(order) /\ m > n
    BY <1>2
  <2> QED BY <1>4, <1>5, <1>6, <2>1 DEF Stops
<1>9. n > 0 => usageBytes' <= MaxUsageBytes
  BY <1>4 DEF Stops
<1>10. usageBytes' = Total(Heads(order, n), Sizes(all))
  BY <1>4, <1>5
<1>11. DOMAIN entries' = Heads(order, n) /\ \A j \in DOMAIN entries' : entries'[j] = all[j]
  BY <1>4, <1>7
<1> QED BY <1>2, <1>3, <1>4, <1>7, <1>8, <1>9, <1>10, <1>11 DEF SetDoes

LEMMA SetKeepsInv ==
    ASSUME Inv, NEW k \in Keys, NEW rec \in Records, Set(k, rec)
    PROVE  Inv'
<1> DEFINE order == Touched(recency, k)
           all   == Written(k, rec)
<1>0. SetDoes(k, order, all)
  BY SetEffect
<1>1. /\ order \in Seq(Keys) /\ Distinct(order) /\ Leads(k, recency, order)
      /\ ToSet(order) = DOMAIN all
  BY <1>0 DEF SetDoes
<1>2. PICK n \in 0..Len(order) :
        /\ recency' = SubSeq(order, 1, n)
        /\ ToSet(recency') = Heads(order, n) /\ DOMAIN entries' = Heads(order, n)
        /\ Heads(order, n) \subseteq DOMAIN all
        /\ \A j \in DOMAIN entries' : entries'[j] = all[j]
        /\ usageBytes' = Total(Heads(order, n), Sizes(all))
        /\ n > 0 => usageBytes' <= MaxUsageBytes
  BY <1>0 DEF SetDoes
<1>3. /\ DOMAIN all = DOMAIN entries \cup {k} /\ IsFiniteSet(DOMAIN all)
      /\ \A j \in DOMAIN all : all[j] \in Entry
  BY WrittenEntries DEF IsWritten
<1>4. recency' \in Seq(Keys) /\ Distinct(recency')
  BY <1>1, <1>2, PrefixProperties
<1> HIDE DEF order, all
<1>5. IsFiniteSet(Heads(order, n))
  BY <1>2, <1>3, FS_Subset
<1>6. \A j \in DOMAIN all : Sizes(all)[j] = all[j].sizeBytes /\ Sizes(all)[j] \in Nat
  BY <1>3 DEF Sizes, Entry
<1>7. usageBytes' \in Nat
  BY <1>2, <1>5, <1>6, UnitsFinite
<1>8. TypeOK'
  <2>1. DOMAIN entries' \subseteq Keys
    BY <1>2, <1>3 DEF Inv, TypeOK
  <2>2. \A j \in DOMAIN entries' : entries'[j] \in Entry
    BY <1>2, <1>3
  <2>3. call' \in [op: {"none", "get", "set"}, key: Keys \cup {None},
                   record: Records \cup {None}]
    BY DEF Set
  <2>4. usedAfter' \subseteq Keys \X Keys
    BY UseType DEF Inv, Set
  <2> QED BY <1>4, <1>7, <2>1, <2>2, <2>3, <2>4 DEF TypeOK
<1>9. RecencyMatches'
  BY <1>2, <1>4 DEF RecencyMatches, Distinct
<1>10. UsageInv'
  <2>1. Total(Heads(order, n), Sizes(all)) = Total(Heads(order, n), Sizes(entries'))
    <3>1. \A j \in Heads(order, n) : Sizes(all)[j] = Sizes(entries')[j]
      BY <1>2, <1>6 DEF Sizes
    <3> QED BY <3>1, TotalOfSame
  <2>2. usageBytes' <= MaxUsageBytes
    <3>1. CASE n = 0
      <4>1. Heads(order, n) = {}
        BY <3>1 DEF Heads
      <4>2. usageBytes' = 0
        BY <1>2, <4>1, TotalOfNone
      <4> QED BY <4>2, L1Assumption
    <3>2. CASE n > 0
      BY <1>2, <3>2
    <3> QED BY <3>1, <3>2
  <2> QED BY <1>2, <1>5, <2>1, <2>2 DEF UsageInv
<1>11. Ordered(recency', usedAfter')
  <2>1. Ordered(order, usedAfter')
    BY <1>1, UseKeepsOrder DEF Inv, TypeOK, Set
  <2>2. /\ DOMAIN recency' \subseteq DOMAIN order
        /\ \A i \in DOMAIN recency' : recency'[i] = order[i]
    BY <1>1, <1>2
  <2> QED BY <2>1, <2>2 DEF Ordered
<1> QED BY <1>8, <1>9, <1>10, <1>11 DEF Inv

LEMMA GetEffect ==
    ASSUME Inv, NEW k \in Keys, Get(k)
    PROVE  Inv' /\ UNCHANGED entries
<1>1. /\ recency \in Seq(Keys) /\ Distinct(recency)
      /\ ToSet(recency) = DOMAIN entries /\ k \in DOMAIN entries
  BY DEF Inv, TypeOK, RecencyMatches, Distinct, Get
<1>2. /\ recency' \in Seq(Keys) /\ Distinct(recency')
      /\ ToSet(recency') = DOMAIN entries /\ Leads(k, recency, recency')
  BY <1>1, MoveToFrontProperties DEF Get
<1>3. UNCHANGED <<entries, usageBytes>>
  BY DEF Get
<1>4. TypeOK'
  <2>1. entries[k].record \in Records
    BY <1>1 DEF Inv, TypeOK, Entry
  <2>2. call' \in [op: {"none", "get", "set"}, key: Keys \cup {None},
                   record: Records \cup {None}]
    BY <2>1 DEF Get
  <2>3. usedAfter' \subseteq Keys \X Keys
    BY UseType DEF Inv, Get
  <2> QED BY <1>2, <1>3, <2>2, <2>3 DEF Inv, TypeOK
<1>5. RecencyMatches'
  BY <1>2, <1>3 DEF RecencyMatches, Distinct
<1>6. UsageInv'
  BY <1>3 DEF Inv, UsageInv
<1>7. Ordered(recency', usedAfter')
  BY <1>1, <1>2, UseKeepsOrder DEF Inv, Get
<1> QED BY <1>3, <1>4, <1>5, <1>6, <1>7 DEF Inv

LEMMA MissEffect ==
    ASSUME Inv, NEW k \in Keys, Miss(k)
    PROVE  Inv' /\ UNCHANGED entries
<1>1. UNCHANGED <<entries, recency, usageBytes, usedAfter>>
  BY DEF Miss
<1>2. TypeOK'
  BY <1>1 DEF Miss, Inv, TypeOK
<1>3. RecencyMatches' /\ UsageInv' /\ Ordered(recency', usedAfter')
  BY <1>1 DEF Inv, RecencyMatches, UsageInv, Ordered
<1> QED BY <1>1, <1>2, <1>3 DEF Inv

LEMMA InvStep == Inv /\ [Next]_vars => Inv'
<1>1. ASSUME Inv, UNCHANGED vars
      PROVE  Inv'
  BY <1>1 DEF vars, Inv, TypeOK, RecencyMatches, UsageInv, Ordered
<1> QED BY <1>1, GetEffect, MissEffect, SetKeepsInv DEF Next

LEMMA Invariant == Spec => []Inv
BY InvInit, InvStep, PTL DEF Spec

\* The variables keep their types: what is cached are records with the sizes
\* they had when they were stored, and calls answer with records or nothing.
THEOREM TypesAreKept == Spec => []TypeOK
<1>1. Inv => TypeOK
  BY DEF Inv
<1> QED BY <1>1, Invariant, PTL

\* The recency list holds the cached keys, each once: the eviction loop
\* finds an entry for every element it removes, and misses none.
THEOREM RecencyIsConsistent == Spec => []RecencyMatches
<1>1. Inv => RecencyMatches
  BY DEF Inv
<1> QED BY <1>1, Invariant, PTL

\* The running total is the sum of the sizes of what is cached, and within
\* the budget, after any sequence of overwrites and evictions.
THEOREM UsageIsExact == Spec => []WithinBudget
<1>1. ASSUME Inv
      PROVE  WithinBudget
  <2>1. IsFiniteSet(DOMAIN entries) /\ \A k \in DOMAIN entries : entries[k].sizeBytes \in Nat
    BY <1>1 DEF Inv, UsageInv, TypeOK, Entry
  <2>2. MapThenSumSet(LAMBDA k : entries[k].sizeBytes, DOMAIN entries) =
          Total(DOMAIN entries, Sizes(entries))
    BY <2>1, SumIsTotal
  <2> QED BY <1>1, <2>2 DEF Inv, UsageInv, WithinBudget
<1> QED BY <1>1, Invariant, PTL

-----------------------------------------------------------------------------
(* What an eviction takes.                                                 *)

\* A key that stays was used later than every key that goes.
THEOREM EvictionIsByUse == Spec => EvictsLeastRecentlyUsed
<1>1. ASSUME Inv, NEW k \in Keys, NEW rec \in Records, Set(k, rec),
             NEW i \in DOMAIN entries \cap DOMAIN entries',
             NEW j \in DOMAIN entries \ DOMAIN entries'
      PROVE  <<i, j>> \in usedAfter'
  <2> DEFINE order == Touched(recency, k)
             all   == Written(k, rec)
  <2>1. SetDoes(k, order, all)
    BY <1>1, SetEffect
  <2>2. DOMAIN all = DOMAIN entries \cup {k}
    BY Zenon DEF Written
  <2> HIDE DEF all
  <2>3. Ordered(order, usedAfter')
    <3>1. order \in Seq(Keys) /\ Distinct(order) /\ Leads(k, recency, order)
      BY <2>1 DEF SetDoes
    <3> QED BY <1>1, <3>1, UseKeepsOrder DEF Inv, TypeOK, Set
  <2> HIDE DEF order
  <2>4. order \in Seq(Keys) /\ ToSet(order) = DOMAIN entries \cup {k}
    BY <2>1, <2>2 DEF SetDoes
  <2>5. PICK n \in 0..Len(order) : DOMAIN entries' = Heads(order, n)
    BY <2>1 DEF SetDoes
  <2>6. PICK a \in 1..n : order[a] = i
    BY <2>5 DEF Heads
  <2>7. PICK b \in DOMAIN order : order[b] = j
    BY <2>4 DEF ToSet
  <2>8. b \notin 1..n
    BY <2>5, <2>7 DEF Heads
  <2>9. a \in DOMAIN order /\ a < b
    BY <2>4, <2>6, <2>7, <2>8
  <2> QED BY <2>3, <2>6, <2>7, <2>9 DEF Ordered
<1>2. ASSUME Inv, [Next]_vars
      PROVE  [\A k \in DOMAIN entries \cap DOMAIN entries' :
                \A j \in DOMAIN entries \ DOMAIN entries' :
                   <<k, j>> \in usedAfter']_vars
  <2>1. CASE UNCHANGED entries
    BY <2>1
  <2>2. ASSUME NEW k \in Keys, NEW rec \in Records, Set(k, rec)
        PROVE  \A i \in DOMAIN entries \cap DOMAIN entries' :
                 \A j \in DOMAIN entries \ DOMAIN entries' : <<i, j>> \in usedAfter'
    BY <1>1, <1>2, <2>2
  <2>3. CASE UNCHANGED vars
    BY <2>3
  <2> QED BY <1>2, <2>1, <2>2, <2>3, GetEffect, MissEffect DEF Next
<1> QED BY <1>2, Invariant, PTL DEF Spec, EvictsLeastRecentlyUsed

\* A store keeps what it stores if that fits, and what it evicts must go.
THEOREM EvictionIsNeeded == Spec => EvictsNoMoreThanNeeded
<1> DEFINE Needed ==
             LET k       == call'.key
                 size(j) == IF j = k THEN EntrySize[k, call'.record]
                                     ELSE entries[j].sizeBytes
                 dropped == (DOMAIN entries \cup {k}) \ DOMAIN entries'
             IN  /\ size(k) <= MaxUsageBytes => k \notin dropped
                 /\ dropped # {} =>
                      \E j \in dropped : usageBytes' + size(j) > MaxUsageBytes
<1>1. ASSUME Inv, NEW k \in Keys, NEW rec \in Records, Set(k, rec)
      PROVE  Needed
  <2> DEFINE order   == Touched(recency, k)
             size(j) == IF j = k THEN NewSize(k, rec) ELSE entries[j].sizeBytes
             dropped == (DOMAIN entries \cup {k}) \ DOMAIN entries'
  <2>1. PICK all : all = Written(k, rec)
    OBVIOUS
  <2>0. SetDoes(k, order, all)
    BY <1>1, <2>1, SetEffect
  <2>2. /\ order \in Seq(Keys) /\ Distinct(order) /\ Leads(k, recency, order)
        /\ ToSet(order) = DOMAIN all
    BY <2>0 DEF SetDoes
  <2>3. PICK n \in 0..Len(order) :
          /\ DOMAIN entries' = Heads(order, n)
          /\ usageBytes' = Total(Heads(order, n), Sizes(all))
          /\ \A m \in n + 1..Len(order) : Total(Heads(order, m), Sizes(all)) > MaxUsageBytes
    BY <2>0 DEF SetDoes
  <2>4. /\ DOMAIN all = DOMAIN entries \cup {k} /\ IsFiniteSet(DOMAIN all)
        /\ \A j \in DOMAIN all : Sizes(all)[j] = size(j) /\ Sizes(all)[j] \in Nat
    <3> HIDE DEF Needed, order
    <3>1. /\ DOMAIN all = DOMAIN entries \cup {k} /\ IsFiniteSet(DOMAIN all)
          /\ \A j \in DOMAIN all : all[j] \in Entry
          /\ Sizes(all)[k] = NewSize(k, rec)
          /\ \A j \in DOMAIN entries : j # k => Sizes(all)[j] = Sizes(entries)[j]
      <4>1. IsWritten(all, k, rec)
        BY <1>1, <2>1, WrittenEntries
      <4> QED BY <4>1 DEF IsWritten
    <3>2. \A j \in DOMAIN all : Sizes(all)[j] \in Nat
      BY <3>1, SizesType
    <3>3. \A j \in DOMAIN entries : Sizes(entries)[j] = entries[j].sizeBytes
      BY DEF Sizes
    <3> QED BY <3>1, <3>2, <3>3
  <2>5. call'.key = k /\ call'.record = rec
    BY <1>1 DEF Set
  <2> HIDE DEF order, size
  <2>6. ASSUME n < Len(order)
        PROVE  /\ order[n + 1] \in dropped
               /\ usageBytes' + size(order[n + 1]) > MaxUsageBytes
    <3> DEFINE j == order[n + 1]
    <3>1. n + 1 \in DOMAIN order /\ n + 1 \notin 1..n /\ 1..n \subseteq DOMAIN order
      BY <2>2, <2>6
    <3>2. j \in DOMAIN all /\ j \notin Heads(order, n)
      BY <2>2, <3>1 DEF ToSet, Distinct, Heads
    <3>3. Heads(order, n + 1) \ {j} = Heads(order, n) /\ j \in Heads(order, n + 1)
      <4>1. 1..n + 1 = 1..n \cup {n + 1}
        OBVIOUS
      <4> QED BY <3>2, <4>1 DEF Heads
    <3>4. Heads(order, n + 1) \subseteq DOMAIN all
      <4>1. 1..n + 1 \subseteq DOMAIN order
        BY <3>1
      <4> QED BY <2>2, <4>1 DEF Heads, ToSet
    <3> HIDE DEF j
    <3>5. IsFiniteSet(Heads(order, n + 1)) /\ \A i \in Heads(order, n + 1) : Sizes(all)[i] \in Nat
      BY <2>4, <3>4, FS_Subset
    <3>6. Total(Heads(order, n + 1), Sizes(all)) = usageBytes' + Sizes(all)[j]
      BY <2>3, <3>3, <3>5, TotalSplit
    <3>7. n + 1 \in n + 1..Len(order)
      BY <2>2, <2>6
    <3> QED BY <2>3, <2>4, <3>2, <3>6, <3>7 DEF j
  <2>7. size(k) <= MaxUsageBytes => k \notin dropped
    <3>1. order[1] = k /\ 1 \in DOMAIN order
      BY <2>2 DEF Leads
    <3>2. CASE n = 0
      <4>1. 0 < Len(order) /\ order[n + 1] = k
        BY <2>2, <3>1, <3>2
      <4>2. Heads(order, n) = {}
        BY <3>2 DEF Heads
      <4>3. usageBytes' = 0
        BY <2>3, <4>2, TotalOfNone
      <4>4. size(k) \in Nat
        BY <2>4
      <4>5. usageBytes' + size(order[n + 1]) > MaxUsageBytes
        BY <2>6, <3>2, <4>1
      <4>6. 0 + size(k) > MaxUsageBytes /\ MaxUsageBytes \in Nat
        BY <4>1, <4>3, <4>5, L1Assumption
      <4> QED BY <4>4, <4>6
    <3>3. CASE n > 0
      <4>1. 1 \in 1..n
        BY <3>3
      <4> QED BY <2>3, <3>1, <4>1 DEF Heads
    <3> QED BY <3>2, <3>3
  <2>8. dropped # {} => n < Len(order)
    <3>1. ASSUME n = Len(order)
          PROVE  dropped = {}
      <4>1. Heads(order, n) = ToSet(order)
        BY <2>2, <3>1 DEF Heads, ToSet
      <4> QED BY <2>2, <2>3, <2>4, <4>1
    <3> QED BY <2>2, <3>1
  <2> QED BY <2>5, <2>6, <2>7, <2>8 DEF size, NewSize
<1>2. ASSUME Inv, [Next]_vars
      PROVE  [call'.op = "set" => Needed]_vars
  <2>1. ASSUME NEW k \in Keys, Get(k) \/ Miss(k)
        PROVE  call'.op # "set"
    BY <2>1 DEF Get, Miss
  <2> HIDE DEF Needed
  <2> QED BY <1>1, <1>2, <2>1 DEF Next
<1> QED BY <1>2, Invariant, PTL DEF Spec, EvictsNoMoreThanNeeded

-----------------------------------------------------------------------------
(* Refinement: what a lookup would return is read off the entries.         *)

Visible == [k \in Keys |-> IF k \in DOMAIN entries THEN entries[k].record
                                                   ELSE None]

LEMMA InitRefines == Init => Cache!InterfaceInit
BY DEF Init, Cache!InterfaceInit, Cache!Init, Cache!CallInit

LEMMA GetRefines ==
    ASSUME Inv, NEW k \in Keys, Get(k) \/ Miss(k)
    PROVE  Cache!GetCall(k)
<1>1. UNCHANGED entries
  BY DEF Get, Miss
<1>2. Visible[k] = IF k \in DOMAIN entries THEN entries[k].record ELSE None
  BY DEF Visible
<1>3. call' = [op |-> "get", key |-> k, record |-> Visible[k]]
  BY <1>2 DEF Get, Miss
<1> QED BY <1>1, <1>3 DEF Cache!GetCall, Cache!Called, Visible

LEMMA SetRefines ==
    ASSUME Inv, NEW k \in Keys, NEW rec \in Records, Set(k, rec)
    PROVE  Cache!SetCall(k, rec)
<1> DEFINE kept == DOMAIN entries'
<1>1. kept \in SUBSET Keys
  BY SetKeepsInv DEF Inv, TypeOK
<1>2. ASSUME NEW j \in kept
      PROVE  /\ j \in DOMAIN entries \cup {k}
             /\ entries'[j].record = IF j = k THEN rec ELSE entries[j].record
  <2> DEFINE all == Written(k, rec)
             new == [record |-> rec, sizeBytes |-> EntrySize[k, rec]]
  <2>1. j \in DOMAIN all /\ entries'[j] = all[j]
    <3>1. SetDoes(k, Touched(recency, k), all)
      BY SetEffect
    <3> QED BY <3>1 DEF SetDoes
  <2>2. j \in DOMAIN entries \cup {k} /\ all[j] = IF j = k THEN new ELSE entries[j]
    BY <2>1, Zenon DEF Written
  <2>3. new.record = rec
    OBVIOUS
  <2> HIDE DEF all, new
  <2> QED BY <2>1, <2>2, <2>3
<1>3. Visible' = [j \in Keys |-> IF j \notin kept THEN None
                                 ELSE IF j = k THEN rec ELSE Visible[j]]
  BY <1>2 DEF Visible
<1>4. Cache!Set(k, rec)
  BY <1>1, <1>3 DEF Cache!Set, Cache!Stored, Visible
<1>5. call' = [op |-> "set", key |-> k, record |-> rec]
  BY DEF Set
<1> QED BY <1>4, <1>5 DEF Cache!SetCall, Cache!Called

LEMMA StepRefines ==
    Inv /\ [Next]_vars => [Cache!InterfaceNext]_<<Visible, call>>
<1> SUFFICES ASSUME Inv, [Next]_vars
             PROVE  [Cache!InterfaceNext]_<<Visible, call>>
  OBVIOUS
<1>1. CASE UNCHANGED vars
  BY <1>1 DEF vars, Visible
<1> QED
  BY <1>1, GetRefines, SetRefines DEF Next, Cache!InterfaceNext

\* The L1 cache, with its recency list, its sizes and its budget, behaves as
\* the forgetting map the version service is specified against.
THEOREM L1ImplementsCacheInterface == Spec => ImplementsCacheInterface
BY Invariant, InitRefines, StepRefines, PTL
DEF Spec, ImplementsCacheInterface, Cache!InterfaceSpec, Visible
=============================================================================
