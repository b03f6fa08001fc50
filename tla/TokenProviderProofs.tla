------------------------ MODULE TokenProviderProofs ------------------------
(***************************************************************************)
(* Type correctness of TokenProvider and the quality of its choice, for    *)
(* any tokens, callers, threshold and cooldown. The invariant ties the     *)
(* cooldown the provider keeps to when a token was last reported limited.  *)
(***************************************************************************)
EXTENDS TokenProvider, Counting, TLAPS

\* A token is on cooldown from its last rate-limited status on.
CooldownInv ==
    \A t \in Tokens :
        cooldownUntil[t] =
            IF throttled[t] = None THEN None ELSE throttled[t] + Cooldown

Working == {"holding", "replied", "observed"}

\* A caller that has a token, has a configured one.
HoldsInv == \A u \in Users : user[u].pc \in Working => user[u].token \in Tokens

Inv == TypeOK /\ CooldownInv /\ HoldsInv

-----------------------------------------------------------------------------

LEMMA Constants ==
    /\ Len(tokens) \in Nat \ {0} /\ Cooldown \in Nat \ {0}
    /\ IndexModulus \in Nat \ {0} /\ Quota \in Nat \ {0}
    /\ Threshold \in Nat /\ MaxTime \in Nat /\ MaxLost \in Nat
BY TokenAssumption

LEMMA TriedIsToken ==
    ASSUME NEW index \in Nat, NEW n \in Nat
    PROVE  Tried(index, n) \in Tokens
<1>1. ((index + n) % Len(tokens)) + 1 \in 1..Len(tokens)
  BY Constants
<1> QED
  BY <1>1 DEF Tried, Tokens, ToSet

LEMMA InvInit == Init => Inv
<1> SUFFICES ASSUME Init PROVE Inv
  OBVIOUS
<1>1. TypeOK
  BY Constants DEF Init, TypeOK, NoUser, User
<1>2. CooldownInv /\ HoldsInv
  BY DEF Init, CooldownInv, HoldsInv, NoUser, Working
<1> QED
  BY <1>1, <1>2 DEF Inv

\* A step of u leaves the other callers alone and u a caller.
LEMMA UserStep ==
    ASSUME Inv, NEW u \in Users, NEW x \in User, user' = [user EXCEPT ![u] = x],
           x.pc \in Working => x.token \in Tokens
    PROVE  user' \in [Users -> User] /\ HoldsInv'
BY DEF Inv, TypeOK, HoldsInv

LEMMA TakeIndexStep ==
    ASSUME Inv, NEW u \in Users, TakeIndex(u)
    PROVE  Inv'
<1> DEFINE x == [user[u] EXCEPT !.pc = "indexed", !.index = nextIndex % Len(tokens)]
<1>1. user[u] \in User /\ nextIndex \in Nat
  BY Constants DEF Inv, TypeOK
<1>2. nextIndex % Len(tokens) \in 0..(Len(tokens) - 1)
      /\ nextIndex' \in 0..(IndexModulus - 1)
  BY <1>1, Constants DEF TakeIndex
<1>3. x \in User /\ x.pc = "indexed"
  BY <1>1, <1>2 DEF User
<1>4. user' = [user EXCEPT ![u] = x]
  BY DEF TakeIndex
<1>5. user' \in [Users -> User] /\ HoldsInv'
  BY <1>3, <1>4, UserStep DEF Working
<1> QED
  BY <1>2, <1>5 DEF Inv, TypeOK, CooldownInv, TakeIndex

LEMMA ChooseStep ==
    ASSUME Inv, NEW u \in Users, Choose(u)
    PROVE  Inv'
<1>1. PICK t \in Tokens : Holds(u, t) /\ fallback' \subseteq fallback \cup {t}
  BY DEF Choose
<1> DEFINE x == [user[u] EXCEPT !.pc = "holding", !.index = 0, !.token = t]
<1>2. user[u] \in User /\ 0 \in 0..(Len(tokens) - 1)
  BY Constants DEF Inv, TypeOK
<1>3. x \in User /\ x.token = t /\ user' = [user EXCEPT ![u] = x]
  BY <1>1, <1>2 DEF User, Holds
<1>4. user' \in [Users -> User] /\ HoldsInv'
  BY <1>1, <1>2, <1>3, UserStep
<1> QED
  BY <1>1, <1>4 DEF Inv, TypeOK, CooldownInv, Choose, provider

LEMMA ReplyStep ==
    ASSUME Inv, NEW u \in Users, Reply(u)
    PROVE  Inv'
<1> DEFINE t    == user[u].token
           rest == IF left[t] > 0 THEN left[t] - 1 ELSE 0
<1>1. t \in Tokens /\ rest \in 0..Quota
  BY Constants DEF Reply, Inv, TypeOK, HoldsInv, Working
<1>2. PICK limited \in BOOLEAN :
        user' = [user EXCEPT ![u] = [@ EXCEPT !.pc = "replied", !.remaining = rest,
                                              !.limited = limited]]
  BY DEF Reply
<1> DEFINE x == [user[u] EXCEPT !.pc = "replied", !.remaining = rest,
                                !.limited = limited]
<1>3. x \in User /\ x.token = t
  BY <1>1 DEF Inv, TypeOK, User
<1>4. user' \in [Users -> User] /\ HoldsInv'
  BY <1>1, <1>2, <1>3, UserStep
<1>5. left' \in [Tokens -> 0..Quota]
  BY <1>1 DEF Reply, Inv, TypeOK
<1> QED
  BY <1>4, <1>5 DEF Inv, TypeOK, CooldownInv, Reply, provider

\* Of a caller that is done nothing remains.
LEMMA NoUserStep ==
    ASSUME Inv, NEW u \in Users, user' = [user EXCEPT ![u] = NoUser]
    PROVE  user' \in [Users -> User] /\ HoldsInv'
<1>1. NoUser \in User /\ NoUser.pc = "idle"
  BY Constants DEF NoUser, User
<1> QED
  BY <1>1, UserStep DEF Working

LEMMA FailStep ==
    ASSUME Inv, NEW u \in Users, Fail(u)
    PROVE  Inv'
<1>1. user' \in [Users -> User] /\ HoldsInv'
  BY NoUserStep DEF Fail
<1>2. left' \in [Tokens -> 0..Quota] /\ lost' \in 0..MaxLost
  BY Constants DEF Fail, Inv, TypeOK, HoldsInv, Working
<1> QED
  BY <1>1, <1>2 DEF Inv, TypeOK, CooldownInv, Fail, provider

LEMMA ObserveTokenRemainingStep ==
    ASSUME Inv, NEW u \in Users, ObserveTokenRemaining(u)
    PROVE  Inv'
<1> DEFINE x == [user[u] EXCEPT !.pc = "observed"]
<1>1. user[u] \in User /\ user[u].token \in Tokens
  BY DEF ObserveTokenRemaining, Inv, TypeOK, HoldsInv, Working
<1>2. x \in User /\ x.token \in Tokens
  BY <1>1 DEF User
<1>3. user' \in [Users -> User] /\ HoldsInv'
  BY <1>2, UserStep DEF ObserveTokenRemaining
<1>4. user[u].remaining \in 0..Quota
  BY <1>1 DEF User
<1>5. remaining' \in [Tokens -> 0..Quota \cup {None}]
  BY <1>1, <1>4 DEF ObserveTokenRemaining, Latest, Inv, TypeOK
<1>6. lost' \in 0..MaxLost
  BY Constants DEF ObserveTokenRemaining, Inv, TypeOK
<1> QED
  BY <1>3, <1>5, <1>6 DEF Inv, TypeOK, CooldownInv, ObserveTokenRemaining

LEMMA ObserveRateLimitStep ==
    ASSUME Inv, NEW u \in Users, ObserveRateLimit(u)
    PROVE  Inv'
<1>1. user' \in [Users -> User] /\ HoldsInv'
  BY NoUserStep DEF ObserveRateLimit
<1>2. user[u].token \in Tokens
  BY DEF ObserveRateLimit, Inv, HoldsInv, Working
<1>3. now + Cooldown \in 0..(MaxTime + Cooldown) /\ now \in Nat
  BY Constants DEF Inv, TypeOK
<1>4. CASE user[u].limited
  <2>1. /\ cooldownUntil' = [cooldownUntil EXCEPT ![user[u].token] = now + Cooldown]
        /\ throttled' = [throttled EXCEPT ![user[u].token] = now]
    BY <1>4 DEF ObserveRateLimit
  <2>2. /\ cooldownUntil' \in [Tokens -> 0..(MaxTime + Cooldown) \cup {None}]
        /\ throttled' \in [Tokens -> 0..MaxTime \cup {None}]
    BY <1>2, <1>3, <2>1 DEF Inv, TypeOK
  <2>3. CooldownInv'
    BY <1>2, <1>3, <2>1, TokenAssumption DEF Inv, TypeOK, CooldownInv
  <2> QED
    BY <1>1, <2>2, <2>3 DEF Inv, TypeOK, ObserveRateLimit
<1>5. CASE ~user[u].limited
  BY <1>1, <1>5 DEF Inv, TypeOK, CooldownInv, ObserveRateLimit
<1> QED
  BY <1>4, <1>5

LEMMA InvStep == Inv /\ [Next]_vars => Inv'
<1> SUFFICES ASSUME Inv, [Next]_vars PROVE Inv'
  OBVIOUS
<1>1. ASSUME NEW t \in Tokens, Renew(t) PROVE Inv'
  BY <1>1, Constants DEF Renew, Inv, TypeOK, CooldownInv, HoldsInv, provider
<1>2. CASE Tick
  BY <1>2, Constants DEF Tick, Inv, TypeOK, CooldownInv, HoldsInv, provider
<1>3. CASE UNCHANGED vars
  BY <1>3 DEF vars, Inv, TypeOK, CooldownInv, HoldsInv, provider
<1> QED
  BY <1>1, <1>2, <1>3, TakeIndexStep, ChooseStep, ReplyStep, FailStep,
     ObserveTokenRemainingStep, ObserveRateLimitStep DEF Next

LEMMA Invariant == Spec => []Inv
BY InvInit, InvStep, PTL DEF Spec

\* The provider's counters and its callers are well-formed: an index is in range
\* however often the counter wraps, and a caller holds a configured token
\* (token_provider.go:74-98).
THEOREM TokensTypeCorrect == Spec => []TypeOK
<1>1. Inv => TypeOK
  BY DEF Inv
<1> QED
  BY <1>1, Invariant, PTL

-----------------------------------------------------------------------------

LEMMA RankOfCooldown ==
    ASSUME Inv, NEW t \in Tokens
    PROVE  /\ Rank(t) \in 0..2
           /\ Rank(t) = 0 <=> isInCooldown(t)
           /\ Rank(t) = 2 <=> isPreferred(t)
<1>1. isInCooldown(t) <=> throttled[t] # None /\ now < throttled[t] + Cooldown
  <2>1. throttled[t] # None => throttled[t] + Cooldown \in Nat
    BY Constants DEF Inv, TypeOK
  <2> QED
    BY <2>1, TokenAssumption DEF Inv, CooldownInv, isInCooldown
<1> QED
  BY <1>1 DEF Rank, isPreferred

LEMMA ChoiceIsBest ==
    ASSUME Inv, NEW u \in Users, Choose(u), NEW t \in Tokens
    PROVE  Rank(t) <= Rank(user'[u].token)
<1>1. PICK chosen \in Tokens :
        /\ Holds(u, chosen)
        /\ \/ isPreferred(chosen)
           \/ /\ \A x \in Tokens : ~isPreferred(x)
              /\ ~isInCooldown(chosen) \/ \A x \in Tokens : isInCooldown(x)
  BY DEF Choose, IsFirst
<1>2. user'[u].token = chosen
  BY <1>1 DEF Holds, Inv, TypeOK, User
<1>3. /\ Rank(t) \in 0..2 /\ Rank(chosen) \in 0..2
      /\ Rank(t) = 0 <=> isInCooldown(t)
      /\ Rank(t) = 2 <=> isPreferred(t)
      /\ Rank(chosen) = 0 <=> isInCooldown(chosen)
      /\ Rank(chosen) = 2 <=> isPreferred(chosen)
  BY RankOfCooldown
<1>4. Rank(t) <= Rank(chosen)
  BY <1>1, <1>3
<1> QED
  BY <1>2, <1>4

\* NextToken never returns a token when there is a better one
\* (token_provider.go:83-97).
THEOREM ChoiceIsAlwaysBest == Spec => ChoosesBest
<1> DEFINE Best == \A u \in Users :
               user[u].pc = "indexed" /\ user'[u].pc = "holding"
                   => \A t \in Tokens : Rank(t) <= Rank(user'[u].token)
<1>1. ASSUME Inv, Next, NEW u \in Users, user[u].pc = "indexed",
             user'[u].pc = "holding"
      PROVE  Choose(u)
  <2> USE <1>1 DEF Inv, TypeOK, User
  <2>1. ASSUME NEW v \in Users, v # u, NEW x, user' = [user EXCEPT ![v] = x]
        PROVE  FALSE
    BY <2>1
  <2>2. ASSUME NEW v \in Users,
               \/ TakeIndex(v) \/ Reply(v) \/ Fail(v)
               \/ ObserveTokenRemaining(v) \/ ObserveRateLimit(v)
        PROVE  FALSE
    <3>1. CASE v = u
      BY <2>2, <3>1 DEF TakeIndex, Reply, Fail, ObserveTokenRemaining, ObserveRateLimit
    <3>2. CASE v # u
      BY <2>2, <3>2, <2>1 DEF TakeIndex, Reply, Fail, ObserveTokenRemaining,
                              ObserveRateLimit
    <3> QED
      BY <3>1, <3>2
  <2>3. ASSUME NEW v \in Users, Choose(v) PROVE v = u
    BY <2>1, <2>3 DEF Choose, Holds
  <2>4. ~Tick /\ \A t \in Tokens : ~Renew(t)
    BY DEF Tick, Renew
  <2> QED
    BY <2>2, <2>3, <2>4 DEF Next
<1>2. Inv /\ [Next]_vars => [Best]_vars
  BY <1>1, ChoiceIsBest
<1> QED
  BY <1>2, Invariant, PTL DEF Spec, ChoosesBest

-----------------------------------------------------------------------------
(* The reserve. While t is left alone, its remaining quota falls below the  *)
(* threshold only by what callers do on reports that are out of date.       *)

N == Cardinality(Users)

\* A caller whose late report on t will show at least the threshold, one whose
\* report will show less, and one about to use a request of t.
IsHigh(x, t) == x.pc = "replied" /\ x.token = t /\ x.remaining >= Threshold
IsShort(x, t) == x.pc = "replied" /\ x.token = t /\ x.remaining < Threshold
IsHolding(x, t) == x.pc = "holding" /\ x.token = t

High(t) == {u \in Users : IsHigh(user[u], t)}
Short(t) == {u \in Users : IsShort(user[u], t)}
Holding(t) == {u \in Users : IsHolding(user[u], t)}

\* Twice the requests that p late high reports can still cost: each makes t
\* preferred again for the callers that are not themselves such a report.
Late(p) == p * (2 * N - p + 1)

\* The requests t may still lose before it is left alone: one of each caller
\* that holds t or, while t is not low, may come to; and unreported ones.
Acting(t) == IF IsLow(t) THEN Cardinality(Holding(t))
             ELSE N - Cardinality(High(t)) - Cardinality(Short(t))
Risk(t) == Late(Cardinality(High(t))) + 2 * Acting(t) + 2 * (MaxLost - lost)

\* What t may still lose leaves it its reserve, up to the slack (doubled).
Kept(t) == 2 * left[t] + N * (N + 1) + 2 * MaxLost >= 2 * Reserve + Risk(t)

ReserveInv == \A t \in Tokens \ fallback : Kept(t)

LEMMA UsersCounted ==
    /\ N \in Nat
    /\ \A S \in SUBSET Users : IsFiniteSet(S) /\ Cardinality(S) \in 0..N
<1>1. N \in Nat
  BY TokenAssumption, FS_CardinalityType DEF N
<1>2. ASSUME NEW S \in SUBSET Users PROVE IsFiniteSet(S) /\ Cardinality(S) \in 0..N
  BY TokenAssumption, FS_Subset, FS_CardinalityType, <1>1 DEF N
<1> QED
  BY <1>1, <1>2

\* The slack, without the division.
LEMMA SlackDoubled == Slack \in Nat /\ 2 * Slack = N * (N + 1) + 2 * MaxLost
<1> DEFINE M == N * (N + 1)
<1>1. N \in Nat /\ M \in Nat
  BY UsersCounted
<1>2. \E k \in Nat : M = 2 * k
  <2>1. PICK k \in Nat : N = 2 * k \/ N = 2 * k + 1
    <3>1. N = 2 * (N \div 2) + (N % 2) /\ N \div 2 \in Nat /\ N % 2 \in 0..1
      BY <1>1
    <3> QED
      BY <3>1
  <2>2. CASE N = 2 * k
    <3>1. M = 2 * (k * (2 * k + 1)) /\ k * (2 * k + 1) \in Nat
      BY <2>2
    <3> QED
      BY <3>1
  <2>3. CASE N = 2 * k + 1
    <3>1. M = 2 * ((2 * k + 1) * (k + 1)) /\ (2 * k + 1) * (k + 1) \in Nat
      BY <2>3
    <3> QED
      BY <3>1
  <2> QED
    BY <2>1, <2>2, <2>3
<1>3. PICK k \in Nat : M = 2 * k
  BY <1>2
<1>4. M \div 2 = k
  BY <1>3
<1>5. Slack = k + MaxLost
  BY <1>4 DEF Slack, N
<1> QED
  BY <1>3, <1>5, Constants

LEMMA LateStep ==
    ASSUME NEW p \in 0..N
    PROVE  /\ Late(p) \in Int
           /\ Late(p) + 2 * (N - p) <= N * (N + 1)
           /\ p > 0 => Late(p) = Late(p - 1) + 2 * (N - p + 1)
<1>1. N \in Nat /\ p \in Nat /\ p <= N
  BY UsersCounted
<1>2. Late(p) = 2 * (N * p) - p * p + p
  BY <1>1 DEF Late
<1>3. Late(p - 1) = 2 * (N * p) - 2 * N - p * p + 2 * p - 1 + p - 1
  BY <1>1 DEF Late
<1>4. PICK m \in Nat : N = p + m
  <2>1. N - p \in Nat /\ N = p + (N - p)
    BY <1>1
  <2> QED
    BY <2>1
<1>5. N * (N + 1) = p * p + 2 * (p * m) + m * m + p + m
  BY <1>1, <1>4
<1>6. N * p = p * p + p * m
  BY <1>1, <1>4
<1>7. m * m >= m
  BY <1>4
<1>8. N * p \in Nat /\ p * p \in Nat /\ p * m \in Nat /\ m * m \in Nat
  BY <1>1, <1>4
<1> QED
  BY <1>1, <1>2, <1>3, <1>4, <1>5, <1>6, <1>7, <1>8

\* The three sets are apart, so their sizes together are at most N.
LEMMA CallersApart ==
    ASSUME Inv, NEW t \in Tokens
    PROVE  /\ IsFiniteSet(High(t)) /\ IsFiniteSet(Short(t)) /\ IsFiniteSet(Holding(t))
           /\ Cardinality(High(t)) \in Nat /\ Cardinality(Short(t)) \in Nat
           /\ Cardinality(Holding(t)) \in Nat
           /\ Cardinality(High(t)) + Cardinality(Short(t))
                + Cardinality(Holding(t)) <= N
<1> DEFINE Late2 == High(t) \cup Short(t)
           All == Late2 \cup Holding(t)
<1>1. /\ High(t) \in SUBSET Users /\ Short(t) \in SUBSET Users
      /\ Holding(t) \in SUBSET Users /\ All \in SUBSET Users
  BY DEF High, Short, Holding, IsHigh, IsShort, IsHolding
<1>2. /\ IsFiniteSet(High(t)) /\ IsFiniteSet(Short(t)) /\ IsFiniteSet(Holding(t))
      /\ IsFiniteSet(Late2) /\ IsFiniteSet(All)
      /\ Cardinality(High(t)) \in Nat /\ Cardinality(Short(t)) \in Nat
      /\ Cardinality(Holding(t)) \in Nat /\ Cardinality(All) <= N /\ N \in Nat
  <2>1. Late2 \in SUBSET Users
    BY <1>1
  <2> QED
    BY <1>1, <2>1, UsersCounted
<1>3. Late2 \cap Holding(t) = {}
  BY DEF High, Short, Holding, IsHigh, IsShort, IsHolding
<1>4. High(t) \cap Short(t) = {}
  BY <1>1, Constants DEF High, Short, IsHigh, IsShort, Inv, TypeOK, User
<1>5. Cardinality(Late2) = Cardinality(High(t)) + Cardinality(Short(t))
  BY <1>2, <1>4, SizeOfDisjointUnion
<1>6. Cardinality(All) = Cardinality(Late2) + Cardinality(Holding(t))
  BY <1>2, <1>3, SizeOfDisjointUnion
<1> QED
  BY <1>2, <1>5, <1>6

\* How the three numbers change when a caller in state x comes to be in state y.
Moves(t, x, y) ==
    /\ Cardinality(High(t))' =
           Cardinality(High(t)) - One(IsHigh(x, t)) + One(IsHigh(y, t))
    /\ Cardinality(Short(t))' =
           Cardinality(Short(t)) - One(IsShort(x, t)) + One(IsShort(y, t))
    /\ Cardinality(Holding(t))' =
           Cardinality(Holding(t)) - One(IsHolding(x, t)) + One(IsHolding(y, t))

LEMMA StepCounts ==
    ASSUME Inv, NEW u \in Users, NEW x, user' = [user EXCEPT ![u] = x],
           NEW t \in Tokens
    PROVE  Moves(t, user[u], x)
<1>1. user \in [Users -> User] /\ user'[u] = x
      /\ \A v \in Users : v # u => user'[v] = user[v]
  BY DEF Inv, TypeOK
<1>2. IsFiniteSet(High(t)) /\ IsFiniteSet(Short(t)) /\ IsFiniteSet(Holding(t))
  BY CallersApart
<1>3. Cardinality(High(t))' = Cardinality(High(t)) - One(u \in High(t)) + One(u \in High(t)')
  BY <1>1, <1>2, SizeOfChange DEF High
<1>4. Cardinality(Short(t))' = Cardinality(Short(t)) - One(u \in Short(t)) + One(u \in Short(t)')
  BY <1>1, <1>2, SizeOfChange DEF Short
<1>5. Cardinality(Holding(t))' =
          Cardinality(Holding(t)) - One(u \in Holding(t)) + One(u \in Holding(t)')
  BY <1>1, <1>2, SizeOfChange DEF Holding
<1>6. /\ u \in High(t) <=> IsHigh(user[u], t)
      /\ u \in Short(t) <=> IsShort(user[u], t)
      /\ u \in Holding(t) <=> IsHolding(user[u], t)
      /\ u \in High(t)' <=> IsHigh(x, t)
      /\ u \in Short(t)' <=> IsShort(x, t)
      /\ u \in Holding(t)' <=> IsHolding(x, t)
  BY <1>1 DEF High, Short, Holding
<1> QED
  BY <1>3, <1>4, <1>5, <1>6 DEF Moves, One

\* What the arithmetic of the steps rests on.
LEMMA Amounts ==
    ASSUME Inv, NEW t \in Tokens
    PROVE  /\ N \in Nat /\ N * (N + 1) \in Nat
           /\ left[t] \in 0..Quota /\ lost \in 0..MaxLost /\ MaxLost \in Nat
           /\ Reserve \in Nat /\ Reserve <= Threshold /\ Reserve <= Quota
           /\ Threshold \in Nat /\ Quota \in Nat
BY UsersCounted, Constants DEF Inv, TypeOK, Reserve

\* A token with its reserve left has it whatever callers are up to.
LEMMA EnoughLeft ==
    ASSUME NEW l \in Nat, NEW p \in Nat, NEW q \in Nat, NEW h \in Nat,
           NEW low \in BOOLEAN, NEW f \in 0..MaxLost,
           p + q + h <= N, l >= Reserve, Reserve \in Nat, MaxLost \in Nat
    PROVE  2 * l + N * (N + 1) + 2 * MaxLost >=
               2 * Reserve + (Late(p) + 2 * (IF low THEN h ELSE N - p - q)
                                      + 2 * (MaxLost - f))
<1>1. N \in Nat /\ N * (N + 1) \in Nat /\ p \in 0..N
  BY UsersCounted
<1>2. Late(p) \in Int /\ Late(p) + 2 * (N - p) <= N * (N + 1)
  BY <1>1, LateStep
<1> QED
  BY <1>1, <1>2

\* No step but one that grants t a new window changes it for the better.
LEMMA SameRisk ==
    ASSUME Inv, NEW t \in Tokens, Kept(t),
           UNCHANGED <<left[t], lost, remaining[t]>>,
           Cardinality(High(t))' = Cardinality(High(t)),
           Cardinality(Short(t))' = Cardinality(Short(t)),
           IsLow(t) => Cardinality(Holding(t))' = Cardinality(Holding(t))
    PROVE  Kept(t)'
<1>1. IsLow(t)' <=> IsLow(t)
  BY DEF IsLow
<1>2. Acting(t)' = Acting(t)
  BY <1>1 DEF Acting
<1> QED
  BY <1>2 DEF Kept, Risk, Late

LEMMA KeptTakeIndex ==
    ASSUME Inv, NEW u \in Users, TakeIndex(u), NEW t \in Tokens, Kept(t)
    PROVE  Kept(t)'
<1> DEFINE x == [user[u] EXCEPT !.pc = "indexed", !.index = nextIndex % Len(tokens)]
<1>1. user[u] \in User /\ user[u].pc = "idle" /\ user' = [user EXCEPT ![u] = x]
  BY DEF TakeIndex, Inv, TypeOK
<1>2. x.pc = "indexed"
  BY <1>1 DEF User
<1>3. /\ ~IsHigh(x, t) /\ ~IsShort(x, t) /\ ~IsHolding(x, t)
      /\ ~IsHigh(user[u], t) /\ ~IsShort(user[u], t) /\ ~IsHolding(user[u], t)
  BY <1>1, <1>2 DEF IsHigh, IsShort, IsHolding
<1>4. UNCHANGED <<left[t], lost, remaining[t]>>
  BY DEF TakeIndex
<1>5. /\ Cardinality(High(t)) \in Nat /\ Cardinality(Short(t)) \in Nat
      /\ Cardinality(Holding(t)) \in Nat
  BY CallersApart
<1> HIDE DEF x
<1>6. Moves(t, user[u], x)
  BY <1>1, StepCounts
<1>7. /\ Cardinality(High(t))' = Cardinality(High(t))
      /\ Cardinality(Short(t))' = Cardinality(Short(t))
      /\ Cardinality(Holding(t))' = Cardinality(Holding(t))
  BY <1>3, <1>5, <1>6 DEF Moves, One
<1> QED
  BY <1>4, <1>7, SameRisk

\* Whoever takes t when it is low has taken it for want of a better one.
LEMMA KeptChoose ==
    ASSUME Inv, NEW u \in Users, Choose(u), NEW t \in Tokens \ fallback', Kept(t)
    PROVE  Kept(t)'
<1>1. PICK chosen \in Tokens :
        /\ Holds(u, chosen)
        /\ isPreferred(chosen) \/ chosen \in fallback'
  BY DEF Choose, IsFirst
<1> DEFINE x == [user[u] EXCEPT !.pc = "holding", !.index = 0, !.token = chosen]
<1>2. user[u] \in User /\ user[u].pc = "indexed" /\ user' = [user EXCEPT ![u] = x]
  BY <1>1 DEF Choose, Holds, Inv, TypeOK
<1>3. x.pc = "holding" /\ x.token = chosen
  BY <1>2 DEF User
<1>4. /\ ~IsHigh(x, t) /\ ~IsShort(x, t)
      /\ ~IsHigh(user[u], t) /\ ~IsShort(user[u], t) /\ ~IsHolding(user[u], t)
      /\ IsHolding(x, t) => ~IsLow(t)
  BY <1>1, <1>2, <1>3 DEF IsHigh, IsShort, IsHolding, isPreferred
<1>5. UNCHANGED <<left[t], lost, remaining[t]>>
  BY DEF Choose, provider
<1>6. /\ Cardinality(High(t)) \in Nat /\ Cardinality(Short(t)) \in Nat
      /\ Cardinality(Holding(t)) \in Nat
  BY CallersApart
<1> HIDE DEF x
<1>7. Moves(t, user[u], x)
  BY <1>2, StepCounts
<1>8. /\ Cardinality(High(t))' = Cardinality(High(t))
      /\ Cardinality(Short(t))' = Cardinality(Short(t))
      /\ IsLow(t) => Cardinality(Holding(t))' = Cardinality(Holding(t))
  BY <1>4, <1>6, <1>7 DEF Moves, One
<1> QED
  BY <1>5, <1>8, SameRisk

\* A reply below the threshold costs a request and a caller that may act; one
\* at or above it shows that the reserve is there.
LEMMA KeptReply ==
    ASSUME Inv, NEW u \in Users, Reply(u), NEW t \in Tokens, Kept(t)
    PROVE  Kept(t)'
<1> DEFINE own  == user[u].token
           rest == IF left[own] > 0 THEN left[own] - 1 ELSE 0
<1>1. PICK limited \in BOOLEAN :
        user' = [user EXCEPT ![u] = [@ EXCEPT !.pc = "replied", !.remaining = rest,
                                              !.limited = limited]]
  BY DEF Reply
<1> DEFINE x == [user[u] EXCEPT !.pc = "replied", !.remaining = rest,
                                !.limited = limited]
<1>2. /\ user[u] \in User /\ user[u].pc = "holding" /\ own \in Tokens
      /\ user' = [user EXCEPT ![u] = x]
  BY <1>1 DEF Reply, Inv, TypeOK, HoldsInv, Working
<1>3. x.pc = "replied" /\ x.token = own /\ x.remaining = rest
  BY <1>2 DEF User
<1>4. Moves(t, user[u], x)
  BY <1>2, StepCounts
<1>5. lost' = lost /\ remaining' = remaining /\ left' = [left EXCEPT ![own] = rest]
  BY DEF Reply, provider
<1>6. /\ Cardinality(High(t)) \in Nat /\ Cardinality(Short(t)) \in Nat
      /\ Cardinality(Holding(t)) \in Nat
      /\ Cardinality(High(t)) + Cardinality(Short(t)) + Cardinality(Holding(t)) <= N
  BY CallersApart
<1>7. IsLow(t)' = IsLow(t)
  BY <1>5 DEF IsLow
<1>8. left \in [Tokens -> 0..Quota] /\ rest \in Nat /\ rest >= left[own] - 1
  BY <1>2, Amounts DEF Inv, TypeOK
<1> HIDE DEF x, rest
<1>9. CASE own # t
  <2>1. left'[t] = left[t] /\ remaining'[t] = remaining[t]
    BY <1>5, <1>8, <1>9
  <2>2. /\ ~IsHigh(x, t) /\ ~IsShort(x, t) /\ ~IsHolding(x, t)
        /\ ~IsHigh(user[u], t) /\ ~IsShort(user[u], t) /\ ~IsHolding(user[u], t)
    BY <1>3, <1>9 DEF IsHigh, IsShort, IsHolding
  <2>3. /\ Cardinality(High(t))' = Cardinality(High(t))
        /\ Cardinality(Short(t))' = Cardinality(Short(t))
        /\ Cardinality(Holding(t))' = Cardinality(Holding(t))
    BY <1>4, <1>6, <2>2 DEF Moves, One
  <2> QED
    BY <1>5, <2>1, <2>3, SameRisk
<1>10. CASE own = t /\ rest >= Threshold
  <2>1. /\ IsHigh(x, t) /\ ~IsShort(x, t) /\ ~IsHolding(x, t)
        /\ ~IsHigh(user[u], t) /\ ~IsShort(user[u], t) /\ IsHolding(user[u], t)
    BY <1>2, <1>3, <1>8, <1>10, Amounts DEF IsHigh, IsShort, IsHolding
  <2>2. /\ Cardinality(High(t))' = Cardinality(High(t)) + 1
        /\ Cardinality(Short(t))' = Cardinality(Short(t))
        /\ Cardinality(Holding(t))' = Cardinality(Holding(t)) - 1
    BY <1>4, <1>6, <2>1 DEF Moves, One
  <2>3. Cardinality(Holding(t)) >= 1
    <3>1. u \in Holding(t)
      BY <2>1 DEF Holding
    <3> QED
      BY <3>1, <1>6, CallersApart, FS_EmptySet
  <2>4. left'[t] = rest /\ rest >= Reserve
    BY <1>5, <1>8, <1>10, Amounts
  <2>5. IsLow(t)' \in BOOLEAN /\ lost' \in 0..MaxLost
    BY <1>5, Amounts DEF IsLow
  <2>6. /\ Cardinality(High(t))' \in Nat /\ Cardinality(Short(t))' \in Nat
        /\ Cardinality(Holding(t))' \in Nat
        /\ Cardinality(High(t))' + Cardinality(Short(t))'
             + Cardinality(Holding(t))' <= N
    BY <1>6, <2>2, <2>3, Amounts
  <2> QED
    BY <1>8, <2>4, <2>5, <2>6, EnoughLeft, Amounts DEF Kept, Risk, Acting
<1>11. CASE own = t /\ rest < Threshold
  <2>1. /\ ~IsHigh(x, t) /\ IsShort(x, t) /\ ~IsHolding(x, t)
        /\ ~IsHigh(user[u], t) /\ ~IsShort(user[u], t) /\ IsHolding(user[u], t)
    BY <1>2, <1>3, <1>8, <1>11, Amounts DEF IsHigh, IsShort, IsHolding
  <2>2. /\ Cardinality(High(t))' = Cardinality(High(t))
        /\ Cardinality(Short(t))' = Cardinality(Short(t)) + 1
        /\ Cardinality(Holding(t))' = Cardinality(Holding(t)) - 1
    BY <1>4, <1>6, <2>1 DEF Moves, One
  <2>3. left'[t] \in Int /\ left'[t] >= left[t] - 1
    BY <1>5, <1>8, <1>11
  <2>4. Acting(t)' = Acting(t) - 1 /\ Acting(t) \in Int
    BY <1>6, <1>7, <2>2, Amounts DEF Acting
  <2>5. Late(Cardinality(High(t)))' = Late(Cardinality(High(t)))
        /\ Late(Cardinality(High(t))) \in Int
    <3>1. Cardinality(High(t)) \in 0..N
      BY <1>6, Amounts
    <3> QED
      BY <2>2, <3>1, LateStep DEF Late
  <2> QED
    BY <1>5, <2>3, <2>4, <2>5, Amounts DEF Kept, Risk
<1> QED
  BY <1>8, <1>9, <1>10, <1>11, Amounts

LEMMA KeptFail ==
    ASSUME Inv, NEW u \in Users, Fail(u), NEW t \in Tokens, Kept(t)
    PROVE  Kept(t)'
<1> DEFINE own == user[u].token
<1>1. /\ user[u].pc = "holding" /\ own \in Tokens
      /\ user' = [user EXCEPT ![u] = NoUser]
  BY DEF Fail, HoldsInv, Inv, Working
<1>2. Moves(t, user[u], NoUser)
  BY <1>1, StepCounts
<1>3. /\ ~IsHigh(NoUser, t) /\ ~IsShort(NoUser, t) /\ ~IsHolding(NoUser, t)
      /\ ~IsHigh(user[u], t) /\ ~IsShort(user[u], t)
      /\ IsHolding(user[u], t) <=> own = t
  BY <1>1 DEF NoUser, IsHigh, IsShort, IsHolding
<1>4. /\ Cardinality(High(t)) \in 0..N /\ Cardinality(Short(t)) \in Nat
      /\ Cardinality(Holding(t)) \in Nat
  BY CallersApart, Amounts
<1>5. /\ Cardinality(High(t))' = Cardinality(High(t))
      /\ Cardinality(Short(t))' = Cardinality(Short(t))
      /\ Cardinality(Holding(t))' <= Cardinality(Holding(t))
      /\ Cardinality(Holding(t))' \in Int
  BY <1>2, <1>3, <1>4 DEF Moves, One
<1>6. IsLow(t)' = IsLow(t)
  BY DEF Fail, provider, IsLow
<1>7. Acting(t)' <= Acting(t) /\ Acting(t) \in Int /\ Acting(t)' \in Int
  BY <1>4, <1>5, <1>6, Amounts DEF Acting
<1>8. Late(Cardinality(High(t)))' = Late(Cardinality(High(t)))
      /\ Late(Cardinality(High(t))) \in Int
  BY <1>4, <1>5, LateStep DEF Late
<1>9. \/ left'[t] = left[t] /\ lost' = lost
      \/ lost' = lost + 1 /\ left'[t] \in {left[t], left[t] - 1}
  BY <1>1 DEF Fail, Inv, TypeOK
<1> QED
  BY <1>7, <1>8, <1>9, Amounts DEF Kept, Risk

\* A late high report is used up: it lets as many callers act as it was counted
\* for. A report below the threshold leaves those that hold t.
LEMMA KeptObserveTokenRemaining ==
    ASSUME Inv, NEW u \in Users, ObserveTokenRemaining(u), NEW t \in Tokens, Kept(t)
    PROVE  Kept(t)'
<1> DEFINE own == user[u].token
           x   == [user[u] EXCEPT !.pc = "observed"]
<1>1. /\ user[u] \in User /\ user[u].pc = "replied" /\ own \in Tokens
      /\ user' = [user EXCEPT ![u] = x]
  BY DEF ObserveTokenRemaining, Inv, TypeOK, HoldsInv, Working
<1>2. x.pc = "observed" /\ user[u].remaining \in Nat
  BY <1>1, Constants DEF User
<1>3. Moves(t, user[u], x)
  BY <1>1, StepCounts
<1>4. /\ Cardinality(High(t)) \in 0..N /\ Cardinality(Short(t)) \in Nat
      /\ Cardinality(Holding(t)) \in Nat
      /\ Cardinality(High(t)) + Cardinality(Short(t)) + Cardinality(Holding(t)) <= N
  BY CallersApart, Amounts
<1>5. left' = left
  BY DEF ObserveTokenRemaining
<1>6. \/ remaining' = [remaining EXCEPT ![own] = user[u].remaining] /\ lost' = lost
      \/ remaining' = remaining /\ lost' = lost + 1
  BY DEF ObserveTokenRemaining, Latest
<1>7. ~IsHigh(x, t) /\ ~IsShort(x, t) /\ ~IsHolding(x, t) /\ ~IsHolding(user[u], t)
  BY <1>1, <1>2 DEF IsHigh, IsShort, IsHolding
<1> HIDE DEF x
<1>8. CASE own # t
  <2>1. ~IsHigh(user[u], t) /\ ~IsShort(user[u], t)
    BY <1>8 DEF IsHigh, IsShort
  <2>2. /\ Cardinality(High(t))' = Cardinality(High(t))
        /\ Cardinality(Short(t))' = Cardinality(Short(t))
        /\ Cardinality(Holding(t))' = Cardinality(Holding(t))
    BY <1>3, <1>4, <1>7, <2>1 DEF Moves, One
  <2>3. IsLow(t)' = IsLow(t) /\ lost' \in {lost, lost + 1}
    BY <1>6, <1>8 DEF IsLow, Inv, TypeOK
  <2>4. Acting(t)' = Acting(t) /\ Acting(t) \in Int
    BY <1>4, <2>2, <2>3, Amounts DEF Acting
  <2>5. Late(Cardinality(High(t)))' = Late(Cardinality(High(t)))
        /\ Late(Cardinality(High(t))) \in Int
    BY <1>4, <2>2, LateStep DEF Late
  <2> QED
    BY <1>5, <2>3, <2>4, <2>5, Amounts DEF Kept, Risk
<1>9. CASE own = t /\ user[u].remaining >= Threshold
  <2>1. IsHigh(user[u], t) /\ ~IsShort(user[u], t)
    BY <1>1, <1>2, <1>9, Amounts DEF IsHigh, IsShort
  <2>2. /\ Cardinality(High(t))' = Cardinality(High(t)) - 1
        /\ Cardinality(Short(t))' = Cardinality(Short(t))
        /\ Cardinality(Holding(t))' = Cardinality(Holding(t))
    BY <1>3, <1>4, <1>7, <2>1 DEF Moves, One
  <2>3. Cardinality(High(t)) > 0
    <3>1. u \in High(t)
      BY <2>1 DEF High
    <3> QED
      BY <3>1, <1>4, CallersApart, FS_EmptySet
  <2>4. /\ Late(Cardinality(High(t))) \in Int
        /\ Late(Cardinality(High(t))) =
               Late(Cardinality(High(t)))' + 2 * (N - Cardinality(High(t)) + 1)
        /\ Late(Cardinality(High(t)))' \in Int
    <3>1. Cardinality(High(t))' \in 0..N
      BY <1>4, <2>2, <2>3, Amounts
    <3> QED
      BY <1>4, <2>2, <2>3, <3>1, LateStep DEF Late
  <2>5. CASE remaining' = [remaining EXCEPT ![own] = user[u].remaining] /\ lost' = lost
    <3>1. ~IsLow(t)'
      BY <1>1, <1>2, <1>9, <2>5, Amounts DEF IsLow, Inv, TypeOK
    <3>2. /\ Acting(t)' = N - Cardinality(High(t)) + 1 - Cardinality(Short(t))
          /\ Acting(t) >= 0 /\ Acting(t) \in Int
          /\ ~IsLow(t) => Acting(t) = N - Cardinality(High(t)) - Cardinality(Short(t))
      BY <1>4, <2>2, <3>1, Amounts DEF Acting
    <3> QED
      BY <1>4, <1>5, <2>4, <2>5, <3>2, Amounts DEF Kept, Risk
  <2>6. CASE remaining' = remaining /\ lost' = lost + 1
    <3>1. IsLow(t)' = IsLow(t)
      BY <2>6 DEF IsLow
    <3>2. /\ Acting(t)' <= Acting(t) + 1 /\ Acting(t) \in Int /\ Acting(t)' \in Int
      BY <1>4, <2>2, <3>1, Amounts DEF Acting
    <3> QED
      BY <1>4, <1>5, <2>4, <2>6, <3>2, Amounts DEF Kept, Risk
  <2> QED
    BY <1>6, <2>5, <2>6
<1>10. CASE own = t /\ user[u].remaining < Threshold
  <2>1. ~IsHigh(user[u], t) /\ IsShort(user[u], t)
    BY <1>1, <1>2, <1>10, Amounts DEF IsHigh, IsShort
  <2>2. /\ Cardinality(High(t))' = Cardinality(High(t))
        /\ Cardinality(Short(t))' = Cardinality(Short(t)) - 1
        /\ Cardinality(Holding(t))' = Cardinality(Holding(t))
    BY <1>3, <1>4, <1>7, <2>1 DEF Moves, One
  <2>3. Late(Cardinality(High(t)))' = Late(Cardinality(High(t)))
        /\ Late(Cardinality(High(t))) \in Int
    BY <1>4, <2>2, LateStep DEF Late
  <2>4. CASE remaining' = [remaining EXCEPT ![own] = user[u].remaining] /\ lost' = lost
    <3>0. remaining'[t] = user[u].remaining
      BY <1>10, <2>4 DEF Inv, TypeOK
    <3>1. IsLow(t)'
      BY <1>2, <1>10, <3>0, Amounts, TokenAssumption DEF IsLow
    <3>2. Acting(t)' <= Acting(t) /\ Acting(t) \in Int /\ Acting(t)' \in Int
      BY <1>4, <2>2, <3>1, Amounts DEF Acting
    <3> QED
      BY <1>5, <2>3, <2>4, <3>2, Amounts DEF Kept, Risk
  <2>5. CASE remaining' = remaining /\ lost' = lost + 1
    <3>1. IsLow(t)' = IsLow(t)
      BY <2>5 DEF IsLow
    <3>2. Acting(t)' <= Acting(t) + 1 /\ Acting(t) \in Int /\ Acting(t)' \in Int
      BY <1>4, <2>2, <3>1, Amounts DEF Acting
    <3> QED
      BY <1>5, <2>3, <2>5, <3>2, Amounts DEF Kept, Risk
  <2> QED
    BY <1>6, <2>4, <2>5
<1> QED
  BY <1>2, <1>8, <1>9, <1>10, Amounts

LEMMA KeptObserveRateLimit ==
    ASSUME Inv, NEW u \in Users, ObserveRateLimit(u), NEW t \in Tokens, Kept(t)
    PROVE  Kept(t)'
<1>1. user[u].pc = "observed" /\ user' = [user EXCEPT ![u] = NoUser]
  BY DEF ObserveRateLimit
<1>2. Moves(t, user[u], NoUser)
  BY <1>1, StepCounts
<1>3. /\ ~IsHigh(NoUser, t) /\ ~IsShort(NoUser, t) /\ ~IsHolding(NoUser, t)
      /\ ~IsHigh(user[u], t) /\ ~IsShort(user[u], t) /\ ~IsHolding(user[u], t)
  BY <1>1 DEF NoUser, IsHigh, IsShort, IsHolding
<1>4. /\ Cardinality(High(t)) \in Nat /\ Cardinality(Short(t)) \in Nat
      /\ Cardinality(Holding(t)) \in Nat
  BY CallersApart
<1>5. /\ Cardinality(High(t))' = Cardinality(High(t))
      /\ Cardinality(Short(t))' = Cardinality(Short(t))
      /\ Cardinality(Holding(t))' = Cardinality(Holding(t))
  BY <1>2, <1>3, <1>4 DEF Moves, One
<1>6. UNCHANGED <<left[t], lost, remaining[t]>>
  BY DEF ObserveRateLimit
<1> QED
  BY <1>5, <1>6, SameRisk

\* A new window grants t more than its reserve.
LEMMA KeptRenew ==
    ASSUME Inv, NEW x \in Tokens, Renew(x), NEW t \in Tokens, t = x \/ Kept(t)
    PROVE  Kept(t)'
<1>1. /\ UNCHANGED <<lost, user, remaining>>
      /\ left' = [left EXCEPT ![x] = Quota]
  BY DEF Renew, provider
<1>2. /\ Cardinality(High(t))' = Cardinality(High(t))
      /\ Cardinality(Short(t))' = Cardinality(Short(t))
      /\ Cardinality(Holding(t))' = Cardinality(Holding(t))
      /\ IsLow(t)' = IsLow(t)
  BY <1>1 DEF High, Short, Holding, IsLow
<1>3. CASE t = x
  <2>1. left'[t] = Quota /\ Quota >= Reserve /\ Quota \in Nat
    BY <1>1, <1>3, Amounts DEF Inv, TypeOK
  <2>2. IsLow(t) \in BOOLEAN /\ lost \in 0..MaxLost
    BY Amounts DEF IsLow
  <2>3. 2 * Quota + N * (N + 1) + 2 * MaxLost >= 2 * Reserve + Risk(t)
    BY <2>1, <2>2, CallersApart, Amounts, EnoughLeft DEF Risk, Acting
  <2>4. Risk(t)' = Risk(t)
    BY <1>1, <1>2 DEF Risk, Acting, Late
  <2> QED
    BY <2>1, <2>3, <2>4 DEF Kept
<1>4. CASE t # x
  <2>1. UNCHANGED <<left[t], lost, remaining[t]>>
    BY <1>1, <1>4 DEF Inv, TypeOK
  <2> QED
    BY <1>2, <1>4, <2>1, SameRisk
<1> QED
  BY <1>3, <1>4

LEMMA ReserveInit == Init => ReserveInv
<1> SUFFICES ASSUME Init, NEW t \in Tokens PROVE Kept(t)
  BY DEF ReserveInv
<1>1. Inv
  BY InvInit
<1>2. left[t] = Quota /\ Quota >= Reserve /\ Quota \in Nat
  BY <1>1, Amounts DEF Init
<1>3. IsLow(t) \in BOOLEAN /\ lost \in 0..MaxLost
  BY <1>1, Amounts DEF IsLow
<1> QED
  BY <1>1, <1>2, <1>3, CallersApart, Amounts, EnoughLeft DEF Kept, Risk, Acting

LEMMA ReserveStep == Inv /\ ReserveInv /\ [Next]_vars => ReserveInv'
<1> SUFFICES ASSUME Inv, ReserveInv, [Next]_vars, NEW t \in Tokens \ fallback'
             PROVE  Kept(t)'
  BY DEF ReserveInv
<1>1. CASE \E x \in Tokens : Renew(x)
  <2>1. PICK x \in Tokens : Renew(x)
    BY <1>1
  <2>2. t = x \/ t \notin fallback
    BY <2>1 DEF Renew
  <2> QED
    BY <2>1, <2>2, KeptRenew DEF ReserveInv
<1>2. ASSUME NEW u \in Users, Choose(u) PROVE Kept(t)'
  <2>1. t \notin fallback
    BY <1>2 DEF Choose
  <2> QED
    BY <1>2, <2>1, KeptChoose DEF ReserveInv
<1>3. ASSUME NEW u \in Users, \/ TakeIndex(u) \/ Reply(u) \/ Fail(u)
                              \/ ObserveTokenRemaining(u) \/ ObserveRateLimit(u)
      PROVE  Kept(t)'
  <2>1. Kept(t)
    BY <1>3 DEF ReserveInv, TakeIndex, Reply, Fail, ObserveTokenRemaining,
                ObserveRateLimit
  <2> QED
    BY <1>3, <2>1, KeptTakeIndex, KeptReply, KeptFail, KeptObserveTokenRemaining,
       KeptObserveRateLimit
<1>4. CASE Tick \/ UNCHANGED vars
  <2>1. UNCHANGED <<user, left, lost, remaining, fallback>>
    BY <1>4 DEF Tick, vars, provider
  <2>2. /\ Cardinality(High(t))' = Cardinality(High(t))
        /\ Cardinality(Short(t))' = Cardinality(Short(t))
        /\ Cardinality(Holding(t))' = Cardinality(Holding(t))
    BY <2>1 DEF High, Short, Holding
  <2> QED
    BY <2>1, <2>2, SameRisk DEF ReserveInv
<1> QED
  BY <1>1, <1>2, <1>3, <1>4 DEF Next

\* Preference keeps the last requests of a token, up to the slack, for the time
\* when the others are low or cooling (token_provider.go:101-112, 132-145).
THEOREM ReserveIsKept == Spec => []KeepsReserve
<1>1. Inv /\ ReserveInv => KeepsReserve
  <2> SUFFICES ASSUME Inv, ReserveInv, NEW t \in Tokens \ fallback
               PROVE  left[t] + Slack >= Reserve
    BY DEF KeepsReserve
  <2>1. Kept(t)
    BY DEF ReserveInv
  <2>2. /\ Cardinality(High(t)) \in 0..N /\ Cardinality(Short(t)) \in Nat
        /\ Cardinality(Holding(t)) \in Nat
        /\ Cardinality(High(t)) + Cardinality(Short(t)) + Cardinality(Holding(t)) <= N
    BY CallersApart, Amounts
  <2>3. Acting(t) \in Nat
    BY <2>2, Amounts DEF Acting
  <2>4. Late(Cardinality(High(t))) \in Nat
    <3>1. 2 * N - Cardinality(High(t)) + 1 \in Nat
      BY <2>2, Amounts
    <3> QED
      BY <2>2, <3>1 DEF Late
  <2>5. Risk(t) \in Nat
    BY <2>3, <2>4, Amounts DEF Risk
  <2> QED
    BY <2>1, <2>5, SlackDoubled, Amounts DEF Kept
<1> QED
  BY <1>1, Invariant, ReserveInit, ReserveStep, PTL DEF Spec
=============================================================================
