---------------------------- MODULE TokenProvider ----------------------------
(***************************************************************************)
(* Token selection in internal/upstream/github/token_provider.go, with the *)
(* callers that use it: each takes a token, sends one request with it and  *)
(* reports what the response said of it. The steps of several callers      *)
(* interleave between the atomic index and the lock, and while responses   *)
(* are on their way.                                                       *)
(***************************************************************************)
EXTENDS Integers, SequencesExt

CONSTANTS
    tokens,         \* the configured tokens, without empty ones or doubles
    Users,          \* concurrent requests and background workers
    Threshold,      \* API_USAGE_THRESHOLD; 0 disables the preference
    Cooldown,       \* defaultRateLimitCooldown
    IndexModulus,   \* nextIndex is unsigned and wraps: 2^64
    Quota,          \* requests upstream grants a token in a window
    MaxTime,        \* bound: the clock
    MaxLost,        \* bound: requests upstream counted without a report of it
    None

Tokens == ToSet(tokens)

ASSUME TokenAssumption ==
    /\ tokens # <<>> /\ \A i, j \in DOMAIN tokens : tokens[i] = tokens[j] => i = j
    /\ {Threshold, MaxTime, MaxLost} \subseteq Nat
    /\ {Cooldown, IndexModulus, Quota} \subseteq Nat \ {0}
    /\ None \notin Tokens \cup Nat
    /\ IsFiniteSet(Users)

VARIABLES
    now,
    nextIndex,      \* the atomic counter
    remaining,      \* remaining[t]: what was last reported, or None
    cooldownUntil,  \* cooldownUntil[t]: or None
    user,           \* user[u]: where u is, its token and response
    throttled,      \* throttled[t]: when t was last reported limited (history)
    fallback,       \* tokens taken for want of a better one in this window (history)
    left,           \* left[t]: what upstream still grants t (environment)
    lost            \* reports lost so far (environment)

provider == <<nextIndex, remaining, cooldownUntil>>
vars == <<now, provider, user, throttled, fallback, left, lost>>

User == [pc: {"idle", "indexed", "holding", "replied", "observed"},
         index: 0..(Len(tokens) - 1), token: Tokens \cup {None},
         remaining: 0..Quota, limited: BOOLEAN]

NoUser == [pc |-> "idle", index |-> 0, token |-> None,
           remaining |-> 0, limited |-> FALSE]

TypeOK ==
    /\ now \in 0..MaxTime
    /\ nextIndex \in 0..(IndexModulus - 1)
    /\ remaining \in [Tokens -> 0..Quota \cup {None}]
    /\ cooldownUntil \in [Tokens -> 0..(MaxTime + Cooldown) \cup {None}]
    /\ user \in [Users -> User]
    /\ throttled \in [Tokens -> 0..MaxTime \cup {None}]
    /\ fallback \subseteq Tokens
    /\ left \in [Tokens -> 0..Quota]
    /\ lost \in 0..MaxLost

Init ==
    /\ now = 0
    /\ nextIndex = 0
    /\ remaining = [t \in Tokens |-> None]
    /\ cooldownUntil = [t \in Tokens |-> None]
    /\ user = [u \in Users |-> NoUser]
    /\ throttled = [t \in Tokens |-> None]
    /\ fallback = {}
    /\ left = [t \in Tokens |-> Quota]
    /\ lost = 0

-----------------------------------------------------------------------------
(* The choice.                                                             *)

isInCooldown(t) == cooldownUntil[t] # None /\ now < cooldownUntil[t]

IsLow(t) == Threshold > 0 /\ remaining[t] # None /\ remaining[t] < Threshold

isPreferred(t) == ~isInCooldown(t) /\ ~IsLow(t)

\* The n-th token tried from index on.
Tried(index, n) == tokens[((index + n) % Len(tokens)) + 1]

\* The loops try the tokens in turn: this is the first that P accepts.
IsFirst(t, index, P(_)) ==
    \E n \in 0..(Len(tokens) - 1) :
        /\ t = Tried(index, n) /\ P(t)
        /\ \A m \in 0..(n - 1) : ~P(Tried(index, m))

\* Seeded fault: the counter is not reduced to an index.
FaultyTakeIndex(u) ==
    /\ user[u].pc = "idle"
    /\ user' = [user EXCEPT ![u].pc = "indexed", ![u].index = nextIndex]
    /\ nextIndex' = (nextIndex + 1) % IndexModulus
    /\ UNCHANGED <<now, remaining, cooldownUntil, throttled, fallback, left, lost>>

TakeIndex(u) ==
    /\ user[u].pc = "idle"
    /\ user' = [user EXCEPT ![u].pc = "indexed",
                            ![u].index = nextIndex % Len(tokens)]
    /\ nextIndex' = (nextIndex + 1) % IndexModulus
    /\ UNCHANGED <<now, remaining, cooldownUntil, throttled, fallback, left, lost>>

Holds(u, t) ==
    user' = [user EXCEPT ![u] = [@ EXCEPT !.pc = "holding", !.index = 0,
                                          !.token = t]]

\* Seeded fault: the second loop is missing.
FaultyChoose(u) ==
    /\ user[u].pc = "indexed"
    /\ \/ /\ \E t \in Tokens : IsFirst(t, user[u].index, isPreferred) /\ Holds(u, t)
          /\ UNCHANGED fallback
       \/ /\ \A t \in Tokens : ~isPreferred(t)
          /\ Holds(u, Tried(user[u].index, 0))
          /\ fallback' = fallback \cup {Tried(user[u].index, 0)}
    /\ UNCHANGED <<now, provider, throttled, left, lost>>

\* The two loops and the last resort, under one read lock.
Choose(u) ==
    /\ user[u].pc = "indexed"
    /\ \E t \in Tokens :
         LET index          == user[u].index
             IsAvailable(x) == ~isInCooldown(x)
         IN  /\ Holds(u, t)
             /\ \/ IsFirst(t, index, isPreferred) /\ UNCHANGED fallback
                \/ /\ \A x \in Tokens : ~isPreferred(x)
                   /\ \/ IsFirst(t, index, IsAvailable)
                      \/ /\ \A x \in Tokens : isInCooldown(x)
                         /\ t = Tried(index, 0)
                   /\ fallback' = fallback \cup {t}
    /\ UNCHANGED <<now, provider, throttled, left, lost>>

-----------------------------------------------------------------------------
(* The caller and upstream.                                                *)

\* Upstream counts the request and answers; a token without requests left,
\* or one that upstream throttles, gets a rate-limited status.
Reply(u) ==
    /\ user[u].pc = "holding"
    /\ LET t    == user[u].token
           rest == IF left[t] > 0 THEN left[t] - 1 ELSE 0
       IN  /\ left' = [left EXCEPT ![t] = rest]
           /\ \E limited \in BOOLEAN :
                /\ left[t] = 0 => limited
                /\ user' = [user EXCEPT ![u] =
                              [@ EXCEPT !.pc = "replied", !.remaining = rest,
                                        !.limited = limited]]
    /\ UNCHANGED <<now, provider, throttled, fallback, lost>>

\* upstream.Get fails: nothing is observed. Upstream may have counted it.
Fail(u) ==
    /\ user[u].pc = "holding"
    /\ \/ UNCHANGED <<left, lost>>
       \/ /\ lost < MaxLost /\ left[user[u].token] > 0
          /\ lost' = lost + 1
          /\ left' = [left EXCEPT ![user[u].token] = @ - 1]
    /\ user' = [user EXCEPT ![u] = NoUser]
    /\ UNCHANGED <<now, provider, throttled, fallback>>

\* Seeded fault: a reported value is taken for stale when it is lower.
FaultyLatest(t, reported) ==
    IF remaining[t] # None /\ remaining[t] > reported THEN remaining[t]
                                                      ELSE reported

\* The last report wins, in whatever order the reports arrive.
Latest(t, reported) == reported

\* A response without a readable X-RateLimit-Remaining reports nothing.
ObserveTokenRemaining(u) ==
    /\ user[u].pc = "replied"
    /\ LET t == user[u].token
       IN  \/ /\ remaining' = [remaining EXCEPT
                                 ![t] = Latest(t, user[u].remaining)]
              /\ UNCHANGED lost
           \/ /\ lost < MaxLost /\ lost' = lost + 1
              /\ UNCHANGED remaining
    /\ user' = [user EXCEPT ![u].pc = "observed"]
    /\ UNCHANGED <<now, nextIndex, cooldownUntil, throttled, fallback, left>>

ObserveRateLimit(u) ==
    /\ user[u].pc = "observed"
    /\ LET t == user[u].token
       IN  IF user[u].limited
           THEN /\ cooldownUntil' = [cooldownUntil EXCEPT ![t] = now + Cooldown]
                /\ throttled' = [throttled EXCEPT ![t] = now]
           ELSE UNCHANGED <<cooldownUntil, throttled>>
    /\ user' = [user EXCEPT ![u] = NoUser]
    /\ UNCHANGED <<now, nextIndex, remaining, fallback, left, lost>>

\* Upstream opens a new window for a token.
Renew(t) ==
    /\ left' = [left EXCEPT ![t] = Quota]
    /\ fallback' = fallback \ {t}
    /\ UNCHANGED <<now, provider, user, throttled, lost>>

Tick ==
    /\ now < MaxTime
    /\ now' = now + 1
    /\ UNCHANGED <<provider, user, throttled, fallback, left, lost>>

Next ==
    \/ Tick \/ \E t \in Tokens : Renew(t)
    \/ \E u \in Users : \/ TakeIndex(u) \/ Choose(u) \/ Reply(u) \/ Fail(u)
                        \/ ObserveTokenRemaining(u) \/ ObserveRateLimit(u)

Spec == Init /\ [][Next]_vars

-----------------------------------------------------------------------------
(* What token selection promises.                                          *)

\* How far below the threshold preference may drive a token. A report that
\* arrives late shows a quota that others have used meanwhile, and every user
\* may act on it before the next report: 1 + 2 + ... + Cardinality(Users).
\* The bound is tight.
Slack == (Cardinality(Users) * (Cardinality(Users) + 1)) \div 2 + MaxLost

\* What a token keeps for that time: a threshold above the quota keeps it all.
Reserve == IF Threshold < Quota THEN Threshold ELSE Quota

\* The last Threshold requests of a token, up to Slack, are kept for the time
\* when every other token is low or cooling: as long as nobody had to fall
\* back on the token, they are there, although reports overtake one another,
\* get lost and are acted on by several callers at once
\* (token_provider.go:101-112, 132-145).
KeepsReserve ==
    \A t \in Tokens \ fallback : left[t] + Slack >= Reserve

\* How good a choice t is: a throttled token rests for the cooldown.
Rank(t) ==
    IF throttled[t] # None /\ now < throttled[t] + Cooldown THEN 0
    ELSE IF IsLow(t) THEN 1 ELSE 2

\* NextToken never returns a token when there is a better one: a cooling one
\* only if all are cooling, a low one only if the others are low or cooling
\* (token_provider.go:83-97).
ChoosesBest ==
    [][\A u \in Users :
         user[u].pc = "indexed" /\ user'[u].pc = "holding"
             => \A t \in Tokens : Rank(t) <= Rank(user'[u].token)]_vars
=============================================================================
