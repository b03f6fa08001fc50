# Specifications of svm-go

svm-go answers `GET /version?url=...` with the body of an upstream (GitHub) resource. It keeps
answers in memory, coalesces concurrent misses, revalidates what is in use in the background and
spreads its requests over several tokens. This directory holds TLA+ models of those parts, the
TLC configurations that check them on small instances, and theorems about every
one of them with proofs checked by TLAPS. Paths below are relative to the repository.

    tlc -config MCVersionService_races.cfg MCVersionService     # one run
    tlapm VersionServiceProofs.tla                              # the proofs of one module

## 1. The system

| Component | State | Operations | Talks to |
| --- | --- | --- | --- |
| version service (`internal/service/version/service.go`) | calls in flight per key, refreshes in flight per key | `Handle`, `RefreshByKey`, `RefreshInBackground` | cache, tracker, token provider, upstream |
| records and policy (`internal/cache`) | none | expiry, negative caching, revalidation due | version service, scheduler |
| in-memory cache (`internal/cache/l1`) | map of entries, recency list, running total | `Get`, `GetReadonly`, `Set` | version service, scheduler |
| activity tracker (`activity_tracker.go`) | last use of each key | `RecordActivity`, `ActiveKeysSince`, prune | version service, scheduler |
| revalidation scheduler (`revalidate_scheduler.go`) | timer, sweep in progress | sweep, close | tracker, cache, queue |
| refresh queue (`refresh_queue.go`) | bounded channel | enqueue, dequeue, close | scheduler, workers |
| refresh workers (`refresh_worker.go`) | job and time of the last run, per worker | paced loop, close | queue, `RefreshByKey` |
| token provider (`internal/upstream/github/token_provider.go`) | index, remaining quota and cooldown per token | `NextToken`, two observers | version service |
| request preparation memo (`request_prep_cache.go`) | bounded map | `GetOrPrepare` | version service |
| URL checks and cache keys (`internal/security/url_validator.go`, `internal/cache/key.go`) | none | parse, allow, normalise | memo, client |
| upstream client (`internal/upstream/github/client.go`) | connections kept open | `Get`: dial, redirect, authenticate | resolver, upstream, token provider |
| lifecycle and access log (`cmd/svm/main.go`, `internal/app`) | phase of the shutdown, log channel, closing order | start, serve, log a request, shut down | all |
| HTTP API, configuration, metrics, logger | counters only | translation, validation, output | |

Requests run concurrently, one goroutine each. A request that finds nothing to serve joins the
call in flight for its key, or starts one in a goroutine that outlives it. Workers run beside
them and write the same cache. The hard behaviours are:

* a lookup, the decision to coalesce, the second lookup in the call, the clock reading, the
  upstream request and the store are separate steps; records are replaced, evicted and expire
  between any two of them;
* clients leave while others wait for the call they started;
* foreground calls and background refreshes are deduplicated by two independent groups, so two
  fetches of one key can overlap and end in either order;
* jobs are dropped when the queue is full, and may be queued twice, because the scheduler does
  not know what is queued;
* reports of a token's quota overtake one another and several callers act on the same report;
* background parts are closed in order while each waits in a random `select`;
* a host name is resolved, checked and dialled in separate steps, a connection is used again
  without any of them, and a redirect starts over at a place upstream chooses;
* requests finish while the access log closes, and the server, the background parts and the log
  writer may each hang while one timeout runs for all of them.

Correctness, component by component: what is cached or answered was upstream's own, recently
enough (service, records); one call and one refresh per key, and no request or key is left behind
(service); memory within its budget, eviction by use, and a lookup that returns the last record
stored or nothing (cache); a key in use is refreshed in every interval as far as the workers have
the capacity, and the pipeline can always be closed (tracker, scheduler, queue, workers); the last
requests of a token are kept for when nothing else is left (token provider); the memo is bounded
and invisible to its callers (memo); requests and credentials stay where the checks allow them on
every hop (client); a shutdown ends within its timeout, loses nothing it had time for, and its exit
code tells (lifecycle).

## 2. The modules

| Module | Models | Used by |
| --- | --- | --- |
| `CacheRecords` | records, expiry, the cache-hit decision | `VersionService` |
| `CacheStore` | what the service relies on: a map that may forget | `VersionService`, `CacheInterface` |
| `VersionService` | requests, call goroutines, background refreshes, upstream | `MCVersionService`, `VersionServiceProofs` |
| `CacheInterface` | `CacheStore` as its callers see it: the last call and its result | `L1Cache` |
| `L1Cache` | the LRU cache; implements `CacheInterface` | `MCL1Cache`, `L1CacheProofs` |
| `Revalidation` | tracker, scheduler, queue, workers, closing order | `MCRevalidation`, `RevalidationProofs` |
| `TokenProvider` | token choice with its concurrent callers and upstream's quota | `MCTokenProvider`, `TokenProviderProofs` |
| `RequestPrepCache` | the memo of prepared requests | `UpstreamRequest`, `RequestPrepCacheProofs` |
| `UpstreamURL` | URL checks, the host allowlist, cache keys, the redirect and credential rules | `UpstreamRequest` |
| `UpstreamRequest` | a request through memo, dialer, kept connections and redirects | `MCUpstreamRequest`, `UpstreamRequestProofs` |
| `Lifecycle` | server, shutdown phases, access log, exit | `MCLifecycle`, `LifecycleProofs` |
| `Counting` | nothing of the program: lemmas on induction, sizes of sets and sums | `L1CacheProofs`, `TokenProviderProofs`, `RevalidationProofs` |

`CacheStore` is where the models meet: `VersionService` uses its `Set` for every store, and
`L1Cache` is shown to implement it. What holds of the service over a map that may drop anything
holds over the LRU cache. The steps of the service and of the cache are therefore not composed once
more. `UpstreamRequest` extends `RequestPrepCache`, with `prepareRequest` of `UpstreamURL` as what
the memo remembers. `Revalidation` and `Lifecycle` see the service as its effects on the tracker and
on the shutdown; `Lifecycle` sees the closing of the scheduler, workers and queue in one goroutine
whose inside is `Revalidation`'s.

Definitions whose comment begins with "Seeded fault" (`Faulty...`, `Overfull...`, `Unchecked...`,
`Untimed...`, `Unlocked...`, `Blocking...`) are plausible bugs. No specification uses them; they show
that each property notices one.

### VersionService

A payload is the number of the upstream version it was read from, an ETag is the number of the
version it names. 404 stands for 404 and 410, 429 for every status that is neither cached nor a
304. `req[r]` is a running `Handle` or its answer; `fetch[f]` is the goroutine that `Do` starts,
named after the slot `r` that started it, or the refresh of a worker. A slot serves its next
request only when its old call is closed and nobody waits for that call, because the code's calls
are objects of their own.

| Code | Actions |
| --- | --- |
| `handle` up to the coalescing (153-222) | `Reject`, `Lookup`, `ServeHit`, `Lead`, `Follow` |
| waiting in `Do` (812-824) | `TakeAnswer`, `Cancel` |
| `handle` in the call goroutine | `CallLookup`, `CallServe`, `CallSend`, `CallRevalidate`, `CallStore`, `CallFail` |
| end of the call (804-808) | `CallFinish` |
| `RefreshByKey`, `refreshCachedRecord` | `RefreshStart`, `RefreshLookup`, `RefreshSend`, `RefreshStore`, `RefreshDone` |
| clock, upstream | `Tick`, `UpstreamPublish`, `UpstreamReply` |

Choices worth knowing:

* The decision of `handle` reads the clock after the lookup; `Lead` and `Follow` merge that
  reading with `Do`. A record that is not servable stays so as time passes, so no decision is lost.
* Storing a record and recording activity are one step; the tracker is not read by requests.
* A 304 is only given to a request with a validator that names the current version. One that
  nobody asked for falls through to the refused answers in the code, as in `CallFail`.
* `cache.Set` never fails and `Get` never returns an error in the L1 store, and a stored record
  has a URL; the branches for the contrary are unreachable.
* `RefreshInBackground` takes the same steps as `RefreshByKey` in a goroutine of its own.
* `tracked` is without pruning here; `Revalidation` has the pruning. A key that was pruned while
  cached and is then refetched by a forced request is not recorded (`if !cacheHit`) and is found
  again at its next hit.
* Tokens, metrics and logging are left out: nothing in this flow depends on them.

### L1Cache

Every operation holds the mutex throughout and is one step. A record and its clone are the same
value; `EntrySize` is a constant of key and record. `Left[n]` is the running total after all but
the first `n` entries are evicted; the loop of `evictToBudgetLocked` stops at the largest `n`
within the budget, or with nothing. A record larger than the whole budget therefore empties the
cache, itself last: the code does the same. `usedAfter` is a history variable: which key was
used after which, across evictions.

### Revalidation

Times are ages, kept up to the value beyond which the code does not distinguish them: `age` up
to `Interval`, `idle` up to `Lookback + 1`. Computing steps take no time: `Tick` waits while one
is ready (`Urgent`), an upstream request takes up to `MaxRefresh` ticks. Requests appear as their
effect: `ServeHit`, `Fetch` (a store whose clock was read up to `MaxRefresh` ago; whether its use
is recorded is left open, which covers both outcomes of `if !cacheHit`), `Evict`. Pruning and
listing are one step, since only the sweep prunes and a use recorded in between is inside the
lookback anyway. Keys that were last used at the same instant are listed in any order.

Once its context is cancelled a sweep that starts lists nothing, because `ActiveKeysSince`
returns the context's error. A worker whose context is cancelled may still take a job, or finish
its wait: Go's `select` picks any ready branch.

### TokenProvider

A caller takes an index, chooses under the read lock, sends, reports the remaining quota and
reports a throttling status, in five steps that interleave with other callers. `left` is
upstream's own account of the quota, `lost` counts requests upstream counted without a report
(the response was lost, or had no readable header). The several clock readings of one `NextToken`
are one here. Empty and repeated tokens are removed by the constructor; an empty list, which the
configuration refuses, is excluded.

### RequestPrepCache

`Lookup` is the section under the read lock, `Store` the one under the write lock;
what is remembered is a constant function because its inputs are fixed after start.

### UpstreamURL and UpstreamRequest

A URL is the record of its parts as they were written; `Malformed` URLs are those `url.Parse`
refuses. Lower case is a constant function, a query the sequence of its pairs, and a cache key the
normal form itself, the SHA-256 of which is taken to be injective. `UnreadablePairs` are those that
`url.ParseQuery` skips (`a;b`, `a=%zz`): they are sent upstream and are not part of the key. `ClientAssumption` ties the memo
to `prepareRequest`.

| Code | Actions |
| --- | --- |
| `Service.prepareRequest` (433-441) through the memo | `Prepare` |
| `Client.Get` up to the transport | `Send` |
| `safeDialContext`: resolve and check, then dial | `Resolve`, `Connect` |
| connections kept open | `Reuse`, `ConnectionCloses` |
| the redirect validator | `Redirect` |
| the end of a request and of its timeout | `Answered`, `TimedOut`, `Return`, `Tick` |

The resolver answers anything at any time, so a host may move between `Resolve` and `Connect` and
under a kept connection. What `net/http` does is external: it follows a redirect when the validator
allows it, copies the first request's headers, and leaves credentials out at another host. The
subdomains to which it would keep sending them are excluded, as no allowed host is one of another.
Which addresses are public is a constant.

### Lifecycle

`main` is where `runServerWithLifecycle` and the functions it calls are; `timer` is the timer of the
wait it is in, `elapsed` the time since the signal. `closer` is how far `CloseOnShutdown` is,
`req[r]` a request and then its log line.

| Code | Actions |
| --- | --- |
| `ListenAndServe` and the goroutine that waits for it | `ServerListens`, `ListenFails`, `ListenReturns` |
| a handler, `enqueueRequestLog` | `RequestBegins`, `EnqueueBegins`, `EnqueueEnds` |
| `processRequestLogs` | `WriterTakes`, `WriterWrites`, `WriterEnds` |
| signal or listener failure | `Signal`, `TakeListenError` |
| drain of the server | `StopServer`, `ServerStopped` |
| `shutdownBackground` | `CloseOnShutdown`, `BackgroundClosed`, `RefreshBegins`, `RefreshEnds` |
| `shutdownRequestLogs` | `CloseLog`, `LogFlushed` |
| exit code | `Exit` |

`enqueueRequestLog` is two steps because it holds the read lock in between; `CloseLog` needs the
write lock, and a waiting writer keeps new readers out, as in `sync.RWMutex`. A drain that passes
the deadline leaves its requests running: they meet the closed log and leave no line. With no time
left the log writer is still given one nanosecond, after which `Expired` holds at once.

## 3. The runs

| Run | Bounds | Shows |
| --- | --- | --- |
| `service_races` | 1 key, 1 request slot, 2 workers, 2 versions, clock to 2 | `TypeOK`, `RecordsWereCurrent`, `AnswersWereCurrent`, `TrackedIfCached`, `RefreshExclusive` |
| `service_coalescing` | 1 key, 3 slots, 2 versions, clock to 1 | `CallGroup`, `NoWastedFetch`, `StoreMovesForward` |
| `service_live` | 1 key, 2 slots, 1 worker, two failures, clock stopped, fair | `EveryRequestAnswered`, `EveryFetchEnds` |
| `forced_hit` | 1 key, 3 slots | a violation, see section 6 |
| `l1_cache` | 4 keys, sizes 1, 3 and 5, budget 4 | the six properties of `L1Cache`, with the refinement |
| `revalidation_capacity` | 2 keys, 2 workers, interval 3, queue 2 | `KeepsUp`, `NoJobTwice`, `StaysActive` |
| `revalidation_overload` | 1 key, 2 workers slower than the sweeps, queue 1, fair | `TypeOK`, `ShutdownCompletes` |
| `token_reserve` | 2 tokens, 2 callers, threshold 4, quota 5 | `KeepsReserve` |
| `token_choice` | 2 tokens, 2 callers, clock to 2, one lost report, index modulo 3 | `TypeOK`, `ChoosesBest` |
| `request_prep` | 4 URLs, 4 destinations, 2 callers, room for 2, a public and a private address, timeout 1 | `WithinLimit`, `Transparent`, `ConnectsWhereChecked`, `StaysWhereAllowed`, `CredentialsStayHome`, `GetEnds` |
| `token_report` | the same, 1 caller | a violation, see section 6 |
| `lifecycle` | 3 requests, log queue of 1, timeout 2, no signal before the server listens | the seven properties of `Lifecycle` |

Why the bounds are enough to be interesting:

* With times to live of 1 and a clock to 2 a record is fresh, expires, is refetched and expires
  again; two versions give a stale record, a late answer and a replaced validator. Keys do not
  interact: each has its own record, call and refresh, and the proofs cover any number. Three slots
  give a leader, a follower and a newcomer after the call has closed; slots are reused without
  limit. In `service_live` nothing expires, which only removes a second way to a miss.
* The failures are spread over the runs; they differ only in the answer of `CallFail`.
* The safety properties that matter most are proved without bounds (section 5).
* In `l1_cache` four small records fit, a large one evicts several of them, and the oversized one
  fits nowhere; sequences are unbounded.
* `revalidation_capacity` takes the smallest interval that `HasCapacity` allows. In
  `revalidation_overload` the condition does not hold and the queue is full most of the time.
* `Slack` in `TokenProvider` is tight as well: one less, and `KeepsReserve` fails. It was also
  tried with three callers on one token and with lost reports. The index wraps at 3 with two
  tokens, as 2^64 does for a number of tokens that does not divide it.

* The URLs of `request_prep` are an authenticated host in two spellings with one cache key, a plain
  host, and a scheme that is refused; the destinations add a host that is not allowed. A timeout of
  one tick is enough for any number of redirects, since hops take no time of their own.
* In `lifecycle` one request waits in the log queue, one is in the writer's hands and one finds the
  queue full or the log closed; a timeout of two can be spent in any two of the three phases.

`ShutdownEnds` and `OnlyLateLinesAreLost` need the signal to come after the server listens. A
signal before that (`SignalWhileStarting = TRUE`) finds a server without a listener: nothing is shut
down, the log is closed, the server then listens, and the main goroutine waits for it. Whether
fasthttp leaves that window is outside the repository, so this is not listed as a difference.

Symmetry is used for safety only.

`StoreMovesForward` and `NoWastedFetch` are checked without background workers, and are false
with them: the two groups are independent, and a refresh that asked upstream earlier may write
later than a call. What remains true is `RecordsWereCurrent`: an old version that overwrites a
newer one carries the time at which it was current, expires accordingly and is due for
revalidation accordingly.

`KeepsUp` has a capacity condition, `(keys + workers - 1) * (pace + request time) <= workers *
interval` and a queue with room for all keys. "Attempted" includes a failed request. Beyond
capacity the code gives no bound: due keys are enqueued longest unused first and the rest is
dropped, so the most recently used keys can be the ones dropped every time. No document promises
otherwise. A key checked just after a sweep is due in the second sweep after that, not the next.

## 4. Fairness

`FairSpec` of `VersionService` assumes that goroutines that can run do run, and that an upstream
request ends: the client has a timeout of 30 s, a call also a context of 30 s
(`service.go:53`, `client.go`). It does not assume that requests arrive, that clients stay, that
refreshes start, that upstream changes or that the clock moves. `FairSpec` of `Revalidation`
assumes the same of the scheduler, workers and closing steps, and that the clock runs, since
pacing, requests and the sweep timer wait for it. `FairSpec` of `Lifecycle` assumes that the main
goroutine takes the steps it can, that the clock runs, that the server comes up and its listener
returns once closed, and that a request that holds the log's read lock goes on. Handlers, refreshes,
the log writer and the closing goroutine may all hang: that the shutdown ends all the same is the
point of `ShutdownEnds`. `FairRequestSpec` assumes only that time passes for a request in flight and
that the client's timer fires. All fairness is weak.

## 5. What is proved

All theorems hold for every value of the constants that satisfies the named assumptions
(`PolicyAssumption`, `NoneIsNoRecord`, `ServiceAssumption`, `NoneIsNoMessage`, `L1Assumption`,
`PrepAssumption`, `ClientAssumption`, `RevalidationAssumption`, `TokenAssumption`,
`LifecycleAssumption`): times to live are naturals, `None` is none of the values, slots and workers
are disjoint, keys, workers and the users of tokens are finitely many, sizes, budgets, limits and
intervals are positive, and `prepareRequest` is what the memo remembers. That there is a worker
is `parseEnvPositiveInt` in `config.go:153` and `normalizeWorkerCount` in `refresh_worker.go:73`.

Every safety property that a passing run checks is stated by one of the theorems below; the runs
show on small instances that they are not vacuous. Three of the proofs need sums: of the sizes
of the cached entries, of the time each worker still needs, of the quota that is at risk. `Counting`
takes the sum of a function over a finite set to be the number of its units, `Total(S, f)`, the
size of `{<<s, i>> : 1 <= i <= f[s]}`, so that the theorems on finite sets do the arithmetic. It
also has induction stated with a set in place of a predicate (`Induction`, `Descent`,
`SubsetInduction`), from the well-foundedness theorems of the library.

`VersionServiceProofs`, of `Spec`:

| Theorem | States |
| --- | --- |
| `TypeCorrect` | `[]TypeOK` |
| `OneCallPerKey` | `[]CallGroup` |
| `OneRefreshPerKey` | `[]RefreshExclusive` |
| `CacheHoldsCurrentRecords` | `[]RecordsWereCurrent` |
| `AnswersAreCurrent` | `AnswersWereCurrent` |
| `CachedKeysAreTracked` | `[]TrackedIfCached` |
| `NoFetchIsWasted` | `NoWastedFetch`, assuming `Workers = {}` |
| `CallsMoveForward` | `StoreMovesForward`, assuming `Workers = {}` |

* `TypeInv` strengthens `TypeOK` with what each control state knows: a running fetch has a key, a
  waiting request a call, and a fetch with a 304 the record it renews. `TypeOK` alone is not
  inductive: `CallRevalidate` without a record would store nonsense.
* `CallInv` is `CallGroup` with two facts: a call about to close has its answer, and a slot that
  has looked its key up runs no old call. The second rests on `Free`.
* `RefreshExclusive` is inductive with `TypeInv`.
* `CurrencyInv` says of every record that is stored, held by a request, or held by a fetch that it
  is *backed*: its version was upstream's at its `checkedAt` or later, its validator names no other
  version, and its expiry is its check plus the time to live of its status. It says of every reply in flight that its version was upstream's after the fetch read
  the clock. Records are copied at a lookup and written back after a 304, so the invariant has to
  speak of the copies. `StaysCurrent` and `ClockMonotone` carry it over the environment's steps.
  `AnswersAreCurrent` follows step by step: a hit is backed and not expired, any other body is a
  reply or a renewed record.
* `TrackInv` says that whatever a call or worker found in the cache is tracked, and that a worker
  past its lookup has such a key. A call tracks what it stores only on a miss and a worker never
  tracks, so `TrackedIfCached` alone is not inductive: the key may be evicted in between.
* `OwnInv` says that a call past its lookup finds in the cache what it found, or nothing, and that a
  reply it holds is no older than that. It rests on `CallGroup`, since another call for the key would
  be another writer, and on `CurrencyInv`, since no stored version is newer than upstream's. It fails
  once workers write, and so do the two properties.

`L1CacheProofs`, of `Spec`:

| Theorem | States |
| --- | --- |
| `TypesAreKept` | `[]TypeOK` |
| `RecencyIsConsistent` | `[]RecencyMatches` |
| `UsageIsExact` | `[]WithinBudget` |
| `EvictionIsByUse` | `EvictsLeastRecentlyUsed` |
| `EvictionIsNeeded` | `EvictsNoMoreThanNeeded` |
| `L1ImplementsCacheInterface` | `ImplementsCacheInterface`, the refinement of `CacheInterface` |

The invariant is the conjunction of four parts that need one another. `RecencyMatches` lets the
eviction loop find an entry for each element of the list. `UsageInv` says that the running total is
the `Total` of the sizes; then the total that the loop reaches with `n` entries left is the sum of
those `n` (`LeftIsTotal`), it is never clamped at zero, and an empty cache weighs nothing. `Ordered`
says that the list is in the order of use. It holds before the loop as well, because the key in use
leads the list and the rest of it keeps its order (`Leads`), and the loop takes a suffix. Two
definitions are recursive functions, `Left` and the sum of `WithinBudget`. For each the function that
gives the totals satisfies the recursion, so the chosen function exists, and an induction, downwards
along the list or over the subsets of the keys, shows that it has no other values (`LeftIsTotal`,
`SumIsTotal`). In the refinement the surviving keys of a `Set` are the witness for the abstract map's
choice of what to forget.

`RequestPrepCacheProofs`, of `Spec`: `MemoIsBounded` (`[]WithinLimit`) and `MemoIsTransparent`
(`[]Transparent`). The invariant adds that the memo is a finite part of `Prepared`; a store adds one
element to a finite set and had room for it.

`UpstreamRequestProofs`, of `RequestSpec`:

| Theorem | States |
| --- | --- |
| `RequestsUseTheMemo` | `Spec` of `RequestPrepCache`: its theorems hold of the whole |
| `RequestsSeeNoMemo` | `[](WithinLimit /\ Transparent)` |
| `ConnectionsWereChecked` | `[]ConnectsWhereChecked` |
| `RedirectsStayAllowed` | `[]StaysWhereAllowed` |
| `CredentialsStayAtHome` | `[]CredentialsStayHome` |
| `PreparingAgainChangesNothing` | `prepareRequest(prepareRequest(u).url) = prepareRequest(u)` for accepted `u` |
| `KeysAreSharedBySpellings` | which URLs share a cache key: see below |

The invariant: addresses that were resolved or are kept in the pool are public (`GetType`,
`PoolInv`), and a request in flight is at one of the `Places` that `prepareRequest` accepts, with
credentials only at the host it was first sent to, if that is an authenticated one (`HopInv`). That
the memo returns a URL of `Places` follows from `PreparingAgainChangesNothing`, which also says that
a refresh of the URL kept in a record is accepted and has that record's key.

`KeysAreSharedBySpellings` says that two accepted URLs have one key exactly if their hosts differ in
case at most, their paths are equal, an empty one being `/`, and the readable pairs of their queries
are the same in some order. Their ports are the standard one, written or not. `normalizeParsedURL`
counts how often each pair occurs; that equal counts mean a
reordering is shown by matching the positions of each pair by themselves.

`LifecycleProofs`, of `Spec`: `LifecycleTypeCorrect` (`[]TypeOK`), `LogIsNeverSentOnClosed`
(`[]NeverSendsOnClosedLog`), `LostLinesAreLate` (`[]OnlyLateLinesAreLost`, assuming
`~SignalWhileStarting`), `NothingIsAbandonedEarly` (`[]NothingAbandonedEarly`),
`ShutdownStaysWithinTimeout` (`[]WithinTimeout`), `CleanExitIsDrained` (`[]CleanExitMeansDrained`).
While main waits, its timer and the time that has passed make up the timeout (`TimeInv`); so what
it stops waiting for is done or late, and `DrainInv` records how the server came to its end.
`LogInv` says who holds a queued line and that the log closes with no sender inside.

`TokenProviderProofs`, of `Spec`: `TokensTypeCorrect` (`[]TypeOK`), `ChoiceIsAlwaysBest`
(`ChoosesBest`) and `ReserveIsKept` (`[]KeepsReserve`). `CooldownInv` ties the cooldown the provider keeps to when a token was last
reported limited, so that the ranking of `ChoosesBest`, which is by what happened to a token, and the
code's, which is by its counters, are the same.

`KeepsReserve` says that a token that was never chosen as a last resort keeps `Reserve`, the threshold or the
whole quota if that is smaller, up to `Slack`. It is not inductive: a state in which many callers
have chosen a token and none has reported yet satisfies it, and their requests break it.
`ReserveInv` adds what those callers may still take, `Risk(t)`. It counts the callers whose report
will be too high (`High`) and those who are between choosing and sending, and the reports that may
still be lost. The risk of `n` late reports is quadratic, since one report that arrives late lets all the
other callers choose the token once more, and this is where `Slack` comes from. Each step of a caller
moves it from one of the counted sets to another, which changes their sizes by one at most
(`SizeOfChange`).

`RevalidationProofs`, of `Spec`: `RevalidationTypeCorrect` (`[]TypeOK`, with the bound of the queue),
`UsesAreKept` (`StaysActive`), `WorkersKeepUp` (`[]KeepsUp`) and `JobsAreNotRepeated`
(`[]NoJobTwice`). `JobInv`, a worker that paces or refreshes has a key, makes `TypeOK` inductive.
The last two rest on `CapacityInv`, which says of a system that satisfies `HasCapacity`:

* `PhaseInv`: who is stopped when, and that a scheduler that waits has nothing in its hands.
* `PaceInv`: `Load`, the `Total` of the time the workers need until they wait, and `Demand`, a bound
  on the time that the pending jobs take, together fit into the time until the next sweep, times
  the number of workers. `Demand(n)` is `(n + W - 1)` times the cost of a job: until the last pending
  job is taken no worker is idle, and after that the others may be. A tick takes one from each
  worker's need while jobs are pending, which is `TotalOfLess`; taking a job moves its cost
  from the demand to the load. `KeepsUp` alone knows nothing of the time that is left.
* `JobsApart`: the queue, what the sweep still holds and what the workers hold are distinct keys.
* `OwedInv`: a key that is owed an attempt is among them.

The last two need the second: when a sweep begins everybody waits and all is empty, so what it lists
repeats nothing and nobody is owed anything any more.

Model-checked only: liveness (`EveryRequestAnswered`, `EveryFetchEnds`, `ShutdownCompletes`, `GetEnds`,
`ShutdownEnds`), which is out of the prover's reach, and the two properties that are violated.

## 6. Where the documentation and the code differ

`README.md:19` says that `refresh=true` "bypasses cache-hit fast return and forces immediate upstream
refresh". `foregroundRequestGroup` is keyed by the cache key alone, and a call uses the request of
whoever started it. In `forced_hit` a forced request joins an unforced call whose second lookup
finds a record stored meanwhile: it receives `HIT`, and upstream is not asked. For the same reason
a forced request that joins an unforced miss reports `MISS`, where `README.md:23` says that forced
refreshes report `BYPASS` or `REVALIDATED`.

`token_provider.go:100` says that `ObserveTokenRemaining` "records the latest rate-limit remaining
value for a token". `handle` reports the quota of every response (`service.go:268`), and the client
every throttling status (`client.go:119`), under the token it asked the provider for, although the
client sends it to authenticated hosts only (`client.go:108`). In `token_report` the answer to a
request that carried no token is reported under one. `TokenProvider` and `KeepsReserve` assume
reports of requests that carried their token.

## 7. Not modelled

* Configuration, metrics and logging: no state that decides anything. The configuration's values are
  the constants of the modules.
* HTTP routing, headers and status texts: a stateless translation around `Handle`. The access-log
  hook that runs after a handler is in `Lifecycle`.
* What the libraries do: `net/http` (transport, redirects, timeouts), the resolver, fasthttp's server
  and `url.Parse` appear only as the code relies on them, as environment actions and constants.
* The test-only sweep loop (`run` in `revalidate_scheduler.go`), which takes the same sweeps.

## 8. What is left

A sweep reads records with `Get`, which counts as a use in the cache: a composition of
`Revalidation` with `L1Cache` would show how sweeps reorder evictions. No property of the code
depends on that order; `VersionService` holds over any cache that may forget.
