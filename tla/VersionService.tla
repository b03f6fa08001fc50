--------------------------- MODULE VersionService ---------------------------
(***************************************************************************)
(* The /version flow of internal/service/version/service.go: concurrent    *)
(* requests, the coalesced upstream calls they share, and the background   *)
(* refreshes that run beside them, over a cache that may forget.           *)
(*                                                                         *)
(* A request slot runs one Handle at a time and is used again when nobody  *)
(* depends on it. The goroutine a request starts in                        *)
(* foregroundRequestGroup.Do outlives that request: it has its own state   *)
(* fetch[r], named after the slot that started it. A background worker     *)
(* has only a fetch.                                                       *)
(***************************************************************************)
EXTENDS CacheRecords

CONSTANTS
    Keys,           \* cache keys, each with one upstream resource
    Requests,       \* slots for requests being served
    Workers,        \* background refresh workers
    SendsETag,      \* which answers upstream may give: with ETag, without
    Failures,       \* in which ways an upstream request may fail
    MaxVersion,     \* bound: versions of a resource
    MaxTime         \* bound: the clock

Fetchers == Requests \cup Workers

ASSUME ServiceAssumption ==
    /\ Requests \cap Workers = {}
    /\ None \notin Keys /\ None \notin Requests
    /\ SendsETag \subseteq BOOLEAN
    /\ Failures \subseteq {"refused", "unreadable", "error", "timeout"}
    /\ MaxVersion \in Nat \ {0}
    /\ MaxTime \in Nat

VARIABLES
    now,            \* the clock
    version,        \* version[k]: what upstream holds now
    status,         \* status[k]: the status upstream answers now, 200 or 404
    retired,        \* retired[k][v]: when upstream replaced v (history)
    store,          \* the cache
    tracked,        \* keys the activity tracker knows
    req,            \* req[r]: the Handle in progress, or its answer
    inFlight,       \* foregroundRequestGroup.inFlight
    fetch,          \* fetch[f]: the call goroutine or worker
    refreshing      \* backgroundRefreshGroup.inFlight

Cache == INSTANCE CacheStore WITH Records <- Record

upstreamVars == <<version, status, retired>>
vars == <<now, version, status, retired, store, tracked, req, inFlight,
          fetch, refreshing>>

-----------------------------------------------------------------------------
(* The data.                                                               *)

\* 429 stands for every status that is neither 200, 304, 404 nor 410.
Code == {200, 400, 404, 429, 502, 504}

\* version is 0 when the body is no upstream payload.
Answer == [code: Code, cache: {"HIT", "MISS", "REVALIDATED", "BYPASS"},
           version: Nat]

Content == [kind: {"content"}, status: {200, 404}, version: Nat, etag: Nat]
Reply == Content \cup [kind: {"notModified"} \cup Failures]

ASSUME NoneIsNoMessage == None \notin Reply /\ None \notin Answer

RequestState ==
    [pc: {"idle", "looked", "waiting", "done"}, key: Keys \cup {None},
     forced: BOOLEAN, seen: Record \cup {None},
     joined: Requests \cup {None}, answer: Answer \cup {None}]

FetchState ==
    [pc: {"idle", "lookup", "looked", "sent", "replied", "finish", "closed"},
     key: Keys \cup {None}, forced: BOOLEAN, seen: Record \cup {None},
     at: Nat, reply: Reply \cup {None}, response: Answer \cup {None}]

NoRequest == [pc |-> "idle", key |-> None, forced |-> FALSE, seen |-> None,
              joined |-> None, answer |-> None]

NoFetch == [pc |-> "idle", key |-> None, forced |-> FALSE, seen |-> None,
            at |-> 0, reply |-> None, response |-> None]

TypeOK ==
    /\ now \in Nat
    /\ version \in [Keys -> 1..MaxVersion]
    /\ status \in [Keys -> {200, 404}]
    /\ retired \in [Keys -> [1..MaxVersion -> Nat]]
    /\ store \in [Keys -> Record \cup {None}]
    /\ tracked \subseteq Keys
    /\ req \in [Requests -> RequestState]
    /\ inFlight \in [Keys -> Requests \cup {None}]
    /\ fetch \in [Fetchers -> FetchState]
    /\ refreshing \subseteq Keys

Init ==
    /\ now = 0
    /\ version = [k \in Keys |-> 1]
    /\ status \in [Keys -> {200, 404}]
    /\ retired = [k \in Keys |-> [v \in 1..MaxVersion |-> 0]]
    /\ Cache!Init
    /\ tracked = {}
    /\ req = [r \in Requests |-> NoRequest]
    /\ inFlight = [k \in Keys |-> None]
    /\ fetch = [f \in Fetchers |-> NoFetch]
    /\ refreshing = {}

-----------------------------------------------------------------------------
(* The environment: time passes, upstream resources change.                *)

Tick ==
    /\ now < MaxTime
    /\ now' = now + 1
    /\ UNCHANGED <<upstreamVars, store, tracked, req, inFlight, fetch,
                   refreshing>>

UpstreamPublish(k) ==
    /\ version[k] < MaxVersion
    /\ version' = [version EXCEPT ![k] = @ + 1]
    /\ \E s \in {200, 404} : status' = [status EXCEPT ![k] = s]
    /\ retired' = [retired EXCEPT ![k][version[k]] = now]
    /\ UNCHANGED <<now, store, tracked, req, inFlight, fetch, refreshing>>

\* What upstream.Get may return for a request carrying etag: 304 only for a
\* validator that names what upstream holds; a failure at any time.
UpstreamReplies(k, etag) ==
    {[kind |-> "content", status |-> status[k], version |-> version[k],
      etag |-> IF e /\ status[k] = 200 THEN version[k] ELSE NoETag]
        : e \in SendsETag}
    \cup {[kind |-> f] : f \in Failures}
    \cup (IF status[k] = 200 /\ etag = version[k]
          THEN {[kind |-> "notModified"]} ELSE {})

UpstreamReply(f) ==
    /\ fetch[f].pc = "sent"
    /\ \E reply \in UpstreamReplies(fetch[f].key,
                                    ConditionalETag(fetch[f].seen)) :
         fetch' = [fetch EXCEPT ![f] = [@ EXCEPT !.pc = "replied", !.reply = reply]]
    /\ UNCHANGED <<now, upstreamVars, store, tracked, req, inFlight,
                   refreshing>>

-----------------------------------------------------------------------------
(* A request: Service.handle with coalesce = true, and the waiting side of *)
(* foregroundRequestGroup.Do.                                              *)

\* Slot r may serve a new request: nobody depends on the last one.
Free(r) ==
    /\ req[r].pc \in {"idle", "done"}
    /\ fetch[r].pc \in {"idle", "closed"}
    /\ \A q \in Requests : req[q].pc = "waiting" => req[q].joined # r

Hit(rec) == [code |-> rec.status, cache |-> "HIT", version |-> rec.version]

Answered(r, answer) ==
    req' = [req EXCEPT ![r] = [@ EXCEPT !.pc = "done", !.seen = None,
                                        !.joined = None, !.answer = answer]]

\* prepareRequest refuses the URL.
Reject(r) ==
    /\ Free(r)
    /\ req' = [req EXCEPT ![r] =
         [NoRequest EXCEPT !.pc = "done",
            !.answer = [code |-> 400, cache |-> "BYPASS", version |-> 0]]]
    /\ fetch' = [fetch EXCEPT ![r] = NoFetch]
    /\ UNCHANGED <<now, upstreamVars, store, tracked, inFlight, refreshing>>

Lookup(r) ==
    /\ Free(r)
    /\ \E k \in Keys, forced \in BOOLEAN :
         req' = [req EXCEPT ![r] =
                   [NoRequest EXCEPT !.pc = "looked", !.key = k,
                                     !.forced = forced, !.seen = store[k]]]
    /\ fetch' = [fetch EXCEPT ![r] = NoFetch]
    /\ UNCHANGED <<now, upstreamVars, store, tracked, inFlight, refreshing>>

ServeHit(r) ==
    /\ req[r].pc = "looked"
    /\ ~req[r].forced /\ Servable(req[r].seen, now)
    /\ tracked' = tracked \cup {req[r].key}
    /\ Answered(r, Hit(req[r].seen))
    /\ UNCHANGED <<now, upstreamVars, store, inFlight, fetch, refreshing>>

Joined(r, leader) ==
    req' = [req EXCEPT ![r] = [@ EXCEPT !.pc = "waiting", !.seen = None,
                                        !.joined = leader]]

NeedsUpstream(r) ==
    /\ req[r].pc = "looked"
    /\ req[r].forced \/ ~Servable(req[r].seen, now)

Started(r) ==
    fetch' = [fetch EXCEPT ![r] =
                [NoFetch EXCEPT !.pc = "lookup", !.key = req[r].key,
                                !.forced = req[r].forced]]

\* Seeded fault: the call in flight is not looked up before starting one.
FaultyLead(r) ==
    /\ NeedsUpstream(r)
    /\ inFlight' = [inFlight EXCEPT ![req[r].key] = r]
    /\ Started(r)
    /\ Joined(r, r)
    /\ UNCHANGED <<now, upstreamVars, store, tracked, refreshing>>

Lead(r) ==
    /\ NeedsUpstream(r)
    /\ inFlight[req[r].key] = None
    /\ inFlight' = [inFlight EXCEPT ![req[r].key] = r]
    /\ Started(r)
    /\ Joined(r, r)
    /\ UNCHANGED <<now, upstreamVars, store, tracked, refreshing>>

Follow(r) ==
    /\ NeedsUpstream(r)
    /\ inFlight[req[r].key] # None
    /\ Joined(r, inFlight[req[r].key])
    /\ UNCHANGED <<now, upstreamVars, store, tracked, inFlight, fetch,
                   refreshing>>

TakeAnswer(r) ==
    /\ req[r].pc = "waiting"
    /\ fetch[req[r].joined].pc = "closed"
    /\ Answered(r, fetch[req[r].joined].response)
    /\ UNCHANGED <<now, upstreamVars, store, tracked, inFlight, fetch,
                   refreshing>>

\* ctx.Done: the caller leaves, the call it joined goes on.
Cancel(r) ==
    /\ req[r].pc = "waiting"
    /\ Answered(r, [code |-> 504, cache |-> "BYPASS", version |-> 0])
    /\ UNCHANGED <<now, upstreamVars, store, tracked, inFlight, fetch,
                   refreshing>>

-----------------------------------------------------------------------------
(* The call goroutine of Do: Service.handle with coalesce = false.         *)

\* Seeded fault: the call decides on a cache lookup that found nothing.
FaultyCallLookup(r) ==
    /\ fetch[r].pc = "lookup"
    /\ fetch' = [fetch EXCEPT ![r].pc = "looked", ![r].seen = None]
    /\ UNCHANGED <<now, upstreamVars, store, tracked, req, inFlight,
                   refreshing>>

CallLookup(r) ==
    /\ fetch[r].pc = "lookup"
    /\ fetch' = [fetch EXCEPT ![r] = [@ EXCEPT !.pc = "looked",
                                              !.seen = store[fetch[r].key]]]
    /\ UNCHANGED <<now, upstreamVars, store, tracked, req, inFlight,
                   refreshing>>

Responded(r, response) ==
    fetch' = [fetch EXCEPT ![r] = [@ EXCEPT !.pc = "finish", !.seen = None,
                                     !.reply = None, !.response = response]]

CallServe(r) ==
    /\ fetch[r].pc = "looked"
    /\ ~fetch[r].forced /\ Servable(fetch[r].seen, now)
    /\ tracked' = tracked \cup {fetch[r].key}
    /\ Responded(r, Hit(fetch[r].seen))
    /\ UNCHANGED <<now, upstreamVars, store, req, inFlight, refreshing>>

\* The clock is read once, before upstream is asked: at stamps the record.
CallSend(r) ==
    /\ fetch[r].pc = "looked"
    /\ fetch[r].forced \/ ~Servable(fetch[r].seen, now)
    /\ fetch' = [fetch EXCEPT ![r] = [@ EXCEPT !.pc = "sent", !.at = now]]
    /\ UNCHANGED <<now, upstreamVars, store, tracked, req, inFlight,
                   refreshing>>

\* The X-Cache value of an answer that is no cached or revalidated record.
Fresh(r) == IF fetch[r].forced THEN "BYPASS" ELSE "MISS"

CallRevalidate(r) ==
    /\ fetch[r].pc = "replied" /\ fetch[r].reply.kind = "notModified"
    /\ Cache!Set(fetch[r].key, Revalidated(fetch[r].seen, fetch[r].at))
    /\ tracked' = tracked \cup {fetch[r].key}
    /\ Responded(r, [code |-> 200, cache |-> "REVALIDATED",
                     version |-> fetch[r].seen.version])
    /\ UNCHANGED <<now, upstreamVars, req, inFlight, refreshing>>

\* Seeded fault: the record is stamped when the reply has been read.
FaultyRecordOf(reply, t) ==
    IF reply.status = 200 THEN PositiveRecord(reply.version, reply.etag, now)
                          ELSE NegativeRecord(reply.version, now)

RecordOf(reply, t) ==
    IF reply.status = 200 THEN PositiveRecord(reply.version, reply.etag, t)
                          ELSE NegativeRecord(reply.version, t)

\* Seeded fault: a stored key is tracked only if it was in the cache before.
FaultyCallStore(r) ==
    /\ fetch[r].pc = "replied" /\ fetch[r].reply.kind = "content"
    /\ Cache!Set(fetch[r].key, RecordOf(fetch[r].reply, fetch[r].at))
    /\ tracked' = IF fetch[r].seen # None THEN tracked \cup {fetch[r].key}
                                          ELSE tracked
    /\ Responded(r, [code |-> fetch[r].reply.status, cache |-> Fresh(r),
                     version |-> fetch[r].reply.version])
    /\ UNCHANGED <<now, upstreamVars, req, inFlight, refreshing>>

CallStore(r) ==
    /\ fetch[r].pc = "replied" /\ fetch[r].reply.kind = "content"
    /\ Cache!Set(fetch[r].key, RecordOf(fetch[r].reply, fetch[r].at))
    /\ tracked' = IF fetch[r].seen = None THEN tracked \cup {fetch[r].key}
                                          ELSE tracked
    /\ Responded(r, [code |-> fetch[r].reply.status, cache |-> Fresh(r),
                     version |-> fetch[r].reply.version])
    /\ UNCHANGED <<now, upstreamVars, req, inFlight, refreshing>>

FailureAnswer(r) ==
    LET kind == fetch[r].reply.kind
    IN  [code    |-> CASE kind = "refused" -> 429
                       [] kind = "timeout" -> 504
                       [] OTHER -> 502,
         cache   |-> IF kind \in {"error", "timeout"} THEN "BYPASS"
                                                      ELSE Fresh(r),
         version |-> 0]

\* Seeded fault: an expired shared context answers nobody.
FaultyCallFail(r) ==
    /\ fetch[r].pc = "replied" /\ fetch[r].reply.kind \in Failures \ {"timeout"}
    /\ Responded(r, FailureAnswer(r))
    /\ UNCHANGED <<now, upstreamVars, store, tracked, req, inFlight,
                   refreshing>>

CallFail(r) ==
    /\ fetch[r].pc = "replied" /\ fetch[r].reply.kind \in Failures
    /\ Responded(r, FailureAnswer(r))
    /\ UNCHANGED <<now, upstreamVars, store, tracked, req, inFlight,
                   refreshing>>

\* Seeded fault: the call is closed but stays registered.
FaultyCallFinish(r) ==
    /\ fetch[r].pc = "finish"
    /\ fetch' = [fetch EXCEPT ![r].pc = "closed", ![r].at = 0]
    /\ UNCHANGED <<now, upstreamVars, store, tracked, req, inFlight,
                   refreshing>>

\* The call leaves inFlight and its waiters are released, under g.mu.
CallFinish(r) ==
    /\ fetch[r].pc = "finish"
    /\ fetch' = [fetch EXCEPT ![r] = [@ EXCEPT !.pc = "closed", !.at = 0]]
    /\ inFlight' = [inFlight EXCEPT ![fetch[r].key] = None]
    /\ UNCHANGED <<now, upstreamVars, store, tracked, req, refreshing>>

-----------------------------------------------------------------------------
(* A background refresh: RefreshByKey in a worker. RefreshInBackground     *)
(* takes the same steps in a goroutine of its own.                         *)

\* Seeded fault: RefreshByKey takes the empty key.
FaultyKeyRefreshStart(w) ==
    /\ fetch[w].pc = "idle"
    /\ \E k \in (Keys \cup {None}) \ refreshing :
         /\ refreshing' = refreshing \cup {k}
         /\ fetch' = [fetch EXCEPT ![w].pc = "lookup", ![w].key = k]
    /\ UNCHANGED <<now, upstreamVars, store, tracked, req, inFlight>>

\* Seeded fault: a refresh of the key in progress is not noticed.
FaultyRefreshStart(w) ==
    /\ fetch[w].pc = "idle"
    /\ \E k \in Keys :
         /\ refreshing' = refreshing \cup {k}
         /\ fetch' = [fetch EXCEPT ![w].pc = "lookup", ![w].key = k]
    /\ UNCHANGED <<now, upstreamVars, store, tracked, req, inFlight>>

RefreshStart(w) ==
    /\ fetch[w].pc = "idle"
    /\ \E k \in Keys \ refreshing :
         /\ refreshing' = refreshing \cup {k}
         /\ fetch' = [fetch EXCEPT ![w] = [@ EXCEPT !.pc = "lookup", !.key = k]]
    /\ UNCHANGED <<now, upstreamVars, store, tracked, req, inFlight>>

\* A key that is not cached, or cached as absent, is left alone.
RefreshLookup(w) ==
    /\ fetch[w].pc = "lookup"
    /\ LET seen == store[fetch[w].key]
       IN  fetch' = [fetch EXCEPT ![w] =
             IF seen = None \/ isNegativeCacheableStatus(seen)
             THEN [@ EXCEPT !.pc = "finish"]
             ELSE [@ EXCEPT !.pc = "looked", !.seen = seen]]
    /\ UNCHANGED <<now, upstreamVars, store, tracked, req, inFlight,
                   refreshing>>

RefreshSend(w) ==
    /\ fetch[w].pc = "looked"
    /\ fetch' = [fetch EXCEPT ![w] = [@ EXCEPT !.pc = "sent", !.at = now]]
    /\ UNCHANGED <<now, upstreamVars, store, tracked, req, inFlight,
                   refreshing>>

\* A negative answer is a failed refresh: it is not cached.
RefreshStore(w) ==
    /\ fetch[w].pc = "replied"
    /\ LET f == fetch[w]
       IN  CASE f.reply.kind = "notModified" ->
                  Cache!Set(f.key, Revalidated(f.seen, f.at))
             [] f.reply.kind = "content" /\ f.reply.status = 200 ->
                  Cache!Set(f.key, RecordOf(f.reply, f.at))
             [] OTHER -> UNCHANGED store
    /\ fetch' = [fetch EXCEPT ![w] = [@ EXCEPT !.pc = "finish",
                                        !.seen = None, !.reply = None]]
    /\ UNCHANGED <<now, upstreamVars, tracked, req, inFlight, refreshing>>

RefreshDone(w) ==
    /\ fetch[w].pc = "finish"
    /\ refreshing' = refreshing \ {fetch[w].key}
    /\ fetch' = [fetch EXCEPT ![w] = NoFetch]
    /\ UNCHANGED <<now, upstreamVars, store, tracked, req, inFlight>>

-----------------------------------------------------------------------------
Environment == Tick \/ \E k \in Keys : UpstreamPublish(k)

RequestAnswers(r) ==
    ServeHit(r) \/ Lead(r) \/ Follow(r) \/ TakeAnswer(r)

CallNext(r) ==
    \/ CallLookup(r) \/ CallServe(r) \/ CallSend(r)
    \/ CallRevalidate(r) \/ CallStore(r) \/ CallFail(r) \/ CallFinish(r)

RefreshNext(w) ==
    RefreshLookup(w) \/ RefreshSend(w) \/ RefreshStore(w) \/ RefreshDone(w)

Next ==
    \/ Environment
    \/ \E f \in Fetchers : UpstreamReply(f)
    \/ \E r \in Requests : \/ Reject(r) \/ Lookup(r) \/ Cancel(r)
                           \/ RequestAnswers(r) \/ CallNext(r)
    \/ \E w \in Workers : RefreshStart(w) \/ RefreshNext(w)

Spec == Init /\ [][Next]_vars

\* Goroutines are scheduled and every upstream request ends: the client has
\* a timeout of 30 s and a call a context of 30 s. Nothing makes a request
\* arrive or leave, a refresh start, upstream publish or the clock move.
Fairness ==
    /\ \A f \in Fetchers : WF_vars(UpstreamReply(f))
    /\ \A r \in Requests : WF_vars(RequestAnswers(r)) /\ WF_vars(CallNext(r))
    /\ \A w \in Workers : WF_vars(RefreshNext(w))

FairSpec == Spec /\ Fairness

-----------------------------------------------------------------------------
(* What the service promises.                                              *)

\* Upstream held version v of k at t or later, up to now.
WasCurrentSince(k, v, t) ==
    v = version[k] \/ (v < version[k] /\ retired[k][v] >= t)

\* A cached record is a version that upstream still held when the record
\* says it was last checked, whatever requests and refreshes wrote meanwhile
\* (service.go:178 and 705 read the clock before upstream is asked), and its
\* validator names no other version.
RecordsWereCurrent ==
    \A k \in Keys : LET rec == store[k] IN
        rec # None =>
            /\ 1 <= rec.version /\ rec.version <= version[k]
            /\ WasCurrentSince(k, rec.version, rec.checkedAt)
            /\ rec.etag \in {NoETag, rec.version}

TTL(code) == IF code = 404 THEN NegativeTTL ELSE HardTTL

\* The body an answer carries was upstream's own: for a HIT less than its
\* time to live ago, for any other answer after the call asked upstream.
BodyWasCurrent(k, answer, askedAt) ==
    answer.version # 0 =>
        IF answer.cache = "HIT"
        THEN TTL(answer.code) > 0 =>
               WasCurrentSince(k, answer.version, now - TTL(answer.code) + 1)
        ELSE WasCurrentSince(k, answer.version, askedAt)

\* Whenever handle produces an answer (service.go:181-216, 292-359), in a
\* request or in the call it shares, the body satisfies BodyWasCurrent,
\* although the record it serves may have been replaced or evicted since it
\* was looked up.
AnswersWereCurrent ==
    [][\A r \in Requests :
        /\ req[r].pc = "looked" /\ req'[r].pc = "done" =>
               BodyWasCurrent(req[r].key, req'[r].answer, now)
        /\ fetch[r].pc \in {"looked", "replied"} /\ fetch'[r].pc = "finish" =>
               BodyWasCurrent(fetch[r].key, fetch'[r].response, fetch[r].at)
      ]_vars

Running(r) == fetch[r].pc \notin {"idle", "closed"}

\* foregroundRequestGroup (service.go:780-825): the calls running are exactly
\* the registered ones, so one per key, and a waiting request waits on a call
\* for its own key that is registered or has its answer ready.
CallGroup ==
    /\ \A k \in Keys : inFlight[k] # None =>
           Running(inFlight[k]) /\ fetch[inFlight[k]].key = k
    /\ \A r \in Requests : Running(r) => inFlight[fetch[r].key] = r
    /\ \A r \in Requests : req[r].pc = "waiting" =>
           LET call == fetch[req[r].joined] IN
           /\ call.key = req[r].key /\ call.pc # "idle"
           /\ call.pc = "closed" => call.response # None

\* backgroundRefreshGroup (service.go:861-916): no two workers refresh one
\* key at a time, and a key no worker refreshes can be refreshed again.
RefreshExclusive ==
    /\ \A w, u \in Workers :
           Running(w) /\ Running(u) /\ fetch[w].key = fetch[u].key => w = u
    /\ refreshing = {fetch[w].key : w \in {u \in Workers : Running(u)}}

\* Every cached key is known to the activity tracker, as long as that is not
\* pruned: background revalidation finds it. No path that stores a record
\* (service.go:294-300, 344-347, 406-409) or refreshes one loses it.
TrackedIfCached == \A k \in Keys : store[k] # None => k \in tracked

\* The second lookup of a call (service.go:176 again) pays: while no worker
\* writes, upstream is asked on behalf of an unforced request only when the
\* cache has nothing to serve at that moment.
NoWastedFetch ==
    [][\A r \in Requests :
        fetch[r].pc = "looked" /\ fetch'[r].pc = "sent" /\ ~fetch[r].forced
            => ~Servable(store[fetch[r].key], now)]_vars

\* While no worker writes, a cached key never goes back to an older version:
\* one call ends before the next one for its key asks upstream.
StoreMovesForward ==
    [][\A k \in Keys : store[k] # None /\ store'[k] # None =>
          store[k].version <= store'[k].version]_vars

\* Every request gets an answer, its own or that of the call it joined.
EveryRequestAnswered ==
    \A r \in Requests :
        req[r].pc \in {"looked", "waiting"} ~> req[r].pc = "done"

\* A key that is being fetched or refreshed becomes available again: no call
\* stays registered and no worker keeps its key.
EveryFetchEnds ==
    /\ \A r \in Requests : Running(r) ~> ~Running(r)
    /\ \A w \in Workers : Running(w) ~> ~Running(w)

-----------------------------------------------------------------------------
(* What README.md says of refresh=true.                                    *)

\* README.md:19: refresh=true "bypasses cache-hit fast return and forces
\* immediate upstream refresh": the answer never comes from the cache.
ForcedNeverServedFromCache ==
    \A r \in Requests : req[r].pc = "done" /\ req[r].forced =>
        req[r].answer.cache # "HIT"
=============================================================================
