------------------------ MODULE VersionServiceProofs ------------------------
(***************************************************************************)
(* Safety of VersionService for every set of keys, requests and workers,   *)
(* every bound and every time to live.                                     *)
(***************************************************************************)
EXTENDS VersionService, TLAPS

USE DEF Fetchers

-----------------------------------------------------------------------------
(* Types. The key, the call and the reply a step uses are there when it is *)
(* taken: TypeOK is inductive only together with these shapes.             *)

RequestShape(q) ==
    /\ q.pc \in {"looked", "waiting"} => q.key \in Keys
    /\ q.pc = "waiting" => q.joined \in Requests

FetchShape(f) ==
    /\ f.pc # "idle" => f.key \in Keys
    /\ f.pc = "replied" =>
         f.reply # None /\ (f.reply.kind = "notModified" => f.seen # None)

RequestsTyped ==
    /\ req \in [Requests -> RequestState]
    /\ \A r \in Requests : RequestShape(req[r])

FetchesTyped ==
    /\ fetch \in [Fetchers -> FetchState]
    /\ \A f \in Fetchers : FetchShape(fetch[f])

UpstreamTyped ==
    /\ now \in Nat
    /\ version \in [Keys -> 1..MaxVersion]
    /\ status \in [Keys -> {200, 404}]
    /\ retired \in [Keys -> [1..MaxVersion -> Nat]]

CacheTyped ==
    /\ store \in [Keys -> Record \cup {None}]
    /\ tracked \subseteq Keys

GroupsTyped ==
    /\ inFlight \in [Keys -> Requests \cup {None}]
    /\ refreshing \subseteq Keys

TypeInv ==
    UpstreamTyped /\ CacheTyped /\ GroupsTyped /\ RequestsTyped /\ FetchesTyped

LEMMA TypeInvImpliesTypeOK == TypeInv => TypeOK
BY DEF TypeInv, TypeOK, UpstreamTyped, CacheTyped, GroupsTyped,
       RequestsTyped, FetchesTyped

\* What storing a record does to any key.
LEMMA SetEffect ==
    ASSUME store \in [Keys -> Record \cup {None}],
           NEW k \in Keys, NEW rec \in Record, Cache!Set(k, rec)
    PROVE  /\ store' \in [Keys -> Record \cup {None}]
           /\ \A j \in Keys : \/ store'[j] = None
                              \/ store'[j] = store[j]
                              \/ j = k /\ store'[j] = rec
BY DEF Cache!Set, Cache!Stored

LEMMA RecordOfType ==
    ASSUME NEW reply \in Content, NEW t \in Nat
    PROVE  RecordOf(reply, t) \in Record
<1>1. CASE reply.status = 200
  BY <1>1, PolicyAssumption
  DEF PolicyAssumption, RecordOf, PositiveRecord, Record, Content
<1>2. CASE reply.status = 404
  BY <1>2, PolicyAssumption
  DEF PolicyAssumption, RecordOf, NegativeRecord, Record, Content, NoETag
<1> QED BY <1>1, <1>2 DEF Content

LEMMA RevalidatedType ==
    ASSUME NEW rec \in Record, NEW t \in Nat
    PROVE  Revalidated(rec, t) \in Record
<1>1. t + HardTTL \in Nat
  BY PolicyAssumption DEF PolicyAssumption
<1> QED BY <1>1 DEF Revalidated, Record

LEMMA ReplyType ==
    ASSUME UpstreamTyped, NEW k \in Keys, NEW etag \in Nat,
           NEW reply \in UpstreamReplies(k, etag)
    PROVE  reply \in Reply
BY ServiceAssumption
DEF ServiceAssumption, UpstreamTyped, UpstreamReplies, Reply, Content, NoETag

\* One request changes.
LEMMA RequestUpdate ==
    ASSUME RequestsTyped, NEW r \in Requests, NEW x \in RequestState,
           RequestShape(x), req' = [req EXCEPT ![r] = x]
    PROVE  RequestsTyped'
BY DEF RequestsTyped

\* One call or worker changes.
LEMMA FetchUpdate ==
    ASSUME FetchesTyped, NEW f \in Fetchers, NEW x \in FetchState,
           FetchShape(x), fetch' = [fetch EXCEPT ![f] = x]
    PROVE  FetchesTyped'
BY DEF FetchesTyped

\* What a new request leaves alone, and what it starts from.
LEMMA NewRequest ==
    ASSUME RequestsTyped, FetchesTyped, NEW r \in Requests,
           Reject(r) \/ Lookup(r)
    PROVE  /\ Free(r) /\ fetch'[r] = NoFetch
           /\ \A g \in Fetchers \ {r} : fetch'[g] = fetch[g]
           /\ \A q \in Requests \ {r} : req'[q] = req[q]
           /\ UNCHANGED <<now, upstreamVars, store, tracked, inFlight,
                          refreshing>>
<1>1. \E x : req' = [req EXCEPT ![r] = x]
  <2>1. CASE Reject(r)
    BY <2>1 DEF Reject
  <2>2. CASE Lookup(r)
    BY <2>2 DEF Lookup
  <2> QED BY <2>1, <2>2
<1>2. \A q \in Requests \ {r} : req'[q] = req[q]
  BY <1>1 DEF RequestsTyped
<1>3. fetch' = [fetch EXCEPT ![r] = NoFetch]
  BY DEF Reject, Lookup
<1>4. fetch'[r] = NoFetch /\ \A g \in Fetchers \ {r} : fetch'[g] = fetch[g]
  BY <1>3 DEF FetchesTyped
<1> QED
  BY <1>2, <1>4 DEF Reject, Lookup

\* A reply leaves what was asked, and every other call, alone.
LEMMA ReplyEffect ==
    ASSUME FetchesTyped, NEW f \in Fetchers, UpstreamReply(f)
    PROVE  /\ fetch[f].pc = "sent" /\ fetch'[f].pc = "replied"
           /\ fetch'[f].key = fetch[f].key /\ fetch'[f].seen = fetch[f].seen
           /\ fetch'[f].at = fetch[f].at
           /\ \A g \in Fetchers \ {f} : fetch'[g] = fetch[g]
<1>1. PICK reply : fetch' = [fetch EXCEPT ![f] = [@ EXCEPT !.pc = "replied",
                                                           !.reply = reply]]
  BY DEF UpstreamReply
<1>2. fetch[f] \in FetchState /\ fetch \in [Fetchers -> FetchState]
  BY DEF FetchesTyped
<1>3. fetch'[f] = [fetch[f] EXCEPT !.pc = "replied", !.reply = reply]
  BY <1>1, <1>2
<1>4. \A g \in Fetchers \ {f} : fetch'[g] = fetch[g]
  BY <1>1, <1>2
<1> QED
  BY <1>2, <1>3, <1>4 DEF UpstreamReply, FetchState

LEMMA AnsweredType ==
    ASSUME RequestsTyped, NEW r \in Requests,
           NEW answer \in Answer \cup {None}, Answered(r, answer)
    PROVE  RequestsTyped'
<1> DEFINE x == [req[r] EXCEPT !.pc = "done", !.seen = None,
                               !.joined = None, !.answer = answer]
<1>1. req[r] \in RequestState
  BY DEF RequestsTyped
<1>2. x \in RequestState /\ RequestShape(x)
  BY <1>1 DEF RequestState, RequestShape
<1>3. req' = [req EXCEPT ![r] = x]
  BY DEF Answered
<1> QED BY <1>2, <1>3, RequestUpdate

LEMMA JoinedType ==
    ASSUME RequestsTyped, NEW r \in Requests, NEW leader \in Requests,
           req[r].pc = "looked", Joined(r, leader)
    PROVE  RequestsTyped'
<1> DEFINE x == [req[r] EXCEPT !.pc = "waiting", !.seen = None,
                               !.joined = leader]
<1>1. req[r] \in RequestState /\ req[r].key \in Keys
  BY DEF RequestsTyped, RequestShape
<1>2. x \in RequestState /\ RequestShape(x)
  BY <1>1 DEF RequestState, RequestShape
<1>3. req' = [req EXCEPT ![r] = x]
  BY DEF Joined
<1> QED BY <1>2, <1>3, RequestUpdate

LEMMA RespondedType ==
    ASSUME FetchesTyped, NEW r \in Fetchers, fetch[r].pc # "idle",
           NEW answer \in Answer, Responded(r, answer)
    PROVE  FetchesTyped'
<1> DEFINE x == [fetch[r] EXCEPT !.pc = "finish", !.seen = None,
                                 !.reply = None, !.response = answer]
<1>1. fetch[r] \in FetchState /\ fetch[r].key \in Keys
  BY DEF FetchesTyped, FetchShape
<1>2. x \in FetchState /\ FetchShape(x)
  BY <1>1 DEF FetchState, FetchShape
<1>3. fetch' = [fetch EXCEPT ![r] = x]
  BY DEF Responded
<1> QED BY <1>2, <1>3, FetchUpdate

LEMMA TypeInit == Init => TypeInv
BY ServiceAssumption, NoneIsNoRecord
DEF ServiceAssumption, Init, TypeInv, UpstreamTyped, CacheTyped, GroupsTyped,
    RequestsTyped, FetchesTyped, Cache!Init, NoRequest, NoFetch,
    RequestState, FetchState, RequestShape, FetchShape

\* What the fields of a request, a call or a worker hold.
LEMMA RequestFields ==
    ASSUME RequestsTyped, NEW r \in Requests
    PROVE  /\ req[r].key \in Keys \cup {None}
           /\ req[r].forced \in BOOLEAN
           /\ req[r].seen \in Record \cup {None}
           /\ req[r].answer \in Answer \cup {None}
           /\ req[r].pc \in {"looked", "waiting"} => req[r].key \in Keys
           /\ req[r].pc = "waiting" => req[r].joined \in Requests
BY DEF RequestsTyped, RequestState, RequestShape

LEMMA FetchFields ==
    ASSUME FetchesTyped, NEW f \in Fetchers
    PROVE  /\ fetch[f].forced \in BOOLEAN
           /\ fetch[f].at \in Nat
           /\ fetch[f].seen \in Record \cup {None}
           /\ fetch[f].reply \in Reply \cup {None}
           /\ fetch[f].response \in Answer \cup {None}
           /\ fetch[f].pc # "idle" => fetch[f].key \in Keys
           /\ fetch[f].pc = "replied" => fetch[f].reply \in Reply
           /\ fetch[f].pc = "replied" /\ fetch[f].reply.kind = "notModified"
                => fetch[f].seen \in Record
BY DEF FetchesTyped, FetchState, FetchShape

LEMMA ContentFields ==
    ASSUME NEW reply \in Reply, reply.kind = "content"
    PROVE  reply \in Content
BY ServiceAssumption DEF ServiceAssumption, Reply

LEMMA HitType ==
    ASSUME NEW rec \in Record
    PROVE  Hit(rec) \in Answer
BY DEF Hit, Answer, Code, Record

LEMMA FailureAnswerType ==
    ASSUME NEW r \in Requests
    PROVE  FailureAnswer(r) \in Answer
BY DEF FailureAnswer, Fresh, Answer, Code

LEMMA StoreType ==
    ASSUME TypeInv, NEW k \in Keys, NEW rec \in Record, Cache!Set(k, rec)
    PROVE  store' \in [Keys -> Record \cup {None}]
BY SetEffect DEF TypeInv, CacheTyped

LEMMA TypeEnvironment ==
    ASSUME TypeInv, Environment \/ \E f \in Fetchers : UpstreamReply(f)
    PROVE  TypeInv'
<1> USE DEF TypeInv, upstreamVars
<1>1. CASE Tick
  <2>1. UpstreamTyped'
    BY <1>1 DEF Tick, UpstreamTyped
  <2> QED
    BY <1>1, <2>1
    DEF Tick, CacheTyped, GroupsTyped, RequestsTyped, FetchesTyped
<1>2. ASSUME NEW k \in Keys, UpstreamPublish(k)
      PROVE  TypeInv'
  <2>1. version[k] \in 1..MaxVersion /\ version[k] + 1 \in 1..MaxVersion
    BY <1>2, ServiceAssumption
    DEF UpstreamPublish, UpstreamTyped, ServiceAssumption
  <2>2. UpstreamTyped'
    BY <1>2, <2>1 DEF UpstreamPublish, UpstreamTyped
  <2> QED
    BY <1>2, <2>2
    DEF UpstreamPublish, CacheTyped, GroupsTyped, RequestsTyped, FetchesTyped
<1>3. ASSUME NEW f \in Fetchers, UpstreamReply(f)
      PROVE  TypeInv'
  <2> DEFINE etag == ConditionalETag(fetch[f].seen)
  <2>0. /\ fetch[f].pc = "sent" /\ fetch[f].key \in Keys
        /\ fetch[f].seen \in Record \cup {None}
    BY <1>3, FetchFields DEF UpstreamReply
  <2>1. fetch[f].key \in Keys /\ etag \in Nat
    BY <2>0 DEF ConditionalETag, Record, NoETag
  <2>2. PICK reply \in UpstreamReplies(fetch[f].key, etag) :
          fetch' = [fetch EXCEPT ![f] = [@ EXCEPT !.pc = "replied",
                                                  !.reply = reply]]
    BY <1>3 DEF UpstreamReply
  <2> DEFINE x == [fetch[f] EXCEPT !.pc = "replied", !.reply = reply]
  <2>3. reply \in Reply
    BY <2>1, ReplyType
  <2>4. reply.kind = "notModified" => fetch[f].seen # None
    <3>1. version[fetch[f].key] # NoETag
      BY <2>1, ServiceAssumption DEF UpstreamTyped, ServiceAssumption, NoETag
    <3>2. reply.kind = "notModified" => etag = version[fetch[f].key]
      BY <2>1, ServiceAssumption DEF UpstreamReplies, ServiceAssumption
    <3> QED BY <3>1, <3>2 DEF ConditionalETag
  <2>5. fetch[f] \in FetchState
    BY DEF FetchesTyped
  <2>6. x \in FetchState /\ FetchShape(x)
    BY <2>1, <2>3, <2>4, <2>5, NoneIsNoMessage DEF FetchState, FetchShape
  <2>7. FetchesTyped'
    BY <2>2, <2>6, FetchUpdate
  <2> QED
    BY <1>3, <2>7
    DEF UpstreamReply, UpstreamTyped, CacheTyped, GroupsTyped, RequestsTyped
<1> QED
  BY <1>1, <1>2, <1>3 DEF Environment

LEMMA TypeRequest ==
    ASSUME TypeInv, NEW r \in Requests,
           Reject(r) \/ Lookup(r) \/ Cancel(r) \/ RequestAnswers(r)
    PROVE  TypeInv'
<1> USE DEF TypeInv, upstreamVars
<1> DEFINE Rest == UpstreamTyped /\ CacheTyped /\ GroupsTyped
<1>0. Rest /\ UNCHANGED <<now, upstreamVars, store, tracked, inFlight,
                          refreshing>> => Rest'
  BY DEF UpstreamTyped, CacheTyped, GroupsTyped
<1>1. NoFetch \in FetchState /\ FetchShape(NoFetch)
  BY DEF NoFetch, FetchState, FetchShape
<1>2. CASE Reject(r)
  <2> DEFINE a == [code |-> 400, cache |-> "BYPASS", version |-> 0]
             x == [NoRequest EXCEPT !.pc = "done", !.answer = a]
  <2>1. a \in Answer
    BY DEF Answer, Code
  <2>2. x \in RequestState /\ RequestShape(x)
    <3> HIDE DEF a
    <3> QED BY <2>1 DEF NoRequest, RequestState, RequestShape
  <2> QED
    BY <1>0, <1>1, <1>2, <2>2, RequestUpdate, FetchUpdate DEF Reject
<1>3. CASE Lookup(r)
  <2>1. PICK k \in Keys, forced \in BOOLEAN :
          req' = [req EXCEPT ![r] =
                    [NoRequest EXCEPT !.pc = "looked", !.key = k,
                                      !.forced = forced, !.seen = store[k]]]
    BY <1>3 DEF Lookup
  <2> DEFINE x == [NoRequest EXCEPT !.pc = "looked", !.key = k,
                                    !.forced = forced, !.seen = store[k]]
  <2>2. x \in RequestState /\ RequestShape(x)
    BY DEF NoRequest, RequestState, RequestShape, CacheTyped
  <2> QED
    BY <1>0, <1>1, <1>3, <2>1, <2>2, RequestUpdate, FetchUpdate DEF Lookup
<1>4. CASE Cancel(r)
  <2>1. [code |-> 504, cache |-> "BYPASS", version |-> 0] \in Answer
    BY DEF Answer, Code
  <2> QED
    BY <1>0, <1>4, <2>1, AnsweredType DEF Cancel, FetchesTyped
<1>5. CASE ServeHit(r)
  <2>1. req[r].key \in Keys /\ Hit(req[r].seen) \in Answer
    BY <1>5, RequestFields, HitType DEF ServeHit, Servable
  <2>2. RequestsTyped'
    BY <1>5, <2>1, AnsweredType DEF ServeHit
  <2> QED
    BY <1>5, <2>1, <2>2
    DEF ServeHit, UpstreamTyped, CacheTyped, GroupsTyped, FetchesTyped
<1>6. CASE Lead(r)
  <2> DEFINE x == [NoFetch EXCEPT !.pc = "lookup", !.key = req[r].key,
                                  !.forced = req[r].forced]
  <2>1. req[r].key \in Keys /\ req[r].forced \in BOOLEAN
    BY <1>6, RequestFields DEF Lead, NeedsUpstream
  <2>2. x \in FetchState /\ FetchShape(x)
    BY <2>1 DEF NoFetch, FetchState, FetchShape
  <2>3. FetchesTyped'
    BY <1>6, <2>2, FetchUpdate DEF Lead, Started
  <2>4. RequestsTyped'
    BY <1>6, JoinedType DEF Lead, NeedsUpstream
  <2>5. GroupsTyped'
    BY <1>6, <2>1 DEF Lead, GroupsTyped
  <2> QED
    BY <1>6, <2>3, <2>4, <2>5 DEF Lead, UpstreamTyped, CacheTyped
<1>7. CASE Follow(r)
  <2>1. inFlight[req[r].key] \in Requests
    BY <1>7, RequestFields DEF Follow, NeedsUpstream, GroupsTyped
  <2> QED
    BY <1>0, <1>7, <2>1, JoinedType DEF Follow, NeedsUpstream, FetchesTyped
<1>8. CASE TakeAnswer(r)
  <2>1. fetch[req[r].joined].response \in Answer \cup {None}
    BY <1>8, RequestFields, FetchFields DEF TakeAnswer
  <2> QED
    BY <1>0, <1>8, <2>1, AnsweredType DEF TakeAnswer, FetchesTyped
<1> QED
  BY <1>2, <1>3, <1>4, <1>5, <1>6, <1>7, <1>8 DEF RequestAnswers

LEMMA TypeCall ==
    ASSUME TypeInv, NEW r \in Requests, CallNext(r)
    PROVE  TypeInv'
<1> USE DEF TypeInv, upstreamVars
<1> DEFINE Rest == UpstreamTyped /\ RequestsTyped
<1>0. Rest /\ UNCHANGED <<now, upstreamVars, req>> => Rest'
  BY DEF UpstreamTyped, RequestsTyped
<1>1. fetch[r] \in FetchState /\ FetchShape(fetch[r])
  BY DEF FetchesTyped
<1>2. CASE CallLookup(r)
  <2> DEFINE x == [fetch[r] EXCEPT !.pc = "looked",
                                   !.seen = store[fetch[r].key]]
  <2>1. store[fetch[r].key] \in Record \cup {None}
    BY <1>2, FetchFields DEF CallLookup, CacheTyped
  <2>2. x \in FetchState /\ FetchShape(x)
    BY <1>1, <1>2, <2>1 DEF CallLookup, FetchState, FetchShape
  <2>3. FetchesTyped'
    BY <1>2, <2>2, FetchUpdate DEF CallLookup
  <2> QED
    BY <1>0, <1>2, <2>3 DEF CallLookup, CacheTyped, GroupsTyped
<1>3. CASE CallServe(r)
  <2>1. fetch[r].key \in Keys /\ Hit(fetch[r].seen) \in Answer
    BY <1>3, FetchFields, HitType DEF CallServe, Servable
  <2>2. FetchesTyped'
    BY <1>3, <2>1, RespondedType DEF CallServe
  <2> QED
    BY <1>0, <1>3, <2>1, <2>2 DEF CallServe, CacheTyped, GroupsTyped
<1>4. CASE CallSend(r)
  <2> DEFINE x == [fetch[r] EXCEPT !.pc = "sent", !.at = now]
  <2>1. x \in FetchState /\ FetchShape(x)
    BY <1>1, <1>4 DEF CallSend, FetchState, FetchShape, UpstreamTyped
  <2>2. FetchesTyped'
    BY <1>4, <2>1, FetchUpdate DEF CallSend
  <2> QED
    BY <1>0, <1>4, <2>2 DEF CallSend, CacheTyped, GroupsTyped
<1>5. CASE CallRevalidate(r)
  <2> DEFINE a == [code |-> 200, cache |-> "REVALIDATED",
                   version |-> fetch[r].seen.version]
  <2>1. /\ fetch[r].key \in Keys /\ fetch[r].seen \in Record
        /\ fetch[r].at \in Nat
    BY <1>5, FetchFields DEF CallRevalidate
  <2>2. Revalidated(fetch[r].seen, fetch[r].at) \in Record /\ a \in Answer
    <3>1. Revalidated(fetch[r].seen, fetch[r].at) \in Record
      BY <2>1, RevalidatedType
    <3>2. fetch[r].seen.version \in Nat
      BY <2>1 DEF Record
    <3>3. a \in Answer
      BY <3>2 DEF Answer, Code
    <3> QED BY <3>1, <3>3
  <2>3. store' \in [Keys -> Record \cup {None}]
    BY <1>5, <2>1, <2>2, StoreType DEF CallRevalidate
  <2>4. FetchesTyped'
    BY <1>5, <2>2, RespondedType DEF CallRevalidate
  <2> QED
    BY <1>0, <1>5, <2>1, <2>3, <2>4
    DEF CallRevalidate, CacheTyped, GroupsTyped
<1>6. CASE CallStore(r)
  <2> DEFINE a == [code |-> fetch[r].reply.status, cache |-> Fresh(r),
                   version |-> fetch[r].reply.version]
  <2>1. /\ fetch[r].key \in Keys /\ fetch[r].reply \in Content
        /\ fetch[r].at \in Nat
    BY <1>6, FetchFields, ContentFields DEF CallStore
  <2>2. RecordOf(fetch[r].reply, fetch[r].at) \in Record /\ a \in Answer
    BY <2>1, RecordOfType DEF Answer, Code, Content, Fresh
  <2>3. store' \in [Keys -> Record \cup {None}]
    BY <1>6, <2>1, <2>2, StoreType DEF CallStore
  <2>4. FetchesTyped'
    BY <1>6, <2>2, RespondedType DEF CallStore
  <2> QED
    BY <1>0, <1>6, <2>1, <2>3, <2>4 DEF CallStore, CacheTyped, GroupsTyped
<1>7. CASE CallFail(r)
  <2>1. FetchesTyped'
    BY <1>7, FailureAnswerType, RespondedType DEF CallFail
  <2> QED
    BY <1>0, <1>7, <2>1 DEF CallFail, CacheTyped, GroupsTyped
<1>8. CASE CallFinish(r)
  <2> DEFINE x == [fetch[r] EXCEPT !.pc = "closed", !.at = 0]
  <2>1. fetch[r].key \in Keys /\ x \in FetchState /\ FetchShape(x)
    BY <1>1, <1>8 DEF CallFinish, FetchState, FetchShape
  <2>2. FetchesTyped'
    BY <1>8, <2>1, FetchUpdate DEF CallFinish
  <2> QED
    BY <1>0, <1>8, <2>1, <2>2 DEF CallFinish, CacheTyped, GroupsTyped
<1> QED
  BY <1>2, <1>3, <1>4, <1>5, <1>6, <1>7, <1>8 DEF CallNext

LEMMA TypeRefresh ==
    ASSUME TypeInv, NEW w \in Workers, RefreshStart(w) \/ RefreshNext(w)
    PROVE  TypeInv'
<1> USE DEF TypeInv, upstreamVars
<1> DEFINE Rest == UpstreamTyped /\ RequestsTyped
<1>0. Rest /\ UNCHANGED <<now, upstreamVars, req>> => Rest'
  BY DEF UpstreamTyped, RequestsTyped
<1>1. fetch[w] \in FetchState /\ FetchShape(fetch[w])
  BY DEF FetchesTyped
<1>2. CASE RefreshStart(w)
  <2>1. PICK k \in Keys :
          /\ refreshing' = refreshing \cup {k}
          /\ fetch' = [fetch EXCEPT ![w] = [@ EXCEPT !.pc = "lookup",
                                                     !.key = k]]
    BY <1>2 DEF RefreshStart
  <2> DEFINE x == [fetch[w] EXCEPT !.pc = "lookup", !.key = k]
  <2>2. x \in FetchState /\ FetchShape(x)
    BY <1>1 DEF FetchState, FetchShape
  <2>3. FetchesTyped'
    BY <2>1, <2>2, FetchUpdate
  <2> QED
    BY <1>0, <1>2, <2>1, <2>3 DEF RefreshStart, CacheTyped, GroupsTyped
<1>3. CASE RefreshLookup(w)
  <2> DEFINE seen == store[fetch[w].key]
             x == IF seen = None \/ isNegativeCacheableStatus(seen)
                  THEN [fetch[w] EXCEPT !.pc = "finish"]
                  ELSE [fetch[w] EXCEPT !.pc = "looked", !.seen = seen]
  <2>1. fetch[w].key \in Keys /\ seen \in Record \cup {None}
    BY <1>3, FetchFields DEF RefreshLookup, CacheTyped
  <2>2. x \in FetchState /\ FetchShape(x)
    <3> HIDE DEF seen
    <3> QED BY <1>1, <2>1 DEF FetchState, FetchShape
  <2>3. FetchesTyped'
    BY <1>3, <2>2, FetchUpdate DEF RefreshLookup
  <2> QED
    BY <1>0, <1>3, <2>3 DEF RefreshLookup, CacheTyped, GroupsTyped
<1>4. CASE RefreshSend(w)
  <2> DEFINE x == [fetch[w] EXCEPT !.pc = "sent", !.at = now]
  <2>1. x \in FetchState /\ FetchShape(x)
    BY <1>1, <1>4 DEF RefreshSend, FetchState, FetchShape, UpstreamTyped
  <2>2. FetchesTyped'
    BY <1>4, <2>1, FetchUpdate DEF RefreshSend
  <2> QED
    BY <1>0, <1>4, <2>2 DEF RefreshSend, CacheTyped, GroupsTyped
<1>5. CASE RefreshStore(w)
  <2> DEFINE x == [fetch[w] EXCEPT !.pc = "finish", !.seen = None,
                                   !.reply = None]
  <2>1. x \in FetchState /\ FetchShape(x)
    BY <1>1, <1>5 DEF RefreshStore, FetchState, FetchShape
  <2>2. FetchesTyped'
    BY <1>5, <2>1, FetchUpdate DEF RefreshStore
  <2>3. fetch[w].key \in Keys /\ fetch[w].at \in Nat
    BY <1>5, FetchFields DEF RefreshStore
  <2>4. fetch[w].reply.kind = "notModified" =>
          Revalidated(fetch[w].seen, fetch[w].at) \in Record
    BY <1>5, <2>3, FetchFields, RevalidatedType DEF RefreshStore
  <2>5. fetch[w].reply.kind = "content" =>
          RecordOf(fetch[w].reply, fetch[w].at) \in Record
    BY <1>5, <2>3, FetchFields, ContentFields, RecordOfType DEF RefreshStore
  <2>6. store' \in [Keys -> Record \cup {None}]
    BY <1>5, <2>3, <2>4, <2>5, StoreType DEF RefreshStore, CacheTyped
  <2> QED
    BY <1>0, <1>5, <2>2, <2>6 DEF RefreshStore, CacheTyped, GroupsTyped
<1>6. CASE RefreshDone(w)
  <2>1. NoFetch \in FetchState /\ FetchShape(NoFetch)
    BY DEF NoFetch, FetchState, FetchShape
  <2>2. FetchesTyped'
    BY <1>6, <2>1, FetchUpdate DEF RefreshDone
  <2> QED
    BY <1>0, <1>6, <2>2 DEF RefreshDone, CacheTyped, GroupsTyped
<1> QED
  BY <1>2, <1>3, <1>4, <1>5, <1>6 DEF RefreshNext

LEMMA TypeStep == TypeInv /\ [Next]_vars => TypeInv'
<1> SUFFICES ASSUME TypeInv, [Next]_vars
             PROVE  TypeInv'
  OBVIOUS
<1>1. CASE UNCHANGED vars
  BY <1>1 DEF vars, TypeInv, UpstreamTyped, CacheTyped, GroupsTyped,
              RequestsTyped, FetchesTyped
<1> QED
  BY <1>1, TypeEnvironment, TypeRequest, TypeCall, TypeRefresh DEF Next

LEMMA TypeInvariant == Spec => []TypeInv
BY TypeInit, TypeStep, PTL DEF Spec

\* Every variable keeps its type, through every request, call, refresh and
\* change upstream.
THEOREM TypeCorrect == Spec => []TypeOK
BY TypeInvariant, TypeInvImpliesTypeOK, PTL

-----------------------------------------------------------------------------
(* One call per key. A call that is closed has its answer because that is  *)
(* produced before the call finishes; a slot that looks its key up runs no *)
(* call yet.                                                               *)

ResponsesReady ==
    \A r \in Requests : fetch[r].pc \in {"finish", "closed"} =>
        fetch[r].response \in Answer

LookedIdle ==
    \A r \in Requests : req[r].pc = "looked" => fetch[r].pc = "idle"

CallInv == CallGroup /\ ResponsesReady /\ LookedIdle

LEMMA CallInit == Init => CallInv
BY ServiceAssumption
DEF ServiceAssumption, Init, CallInv, CallGroup, ResponsesReady, LookedIdle,
    Running, NoRequest, NoFetch

\* The calls keep their keys and their registration: nothing to prove about
\* the group but the response of the call that moves.
LEMMA CallsStay ==
    ASSUME CallInv, UNCHANGED <<req, inFlight>>,
           \A r \in Requests :
               \/ fetch'[r] = fetch[r]
               \/ /\ Running(r) /\ fetch'[r].pc \notin {"idle", "closed"}
                  /\ fetch'[r].key = fetch[r].key
                  /\ fetch'[r].pc = "finish" => fetch'[r].response \in Answer,
           TypeInv
    PROVE  CallInv'
<1> USE DEF CallInv, Running
<1>1. \A r \in Requests :
        /\ Running(r)' <=> Running(r)
        /\ Running(r) => fetch'[r].key = fetch[r].key
        /\ fetch'[r].pc = "idle" <=> fetch[r].pc = "idle"
        /\ fetch[r].pc # "idle" => fetch'[r].key = fetch[r].key
        /\ fetch'[r].pc = "closed" => fetch'[r] = fetch[r]
  OBVIOUS
<1>2. ResponsesReady'
  BY DEF ResponsesReady
<1>3. \A r \in Requests : req[r].pc = "waiting" => req[r].joined \in Requests
  BY RequestFields DEF TypeInv
<1>4. \A k \in Keys : inFlight[k] # None => inFlight[k] \in Requests
  BY DEF TypeInv, GroupsTyped
<1>5. CallGroup'
  BY <1>1, <1>3, <1>4 DEF CallGroup
<1>6. LookedIdle'
  BY <1>1 DEF LookedIdle
<1> QED BY <1>2, <1>5, <1>6

LEMMA CallEnvironment ==
    ASSUME TypeInv, CallInv, Environment \/ \E f \in Fetchers : UpstreamReply(f)
    PROVE  CallInv'
<1>1. CASE Environment
  BY <1>1, CallsStay DEF Environment, Tick, UpstreamPublish
<1>2. ASSUME NEW f \in Fetchers, UpstreamReply(f)
      PROVE  CallInv'
  <2>1. PICK reply :
          fetch' = [fetch EXCEPT ![f] = [@ EXCEPT !.pc = "replied",
                                                  !.reply = reply]]
    BY <1>2 DEF UpstreamReply
  <2>2. fetch'[f].pc = "replied" /\ fetch'[f].key = fetch[f].key
    BY <2>1 DEF TypeInv, FetchesTyped, FetchState
  <2>3. \A g \in Fetchers \ {f} : fetch'[g] = fetch[g]
    BY <2>1 DEF TypeInv, FetchesTyped
  <2> QED
    BY <1>2, <2>2, <2>3, CallsStay DEF UpstreamReply, Running
<1> QED BY <1>1, <1>2

\* A request that is answered, or that starts afresh, waits no longer.
LEMMA CallsAfterRequest ==
    ASSUME TypeInv, CallInv, NEW r \in Requests, UNCHANGED <<inFlight, fetch>>,
           req'[r].pc = "done",
           \A q \in Requests \ {r} : req'[q] = req[q]
    PROVE  CallInv'
BY DEF CallInv, CallGroup, ResponsesReady, LookedIdle, Running

LEMMA AnsweredEffect ==
    ASSUME RequestsTyped, NEW r \in Requests, NEW answer, Answered(r, answer)
    PROVE  /\ req'[r].pc = "done"
           /\ \A q \in Requests \ {r} : req'[q] = req[q]
BY DEF RequestsTyped, RequestState, Answered

LEMMA CallRequest ==
    ASSUME TypeInv, CallInv, NEW r \in Requests,
           Reject(r) \/ Lookup(r) \/ Cancel(r) \/ RequestAnswers(r)
    PROVE  CallInv'
<1>0. /\ RequestsTyped
      /\ \A k \in Keys : inFlight[k] # None => inFlight[k] \in Requests
      /\ \A q \in Requests : req[q].pc = "waiting" => req[q].joined \in Requests
  BY RequestFields DEF TypeInv, GroupsTyped
<1>1. CASE Reject(r) \/ Lookup(r)
  <2>1. req'[r].pc \in {"done", "looked"} /\ fetch'[r] = NoFetch
    <3>1. fetch'[r] = NoFetch
      BY <1>1, NewRequest DEF TypeInv
    <3>2. CASE Reject(r)
      BY <3>1, <3>2 DEF Reject, NoRequest, TypeInv, RequestsTyped
    <3>3. CASE Lookup(r)
      BY <3>1, <3>3 DEF Lookup, NoRequest, TypeInv, RequestsTyped
    <3> QED BY <1>1, <3>2, <3>3
  <2>2. /\ \A q \in Requests \ {r} : req'[q] = req[q]
        /\ \A g \in Requests \ {r} : fetch'[g] = fetch[g]
        /\ UNCHANGED inFlight
        /\ Free(r)
    BY <1>1, NewRequest DEF TypeInv
  <2>3. fetch'[r].pc = "idle" /\ ~Running(r)
    BY <2>1, <2>2 DEF NoFetch, Free, Running
  <2> QED
    BY <1>0, <2>1, <2>2, <2>3
    DEF Free, CallInv, CallGroup, ResponsesReady, LookedIdle, Running
<1>2. CASE Cancel(r) \/ ServeHit(r) \/ TakeAnswer(r)
  BY <1>0, <1>2, AnsweredEffect, CallsAfterRequest
  DEF Cancel, ServeHit, TakeAnswer
<1>3. CASE Lead(r)
  <2>1. /\ req'[r].pc = "waiting" /\ req'[r].joined = r
        /\ req'[r].key = req[r].key
        /\ \A q \in Requests \ {r} : req'[q] = req[q]
    BY <1>3 DEF Lead, Joined, TypeInv, RequestsTyped, RequestState
  <2>2. /\ fetch'[r].pc = "lookup" /\ fetch'[r].key = req[r].key
        /\ \A g \in Requests \ {r} : fetch'[g] = fetch[g]
    BY <1>3 DEF Lead, Started, NoFetch, TypeInv, FetchesTyped
  <2>3. /\ req[r].key \in Keys /\ inFlight[req[r].key] = None
        /\ inFlight'[req[r].key] = r
        /\ \A k \in Keys \ {req[r].key} : inFlight'[k] = inFlight[k]
    BY <1>3, RequestFields
    DEF Lead, NeedsUpstream, TypeInv, GroupsTyped, RequestsTyped
  <2>4. fetch[r].pc = "idle"
    BY <1>3 DEF Lead, NeedsUpstream, CallInv, LookedIdle
  <2>5. \A g \in Requests : Running(g) => fetch[g].key \in Keys
    BY FetchFields DEF TypeInv, Running
  <2> QED
    BY <1>0, <2>1, <2>2, <2>3, <2>4, <2>5, ServiceAssumption
    DEF ServiceAssumption, CallInv, CallGroup, ResponsesReady, LookedIdle,
        Running
<1>4. CASE Follow(r)
  <2>1. /\ req'[r].pc = "waiting" /\ req'[r].joined = inFlight[req[r].key]
        /\ req'[r].key = req[r].key
        /\ \A q \in Requests \ {r} : req'[q] = req[q]
    BY <1>4 DEF Follow, Joined, TypeInv, RequestsTyped, RequestState
  <2>2. req[r].key \in Keys /\ inFlight[req[r].key] # None
    BY <1>4, RequestFields DEF Follow, NeedsUpstream, TypeInv
  <2> QED
    BY <1>0, <1>4, <2>1, <2>2
    DEF Follow, CallInv, CallGroup, ResponsesReady, LookedIdle, Running
<1> QED
  BY <1>1, <1>2, <1>3, <1>4 DEF RequestAnswers

LEMMA RespondedEffect ==
    ASSUME FetchesTyped, NEW r \in Requests, NEW answer \in Answer,
           Responded(r, answer)
    PROVE  /\ fetch'[r].pc = "finish" /\ fetch'[r].key = fetch[r].key
           /\ fetch'[r].response = answer /\ fetch'[r].at = fetch[r].at
           /\ \A g \in Fetchers \ {r} : fetch'[g] = fetch[g]
BY DEF FetchesTyped, FetchState, Responded

LEMMA CallCall ==
    ASSUME TypeInv, CallInv, NEW r \in Requests, CallNext(r)
    PROVE  CallInv'
<1> USE DEF Running
<1>1. CASE CallLookup(r) \/ CallSend(r)
  <2>0. fetch \in [Fetchers -> FetchState] /\ fetch[r] \in FetchState
    BY DEF TypeInv, FetchesTyped
  <2>1. /\ fetch'[r].pc \in {"looked", "sent"}
        /\ fetch'[r].key = fetch[r].key
        /\ \A g \in Fetchers \ {r} : fetch'[g] = fetch[g]
    <3>1. CASE CallLookup(r)
      BY <2>0, <3>1 DEF CallLookup, FetchState
    <3>2. CASE CallSend(r)
      BY <2>0, <3>2 DEF CallSend, FetchState
    <3> QED BY <1>1, <3>1, <3>2
  <2> QED
    BY <1>1, <2>1, CallsStay DEF CallLookup, CallSend
<1>2. CASE CallServe(r)
  <2>1. Hit(fetch[r].seen) \in Answer
    BY <1>2, FetchFields, HitType DEF CallServe, Servable, TypeInv
  <2> QED
    BY <1>2, <2>1, RespondedEffect, CallsStay DEF CallServe, TypeInv
<1>3. CASE CallRevalidate(r)
  <2>1. fetch[r].seen \in Record
    BY <1>3, FetchFields DEF CallRevalidate, TypeInv
  <2>2. [code |-> 200, cache |-> "REVALIDATED",
         version |-> fetch[r].seen.version] \in Answer
    BY <2>1 DEF Answer, Code, Record
  <2> QED
    BY <1>3, <2>2, RespondedEffect, CallsStay DEF CallRevalidate, TypeInv
<1>4. CASE CallStore(r)
  <2>1. fetch[r].reply \in Content
    BY <1>4, FetchFields, ContentFields DEF CallStore, TypeInv
  <2>2. [code |-> fetch[r].reply.status, cache |-> Fresh(r),
         version |-> fetch[r].reply.version] \in Answer
    BY <2>1 DEF Answer, Code, Content, Fresh
  <2> QED
    BY <1>4, <2>2, RespondedEffect, CallsStay DEF CallStore, TypeInv
<1>5. CASE CallFail(r)
  BY <1>5, FailureAnswerType, RespondedEffect, CallsStay
  DEF CallFail, TypeInv
<1>6. CASE CallFinish(r)
  <2>1. /\ fetch'[r].pc = "closed" /\ fetch'[r].key = fetch[r].key
        /\ fetch'[r].response = fetch[r].response
        /\ \A g \in Fetchers \ {r} : fetch'[g] = fetch[g]
    BY <1>6 DEF CallFinish, TypeInv, FetchesTyped, FetchState
  <2>2. /\ fetch[r].key \in Keys /\ inFlight'[fetch[r].key] = None
        /\ \A k \in Keys \ {fetch[r].key} : inFlight'[k] = inFlight[k]
    BY <1>6, FetchFields DEF CallFinish, TypeInv, GroupsTyped
  <2>3. /\ \A k \in Keys : inFlight[k] # None => inFlight[k] \in Requests
        /\ \A q \in Requests : req[q].pc = "waiting" =>
               req[q].joined \in Requests
        /\ \A g \in Requests : Running(g) => fetch[g].key \in Keys
    BY RequestFields, FetchFields DEF TypeInv, GroupsTyped
  <2>4. fetch[r].pc = "finish" /\ UNCHANGED req
    BY <1>6 DEF CallFinish
  <2> QED
    BY <2>1, <2>2, <2>3, <2>4, NoneIsNoMessage
    DEF CallInv, CallGroup, ResponsesReady, LookedIdle
<1> QED
  BY <1>1, <1>2, <1>3, <1>4, <1>5, <1>6 DEF CallNext

\* A worker moves no call.
LEMMA RefreshEffect ==
    ASSUME TypeInv, NEW w \in Workers, RefreshStart(w) \/ RefreshNext(w)
    PROVE  /\ UNCHANGED <<now, upstreamVars, tracked, req, inFlight>>
           /\ \A g \in Fetchers \ {w} : fetch'[g] = fetch[g]
<1> USE DEF TypeInv, FetchesTyped
<1>1. CASE RefreshStart(w)
  BY <1>1 DEF RefreshStart
<1>2. CASE RefreshLookup(w)
  BY <1>2 DEF RefreshLookup
<1>3. CASE RefreshSend(w) \/ RefreshDone(w)
  BY <1>3 DEF RefreshSend, RefreshDone
<1>4. CASE RefreshStore(w)
  BY <1>4 DEF RefreshStore
<1> QED BY <1>1, <1>2, <1>3, <1>4 DEF RefreshNext

LEMMA CallStep == TypeInv /\ CallInv /\ [Next]_vars => CallInv'
<1> SUFFICES ASSUME TypeInv, CallInv, [Next]_vars
             PROVE  CallInv'
  OBVIOUS
<1>1. ASSUME NEW w \in Workers, RefreshStart(w) \/ RefreshNext(w)
      PROVE  CallInv'
  BY <1>1, RefreshEffect, CallsStay, ServiceAssumption DEF ServiceAssumption
<1>2. CASE UNCHANGED vars
  BY <1>2, CallsStay DEF vars
<1> QED
  BY <1>1, <1>2, CallEnvironment, CallRequest, CallCall DEF Next

LEMMA CallInvariant == Spec => []CallInv
BY TypeInvariant, CallInit, CallStep, PTL DEF Spec

\* Calls are coalesced: one call runs per key, it is the registered one, and
\* who waits, waits on a call that is under way or has its answer.
THEOREM OneCallPerKey == Spec => []CallGroup
<1>1. CallInv => CallGroup
  BY DEF CallInv
<1> QED BY <1>1, CallInvariant, PTL

-----------------------------------------------------------------------------
(* One refresh per key.                                                    *)

LEMMA RefreshInit == Init => RefreshExclusive
BY DEF Init, RefreshExclusive, Running, NoFetch

\* No worker starts or ends: the keys being refreshed stay the same.
LEMMA RefreshesStay ==
    ASSUME RefreshExclusive, UNCHANGED refreshing,
           \A w \in Workers :
               \/ fetch'[w] = fetch[w]
               \/ /\ Running(w) /\ fetch'[w].pc \notin {"idle", "closed"}
                  /\ fetch'[w].key = fetch[w].key
    PROVE  RefreshExclusive'
<1>1. \A w \in Workers : /\ Running(w)' <=> Running(w)
                         /\ fetch'[w].key = fetch[w].key
  BY DEF Running
<1> QED BY <1>1 DEF RefreshExclusive

LEMMA RefreshWorker ==
    ASSUME TypeInv, RefreshExclusive, NEW w \in Workers,
           RefreshStart(w) \/ RefreshNext(w)
    PROVE  RefreshExclusive'
<1>0. FetchesTyped /\ \A g \in Fetchers \ {w} : fetch'[g] = fetch[g]
  BY RefreshEffect DEF TypeInv
<1>1. CASE RefreshStart(w)
  <2>1. PICK k \in Keys \ refreshing :
          /\ refreshing' = refreshing \cup {k}
          /\ fetch' = [fetch EXCEPT ![w] = [@ EXCEPT !.pc = "lookup",
                                                     !.key = k]]
    BY <1>1 DEF RefreshStart
  <2>2. fetch'[w].pc = "lookup" /\ fetch'[w].key = k /\ fetch[w].pc = "idle"
    <3>1. fetch[w] \in FetchState /\ fetch[w].pc = "idle"
      BY <1>0, <1>1 DEF RefreshStart, FetchesTyped
    <3>2. fetch'[w] = [fetch[w] EXCEPT !.pc = "lookup", !.key = k]
      BY <1>0, <2>1 DEF FetchesTyped
    <3> QED BY <3>1, <3>2 DEF FetchState
  <2> QED
    BY <1>0, <2>1, <2>2 DEF RefreshExclusive, Running
<1>2. CASE RefreshLookup(w) \/ RefreshSend(w) \/ RefreshStore(w)
  <2>1. /\ Running(w) /\ UNCHANGED refreshing
        /\ fetch'[w].pc \in {"finish", "looked", "sent"}
        /\ fetch'[w].key = fetch[w].key
    <3>1. CASE RefreshLookup(w)
      BY <1>0, <3>1 DEF RefreshLookup, Running, FetchesTyped, FetchState
    <3>2. CASE RefreshSend(w)
      BY <1>0, <3>2 DEF RefreshSend, Running, FetchesTyped, FetchState
    <3>3. CASE RefreshStore(w)
      BY <1>0, <3>3 DEF RefreshStore, Running, FetchesTyped, FetchState
    <3> QED BY <1>2, <3>1, <3>2, <3>3
  <2> QED
    BY <1>0, <2>1, RefreshesStay
<1>3. CASE RefreshDone(w)
  <2>1. /\ fetch[w].pc = "finish" /\ fetch'[w].pc = "idle"
        /\ refreshing' = refreshing \ {fetch[w].key}
    BY <1>0, <1>3 DEF RefreshDone, NoFetch, FetchesTyped
  <2> QED
    BY <1>0, <2>1 DEF RefreshExclusive, Running
<1> QED
  BY <1>1, <1>2, <1>3 DEF RefreshStart, RefreshNext

LEMMA RefreshStep == TypeInv /\ RefreshExclusive /\ [Next]_vars
                       => RefreshExclusive'
<1> SUFFICES ASSUME TypeInv, RefreshExclusive, [Next]_vars
             PROVE  RefreshExclusive'
  OBVIOUS
<1>0. FetchesTyped /\ \A w \in Workers : w \notin Requests
  BY ServiceAssumption DEF ServiceAssumption, TypeInv
<1>1. CASE Environment \/ UNCHANGED vars
  BY <1>1, RefreshesStay DEF Environment, Tick, UpstreamPublish, vars
<1>2. ASSUME NEW f \in Fetchers, UpstreamReply(f)
      PROVE  RefreshExclusive'
  <2>1. /\ \A g \in Fetchers \ {f} : fetch'[g] = fetch[g]
        /\ fetch[f].pc = "sent" /\ fetch'[f].pc = "replied"
        /\ fetch'[f].key = fetch[f].key /\ UNCHANGED refreshing
    BY <1>0, <1>2 DEF UpstreamReply, FetchesTyped, FetchState
  <2> QED BY <2>1, RefreshesStay DEF Running
<1>3. ASSUME NEW r \in Requests,
             \/ Reject(r) \/ Lookup(r) \/ Cancel(r)
             \/ RequestAnswers(r)
      PROVE  RefreshExclusive'
  <2>1. UNCHANGED refreshing /\ \A w \in Workers : fetch'[w] = fetch[w]
    BY <1>0, <1>3
    DEF Reject, Lookup, Cancel, RequestAnswers, ServeHit, Lead, Started,
        Follow, TakeAnswer, FetchesTyped
  <2> QED BY <2>1, RefreshesStay
<1>4. ASSUME NEW r \in Requests, CallNext(r)
      PROVE  RefreshExclusive'
  <2>1. UNCHANGED refreshing /\ \A w \in Workers : fetch'[w] = fetch[w]
    BY <1>0, <1>4
    DEF CallNext, CallLookup, CallServe, CallSend, CallRevalidate, CallStore,
        CallFail, CallFinish, Responded, FetchesTyped
  <2> QED BY <2>1, RefreshesStay
<1> QED
  BY <1>1, <1>2, <1>3, <1>4, RefreshWorker DEF Next

\* Background refreshes exclude each other per key, and a key is blocked
\* only while a worker is at it.
THEOREM OneRefreshPerKey == Spec => []RefreshExclusive
BY TypeInvariant, RefreshInit, RefreshStep, PTL DEF Spec

-----------------------------------------------------------------------------
(* Currency. RecordsWereCurrent alone is not inductive: a record is copied *)
(* into a request or a call before it is served, renewed or replaced, and  *)
(* a reply is read after upstream may have moved on. Backed is what every  *)
(* copy keeps; its times let a hit be dated.                               *)

Backed(k, rec) ==
    rec # None =>
        /\ 1 <= rec.version /\ rec.version <= version[k]
        /\ WasCurrentSince(k, rec.version, rec.checkedAt)
        /\ rec.etag \in {NoETag, rec.version}
        /\ rec.checkedAt <= now
        /\ rec.expiresAt = rec.checkedAt + TTL(rec.status)

ReplyBacked(f) ==
    /\ f.reply.kind = "content" =>
         /\ 1 <= f.reply.version /\ f.reply.version <= version[f.key]
         /\ WasCurrentSince(f.key, f.reply.version, f.at)
         /\ f.reply.etag \in {NoETag, f.reply.version}
    /\ f.reply.kind = "notModified" =>
         /\ f.seen.status = 200
         /\ WasCurrentSince(f.key, f.seen.version, f.at)

FetchBacked(f) ==
    /\ f.pc \in {"looked", "sent", "replied"} => Backed(f.key, f.seen)
    /\ f.pc \in {"sent", "replied"} => f.at <= now
    /\ f.pc = "replied" => ReplyBacked(f)

CacheBacked == \A k \in Keys : Backed(k, store[k])

RequestsBacked ==
    \A r \in Requests :
        req[r].pc = "looked" => Backed(req[r].key, req[r].seen)

FetchesBacked == \A f \in Fetchers : FetchBacked(fetch[f])

CurrencyInv == CacheBacked /\ RequestsBacked /\ FetchesBacked

LEMMA CurrencyInit == Init => CurrencyInv
BY DEF Init, CurrencyInv, CacheBacked, RequestsBacked, FetchesBacked,
       FetchBacked, Backed, Cache!Init, NoRequest, NoFetch

\* A version that was current at t or later stays so: what upstream replaces
\* now was current now.
LEMMA StaysCurrent ==
    ASSUME UpstreamTyped, Environment, NEW k \in Keys, NEW v \in Nat,
           NEW t \in Nat, t <= now, 1 <= v, v <= version[k],
           WasCurrentSince(k, v, t)
    PROVE  /\ WasCurrentSince(k, v, t)'
           /\ v <= version'[k]
<1> USE DEF UpstreamTyped, WasCurrentSince
<1>1. CASE Tick
  BY <1>1 DEF Tick, upstreamVars
<1>2. ASSUME NEW j \in Keys, UpstreamPublish(j)
      PROVE  /\ WasCurrentSince(k, v, t)'
             /\ v <= version'[k]
  <2>1. version[k] \in 1..MaxVersion /\ v \in 1..MaxVersion
    BY ServiceAssumption DEF ServiceAssumption
  <2>2. CASE j # k
    BY <1>2, <2>2 DEF UpstreamPublish
  <2>3. CASE j = k
    <3>1. version'[k] = version[k] + 1
      BY <1>2, <2>3 DEF UpstreamPublish
    <3>2. /\ retired'[k][version[k]] = now
          /\ v # version[k] => retired'[k][v] = retired[k][v]
      <4>1. retired'[k] = [retired[k] EXCEPT ![version[k]] = now]
        BY <1>2, <2>3 DEF UpstreamPublish
      <4>2. retired[k] \in [1..MaxVersion -> Nat]
        OBVIOUS
      <4> QED BY <2>1, <4>1, <4>2
    <3> QED BY <2>1, <3>1, <3>2
  <2> QED BY <2>2, <2>3
<1> QED BY <1>1, <1>2 DEF Environment

LEMMA ClockMonotone ==
    ASSUME UpstreamTyped, Environment
    PROVE  now <= now' /\ now' \in Nat
BY DEF UpstreamTyped, Environment, Tick, UpstreamPublish

LEMMA CurrencyEnvironment ==
    ASSUME TypeInv, CurrencyInv, Environment
    PROVE  CurrencyInv'
<1>0. UpstreamTyped /\ UNCHANGED <<store, req, fetch>>
  BY DEF TypeInv, Environment, Tick, UpstreamPublish
<1>1. ASSUME NEW k \in Keys, NEW rec \in Record \cup {None}, Backed(k, rec)
      PROVE  /\ rec # None =>
                  /\ 1 <= rec.version /\ rec.version <= version'[k]
                  /\ WasCurrentSince(k, rec.version, rec.checkedAt)'
                  /\ rec.checkedAt <= now'
             /\ version[k] \in Int /\ version'[k] \in Int
  <2>1. version[k] \in Int /\ version'[k] \in Int
    BY <1>0, ServiceAssumption
    DEF ServiceAssumption, UpstreamTyped, Environment, Tick, UpstreamPublish,
        upstreamVars
  <2>2. CASE rec # None
    <3>1. rec.version \in Nat /\ rec.checkedAt \in Nat
      BY <2>2 DEF Record
    <3>2. rec.checkedAt <= now /\ now <= now' /\ now \in Nat /\ now' \in Nat
      BY <1>0, <1>1, <2>2, ClockMonotone DEF Backed, UpstreamTyped
    <3> QED
      BY <1>0, <1>1, <2>1, <2>2, <3>1, <3>2, StaysCurrent DEF Backed
  <2> QED BY <2>1, <2>2
<1>2. CacheBacked'
  BY <1>0, <1>1 DEF CurrencyInv, CacheBacked, Backed, TypeInv, CacheTyped
<1>3. RequestsBacked'
  BY <1>0, <1>1, RequestFields
  DEF CurrencyInv, RequestsBacked, Backed, TypeInv
<1>4. ASSUME NEW f \in Fetchers
      PROVE  FetchBacked(fetch[f])'
  <2>0. FetchBacked(fetch[f]) /\ fetch'[f] = fetch[f]
    BY <1>0 DEF CurrencyInv, FetchesBacked
  <2>1. fetch[f].pc \in {"looked", "sent", "replied"} =>
          Backed(fetch[f].key, fetch[f].seen)'
    BY <1>0, <1>1, <2>0, FetchFields DEF FetchBacked, Backed, TypeInv
  <2>2. fetch[f].pc \in {"sent", "replied"} => fetch[f].at <= now'
    BY <1>0, <2>0, ClockMonotone, FetchFields
    DEF FetchBacked, TypeInv, UpstreamTyped
  <2>3. ASSUME fetch[f].pc = "replied", fetch[f].reply.kind = "content"
        PROVE  /\ fetch[f].reply.version <= version'[fetch[f].key]
               /\ WasCurrentSince(fetch[f].key, fetch[f].reply.version,
                                  fetch[f].at)'
    <3>1. fetch[f].reply.version \in Nat
      BY <2>3, FetchFields, ContentFields DEF Content, TypeInv
    <3>2. fetch[f].at \in Nat /\ fetch[f].key \in Keys
      BY <2>3, FetchFields DEF TypeInv
    <3> QED
      BY <1>0, <2>0, <2>3, <3>1, <3>2, StaysCurrent
      DEF FetchBacked, ReplyBacked
  <2>4. ASSUME fetch[f].pc = "replied", fetch[f].reply.kind = "notModified"
        PROVE  WasCurrentSince(fetch[f].key, fetch[f].seen.version,
                               fetch[f].at)'
    <3>1. fetch[f].seen \in Record /\ fetch[f].seen # None
      BY <2>4, FetchFields, NoneIsNoRecord DEF TypeInv
    <3>2. /\ fetch[f].at \in Nat /\ fetch[f].key \in Keys
          /\ fetch[f].seen.version \in Nat
      BY <2>4, <3>1, FetchFields DEF TypeInv, Record
    <3> QED
      BY <1>0, <2>0, <2>4, <3>1, <3>2, StaysCurrent
      DEF FetchBacked, ReplyBacked, Backed
  <2> QED
    BY <1>0, <2>0, <2>1, <2>2, <2>3, <2>4 DEF FetchBacked, ReplyBacked
<1>5. FetchesBacked'
  BY <1>4 DEF FetchesBacked
<1> QED BY <1>2, <1>3, <1>5 DEF CurrencyInv

\* When upstream and the clock stand still, what changes has to be backed
\* and the rest stays so.
LEMMA CurrencyAfter ==
    ASSUME CurrencyInv, UNCHANGED <<now, upstreamVars>>,
           \A k \in Keys : store'[k] = store[k] \/ Backed(k, store'[k]),
           \A r \in Requests :
               \/ req'[r] = req[r]
               \/ req'[r].pc = "looked" => Backed(req'[r].key, req'[r].seen),
           \A f \in Fetchers :
               fetch'[f] = fetch[f] \/ FetchBacked(fetch'[f])
    PROVE  CurrencyInv'
<1> USE DEF CurrencyInv, upstreamVars
<1>1. CacheBacked'
  BY DEF CacheBacked, Backed, WasCurrentSince
<1>2. RequestsBacked'
  BY DEF RequestsBacked, Backed, WasCurrentSince
<1>3. \A f \in Fetchers : FetchBacked(fetch'[f])
  BY DEF FetchesBacked
<1>4. FetchesBacked'
  BY <1>3 DEF FetchesBacked, FetchBacked, ReplyBacked, Backed, WasCurrentSince
<1> QED BY <1>1, <1>2, <1>4

LEMMA CurrencyReply ==
    ASSUME TypeInv, CurrencyInv, NEW f \in Fetchers, UpstreamReply(f)
    PROVE  CurrencyInv'
<1> DEFINE k == fetch[f].key
           etag == ConditionalETag(fetch[f].seen)
<1>0. FetchBacked(fetch[f]) /\ fetch[f].pc = "sent"
  BY DEF CurrencyInv, FetchesBacked, UpstreamReply
<1>1. /\ k \in Keys /\ fetch[f].seen \in Record \cup {None}
      /\ version[k] \in Nat /\ 1 <= version[k]
  BY <1>0, FetchFields, ServiceAssumption
  DEF ServiceAssumption, TypeInv, UpstreamTyped
<1>2. PICK reply \in UpstreamReplies(k, etag) :
        fetch' = [fetch EXCEPT ![f] = [@ EXCEPT !.pc = "replied",
                                                !.reply = reply]]
  BY DEF UpstreamReply
<1>3. /\ fetch'[f].pc = "replied" /\ fetch'[f].reply = reply
      /\ fetch'[f].key = k /\ fetch'[f].seen = fetch[f].seen
      /\ fetch'[f].at = fetch[f].at
      /\ \A g \in Fetchers \ {f} : fetch'[g] = fetch[g]
  BY <1>2 DEF TypeInv, FetchesTyped, FetchState
<1>4. reply.kind = "content" =>
        reply.version = version[k] /\ reply.etag \in {NoETag, version[k]}
  BY ServiceAssumption DEF UpstreamReplies, ServiceAssumption
<1>5. reply.kind = "notModified" => etag = version[k]
  BY ServiceAssumption DEF UpstreamReplies, ServiceAssumption
<1>6. reply.kind = "notModified" =>
        fetch[f].seen.status = 200 /\ fetch[f].seen.version = version[k]
  BY <1>0, <1>1, <1>5 DEF ConditionalETag, NoETag, FetchBacked, Backed
<1>7. ReplyBacked(fetch'[f])
  BY <1>1, <1>3, <1>4, <1>6 DEF ReplyBacked, WasCurrentSince
<1>8. FetchBacked(fetch'[f])
  BY <1>0, <1>3, <1>7 DEF FetchBacked
<1> QED
  BY <1>3, <1>8, CurrencyAfter DEF UpstreamReply

LEMMA JoinedEffect ==
    ASSUME RequestsTyped, NEW r \in Requests, NEW leader, Joined(r, leader)
    PROVE  /\ req'[r].pc = "waiting"
           /\ \A q \in Requests \ {r} : req'[q] = req[q]
BY DEF RequestsTyped, RequestState, Joined

LEMMA CurrencyRequest ==
    ASSUME TypeInv, CurrencyInv, NEW r \in Requests,
           Reject(r) \/ Lookup(r) \/ Cancel(r) \/ RequestAnswers(r)
    PROVE  CurrencyInv'
<1>0. RequestsTyped /\ FetchesTyped
  BY DEF TypeInv
<1>1. CASE Reject(r) \/ Lookup(r)
  <2>1. FetchBacked(NoFetch)
    BY DEF FetchBacked, NoFetch
  <2>2. fetch'[r] = NoFetch /\ \A g \in Fetchers \ {r} : fetch'[g] = fetch[g]
    BY <1>0, <1>1, NewRequest
  <2>3. \A q \in Requests \ {r} : req'[q] = req[q]
    BY <1>0, <1>1, NewRequest
  <2>4. UNCHANGED <<now, upstreamVars, store>>
    BY <1>1 DEF Reject, Lookup
  <2>5. CASE Reject(r)
    <3>1. req'[r].pc = "done"
      BY <1>0, <2>5 DEF Reject, NoRequest, RequestsTyped
    <3> QED BY <2>1, <2>2, <2>3, <2>4, <3>1, CurrencyAfter
  <2>6. CASE Lookup(r)
    <3>1. PICK k \in Keys, forced \in BOOLEAN :
            req' = [req EXCEPT ![r] =
                      [NoRequest EXCEPT !.pc = "looked", !.key = k,
                                        !.forced = forced, !.seen = store[k]]]
      BY <2>6 DEF Lookup
    <3>2. req'[r].key = k /\ req'[r].seen = store[k]
      BY <1>0, <3>1 DEF NoRequest, RequestsTyped
    <3>3. Backed(req'[r].key, req'[r].seen)
      BY <3>2 DEF CurrencyInv, CacheBacked
    <3> QED BY <2>1, <2>2, <2>3, <2>4, <3>3, CurrencyAfter
  <2> QED BY <1>1, <2>5, <2>6
<1>2. CASE Cancel(r) \/ ServeHit(r) \/ TakeAnswer(r)
  BY <1>0, <1>2, AnsweredEffect, CurrencyAfter
  DEF Cancel, ServeHit, TakeAnswer
<1>3. CASE Lead(r)
  <2>1. /\ fetch'[r].pc = "lookup"
        /\ \A g \in Fetchers \ {r} : fetch'[g] = fetch[g]
    BY <1>0, <1>3 DEF Lead, Started, NoFetch, FetchesTyped
  <2>2. FetchBacked(fetch'[r])
    BY <2>1 DEF FetchBacked
  <2> QED
    BY <1>0, <1>3, <2>1, <2>2, JoinedEffect, CurrencyAfter DEF Lead
<1>4. CASE Follow(r)
  BY <1>0, <1>4, JoinedEffect, CurrencyAfter DEF Follow
<1> QED
  BY <1>1, <1>2, <1>3, <1>4 DEF RequestAnswers

LEMMA RevalidatedBacked ==
    ASSUME NEW k \in Keys, NEW rec \in Record, NEW t \in Nat, t <= now,
           Backed(k, rec), rec.status = 200,
           WasCurrentSince(k, rec.version, t)
    PROVE  Backed(k, Revalidated(rec, t))
<1> DEFINE new == Revalidated(rec, t)
<1>1. /\ new.version = rec.version /\ new.etag = rec.etag
      /\ new.checkedAt = t /\ new.status = 200
      /\ new.expiresAt = t + HardTTL
  BY DEF Revalidated, Record
<1>2. rec # None
  BY NoneIsNoRecord
<1> HIDE DEF new
<1> QED BY <1>1, <1>2 DEF Backed, TTL, new

LEMMA RecordOfBacked ==
    ASSUME NEW k \in Keys, NEW reply \in Content, NEW t \in Nat, t <= now,
           1 <= reply.version, reply.version <= version[k],
           WasCurrentSince(k, reply.version, t),
           reply.etag \in {NoETag, reply.version}
    PROVE  Backed(k, RecordOf(reply, t))
<1> DEFINE new == RecordOf(reply, t)
<1>1. /\ new.version = reply.version
      /\ new.etag \in {NoETag, reply.version}
      /\ new.checkedAt = t
      /\ new.expiresAt = t + TTL(new.status)
  <2>1. CASE reply.status = 200
    BY <2>1 DEF RecordOf, PositiveRecord, TTL
  <2>2. CASE reply.status = 404
    BY <2>2 DEF RecordOf, NegativeRecord, TTL
  <2> QED BY <2>1, <2>2 DEF Content
<1> HIDE DEF new
<1> QED BY <1>1 DEF Backed, new

\* The record a call or a worker writes back is backed.
LEMMA WriteBackBacked ==
    ASSUME TypeInv, CurrencyInv, NEW f \in Fetchers, fetch[f].pc = "replied"
    PROVE  /\ fetch[f].reply.kind = "notModified" =>
                Backed(fetch[f].key, Revalidated(fetch[f].seen, fetch[f].at))
           /\ fetch[f].reply.kind = "content" =>
                Backed(fetch[f].key, RecordOf(fetch[f].reply, fetch[f].at))
<1>1. FetchBacked(fetch[f])
  BY DEF CurrencyInv, FetchesBacked
<1>2. fetch[f].key \in Keys /\ fetch[f].at \in Nat /\ fetch[f].at <= now
  BY <1>1, FetchFields DEF FetchBacked, TypeInv
<1>3. CASE fetch[f].reply.kind = "notModified"
  <2>1. fetch[f].seen \in Record
    BY <1>3, FetchFields DEF TypeInv
  <2> QED
    BY <1>1, <1>2, <1>3, <2>1, RevalidatedBacked DEF FetchBacked, ReplyBacked
<1>4. CASE fetch[f].reply.kind = "content"
  <2>1. fetch[f].reply \in Content
    BY <1>4, FetchFields, ContentFields DEF TypeInv
  <2> QED
    BY <1>1, <1>2, <1>4, <2>1, RecordOfBacked DEF FetchBacked, ReplyBacked
<1> QED BY <1>3, <1>4

\* Storing a backed record leaves the cache backed.
LEMMA StoreBacked ==
    ASSUME TypeInv, NEW k \in Keys, NEW rec \in Record, Cache!Set(k, rec),
           Backed(k, rec)
    PROVE  \A j \in Keys : store'[j] = store[j] \/ Backed(j, store'[j])
<1>1. \A j \in Keys : \/ store'[j] = None
                      \/ store'[j] = store[j]
                      \/ j = k /\ store'[j] = rec
  BY SetEffect DEF TypeInv, CacheTyped
<1>2. \A j \in Keys : Backed(j, None)
  BY DEF Backed
<1> QED BY <1>1, <1>2

LEMMA CurrencyCall ==
    ASSUME TypeInv, CurrencyInv, NEW r \in Requests, CallNext(r)
    PROVE  CurrencyInv'
<1>0. FetchesTyped /\ FetchBacked(fetch[r])
  BY DEF TypeInv, CurrencyInv, FetchesBacked
<1>1. CASE CallLookup(r)
  <2>1. /\ fetch'[r].pc = "looked" /\ fetch'[r].key = fetch[r].key
        /\ fetch'[r].seen = store[fetch[r].key]
        /\ \A g \in Fetchers \ {r} : fetch'[g] = fetch[g]
    BY <1>0, <1>1 DEF CallLookup, FetchesTyped, FetchState
  <2>2. fetch[r].key \in Keys
    BY <1>0, <1>1, FetchFields DEF CallLookup
  <2>3. FetchBacked(fetch'[r])
    BY <2>1, <2>2 DEF FetchBacked, CurrencyInv, CacheBacked
  <2> QED BY <1>1, <2>1, <2>3, CurrencyAfter DEF CallLookup
<1>2. CASE CallSend(r)
  <2>1. /\ fetch'[r].pc = "sent" /\ fetch'[r].key = fetch[r].key
        /\ fetch'[r].seen = fetch[r].seen /\ fetch'[r].at = now
        /\ \A g \in Fetchers \ {r} : fetch'[g] = fetch[g]
    BY <1>0, <1>2 DEF CallSend, FetchesTyped, FetchState
  <2>2. FetchBacked(fetch'[r])
    BY <1>0, <1>2, <2>1
    DEF CallSend, FetchBacked, TypeInv, UpstreamTyped
  <2> QED BY <1>2, <2>1, <2>2, CurrencyAfter DEF CallSend
<1>3. ASSUME NEW a, Responded(r, a)
      PROVE  /\ FetchBacked(fetch'[r])
             /\ \A g \in Fetchers \ {r} : fetch'[g] = fetch[g]
  <2>1. /\ fetch'[r].pc = "finish"
        /\ \A g \in Fetchers \ {r} : fetch'[g] = fetch[g]
    BY <1>0, <1>3 DEF FetchesTyped, FetchState, Responded
  <2> QED BY <2>1 DEF FetchBacked
<1>4. CASE CallServe(r)
  BY <1>3, <1>4, CurrencyAfter DEF CallServe
<1>5. CASE CallFail(r)
  BY <1>3, <1>5, CurrencyAfter DEF CallFail
<1>6. CASE CallRevalidate(r)
  <2>1. /\ fetch[r].key \in Keys
        /\ Revalidated(fetch[r].seen, fetch[r].at) \in Record
    BY <1>0, <1>6, FetchFields, RevalidatedType DEF CallRevalidate
  <2>2. \A j \in Keys : store'[j] = store[j] \/ Backed(j, store'[j])
    BY <1>6, <2>1, WriteBackBacked, StoreBacked DEF CallRevalidate
  <2> QED BY <1>3, <1>6, <2>2, CurrencyAfter DEF CallRevalidate
<1>7. CASE CallStore(r)
  <2>1. /\ fetch[r].key \in Keys
        /\ RecordOf(fetch[r].reply, fetch[r].at) \in Record
    BY <1>0, <1>7, FetchFields, ContentFields, RecordOfType DEF CallStore
  <2>2. \A j \in Keys : store'[j] = store[j] \/ Backed(j, store'[j])
    BY <1>7, <2>1, WriteBackBacked, StoreBacked DEF CallStore
  <2> QED BY <1>3, <1>7, <2>2, CurrencyAfter DEF CallStore
<1>8. CASE CallFinish(r)
  <2>1. /\ fetch'[r].pc = "closed"
        /\ \A g \in Fetchers \ {r} : fetch'[g] = fetch[g]
    BY <1>0, <1>8 DEF CallFinish, FetchesTyped, FetchState
  <2>2. FetchBacked(fetch'[r])
    BY <2>1 DEF FetchBacked
  <2> QED BY <1>8, <2>1, <2>2, CurrencyAfter DEF CallFinish
<1> QED
  BY <1>1, <1>2, <1>4, <1>5, <1>6, <1>7, <1>8 DEF CallNext

LEMMA CurrencyRefresh ==
    ASSUME TypeInv, CurrencyInv, NEW w \in Workers,
           RefreshStart(w) \/ RefreshNext(w)
    PROVE  CurrencyInv'
<1>0. FetchesTyped /\ FetchBacked(fetch[w])
  BY DEF TypeInv, CurrencyInv, FetchesBacked
<1>1. /\ UNCHANGED <<now, upstreamVars, req>>
      /\ \A g \in Fetchers \ {w} : fetch'[g] = fetch[g]
  BY RefreshEffect
<1>2. CASE RefreshStart(w)
  <2>1. fetch'[w].pc = "lookup" /\ UNCHANGED store
    BY <1>0, <1>2 DEF RefreshStart, FetchesTyped, FetchState
  <2> QED BY <1>1, <2>1, CurrencyAfter DEF FetchBacked
<1>3. CASE RefreshLookup(w)
  <2>1. /\ fetch'[w].key = fetch[w].key /\ UNCHANGED store
        /\ \/ fetch'[w].pc = "finish"
           \/ fetch'[w].pc = "looked" /\ fetch'[w].seen = store[fetch[w].key]
    BY <1>0, <1>3 DEF RefreshLookup, FetchesTyped, FetchState
  <2>2. fetch[w].key \in Keys
    BY <1>0, <1>3, FetchFields DEF RefreshLookup
  <2>3. FetchBacked(fetch'[w])
    BY <2>1, <2>2 DEF FetchBacked, CurrencyInv, CacheBacked
  <2> QED BY <1>1, <2>1, <2>3, CurrencyAfter
<1>4. CASE RefreshSend(w)
  <2>1. /\ fetch'[w].pc = "sent" /\ fetch'[w].key = fetch[w].key
        /\ fetch'[w].seen = fetch[w].seen /\ fetch'[w].at = now
        /\ UNCHANGED store
    BY <1>0, <1>4 DEF RefreshSend, FetchesTyped, FetchState
  <2>2. FetchBacked(fetch'[w])
    BY <1>0, <1>4, <2>1
    DEF RefreshSend, FetchBacked, TypeInv, UpstreamTyped
  <2> QED BY <1>1, <2>1, <2>2, CurrencyAfter
<1>5. CASE RefreshStore(w)
  <2>1. fetch'[w].pc = "finish"
    BY <1>0, <1>5 DEF RefreshStore, FetchesTyped, FetchState
  <2>2. FetchBacked(fetch'[w])
    BY <2>1 DEF FetchBacked
  <2>3. fetch[w].key \in Keys /\ fetch[w].at \in Nat /\ fetch[w].pc = "replied"
    BY <1>0, <1>5, FetchFields DEF RefreshStore
  <2>4. fetch[w].reply.kind = "notModified" =>
          Revalidated(fetch[w].seen, fetch[w].at) \in Record
    BY <1>0, <2>3, FetchFields, RevalidatedType
  <2>5. fetch[w].reply.kind = "content" =>
          RecordOf(fetch[w].reply, fetch[w].at) \in Record
    BY <1>0, <2>3, FetchFields, ContentFields, RecordOfType
  <2>6. \A j \in Keys : store'[j] = store[j] \/ Backed(j, store'[j])
    BY <1>5, <2>3, <2>4, <2>5, WriteBackBacked, StoreBacked DEF RefreshStore
  <2> QED BY <1>1, <2>2, <2>6, CurrencyAfter
<1>6. CASE RefreshDone(w)
  <2>1. fetch'[w].pc = "idle" /\ UNCHANGED store
    BY <1>0, <1>6 DEF RefreshDone, NoFetch, FetchesTyped
  <2> QED BY <1>1, <2>1, CurrencyAfter DEF FetchBacked
<1> QED
  BY <1>2, <1>3, <1>4, <1>5, <1>6 DEF RefreshNext

LEMMA CurrencyStep == TypeInv /\ CurrencyInv /\ [Next]_vars => CurrencyInv'
<1> SUFFICES ASSUME TypeInv, CurrencyInv, [Next]_vars
             PROVE  CurrencyInv'
  OBVIOUS
<1>1. CASE UNCHANGED vars
  BY <1>1, CurrencyAfter DEF vars, upstreamVars
<1> QED
  BY <1>1, CurrencyEnvironment, CurrencyReply, CurrencyRequest, CurrencyCall,
     CurrencyRefresh
  DEF Next

LEMMA CurrencyInvariant == Spec => []CurrencyInv
BY TypeInvariant, CurrencyInit, CurrencyStep, PTL DEF Spec

\* Whatever requests and refreshes overlap and whenever upstream changes, a
\* cached record holds a version upstream still had when it was checked.
THEOREM CacheHoldsCurrentRecords == Spec => []RecordsWereCurrent
<1>1. CurrencyInv => RecordsWereCurrent
  BY DEF CurrencyInv, CacheBacked, Backed, RecordsWereCurrent
<1> QED BY <1>1, CurrencyInvariant, PTL

-----------------------------------------------------------------------------
(* Answers. A hit is dated by the times of the record it serves.           *)

LEMMA HitIsCurrent ==
    ASSUME TypeInv, NEW k \in Keys, NEW rec \in Record, Backed(k, rec),
           Servable(rec, now), NEW t
    PROVE  BodyWasCurrent(k, Hit(rec), t)
<1>1. /\ Hit(rec).version = rec.version /\ Hit(rec).code = rec.status
      /\ Hit(rec).cache = "HIT"
  BY DEF Hit
<1>2. rec # None /\ rec.checkedAt \in Nat /\ rec.version \in Nat
  BY NoneIsNoRecord DEF Record
<1>3. TTL(rec.status) \in Nat /\ now \in Nat
  BY PolicyAssumption DEF PolicyAssumption, TTL, TypeInv, UpstreamTyped
<1>4. TTL(rec.status) > 0 => rec.expiresAt > now
  BY <1>2, <1>3, PolicyAssumption
  DEF PolicyAssumption, Servable, isNegativeCacheableStatus, isHardExpired,
      shouldServeNegativeCachedRecord, TTL, Record, Backed
<1>5. TTL(rec.status) > 0 => rec.checkedAt >= now - TTL(rec.status) + 1
  BY <1>2, <1>3, <1>4 DEF Backed
<1>6. /\ WasCurrentSince(k, rec.version, rec.checkedAt)
      /\ retired[k][rec.version] \in Nat
  <2>1. WasCurrentSince(k, rec.version, rec.checkedAt)
    BY <1>2 DEF Backed
  <2>2. rec.version \in 1..MaxVersion
    BY <1>2, ServiceAssumption
    DEF ServiceAssumption, Backed, TypeInv, UpstreamTyped
  <2>3. retired[k] \in [1..MaxVersion -> Nat]
    BY DEF TypeInv, UpstreamTyped
  <2>4. retired[k][rec.version] \in Nat
    BY <2>2, <2>3
  <2> QED BY <2>1, <2>4
<1> QED
  BY <1>1, <1>2, <1>3, <1>5, <1>6 DEF BodyWasCurrent, WasCurrentSince

LEMMA AskedIsCurrent ==
    ASSUME NEW k \in Keys, NEW answer, NEW t,
           answer.version # 0 =>
               answer.cache # "HIT" /\ WasCurrentSince(k, answer.version, t)
    PROVE  BodyWasCurrent(k, answer, t)
BY DEF BodyWasCurrent

\* The answer a call responds with, by the step that responds.
LEMMA CallAnswers ==
    ASSUME TypeInv, CurrencyInv, NEW r \in Requests, CallNext(r),
           fetch[r].pc \in {"looked", "replied"}, fetch'[r].pc = "finish"
    PROVE  BodyWasCurrent(fetch[r].key, fetch'[r].response, fetch[r].at)
<1>0. FetchesTyped /\ FetchBacked(fetch[r]) /\ fetch[r].key \in Keys
  BY FetchFields DEF TypeInv, CurrencyInv, FetchesBacked
<1>1. ASSUME NEW a, Responded(r, a)
      PROVE  fetch'[r].response = a
  BY <1>0, <1>1 DEF FetchesTyped, FetchState, Responded
<1>2. CASE CallServe(r)
  <2>1. /\ fetch[r].seen \in Record /\ Servable(fetch[r].seen, now)
        /\ Backed(fetch[r].key, fetch[r].seen)
    BY <1>0, <1>2, FetchFields DEF CallServe, Servable, FetchBacked
  <2> QED
    BY <1>0, <1>1, <1>2, <2>1, HitIsCurrent DEF CallServe
<1>3. CASE CallRevalidate(r)
  <2> DEFINE a == [code |-> 200, cache |-> "REVALIDATED",
                   version |-> fetch[r].seen.version]
  <2>1. fetch'[r].response = a
    BY <1>1, <1>3 DEF CallRevalidate
  <2>2. WasCurrentSince(fetch[r].key, fetch[r].seen.version, fetch[r].at)
    BY <1>0, <1>3 DEF CallRevalidate, FetchBacked, ReplyBacked
  <2> QED BY <1>0, <2>1, <2>2, AskedIsCurrent
<1>4. CASE CallStore(r)
  <2> DEFINE a == [code |-> fetch[r].reply.status, cache |-> Fresh(r),
                   version |-> fetch[r].reply.version]
  <2>1. fetch'[r].response = a
    BY <1>1, <1>4 DEF CallStore
  <2>2. WasCurrentSince(fetch[r].key, fetch[r].reply.version, fetch[r].at)
    BY <1>0, <1>4 DEF CallStore, FetchBacked, ReplyBacked
  <2>3. a.cache # "HIT"
    BY DEF Fresh
  <2> QED BY <1>0, <2>1, <2>2, <2>3, AskedIsCurrent
<1>5. CASE CallFail(r)
  <2>1. fetch'[r].response = FailureAnswer(r)
    BY <1>1, <1>5 DEF CallFail
  <2>2. FailureAnswer(r).version = 0
    BY DEF FailureAnswer
  <2> QED BY <1>0, <2>1, <2>2, AskedIsCurrent
<1>6. CASE CallLookup(r) \/ CallSend(r) \/ CallFinish(r)
  BY <1>0, <1>6
  DEF CallLookup, CallSend, CallFinish, FetchesTyped, FetchState
<1> QED BY <1>2, <1>3, <1>4, <1>5, <1>6 DEF CallNext

\* The answer a request gives itself: only a hit does.
LEMMA RequestAnswer ==
    ASSUME TypeInv, CurrencyInv, NEW r \in Requests, Next,
           req[r].pc = "looked", req'[r].pc = "done"
    PROVE  BodyWasCurrent(req[r].key, req'[r].answer, now)
<1>0. RequestsTyped
  BY DEF TypeInv
<1>1. ASSUME NEW q \in Requests,
             Reject(q) \/ Lookup(q) \/ Cancel(q) \/ TakeAnswer(q)
      PROVE  FALSE
  <2>1. req[q].pc # "looked" /\ q # r
    BY <1>1 DEF Reject, Lookup, Cancel, TakeAnswer, Free
  <2>2. CASE Reject(q) \/ Lookup(q)
    BY <1>0, <2>1, <2>2, NewRequest DEF TypeInv
  <2>3. CASE Cancel(q) \/ TakeAnswer(q)
    BY <1>0, <2>1, <2>3, AnsweredEffect DEF Cancel, TakeAnswer
  <2> QED BY <1>1, <2>1, <2>2, <2>3
<1>2. ASSUME NEW q \in Requests, Lead(q) \/ Follow(q)
      PROVE  FALSE
  <2>1. req'[r] = req[r] \/ req'[r].pc = "waiting"
    BY <1>0, <1>2, JoinedEffect DEF Lead, Follow
  <2> QED BY <2>1
<1>3. ASSUME NEW q \in Requests, ServeHit(q)
      PROVE  BodyWasCurrent(req[r].key, req'[r].answer, now)
  <2>1. q = r
    BY <1>0, <1>3, AnsweredEffect DEF ServeHit
  <2>2. /\ req'[r].answer = Hit(req[r].seen)
        /\ Servable(req[r].seen, now)
    BY <1>0, <1>3, <2>1 DEF ServeHit, Answered, RequestsTyped, RequestState
  <2>3. /\ req[r].key \in Keys /\ req[r].seen \in Record
        /\ Backed(req[r].key, req[r].seen)
    BY <1>0, <2>2, RequestFields DEF Servable, CurrencyInv, RequestsBacked
  <2> QED BY <2>2, <2>3, HitIsCurrent
<1>4. CASE UNCHANGED req
  BY <1>4
<1>5. (\E q \in Requests : CallNext(q)) => UNCHANGED req
  BY DEF CallNext, CallLookup, CallServe, CallSend, CallRevalidate, CallStore,
         CallFail, CallFinish
<1>6. (Environment \/ \E f \in Fetchers : UpstreamReply(f)) => UNCHANGED req
  BY DEF Environment, Tick, UpstreamPublish, UpstreamReply
<1>7. (\E w \in Workers : RefreshStart(w) \/ RefreshNext(w)) => UNCHANGED req
  BY RefreshEffect
<1> QED
  BY <1>1, <1>2, <1>3, <1>4, <1>5, <1>6, <1>7 DEF Next, RequestAnswers

\* The step that answers a call is a step of that call.
LEMMA CallAnswersItself ==
    ASSUME TypeInv, NEW r \in Requests, Next,
           fetch[r].pc \in {"looked", "replied"}, fetch'[r].pc = "finish"
    PROVE  CallNext(r)
<1>0. FetchesTyped
  BY DEF TypeInv
<1>1. ASSUME NEW f \in Fetchers, UpstreamReply(f)
      PROVE  fetch'[r] = fetch[r] \/ fetch'[r].pc = "replied"
  BY <1>0, <1>1 DEF UpstreamReply, FetchesTyped, FetchState
<1>2. ASSUME NEW q \in Requests,
             Reject(q) \/ Lookup(q) \/ Cancel(q) \/ RequestAnswers(q)
      PROVE  fetch'[r] = fetch[r] \/ fetch'[r].pc \in {"idle", "lookup"}
  <2>1. CASE Reject(q) \/ Lookup(q)
    <3>1. fetch'[r] = fetch[r] \/ fetch'[r] = NoFetch
      BY <1>0, <2>1 DEF Reject, Lookup, FetchesTyped
    <3> QED BY <3>1 DEF NoFetch
  <2>2. CASE Lead(q)
    BY <1>0, <2>2 DEF Lead, Started, NoFetch, FetchesTyped
  <2>3. CASE Cancel(q) \/ ServeHit(q) \/ Follow(q) \/ TakeAnswer(q)
    BY <2>3 DEF Cancel, ServeHit, Follow, TakeAnswer
  <2> QED BY <1>2, <2>1, <2>2, <2>3 DEF RequestAnswers
<1>3. ASSUME NEW q \in Requests \ {r}, CallNext(q)
      PROVE  fetch'[r] = fetch[r]
  BY <1>0, <1>3
  DEF CallNext, CallLookup, CallServe, CallSend, CallRevalidate, CallStore,
      CallFail, CallFinish, Responded, FetchesTyped
<1>4. ASSUME NEW w \in Workers, RefreshStart(w) \/ RefreshNext(w)
      PROVE  fetch'[r] = fetch[r]
  BY <1>4, RefreshEffect, ServiceAssumption DEF ServiceAssumption
<1>5. Environment => UNCHANGED fetch
  BY DEF Environment, Tick, UpstreamPublish
<1> QED
  BY <1>1, <1>2, <1>3, <1>4, <1>5 DEF Next

\* Every answer with a body carries one upstream had: a hit, within its time
\* to live; any other answer, since the call asked for it.
THEOREM AnswersAreCurrent == Spec => AnswersWereCurrent
<1>1. ASSUME TypeInv, CurrencyInv, [Next]_vars
      PROVE  [\A r \in Requests :
               /\ req[r].pc = "looked" /\ req'[r].pc = "done" =>
                    BodyWasCurrent(req[r].key, req'[r].answer, now)
               /\ fetch[r].pc \in {"looked", "replied"} /\
                    fetch'[r].pc = "finish" =>
                    BodyWasCurrent(fetch[r].key, fetch'[r].response,
                                   fetch[r].at)
             ]_vars
  <2>1. CASE Next
    BY <1>1, <2>1, RequestAnswer, CallAnswersItself, CallAnswers
  <2>2. CASE UNCHANGED vars
    BY <2>2
  <2> QED BY <1>1, <2>1, <2>2
<1> QED
  BY <1>1, TypeInvariant, CurrencyInvariant, PTL DEF Spec, AnswersWereCurrent

-----------------------------------------------------------------------------
(* The tracker knows what is cached. A call tracks its key only on a miss, *)
(* and a worker not at all: both rely on what their lookup found.          *)

\* What f found in the cache is tracked; a worker goes on only with that.
Known(f) ==
    /\ fetch[f].seen # None => fetch[f].key \in tracked
    /\ f \in Workers /\ fetch[f].pc \in {"looked", "sent", "replied"}
         => fetch[f].key \in tracked
    /\ f \in Workers /\ fetch[f].pc = "idle" => fetch[f].seen = None

TrackInv == TrackedIfCached /\ \A f \in Fetchers : Known(f)

LEMMA TrackInit == Init => TrackInv
BY ServiceAssumption
DEF ServiceAssumption, Init, Cache!Init, TrackInv, TrackedIfCached, Known, NoFetch

\* A step keeps the invariant if it forgets no tracked key and stores only
\* tracked ones.
LEMMA TrackStays ==
    ASSUME TrackInv, tracked \subseteq tracked',
           \A k \in Keys : \/ store'[k] \in {None, store[k]}
                           \/ k \in tracked',
           \A f \in Fetchers : \/ Known(f)'
                               \/ /\ fetch'[f].pc = fetch[f].pc
                                  /\ fetch'[f].key = fetch[f].key
                                  /\ fetch'[f].seen = fetch[f].seen
    PROVE  TrackInv'
<1>1. TrackedIfCached'
  BY DEF TrackInv, TrackedIfCached
<1>2. \A f \in Fetchers : Known(f)'
  BY DEF TrackInv, Known
<1> QED BY <1>1, <1>2 DEF TrackInv

LEMMA TrackSet ==
    ASSUME TypeInv, NEW k \in Keys, NEW rec, Cache!Set(k, rec)
    PROVE  \A j \in Keys : store'[j] \in {None, store[j]} \/ j = k
BY DEF Cache!Set, Cache!Stored

LEMMA TrackEnvironment ==
    ASSUME TypeInv, TrackInv, Environment \/ \E f \in Fetchers : UpstreamReply(f)
    PROVE  TrackInv'
<1>1. CASE Environment
  BY <1>1, TrackStays DEF Environment, Tick, UpstreamPublish
<1>2. ASSUME NEW f \in Fetchers, UpstreamReply(f) PROVE TrackInv'
  <2>1. FetchesTyped /\ UNCHANGED <<store, tracked>>
    BY <1>2 DEF UpstreamReply, TypeInv
  <2>2. /\ \A g \in Fetchers \ {f} : fetch'[g] = fetch[g]
        /\ fetch[f].pc = "sent" /\ fetch'[f].pc = "replied"
        /\ fetch'[f].key = fetch[f].key
        /\ fetch'[f].seen = fetch[f].seen
    BY <1>2, <2>1, ReplyEffect
  <2>3. Known(f)'
    BY <2>1, <2>2 DEF TrackInv, Known
  <2> QED
    BY <2>1, <2>2, <2>3, TrackStays
<1> QED BY <1>1, <1>2

LEMMA TrackRequest ==
    ASSUME TypeInv, TrackInv, NEW r \in Requests,
           Reject(r) \/ Lookup(r) \/ Cancel(r) \/ RequestAnswers(r)
    PROVE  TrackInv'
<1>0. FetchesTyped /\ r \in Fetchers /\ r \notin Workers
  BY ServiceAssumption DEF ServiceAssumption, TypeInv
<1>1. UNCHANGED store /\ tracked \subseteq tracked'
  BY DEF Reject, Lookup, Cancel, RequestAnswers, ServeHit, Lead, Follow, TakeAnswer
<1>2. \A f \in Fetchers : fetch'[f] = fetch[f] \/ (f = r /\ fetch'[r].seen = None)
  <2>1. CASE Reject(r) \/ Lookup(r)
    <3>1. fetch' = [fetch EXCEPT ![r] = NoFetch]
      BY <2>1 DEF Reject, Lookup
    <3> QED BY <1>0, <3>1 DEF NoFetch, FetchesTyped
  <2>2. CASE Lead(r)
    BY <1>0, <2>2 DEF Lead, Started, NoFetch, FetchesTyped
  <2>3. CASE Cancel(r) \/ ServeHit(r) \/ Follow(r) \/ TakeAnswer(r)
    BY <2>3 DEF Cancel, ServeHit, Follow, TakeAnswer
  <2> QED BY <2>1, <2>2, <2>3 DEF RequestAnswers
<1>3. \A f \in Fetchers : fetch'[f] = fetch[f] \/ Known(f)'
  BY <1>0, <1>2 DEF Known
<1> QED BY <1>1, <1>3, TrackStays

\* A call stores a key it has not tracked itself only if it found it cached.
LEMMA TrackCall ==
    ASSUME TypeInv, TrackInv, NEW r \in Requests, CallNext(r)
    PROVE  TrackInv'
<1>0. FetchesTyped /\ r \in Fetchers /\ r \notin Workers
  BY ServiceAssumption DEF ServiceAssumption, TypeInv
<1>1. tracked \subseteq tracked'
  BY DEF CallNext, CallLookup, CallServe, CallSend, CallRevalidate, CallStore,
         CallFail, CallFinish
<1>2. /\ \A f \in Fetchers \ {r} : fetch'[f] = fetch[f]
      /\ fetch[r].pc # "idle"
      /\ fetch'[r].key = fetch[r].key
      /\ fetch'[r].seen \in {None, fetch[r].seen} \/ CallLookup(r)
  <2>1. ASSUME NEW answer, Responded(r, answer)
        PROVE  /\ \A f \in Fetchers \ {r} : fetch'[f] = fetch[f]
               /\ fetch'[r].key = fetch[r].key /\ fetch'[r].seen = None
    BY <1>0, <2>1 DEF Responded, FetchesTyped, FetchState
  <2>2. CASE CallServe(r) \/ CallRevalidate(r) \/ CallStore(r) \/ CallFail(r)
    BY <2>1, <2>2 DEF CallServe, CallRevalidate, CallStore, CallFail
  <2>3. CASE CallLookup(r)
    BY <1>0, <2>3 DEF CallLookup, FetchesTyped, FetchState
  <2>4. CASE CallSend(r)
    BY <1>0, <2>4 DEF CallSend, FetchesTyped, FetchState
  <2>5. CASE CallFinish(r)
    BY <1>0, <2>5 DEF CallFinish, FetchesTyped, FetchState
  <2> QED
    BY <2>2, <2>3, <2>4, <2>5 DEF CallNext
<1>3. fetch[r].key \in Keys
  BY <1>0, <1>2, FetchFields
<1>4. CASE CallLookup(r)
  <2>1. UNCHANGED <<store, tracked>> /\ fetch'[r].seen = store[fetch[r].key]
    BY <1>0, <1>4 DEF CallLookup, FetchesTyped, FetchState
  <2>2. Known(r)'
    BY <1>0, <1>2, <1>3, <2>1 DEF Known, TrackInv, TrackedIfCached
  <2> QED BY <1>1, <1>2, <2>1, <2>2, TrackStays
<1>5. CASE ~CallLookup(r)
  <2>1. Known(r)'
    BY <1>0, <1>1, <1>2, <1>5 DEF Known, TrackInv
  <2>2. CASE UNCHANGED store
    BY <1>1, <1>2, <2>1, <2>2, TrackStays
  <2>3. CASE CallRevalidate(r) \/ CallStore(r)
    <3>1. fetch[r].key \in tracked'
      BY <1>0, <2>3 DEF CallRevalidate, CallStore, TrackInv, Known
    <3>2. \A j \in Keys : store'[j] \in {None, store[j]} \/ j = fetch[r].key
      BY <1>3, <2>3, TrackSet DEF CallRevalidate, CallStore
    <3> QED BY <1>1, <1>2, <2>1, <3>1, <3>2, TrackStays
  <2> QED
    BY <1>5, <2>2, <2>3
    DEF CallNext, CallLookup, CallServe, CallSend, CallFail, CallFinish
<1> QED BY <1>4, <1>5

LEMMA TrackRefresh ==
    ASSUME TypeInv, TrackInv, NEW w \in Workers, RefreshStart(w) \/ RefreshNext(w)
    PROVE  TrackInv'
<1>0. /\ FetchesTyped /\ w \in Fetchers /\ UNCHANGED tracked
      /\ \A f \in Fetchers \ {w} : fetch'[f] = fetch[f]
  BY RefreshEffect DEF TypeInv
<1>1. CASE RefreshStart(w)
  <2>1. /\ UNCHANGED store /\ fetch[w].pc = "idle"
        /\ fetch'[w].pc = "lookup" /\ fetch'[w].seen = fetch[w].seen
    <3>1. fetch[w] \in FetchState
      BY <1>0 DEF FetchesTyped
    <3>2. PICK k \in Keys \ refreshing :
            fetch' = [fetch EXCEPT ![w] = [@ EXCEPT !.pc = "lookup", !.key = k]]
      BY <1>1 DEF RefreshStart
    <3>3. fetch'[w] = [fetch[w] EXCEPT !.pc = "lookup", !.key = k]
      BY <1>0, <3>2 DEF FetchesTyped
    <3> QED BY <1>1, <3>1, <3>3 DEF RefreshStart, FetchState
  <2>2. Known(w)'
    BY <1>0, <2>1 DEF Known, TrackInv
  <2> QED BY <1>0, <2>1, <2>2, TrackStays
<1>2. CASE RefreshLookup(w)
  <2>1. fetch[w].key \in Keys /\ UNCHANGED store
    BY <1>0, <1>2, FetchFields DEF RefreshLookup
  <2>2. CASE store[fetch[w].key] = None \/ isNegativeCacheableStatus(store[fetch[w].key])
    <3>1. /\ fetch'[w].pc = "finish" /\ fetch'[w].key = fetch[w].key
          /\ fetch'[w].seen = fetch[w].seen
      BY <1>0, <1>2, <2>2 DEF RefreshLookup, FetchesTyped, FetchState
    <3>2. Known(w)'
      BY <1>0, <3>1 DEF Known, TrackInv
    <3> QED BY <1>0, <2>1, <3>2, TrackStays
  <2>3. CASE ~(store[fetch[w].key] = None \/ isNegativeCacheableStatus(store[fetch[w].key]))
    <3>1. fetch'[w].pc = "looked" /\ fetch'[w].key = fetch[w].key
      BY <1>0, <1>2, <2>3 DEF RefreshLookup, FetchesTyped, FetchState
    <3>2. Known(w)'
      BY <1>0, <2>1, <2>3, <3>1 DEF Known, TrackInv, TrackedIfCached
    <3> QED BY <1>0, <2>1, <3>2, TrackStays
  <2> QED BY <2>2, <2>3
<1>3. CASE RefreshSend(w)
  <2>1. /\ UNCHANGED store /\ fetch'[w].seen = fetch[w].seen
        /\ fetch[w].pc = "looked" /\ fetch'[w].pc = "sent"
        /\ fetch'[w].key = fetch[w].key
    BY <1>0, <1>3 DEF RefreshSend, FetchesTyped, FetchState
  <2>2. Known(w)'
    BY <1>0, <2>1 DEF Known, TrackInv
  <2> QED BY <1>0, <2>1, <2>2, TrackStays
<1>4. CASE RefreshStore(w)
  <2>1. fetch[w].key \in Keys /\ fetch[w].key \in tracked
    BY <1>0, <1>4, FetchFields DEF RefreshStore, TrackInv, Known
  <2>2. fetch'[w].pc = "finish" /\ fetch'[w].seen = None
    BY <1>0, <1>4 DEF RefreshStore, FetchesTyped, FetchState
  <2>3. Known(w)'
    BY <2>2 DEF Known
  <2>4. UNCHANGED store \/ \E rec : Cache!Set(fetch[w].key, rec)
    BY <1>4 DEF RefreshStore
  <2> QED
    BY <1>0, <2>1, <2>3, <2>4, TrackSet, TrackStays
<1>5. CASE RefreshDone(w)
  <2>1. UNCHANGED store /\ fetch'[w] = NoFetch
    BY <1>0, <1>5 DEF RefreshDone, FetchesTyped
  <2>2. Known(w)'
    BY <2>1 DEF Known, NoFetch
  <2> QED BY <1>0, <2>1, <2>2, TrackStays
<1> QED BY <1>1, <1>2, <1>3, <1>4, <1>5 DEF RefreshNext

LEMMA TrackStep == TypeInv /\ TrackInv /\ [Next]_vars => TrackInv'
<1> SUFFICES ASSUME TypeInv, TrackInv, [Next]_vars PROVE TrackInv'
  OBVIOUS
<1>1. CASE UNCHANGED vars
  BY <1>1, TrackStays DEF vars
<1> QED
  BY <1>1, TrackEnvironment, TrackRequest, TrackCall, TrackRefresh DEF Next

LEMMA TrackInvariant == Spec => []TrackInv
BY TypeInvariant, TrackInit, TrackStep, PTL DEF Spec

\* Background revalidation knows every cached key, although a key found in
\* the cache is not tracked again when it is stored (service.go:294-300,
\* 344-347) and may be evicted and stored again meanwhile.
THEOREM CachedKeysAreTracked == Spec => []TrackedIfCached
<1>1. TrackInv => TrackedIfCached
  BY DEF TrackInv
<1> QED BY <1>1, TrackInvariant, PTL

-----------------------------------------------------------------------------
(* Without background workers the one call for a key is its only writer:   *)
(* what it found in the cache is still there when it writes, unless the    *)
(* cache has forgotten it.                                                 *)

Own(r) ==
    LET k == fetch[r].key
    IN  fetch[r].pc \in {"looked", "sent", "replied"} /\ store[k] # None =>
            /\ store[k] = fetch[r].seen
            /\ fetch[r].pc = "replied" /\ fetch[r].reply.kind = "content"
                 => store[k].version <= fetch[r].reply.version

OwnInv == \A r \in Requests : Own(r)

ServiceInv == TypeInv /\ CallInv /\ CurrencyInv /\ OwnInv

LEMMA OwnInit == Init => OwnInv
BY DEF Init, OwnInv, Own, NoFetch

\* A call keeps what it knows while its fetch stays and its key is not written.
LEMMA OwnStays ==
    ASSUME OwnInv,
           \A r \in Requests :
              \/ Own(r)'
              \/ /\ fetch'[r] = fetch[r]
                 /\ fetch[r].pc \in {"looked", "sent", "replied"}
                      => store'[fetch[r].key] \in {None, store[fetch[r].key]}
    PROVE  OwnInv'
BY DEF OwnInv, Own

\* A reply carries no older version than the cache holds.
LEMMA OwnReply ==
    ASSUME Workers = {}, ServiceInv, NEW r \in Requests, UpstreamReply(r)
    PROVE  OwnInv'
<1> DEFINE k == fetch[r].key
<1>0. FetchesTyped /\ r \in Fetchers /\ UNCHANGED store
  BY DEF ServiceInv, TypeInv, UpstreamReply
<1>1. fetch[r].pc = "sent" /\ k \in Keys
  BY <1>0, FetchFields DEF UpstreamReply
<1>2. PICK reply \in UpstreamReplies(k, ConditionalETag(fetch[r].seen)) :
        fetch' = [fetch EXCEPT ![r] = [@ EXCEPT !.pc = "replied", !.reply = reply]]
  BY DEF UpstreamReply
<1>3. /\ fetch'[r].key = k /\ fetch'[r].seen = fetch[r].seen
      /\ fetch'[r].reply = reply
      /\ \A q \in Requests \ {r} : fetch'[q] = fetch[q]
  BY <1>0, <1>2 DEF FetchesTyped, FetchState
<1>4. reply.kind = "content" => reply.version = version[k]
  BY ServiceAssumption DEF UpstreamReplies, ServiceAssumption
<1>5. store[k] # None => store[k].version <= version[k]
  BY <1>1 DEF ServiceInv, CurrencyInv, CacheBacked, Backed
<1>6. Own(r)'
  BY <1>0, <1>1, <1>3, <1>4, <1>5 DEF ServiceInv, OwnInv, Own
<1> QED BY <1>0, <1>3, <1>6, OwnStays DEF ServiceInv

\* Before its call a request moves no fetch but to its start, and no record.
LEMMA OtherRequests ==
    ASSUME ServiceInv, NEW r \in Requests,
           Reject(r) \/ Lookup(r) \/ Cancel(r) \/ RequestAnswers(r)
    PROVE  /\ UNCHANGED store
           /\ \A q \in Requests :
                 fetch'[q] = fetch[q] \/ fetch'[q].pc \in {"idle", "lookup"}
<1>0. FetchesTyped /\ r \in Fetchers
  BY DEF ServiceInv, TypeInv
<1>1. UNCHANGED store
  BY DEF Reject, Lookup, Cancel, RequestAnswers, ServeHit, Lead, Follow, TakeAnswer
<1>2. \A q \in Requests :
         fetch'[q] = fetch[q] \/ fetch'[q].pc \in {"idle", "lookup"}
  <2>1. CASE Reject(r) \/ Lookup(r)
    <3>1. fetch' = [fetch EXCEPT ![r] = NoFetch]
      BY <2>1 DEF Reject, Lookup
    <3> QED BY <1>0, <3>1 DEF NoFetch, FetchesTyped
  <2>2. CASE Lead(r)
    BY <1>0, <2>2 DEF Lead, Started, NoFetch, FetchesTyped
  <2>3. CASE Cancel(r) \/ ServeHit(r) \/ Follow(r) \/ TakeAnswer(r)
    BY <2>3 DEF Cancel, ServeHit, Follow, TakeAnswer
  <2> QED BY <2>1, <2>2, <2>3 DEF RequestAnswers
<1> QED BY <1>1, <1>2

LEMMA OwnRequest ==
    ASSUME ServiceInv, NEW r \in Requests,
           Reject(r) \/ Lookup(r) \/ Cancel(r) \/ RequestAnswers(r)
    PROVE  OwnInv'
<1>1. \A q \in Requests : fetch'[q] = fetch[q] \/ Own(q)'
  BY OtherRequests DEF Own
<1> QED BY <1>1, OtherRequests, OwnStays DEF ServiceInv

\* A call writes no key but its own, and that forward.
LEMMA OwnWrite ==
    ASSUME ServiceInv, NEW r \in Requests, CallNext(r)
    PROVE  \A k \in Keys :
              \/ store'[k] \in {None, store[k]}
              \/ /\ k = fetch[r].key /\ fetch'[r].pc = "finish"
                 /\ store[k] # None => store[k].version <= store'[k].version
<1> DEFINE k == fetch[r].key
<1>0. FetchesTyped /\ r \in Fetchers /\ store \in [Keys -> Record \cup {None}]
  BY DEF ServiceInv, TypeInv, CacheTyped
<1>1. CASE CallRevalidate(r)
  <2>1. /\ k \in Keys /\ fetch[r].seen \in Record
        /\ Cache!Set(k, Revalidated(fetch[r].seen, fetch[r].at))
        /\ fetch[r].pc = "replied"
    BY <1>0, <1>1, FetchFields DEF CallRevalidate
  <2>2. Revalidated(fetch[r].seen, fetch[r].at).version = fetch[r].seen.version
    BY <2>1 DEF Revalidated, Record
  <2>3. store[k] # None => store[k].version <= fetch[r].seen.version
    BY <1>0, <2>1 DEF ServiceInv, OwnInv, Own, Record
  <2>4. fetch'[r].pc = "finish"
    BY <1>0, <1>1 DEF CallRevalidate, Responded, FetchesTyped, FetchState
  <2> QED BY <2>1, <2>2, <2>3, <2>4 DEF Cache!Set, Cache!Stored
<1>2. CASE CallStore(r)
  <2>1. /\ k \in Keys /\ fetch[r].pc = "replied" /\ fetch[r].reply.kind = "content"
        /\ Cache!Set(k, RecordOf(fetch[r].reply, fetch[r].at))
    BY <1>0, <1>2, FetchFields DEF CallStore
  <2>2. RecordOf(fetch[r].reply, fetch[r].at).version = fetch[r].reply.version
    BY DEF RecordOf, PositiveRecord, NegativeRecord
  <2>3. store[k] # None => store[k].version <= fetch[r].reply.version
    BY <2>1 DEF ServiceInv, OwnInv, Own
  <2>4. fetch'[r].pc = "finish"
    BY <1>0, <1>2 DEF CallStore, Responded, FetchesTyped, FetchState
  <2> QED BY <2>1, <2>2, <2>3, <2>4 DEF Cache!Set, Cache!Stored
<1>3. CASE UNCHANGED store
  BY <1>3
<1> QED
  BY <1>1, <1>2, <1>3 DEF CallNext, CallLookup, CallServe, CallSend, CallFail, CallFinish

LEMMA OwnCall ==
    ASSUME ServiceInv, NEW r \in Requests, CallNext(r)
    PROVE  OwnInv'
<1>0. FetchesTyped /\ r \in Fetchers
  BY DEF ServiceInv, TypeInv
<1>1. \A q \in Requests \ {r} :
        fetch[q].pc \in {"looked", "sent", "replied"} =>
            fetch[q].key \in Keys /\ fetch[q].key # fetch[r].key
  <2>1. Running(r)
    BY DEF Running, CallNext, CallLookup, CallServe, CallSend, CallRevalidate,
           CallStore, CallFail, CallFinish
  <2> QED
    BY <1>0, <2>1, FetchFields DEF Running, ServiceInv, CallInv, CallGroup
<1>2. \A q \in Requests \ {r} :
        /\ fetch'[q] = fetch[q]
        /\ fetch[q].pc \in {"looked", "sent", "replied"} =>
              store'[fetch[q].key] \in {None, store[fetch[q].key]}
  <2>1. \A q \in Requests \ {r} : fetch'[q] = fetch[q]
    BY <1>0
    DEF CallNext, CallLookup, CallServe, CallSend, CallRevalidate, CallStore,
        CallFail, CallFinish, Responded, FetchesTyped
  <2> QED BY <1>1, <2>1, OwnWrite
<1>3. Own(r)'
  <2>1. CASE CallLookup(r)
    BY <1>0, <2>1 DEF CallLookup, FetchesTyped, FetchState, Own
  <2>2. CASE CallSend(r)
    BY <1>0, <2>2 DEF CallSend, FetchesTyped, FetchState, ServiceInv, OwnInv, Own
  <2>3. ASSUME NEW answer, Responded(r, answer) PROVE Own(r)'
    BY <1>0, <2>3 DEF Responded, FetchesTyped, FetchState, Own
  <2>4. CASE CallFinish(r)
    BY <1>0, <2>4 DEF CallFinish, FetchesTyped, FetchState, Own
  <2> QED
    BY <2>1, <2>2, <2>3, <2>4
    DEF CallNext, CallServe, CallRevalidate, CallStore, CallFail
<1> QED BY <1>2, <1>3, OwnStays DEF ServiceInv

LEMMA OwnStep ==
    ASSUME Workers = {} PROVE ServiceInv /\ [Next]_vars => OwnInv'
<1> SUFFICES ASSUME ServiceInv, [Next]_vars PROVE OwnInv'
  OBVIOUS
<1>1. CASE UNCHANGED vars
  BY <1>1, OwnStays DEF vars, ServiceInv
<1>2. CASE Environment
  BY <1>2, OwnStays DEF ServiceInv, Environment, Tick, UpstreamPublish
<1> QED
  BY <1>1, <1>2, OwnReply, OwnRequest, OwnCall DEF Next

LEMMA ServiceInvariant ==
    ASSUME Workers = {} PROVE Spec => []ServiceInv
<1>1. TypeInv /\ CallInv /\ CurrencyInv /\ OwnInv /\ [Next]_vars => OwnInv'
  BY OwnStep DEF ServiceInv
<1> QED
  BY <1>1, OwnInit, TypeInvariant, CallInvariant, CurrencyInvariant, PTL
  DEF Spec, ServiceInv

\* The lookup of a call is still right when upstream is asked: no other call
\* has stored the key since (service.go:176, 780-825).
THEOREM NoFetchIsWasted ==
    ASSUME Workers = {} PROVE Spec => NoWastedFetch
<1> DEFINE Wanted(r) == fetch[r].pc = "looked" /\ fetch'[r].pc = "sent" /\ ~fetch[r].forced
                            => ~Servable(store[fetch[r].key], now)
<1>1. ASSUME ServiceInv, Next, NEW r \in Requests PROVE Wanted(r)
  <2> SUFFICES ASSUME fetch[r].pc = "looked", fetch'[r].pc = "sent", ~fetch[r].forced
               PROVE  ~Servable(store[fetch[r].key], now)
    OBVIOUS
  <2>1. CallSend(r)
    <3>0. FetchesTyped
      BY <1>1 DEF ServiceInv, TypeInv
    <3>1. ASSUME NEW f \in Fetchers, UpstreamReply(f) PROVE FALSE
      BY <3>0, <3>1 DEF UpstreamReply, FetchesTyped, FetchState
    <3>2. ASSUME NEW q \in Requests,
                 Reject(q) \/ Lookup(q) \/ Cancel(q) \/ RequestAnswers(q)
          PROVE  FALSE
      BY <1>1, <3>2, OtherRequests
    <3>3. ASSUME NEW q \in Requests, CallNext(q) PROVE q = r /\ CallSend(r)
      <4>1. q = r
        BY <3>0, <3>3
        DEF CallNext, CallLookup, CallServe, CallSend, CallRevalidate, CallStore,
            CallFail, CallFinish, Responded, FetchesTyped
      <4>2. ~CallLookup(r) /\ ~CallFinish(r)
        BY DEF CallLookup, CallFinish
      <4>3. ASSUME NEW answer, Responded(r, answer) PROVE FALSE
        BY <3>0, <4>3 DEF Responded, FetchesTyped, FetchState
      <4> QED
        BY <3>3, <4>1, <4>2, <4>3
        DEF CallNext, CallServe, CallRevalidate, CallStore, CallFail
    <3>4. Environment => UNCHANGED fetch
      BY DEF Environment, Tick, UpstreamPublish
    <3> QED
      BY <1>1, <3>1, <3>2, <3>3, <3>4 DEF Next
  <2> QED
    BY <1>1, <2>1 DEF CallSend, ServiceInv, OwnInv, Own, Servable
<1>2. ServiceInv /\ [Next]_vars => [\A r \in Requests : Wanted(r)]_vars
  BY <1>1
<1> QED
  BY <1>2, ServiceInvariant, PTL DEF Spec, NoWastedFetch

\* Calls alone never put an older version back into the cache
\* (service.go:294-300, 344-347, 804-808).
THEOREM CallsMoveForward ==
    ASSUME Workers = {} PROVE Spec => StoreMovesForward
<1> DEFINE Forward(k) == store[k] # None /\ store'[k] # None
                            => store[k].version <= store'[k].version
<1>1. ASSUME ServiceInv, Next, NEW k \in Keys PROVE Forward(k)
  <2>1. store[k] # None => store[k].version \in Nat
    BY <1>1 DEF ServiceInv, TypeInv, CacheTyped, Record
  <2>2. CASE UNCHANGED store
    BY <2>1, <2>2
  <2>3. CASE \E r \in Requests : CallNext(r)
    BY <1>1, <2>1, <2>3, OwnWrite
  <2> QED
    BY <1>1, <2>2, <2>3, OtherRequests, ServiceAssumption
    DEF Next, Environment, Tick, UpstreamPublish, UpstreamReply
<1>2. ServiceInv /\ [Next]_vars => [\A k \in Keys : Forward(k)]_vars
  BY <1>1
<1> QED
  BY <1>2, ServiceInvariant, PTL DEF Spec, StoreMovesForward
=============================================================================
