----------------------- MODULE UpstreamRequestProofs -----------------------
(***************************************************************************)
(* Where requests go, for any URLs, redirects, hosts, addresses and        *)
(* timeout. The callers' part follows from what the memo returns           *)
(* (RequestPrepCacheProofs); the client's from the checks at every hop and *)
(* every dial.                                                             *)
(***************************************************************************)
EXTENDS UpstreamRequest, RequestPrepCacheProofs, FunctionTheorems

\* Where a request may be on its way to.
Places ==
    {u \in {URLToFetch(v) : v \in Parsed} \cup Destinations : ~prepareRequest(u).err}

Fields == {"pc", "at", "auth", "resolved", "conn", "left", "reported"}

GetType ==
    /\ get = [c \in Callers |-> get[c]]
    /\ \A c \in Callers :
          /\ DOMAIN get[c] = Fields
          /\ get[c].at \in Places \cup {None}
          /\ get[c].resolved \subseteq PublicAddresses

PoolInv == pool \in [Hosts -> SUBSET PublicAddresses]

\* Between its Send and its Return a request is somewhere, with the credentials
\* of the host it was first sent to or with none.
HopInv ==
    \A c \in Callers :
        /\ InFlight(c) => get[c].at \in Places
        /\ get[c].pc \in {"sent", "answered"} => get[c].conn \in PublicAddresses
        /\ get[c].auth =>
              /\ get[c].pc \in {"dial", "connect", "sent", "answered"}
              /\ shouldAuthenticate(get[c].at)
              /\ HostOf(c) = ToLower[caller[c].result.url.host]

RequestInv == Inv /\ GetType /\ PoolInv /\ HopInv

-----------------------------------------------------------------------------

\* prepareRequest (service.go:443): the URL it writes down is kept in the record
\* and fetched again by later refreshes under the record's key, so it must be a
\* URL that is accepted as well, and that has itself and the same key for result.
THEOREM PreparingAgainChangesNothing ==
    ASSUME NEW u \in URLs, ~prepareRequest(u).err
    PROVE  prepareRequest(prepareRequest(u).url) = prepareRequest(u)
<1> DEFINE w == URLToFetch(u)
<1>1. parseHTTPSURL(u) /\ HostAllowed(u.host)
  BY DEF prepareRequest, Refused
<1>2. /\ u \in Parsed /\ ToLower[u.scheme] = https
      /\ prepareRequest(u) = [err |-> FALSE, url |-> w, key |-> normalizeParsedURL(u)]
  BY <1>1 DEF prepareRequest, parseHTTPSURL, Parsed
<1>3. /\ w.scheme = https /\ w.user = u.user /\ w.host = u.host
      /\ w.port = u.port /\ w.path = u.path /\ w.query = u.query
      /\ w \notin Malformed /\ ToLower[https] = https
  BY <1>2, ClientAssumption DEF URLToFetch
<1>4. parseHTTPSURL(w) /\ HostAllowed(w.host)
  BY <1>1, <1>3 DEF parseHTTPSURL, StandardPort
<1>5. URLToFetch(w) = w
  BY <1>2, <1>3 DEF URLToFetch
<1>6. normalizeParsedURL(w) = normalizeParsedURL(u)
  BY <1>2, <1>3 DEF normalizeParsedURL
<1>7. prepareRequest(w) = [err |-> FALSE, url |-> w, key |-> normalizeParsedURL(u)]
  BY <1>4, <1>5, <1>6 DEF prepareRequest
<1>8. prepareRequest(u).url = w
  BY <1>2
<1> QED
  BY <1>2, <1>7, <1>8

\* What prepareRequest accepts, it accepts again as it writes it.
LEMMA AcceptedIsPlace ==
    ASSUME NEW u \in URLs, ~prepareRequest(u).err
    PROVE  /\ prepareRequest(u).url \in Places
           /\ ToLower[prepareRequest(u).url.host] \in Hosts
<1> DEFINE w == URLToFetch(u)
<1>1. parseHTTPSURL(u) /\ HostAllowed(u.host)
  BY DEF prepareRequest, Refused
<1>2. u \in Parsed /\ prepareRequest(u).url = w
  BY <1>1 DEF prepareRequest, parseHTTPSURL, Parsed
<1>3. w.host = u.host
  BY <1>2, ClientAssumption DEF URLToFetch
<1>4. ~prepareRequest(w).err
  BY <1>2, PreparingAgainChangesNothing
<1> QED
  BY <1>2, <1>3, <1>4 DEF Places, Hosts

\* The redirect check lets through only what prepareRequest accepts.
LEMMA RedirectIsPlace ==
    ASSUME NEW u \in Destinations, redirectURLAllowed(u)
    PROVE  u \in Places
<1>1. parseHTTPSURL(u) /\ HostAllowed(u.host)
  BY ClientAssumption DEF redirectURLAllowed, parseHTTPSURL, Parsed
<1> QED
  BY <1>1 DEF prepareRequest, Places

LEMMA PlacesHaveHosts ==
    ASSUME NEW u \in Places PROVE ToLower[u.host] \in Hosts
<1>1. CASE u \in Destinations
  BY <1>1 DEF Hosts, Parsed
<1>2. ASSUME NEW v \in Parsed, u = URLToFetch(v) PROVE ToLower[u.host] \in Hosts
  BY <1>2, ClientAssumption DEF URLToFetch, Hosts
<1> QED
  BY <1>1, <1>2 DEF Places

-----------------------------------------------------------------------------
(* Which URLs share a cache key.                                           *)

\* Where the pairs that can be read stand in the query q, and where the pair x.
Readable(q) == {i \in DOMAIN q : q[i] \notin UnreadablePairs}
PositionsOf(q, x) == {i \in DOMAIN q : q[i] = x}

\* q holds the readable pairs of p, each as often as p, in some order.
Reordered(p, q) ==
    \E f \in Bijection(Readable(p), Readable(q)) :
        \A i \in Readable(p) : q[f[i]] = p[i]

ReadablePairs(q) == ToSet(q) \ UnreadablePairs

LEMMA ReorderedHasSameOccurrences ==
    ASSUME NEW p, NEW q, IsFiniteSet(DOMAIN p), Reordered(p, q)
    PROVE  Occurrences(p) = Occurrences(q)
<1>1. PICK f \in Bijection(Readable(p), Readable(q)) :
        \A i \in Readable(p) : q[f[i]] = p[i]
  BY DEF Reordered
<1>2. /\ f \in [Readable(p) -> Readable(q)]
      /\ \A i, j \in Readable(p) : f[i] = f[j] => i = j
      /\ \A j \in Readable(q) : \E i \in Readable(p) : f[i] = j
  BY <1>1, Fun_BijectionProperties
<1>3. ReadablePairs(p) = ReadablePairs(q)
  <2>1. ASSUME NEW x
        PROVE  /\ x \in ReadablePairs(p) <=> \E i \in Readable(p) : p[i] = x
               /\ x \in ReadablePairs(q) <=> \E i \in Readable(q) : q[i] = x
    BY DEF ReadablePairs, Readable, ToSet
  <2>2. ASSUME NEW x \in ReadablePairs(p) PROVE x \in ReadablePairs(q)
    <3>1. PICK i \in Readable(p) : p[i] = x
      BY <2>1, <2>2
    <3> QED BY <1>1, <1>2, <2>1, <3>1
  <2>3. ASSUME NEW x \in ReadablePairs(q) PROVE x \in ReadablePairs(p)
    <3>1. PICK j \in Readable(q) : q[j] = x
      BY <2>1, <2>3
    <3>2. PICK i \in Readable(p) : f[i] = j
      BY <1>2, <3>1
    <3> QED BY <1>1, <2>1, <3>1, <3>2
  <2> QED
    BY <2>2, <2>3
<1>4. ASSUME NEW x \in ReadablePairs(p)
      PROVE  Cardinality(PositionsOf(p, x)) = Cardinality(PositionsOf(q, x))
  <2> DEFINE P == PositionsOf(p, x)
             Q == PositionsOf(q, x)
             g == [i \in P |-> f[i]]
  <2>0. P \subseteq Readable(p) /\ Q \subseteq Readable(q)
    BY DEF PositionsOf, Readable, ReadablePairs
  <2>1. g \in [P -> Q]
    BY <1>1, <1>2, <2>0 DEF PositionsOf, Readable
  <2>2. \A i, j \in P : g[i] = g[j] => i = j
    BY <1>2, <2>0
  <2>3. \A j \in Q : \E i \in P : g[i] = j
    BY <1>1, <1>2, <2>0 DEF PositionsOf, Readable
  <2>4. g \in Bijection(P, Q)
    <3> HIDE DEF g, P, Q
    <3> QED BY <2>1, <2>2, <2>3, Fun_IsBij
  <2>5. IsFiniteSet(P)
    BY FS_Subset DEF PositionsOf
  <2> QED
    BY <2>4, <2>5, FS_Bijection DEF ExistsBijection
<1> QED
  BY <1>3, <1>4 DEF Occurrences, PositionsOf, ReadablePairs

\* The positions of each pair are matched on their own.
LEMMA SameOccurrencesIsReordered ==
    ASSUME NEW p, NEW q, IsFiniteSet(DOMAIN p), IsFiniteSet(DOMAIN q),
           Occurrences(p) = Occurrences(q)
    PROVE  Reordered(p, q)
<1> DEFINE Match(x) == Bijection(PositionsOf(p, x), PositionsOf(q, x))
           m == [x \in ReadablePairs(p) |-> CHOOSE g \in Match(x) : TRUE]
           f == [i \in Readable(p) |-> m[p[i]][i]]
<1>1. ReadablePairs(p) = ReadablePairs(q)
  BY DEF Occurrences, ReadablePairs
<1>2. ASSUME NEW x \in ReadablePairs(p)
      PROVE  m[x] \in Match(x)
  <2>1. Cardinality(PositionsOf(p, x)) = Cardinality(PositionsOf(q, x))
    <3>1. Occurrences(p)[x] = Occurrences(q)[x]
      OBVIOUS
    <3> QED BY <1>1, <3>1 DEF Occurrences, PositionsOf, ReadablePairs
  <2>2. IsFiniteSet(PositionsOf(p, x)) /\ IsFiniteSet(PositionsOf(q, x))
    BY FS_Subset DEF PositionsOf
  <2>3. Match(x) # {}
    BY <2>1, <2>2, FS_SameCardinalityBij DEF ExistsBijection
  <2> QED
    BY <2>3
<1> HIDE DEF m
<1>3. ASSUME NEW x \in ReadablePairs(p)
      PROVE  /\ m[x] \in [PositionsOf(p, x) -> PositionsOf(q, x)]
             /\ \A i, j \in PositionsOf(p, x) : m[x][i] = m[x][j] => i = j
             /\ \A j \in PositionsOf(q, x) :
                  \E i \in PositionsOf(p, x) : m[x][i] = j
  BY <1>2, Fun_BijectionProperties
<1>4. \A i \in Readable(p) : p[i] \in ReadablePairs(p) /\ i \in PositionsOf(p, p[i])
  BY DEF ToSet, PositionsOf, Readable, ReadablePairs
<1>5. \A i \in Readable(p) : f[i] \in PositionsOf(q, p[i])
  BY <1>3, <1>4
<1>6. /\ f \in [Readable(p) -> Readable(q)]
      /\ \A i \in Readable(p) : q[f[i]] = p[i]
  BY <1>5 DEF PositionsOf, Readable
<1>7. ASSUME NEW i \in Readable(p), NEW j \in Readable(p), f[i] = f[j]
      PROVE  i = j
  <2>1. p[i] = p[j]
    BY <1>6, <1>7
  <2> QED
    BY <1>3, <1>4, <1>7, <2>1
<1>8. ASSUME NEW j \in Readable(q)
      PROVE  \E i \in Readable(p) : f[i] = j
  <2>1. q[j] \in ReadablePairs(p) /\ j \in PositionsOf(q, q[j])
    BY <1>1 DEF ToSet, PositionsOf, Readable, ReadablePairs
  <2>2. PICK i \in PositionsOf(p, q[j]) : m[q[j]][i] = j
    BY <1>3, <2>1
  <2> QED
    BY <2>2 DEF PositionsOf, Readable
<1>9. f \in Bijection(Readable(p), Readable(q))
  <2> HIDE DEF f
  <2> QED BY <1>6, <1>7, <1>8, Fun_IsBij
<1> QED
  BY <1>6, <1>9 DEF Reordered

RootIfEmpty(path) == IF path = "" THEN "/" ELSE path

\* normalizeParsedURL (key.go:57): of two accepted URLs the keys are equal iff
\* they name the same host in any case, the same path, where an empty one is the
\* root, and the same pairs in the query in any order. Pairs that cannot be read
\* do not count, although they are sent upstream: URLs that differ in nothing
\* else share a record.
THEOREM KeysAreSharedBySpellings ==
    ASSUME NEW u \in URLs, NEW v \in URLs,
           ~prepareRequest(u).err, ~prepareRequest(v).err,
           IsFiniteSet(DOMAIN u.query), IsFiniteSet(DOMAIN v.query)
    PROVE  prepareRequest(u).key = prepareRequest(v).key
             <=> /\ ToLower[u.host] = ToLower[v.host]
                 /\ RootIfEmpty(u.path) = RootIfEmpty(v.path)
                 /\ Reordered(u.query, v.query)
<1> DEFINE NormalForm(w) ==
             [scheme |-> https, host |-> ToLower[w.host], port |-> "",
              path |-> RootIfEmpty(w.path), query |-> Occurrences(w.query)]
<1>1. ASSUME NEW w \in URLs, ~prepareRequest(w).err
      PROVE  prepareRequest(w).key = NormalForm(w)
  <2>1. parseHTTPSURL(w) /\ HostAllowed(w.host)
    BY <1>1 DEF prepareRequest, Refused
  <2>2. prepareRequest(w).key = normalizeParsedURL(w)
    BY <2>1 DEF prepareRequest
  <2>3. ToLower[w.scheme] = https /\ StandardPort(w)
    BY <2>1 DEF parseHTTPSURL
  <2>4. (IF w.port = (IF ToLower[w.scheme] = https THEN "443" ELSE "80")
         THEN "" ELSE w.port) = ""
    BY <2>3, Zenon DEF StandardPort
  <2> QED
    BY <2>2, <2>3, <2>4, Zenon DEF normalizeParsedURL, RootIfEmpty
<1>2. prepareRequest(u).key = prepareRequest(v).key
        <=> NormalForm(u) = NormalForm(v)
  BY <1>1
<1>3. NormalForm(u) = NormalForm(v)
        <=> /\ ToLower[u.host] = ToLower[v.host]
            /\ RootIfEmpty(u.path) = RootIfEmpty(v.path)
            /\ Occurrences(u.query) = Occurrences(v.query)
  BY Zenon
<1>4. Occurrences(u.query) = Occurrences(v.query)
        <=> Reordered(u.query, v.query)
  BY ReorderedHasSameOccurrences, SameOccurrencesIsReordered
<1> QED
  BY <1>2, <1>3, <1>4

-----------------------------------------------------------------------------

LEMMA PlacesAreConstant == UNCHANGED <<Places, Hosts>>
BY DEF Places, Hosts, Parsed, URLToFetch, prepareRequest, parseHTTPSURL, HostAllowed,
       StandardPort, Refused, normalizeParsedURL, Occurrences, ToSet, https

LEMMA RequestInvInit == RequestInit => RequestInv
<1> SUFFICES ASSUME RequestInit PROVE RequestInv
  OBVIOUS
<1>1. Inv
  BY InvInit DEF RequestInit
<1>2. PoolInv
  BY DEF RequestInit, PoolInv
<1>3. get = [c \in Callers |-> NoGet]
  BY DEF RequestInit
<1>4. /\ NoGet.pc = "idle" /\ NoGet.at = None /\ ~NoGet.auth /\ NoGet.resolved = {}
      /\ DOMAIN NoGet = Fields
  BY DEF NoGet, Fields
<1> HIDE DEF NoGet
<1>5. get = [c \in Callers |-> get[c]] /\ \A c \in Callers : get[c] = NoGet
  BY <1>3
<1>6. GetType
  BY <1>4, <1>5 DEF GetType
<1>7. HopInv
  BY <1>4, <1>5 DEF HopInv, InFlight
<1> QED
  BY <1>1, <1>2, <1>6, <1>7 DEF RequestInv

\* Every step of the client leaves the memo alone, and Prepare is a step of it.
LEMMA MemoStep == [RequestNext]_allVars => [Next]_vars
<1> SUFFICES ASSUME [RequestNext]_allVars PROVE [Next]_vars
  OBVIOUS
<1>1. ASSUME NEW c \in Callers, Prepare(c) PROVE Next
  BY <1>1 DEF Prepare, Next
<1>2. ASSUME NEW c \in Callers, Send(c) \/ Return(c) \/ Tick(c) PROVE UNCHANGED vars
  BY <1>2 DEF Send, Return, Tick
<1>3. ASSUME NEW c \in Callers, Step(c) PROVE UNCHANGED vars
  <2>1. CASE Connect(c) \/ Reuse(c)
    BY <2>1 DEF Connect, Reuse, Connected
  <2>2. CASE Resolve(c) \/ Redirect(c) \/ Answered(c) \/ TimedOut(c)
    BY <2>2 DEF Resolve, Redirect, Answered, TimedOut
  <2> QED
    BY <1>3, <2>1, <2>2 DEF Step
<1>4. CASE ConnectionCloses \/ UNCHANGED allVars
  BY <1>4 DEF ConnectionCloses, allVars
<1> QED
  BY <1>1, <1>2, <1>3, <1>4 DEF RequestNext

\* The client's part of the invariant in the next state, caller by caller.
LEMMA PrepareKeeps ==
    ASSUME RequestInv, NEW c \in Callers, Prepare(c)
    PROVE  GetType' /\ PoolInv' /\ HopInv'
<1>1. UNCHANGED requestVars
  BY DEF Prepare
<1>2. \A d \in Callers : d # c => caller'[d] = caller[d]
  BY DEF Prepare, Store, Lookup, Returns, RequestInv, Inv, CallersInv
<1>3. GetType' /\ PoolInv'
  BY <1>1, PlacesAreConstant DEF requestVars, RequestInv, GetType, PoolInv
<1>4. get[c].pc = "idle"
  BY DEF Prepare
<1>5. HopInv'
  BY <1>1, <1>2, <1>4, PlacesAreConstant DEF requestVars, RequestInv, HopInv, InFlight, HostOf,
                          shouldAuthenticate
<1> QED
  BY <1>3, <1>5

LEMMA SendKeeps ==
    ASSUME RequestInv, NEW c \in Callers, Send(c)
    PROVE  GetType' /\ PoolInv' /\ HopInv'
<1> DEFINE prepared == caller[c].result
<1>1. caller[c].url \in URLs /\ prepared = prepareRequest(caller[c].url)
  BY ClientAssumption DEF Send, RequestInv, Inv, CallersInv, Transparent
<1>2. prepared.url \in Places
  BY <1>1, AcceptedIsPlace DEF Send
<1>3. UNCHANGED <<caller, pool>>
  BY DEF Send, vars
<1>4. GetType'
  BY <1>2, ClientAssumption, PlacesAreConstant
     DEF Send, NoGet, RequestInv, GetType, Fields, shouldAuthenticate
<1>5. ASSUME NEW d \in Callers, d # c PROVE get'[d] = get[d]
  BY <1>5 DEF Send, RequestInv, GetType
<1>6. get'[c] = [NoGet EXCEPT !.pc = "dial", !.at = prepared.url,
                              !.auth = shouldAuthenticate(prepared.url),
                              !.left = ClientTimeout]
  BY DEF Send, RequestInv, GetType
<1>7. /\ get'[c].pc = "dial" /\ get'[c].at = prepared.url
      /\ get'[c].auth = shouldAuthenticate(prepared.url)
  BY <1>6 DEF NoGet
<1>8. HopInv'
  <2> SUFFICES ASSUME NEW d \in Callers
               PROVE  /\ InFlight(d)' => get'[d].at \in Places
                      /\ get'[d].pc \in {"sent", "answered"} =>
                            get'[d].conn \in PublicAddresses
                      /\ get'[d].auth =>
                            /\ get'[d].pc \in {"dial", "connect", "sent", "answered"}
                            /\ shouldAuthenticate(get'[d].at)
                            /\ HostOf(d)' = ToLower[caller[d].result.url.host]
    BY <1>3, PlacesAreConstant DEF HopInv, shouldAuthenticate
  <2>1. CASE d = c
    BY <1>2, <1>7, <2>1 DEF InFlight, HostOf
  <2>2. CASE d # c
    BY <1>5, <2>2 DEF RequestInv, HopInv, InFlight, HostOf
  <2> QED
    BY <2>1, <2>2
<1> QED
  BY <1>3, <1>4, <1>8, PlacesAreConstant DEF RequestInv, PoolInv

LEMMA ConnectedKeeps ==
    ASSUME RequestInv, NEW c \in Callers, InFlight(c),
           NEW address \in PublicAddresses, Connected(c, address)
    PROVE  GetType' /\ PoolInv' /\ HopInv'
<1> USE PlacesAreConstant
<1>1. get[c].at \in Places /\ HostOf(c) \in Hosts
  BY PlacesHaveHosts DEF RequestInv, HopInv, HostOf
<1>2. GetType' /\ HopInv'
  BY <1>1 DEF Connected, RequestInv, GetType, Fields, HopInv, InFlight, HostOf, vars,
              shouldAuthenticate
<1>3. PoolInv'
  BY <1>1 DEF Connected, RequestInv, PoolInv
<1> QED
  BY <1>2, <1>3

\* The other actions change get[c], and pool only with a checked address.
LEMMA StepKeeps ==
    ASSUME RequestInv, NEW c \in Callers, Step(c) \/ Return(c) \/ Tick(c)
    PROVE  GetType' /\ PoolInv' /\ HopInv'
<1> USE PlacesAreConstant DEF RequestInv, GetType, Fields, PoolInv, HopInv, InFlight, HostOf, vars,
           shouldAuthenticate
<1>1. CASE Resolve(c)
  BY <1>1, ClientAssumption DEF Resolve, Failed, NoGet
<1>2. CASE Connect(c)
  <2>1. ASSUME NEW address \in get[c].resolved, Connected(c, address)
        PROVE  GetType' /\ PoolInv' /\ HopInv'
    BY <1>2, <2>1, ConnectedKeeps DEF Connect
  <2>2. CASE Failed(c) /\ UNCHANGED <<vars, pool>>
    BY <2>2 DEF Failed, NoGet
  <2> QED
    BY <1>2, <2>1, <2>2 DEF Connect
<1>3. CASE Reuse(c)
  <2>1. HostOf(c) \in Hosts
    BY <1>3, PlacesHaveHosts DEF Reuse
  <2> QED
    BY <1>3, <2>1, ConnectedKeeps DEF Reuse
<1>4. CASE Redirect(c)
  <2>1. ASSUME NEW destination \in Destinations, redirectURLAllowed(destination),
               RedirectedTo(c, destination, get[c].left), UNCHANGED <<vars, pool>>
        PROVE  GetType' /\ PoolInv' /\ HopInv'
    <3>1. destination \in Places
      BY <2>1, RedirectIsPlace
    <3>2. ASSUME NEW d \in Callers, d # c PROVE get'[d] = get[d]
      BY <2>1, <3>2 DEF RedirectedTo
    <3>3. get'[c] = [NoGet EXCEPT !.pc = "dial", !.at = destination,
                                  !.auth = Forwarded(c, destination),
                                  !.left = get[c].left]
      BY <2>1 DEF RedirectedTo
    <3>4. Forwarded(c, destination) => shouldAuthenticate(destination)
      BY DEF Forwarded
    <3>5. GetType' /\ PoolInv'
      BY <2>1, <3>1, <3>2, <3>3 DEF NoGet, RedirectedTo, RequestInv, GetType, Fields, PoolInv
    <3>6. /\ get'[c].pc = "dial" /\ get'[c].at = destination
          /\ get'[c].auth => /\ shouldAuthenticate(destination)
                             /\ ToLower[destination.host] = ToLower[caller[c].result.url.host]
      BY <3>3, <3>4 DEF NoGet, Forwarded
    <3>7. UNCHANGED caller
      BY <2>1 DEF vars
    <3> HIDE DEF shouldAuthenticate
    <3>8. HopInv'
      BY <3>1, <3>2, <3>6, <3>7 DEF RequestInv, HopInv, InFlight, HostOf
    <3> QED
      BY <3>5, <3>8
  <2> QED
    BY <1>4, <2>1 DEF Redirect, Failed, NoGet
<1>5. CASE Answered(c)
  BY <1>5 DEF Answered
<1>6. CASE TimedOut(c)
  BY <1>6, ClientAssumption DEF TimedOut, Failed, NoGet
<1>7. CASE Return(c)
  BY <1>7, ClientAssumption DEF Return, NoGet
<1>8. CASE Tick(c)
  BY <1>8, ClientAssumption DEF Tick
<1> QED
  BY <1>1, <1>2, <1>3, <1>4, <1>5, <1>6, <1>7, <1>8 DEF Step

LEMMA RequestInvStep == RequestInv /\ [RequestNext]_allVars => RequestInv'
<1> SUFFICES ASSUME RequestInv, [RequestNext]_allVars PROVE RequestInv'
  OBVIOUS
<1>1. Inv'
  BY MemoStep, InvStep DEF RequestInv
<1>2. ASSUME NEW c \in Callers, Prepare(c) \/ Send(c) \/ Step(c) \/ Return(c) \/ Tick(c)
      PROVE  RequestInv'
  BY <1>1, <1>2, PrepareKeeps, SendKeeps, StepKeeps DEF RequestInv
<1>3. CASE ConnectionCloses
  BY PlacesAreConstant, <1>1, <1>3 DEF ConnectionCloses, vars, RequestInv, GetType, PoolInv, HopInv,
                    InFlight, HostOf, shouldAuthenticate
<1>4. CASE UNCHANGED allVars
  BY PlacesAreConstant, <1>1, <1>4 DEF allVars, vars, requestVars, RequestInv, GetType, PoolInv, HopInv,
                    InFlight, HostOf, shouldAuthenticate
<1> QED
  BY <1>2, <1>3, <1>4 DEF RequestNext

LEMMA RequestInvariant == RequestSpec => []RequestInv
BY RequestInvInit, RequestInvStep, PTL DEF RequestSpec

\* Requests use the memo as its callers do: what is proved of the memo alone
\* holds in the whole (service.go:433-441).
THEOREM RequestsUseTheMemo == RequestSpec => Spec
<1>1. RequestInit => Init
  BY DEF RequestInit
<1> QED
  BY <1>1, MemoStep, PTL DEF RequestSpec, Spec

\* So the memo is bounded and invisible however its callers send, follow
\* redirects and time out (request_prep_cache.go:45-66).
THEOREM RequestsSeeNoMemo == RequestSpec => [](WithinLimit /\ Transparent)
BY RequestsUseTheMemo, MemoIsBounded, MemoIsTransparent, PTL

\* A request goes to addresses that were public when they were resolved
\* (client.go:157-185).
THEOREM ConnectionsWereChecked == RequestSpec => []ConnectsWhereChecked
<1>1. RequestInv => ConnectsWhereChecked
  BY DEF RequestInv, GetType, HopInv, ConnectsWhereChecked
<1> QED
  BY <1>1, RequestInvariant, PTL

\* No redirect leads where prepareRequest would not (client.go:81-99).
THEOREM RedirectsStayAllowed == RequestSpec => []StaysWhereAllowed
<1>1. RequestInv => StaysWhereAllowed
  BY DEF RequestInv, GetType, Places, StaysWhereAllowed
<1> QED
  BY <1>1, RequestInvariant, PTL

\* Credentials are sent to authenticated hosts only (client.go:108, 149-155).
THEOREM CredentialsStayAtHome == RequestSpec => []CredentialsStayHome
<1>1. RequestInv => CredentialsStayHome
  BY DEF RequestInv, HopInv, CredentialsStayHome
<1> QED
  BY <1>1, RequestInvariant, PTL
=============================================================================
