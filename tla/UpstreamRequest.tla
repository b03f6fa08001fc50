-------------------------- MODULE UpstreamRequest --------------------------
(***************************************************************************)
(* A request from its URL to upstream's answer: prepared through the memo  *)
(* (RequestPrepCache), sent by the client (internal/upstream/github        *)
(* /client.go) to an address that was resolved and checked, redirected any *)
(* number of times, and reported to the token provider.                    *)
(***************************************************************************)
EXTENDS RequestPrepCache, UpstreamURL

CONSTANTS
    Destinations,           \* where upstream may redirect to
    Addresses, PublicAddresses,
    ClientTimeout           \* http.Client.Timeout, in ticks

\* What url.String writes, and net/http follows, has been parsed.
Parsed == (URLs \ Malformed) \cup Destinations

ASSUME ClientAssumption ==
    /\ Prepared = [u \in URLs |-> prepareRequest(u)]
    /\ \A u \in Parsed : /\ DOMAIN u = {"scheme", "user", "host", "port", "path", "query"}
                        /\ u \notin Malformed /\ URLToFetch(u) \notin Malformed
    /\ ToLower[https] = https
    /\ PublicAddresses \subseteq Addresses
    /\ ClientTimeout \in Nat \ {0}

VARIABLES
    get,        \* get[c]: the Client.Get of the caller
    pool        \* pool[h]: addresses of connections kept open to the host

requestVars == <<get, pool>>
allVars == <<vars, requestVars>>

Hosts == {ToLower[u.host] : u \in Parsed}

NoGet == [pc |-> "idle", at |-> None, auth |-> FALSE, resolved |-> {},
          conn |-> None, left |-> 0, reported |-> FALSE]

RequestInit ==
    /\ Init
    /\ get = [c \in Callers |-> NoGet]
    /\ pool = [h \in Hosts |-> {}]

HostOf(c) == ToLower[get[c].at.host]

Prepare(c) ==
    /\ get[c].pc = "idle"
    /\ Store(c) \/ \E u \in URLs : Lookup(c, u)
    /\ UNCHANGED requestVars

\* Seeded fault: every request is authenticated.
FaultySend(c) ==
    LET prepared == caller[c].result
    IN  /\ get[c].pc = "idle" /\ caller[c].pc = "done"
        /\ caller[c].url # None /\ ~prepared.err
        /\ get' = [get EXCEPT ![c] =
                     [NoGet EXCEPT !.pc = "dial", !.at = prepared.url,
                                   !.auth = TRUE, !.left = ClientTimeout]]
        /\ UNCHANGED <<vars, pool>>

\* Client.Get for a URL that was accepted; its timeout covers all that follows.
Send(c) ==
    LET prepared == caller[c].result
    IN  /\ get[c].pc = "idle" /\ caller[c].pc = "done"
        /\ caller[c].url # None /\ ~prepared.err
        /\ get' = [get EXCEPT ![c] =
                     [NoGet EXCEPT !.pc = "dial", !.at = prepared.url,
                                   !.auth = shouldAuthenticate(prepared.url),
                                   !.left = ClientTimeout]]
        /\ UNCHANGED <<vars, pool>>

Failed(c) == get' = [get EXCEPT ![c] = [NoGet EXCEPT !.pc = "failed"]]

\* The resolver's answer of the moment: a host moves at any time.
LookupIPAddr == SUBSET Addresses

\* safeDialContext: one address that is not public refuses the host.
Resolve(c) ==
    /\ get[c].pc = "dial"
    /\ \E found \in LookupIPAddr :
          IF found # {} /\ found \subseteq PublicAddresses
          THEN get' = [get EXCEPT ![c].pc = "connect", ![c].resolved = found]
          ELSE Failed(c)
    /\ UNCHANGED <<vars, pool>>

Connected(c, address) ==
    /\ get' = [get EXCEPT ![c].pc = "sent", ![c].conn = address, ![c].resolved = {}]
    /\ pool' = [pool EXCEPT ![HostOf(c)] = @ \cup {address}]
    /\ UNCHANGED vars

\* Seeded fault: the dialer is given the name and resolves it once more.
FaultyConnect(c) ==
    /\ get[c].pc = "connect"
    /\ \/ \E found \in LookupIPAddr : \E address \in found : Connected(c, address)
       \/ Failed(c) /\ UNCHANGED <<vars, pool>>

\* The resolved addresses are dialled in turn: any of them, or none, answers.
Connect(c) ==
    /\ get[c].pc = "connect"
    /\ \/ \E address \in get[c].resolved : Connected(c, address)
       \/ Failed(c) /\ UNCHANGED <<vars, pool>>

\* The transport prefers a connection that was kept open.
Reuse(c) ==
    /\ get[c].pc = "dial"
    /\ \E address \in pool[HostOf(c)] : Connected(c, address)

\* The final response; the service reports a readable remaining quota, and a
\* status that throttles, under the token it was given for this request.
Answered(c) ==
    /\ get[c].pc = "sent"
    /\ \E reported \in BOOLEAN :
          get' = [get EXCEPT ![c].pc = "answered", ![c].reported = reported]
    /\ UNCHANGED <<vars, pool>>

\* net/http sends the headers of the first request again, and leaves out the
\* credentials at another host. (No allowed host is a subdomain of another.)
Forwarded(c, destination) ==
    get[c].auth /\ ToLower[destination.host] = ToLower[caller[c].result.url.host]

RedirectedTo(c, destination, left) ==
    get' = [get EXCEPT ![c] =
              [NoGet EXCEPT !.pc = "dial", !.at = destination,
                            !.auth = Forwarded(c, destination), !.left = left]]

\* Seeded fault: only the host of a destination is looked at.
FaultyRedirect(c) ==
    /\ get[c].pc = "sent"
    /\ \E destination \in Destinations :
          IF HostAllowed(destination.host)
          THEN RedirectedTo(c, destination, get[c].left)
          ELSE Failed(c)
    /\ UNCHANGED <<vars, pool>>

\* Seeded fault: every hop has a timeout of its own.
UntimedRedirect(c) ==
    /\ get[c].pc = "sent"
    /\ \E destination \in Destinations :
          IF redirectURLAllowed(destination)
          THEN RedirectedTo(c, destination, ClientTimeout)
          ELSE Failed(c)
    /\ UNCHANGED <<vars, pool>>

\* The validator replaces net/http's limit of ten redirects.
Redirect(c) ==
    /\ get[c].pc = "sent"
    /\ \E destination \in Destinations :
          IF redirectURLAllowed(destination)
          THEN RedirectedTo(c, destination, get[c].left)
          ELSE Failed(c)
    /\ UNCHANGED <<vars, pool>>

InFlight(c) == get[c].pc \in {"dial", "connect", "sent"}

TimedOut(c) ==
    /\ InFlight(c) /\ get[c].left = 0
    /\ Failed(c)
    /\ UNCHANGED <<vars, pool>>

\* The caller has its answer and turns to its next request.
Return(c) ==
    /\ get[c].pc \in {"failed", "answered"}
    /\ get' = [get EXCEPT ![c] = NoGet]
    /\ UNCHANGED <<vars, pool>>

-----------------------------------------------------------------------------

Tick(c) ==
    /\ InFlight(c) /\ get[c].left > 0
    /\ get' = [get EXCEPT ![c].left = @ - 1]
    /\ UNCHANGED <<vars, pool>>

\* Idle connections are closed.
ConnectionCloses ==
    /\ \E h \in Hosts : \E address \in pool[h] :
          pool' = [pool EXCEPT ![h] = @ \ {address}]
    /\ UNCHANGED <<vars, get>>

Step(c) == Resolve(c) \/ Connect(c) \/ Reuse(c) \/ Redirect(c) \/ Answered(c) \/ TimedOut(c)

RequestNext ==
    \/ \E c \in Callers : Prepare(c) \/ Send(c) \/ Step(c) \/ Return(c) \/ Tick(c)
    \/ ConnectionCloses

RequestSpec == RequestInit /\ [][RequestNext]_allVars

\* Time passes for a request in flight, and its timer fires.
FairRequestSpec ==
    RequestSpec /\ \A c \in Callers : WF_allVars(Tick(c)) /\ WF_allVars(TimedOut(c))

-----------------------------------------------------------------------------

\* A request is on its way only to an address that was public when it was
\* resolved, also after the host has moved (client.go:157-185).
ConnectsWhereChecked ==
    \A c \in Callers : get[c].pc \in {"sent", "answered"} =>
        get[c].conn \in PublicAddresses

\* Wherever redirects lead and whoever prepared the URL, a request is only ever
\* sent to what prepareRequest accepts (README.md:12-15).
StaysWhereAllowed ==
    \A c \in Callers : get[c].at # None => ~prepareRequest(get[c].at).err

\* Credentials go to the authenticated hosts only, on every hop (README.md:16).
CredentialsStayHome ==
    \A c \in Callers : get[c].auth => shouldAuthenticate(get[c].at)

\* A chain of redirects ends: one timeout covers all hops (client.go:58-63).
GetEnds == \A c \in Callers : InFlight(c) ~> ~InFlight(c)

\* What is reported about a token was said of a request that carried it: its
\* remaining quota is "for a token" (token_provider.go:100).
ReportsAreOfTheToken ==
    \A c \in Callers : get[c].reported => get[c].auth
=============================================================================
