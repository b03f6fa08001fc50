---------------------------- MODULE UpstreamURL ----------------------------
(***************************************************************************)
(* What the service makes of a requested URL (url_validator.go, key.go,    *)
(* prepareRequest) and what the client makes of a destination (client.go). *)
(* A URL is the record of its parts as they were written; a query is the   *)
(* sequence of its name=value pairs. Fragments are never sent; a URL that  *)
(* ends in a bare ? is left out.                                           *)
(***************************************************************************)
EXTENDS FiniteSets, SequencesExt

CONSTANTS
    Malformed,              \* URLs that url.Parse refuses, or without a host
    UnreadablePairs,        \* pairs that url.ParseQuery skips: a;b, a=%zz
    ToLower,                \* ToLower[n]: the lower case of a scheme or host
    AllowedHosts,           \* {} allows every host
    AuthenticatedHosts

https == "https"

StandardPort(u) == u.port \in {"", "443"}

\* security.hostAllowed and Service.isAllowedHost agree on their host set.
HostAllowed(host) == AllowedHosts = {} \/ ToLower[host] \in AllowedHosts

parseHTTPSURL(u) ==
    u \notin Malformed /\ ToLower[u.scheme] = https /\ ~u.user /\ StandardPort(u)

Occurrences(query) ==
    [pair \in ToSet(query) \ UnreadablePairs |->
        Cardinality({i \in DOMAIN query : query[i] = pair})]

\* Two URLs have one cache key iff their normal forms are equal: Encode sorts
\* the pairs by name and value, so that it forgets their order, and Query has
\* dropped those it cannot read.
normalizeParsedURL(u) ==
    [scheme |-> ToLower[u.scheme], host |-> ToLower[u.host],
     port   |-> IF u.port = (IF ToLower[u.scheme] = https THEN "443" ELSE "80")
                THEN "" ELSE u.port,
     path   |-> IF u.path = "" THEN "/" ELSE u.path,
     query  |-> Occurrences(u.query)]

\* url.String writes the scheme in lower case and the rest as it was.
URLToFetch(u) == [u EXCEPT !.scheme = ToLower[@]]

Refused == [err |-> TRUE]

prepareRequest(u) ==
    IF parseHTTPSURL(u) /\ HostAllowed(u.host)
    THEN [err |-> FALSE, url |-> URLToFetch(u), key |-> normalizeParsedURL(u)]
    ELSE Refused

\* A redirect's destination has been parsed by net/http.
redirectURLAllowed(u) ==
    u.scheme = https /\ ~u.user /\ StandardPort(u) /\ HostAllowed(u.host)

shouldAuthenticate(u) == ToLower[u.host] \in AuthenticatedHosts
=============================================================================
