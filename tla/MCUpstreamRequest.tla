------------------------- MODULE MCUpstreamRequest -------------------------
(***************************************************************************)
(* UpstreamRequest for TLC: URLs of an authenticated and of a plain host,  *)
(* two spellings of one of them, one with a pair that cannot be read, and  *)
(* URLs that are refused for their scheme, their host or their form.       *)
(***************************************************************************)
EXTENDS UpstreamRequest, TLC

CONSTANTS malformed, public, private

URL(scheme, host, query) ==
    [scheme |-> scheme, user |-> FALSE, host |-> host, port |-> "",
     path |-> "/releases", query |-> query]

Api      == URL("https", "api", <<"a=1", "b=2">>)
ApiAgain == [URL("HTTPS", "API", <<"b=2", "a;1", "a=1">>) EXCEPT !.port = "443"]
Raw      == URL("https", "raw", <<>>)
Plain    == URL("http", "api", <<>>)
Foreign  == URL("https", "other", <<>>)

Requested == {Api, ApiAgain, Raw, Plain}
Redirects == {Api, Raw, Plain, Foreign}

LowerCase ==
    [n \in {"https", "http", "api", "raw", "other"} |-> n]
        @@ ("HTTPS" :> "https") @@ ("API" :> "api")

PreparedRequests == [u \in URLs |-> prepareRequest(u)]
=============================================================================
