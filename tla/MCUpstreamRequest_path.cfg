CONSTANTS
    None = None
    malformed = malformed
    Malformed = {malformed}
    public = public
    private = private
    URLs <- Requested
    Destinations <- Redirects
    Callers = {c1, c2}
    Prepared <- PreparedRequests
    maxEntries = 2
    UnreadablePairs = {"a;1"}
    ToLower <- LowerCase
    AllowedHosts = {"api", "raw"}
    AuthenticatedHosts = {"api"}
    Addresses = {public, private}
    PublicAddresses = {public}
    ClientTimeout = 1
SPECIFICATION FairRequestSpec
INVARIANTS
    WithinLimit
    Transparent
    ConnectsWhereChecked
    StaysWhereAllowed
    CredentialsStayHome
PROPERTY GetEnds
