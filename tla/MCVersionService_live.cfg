CONSTANTS
    HardTTL = 1
    NegativeTTL = 1
    None = None
    Keys = {k1}
    Requests = {r1, r2}
    Workers = {w1}
    SendsETag = {TRUE}
    Failures = {"timeout", "refused"}
    MaxVersion = 1
    MaxTime = 0
SPECIFICATION FairSpec
PROPERTIES
    EveryRequestAnswered
    EveryFetchEnds
