CONSTANTS
    HardTTL = 1
    NegativeTTL = 1
    None = None
    Keys = {k1}
    Requests = {r1, r2, r3}
    Workers = {}
    SendsETag = {TRUE}
    Failures = {}
    MaxVersion = 1
    MaxTime = 1
SPECIFICATION Spec
INVARIANTS
    ForcedNeverServedFromCache
