CONSTANTS
    HardTTL = 1
    NegativeTTL = 1
    None = None
    Keys = {k1}
    Requests = {r1}
    Workers = {w1, w2}
    SendsETag = {TRUE, FALSE}
    Failures = {"error", "unreadable"}
    MaxVersion = 2
    MaxTime = 2
SPECIFICATION Spec
SYMMETRY Symmetry
INVARIANTS
    TypeOK
    RecordsWereCurrent
    
    RefreshExclusive
PROPERTIES
    AnswersWereCurrent
