CONSTANTS
    None = None
    Keys = {k1}
    Workers = {w1, w2}
    Interval = 1
    Lookback = 1
    Pace = 2
    QueueSize = 1
    MaxRefresh = 1
SPECIFICATION FairSpec
INVARIANTS
    TypeOK
PROPERTIES
    ShutdownCompletes
