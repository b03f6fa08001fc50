CONSTANTS
    None = None
    Keys = {k1, k2}
    Workers = {w1, w2}
    Interval = 3
    Lookback = 1
    Pace = 1
    QueueSize = 2
    MaxRefresh = 1
SPECIFICATION Spec
SYMMETRY Symmetry
INVARIANTS
    KeepsUp
    NoJobTwice
PROPERTIES
    StaysActive
