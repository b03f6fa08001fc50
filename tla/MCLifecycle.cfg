CONSTANTS
    None = None
    r1 = r1
    r2 = r2
    r3 = r3
    Requests = {r1, r2, r3}
    requestLogQueueSize = 1
    Timeout = 2
    SignalWhileStarting = FALSE
SPECIFICATION FairSpec
CHECK_DEADLOCK FALSE
INVARIANTS
    TypeOK
    NeverSendsOnClosedLog
    OnlyLateLinesAreLost
    NothingAbandonedEarly
    WithinTimeout
    CleanExitMeansDrained
PROPERTY ShutdownEnds
