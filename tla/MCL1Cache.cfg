CONSTANTS
    None = None
    Keys = {k1, k2, k3, k4}
    small = small
    large = large
    oversized = oversized
    Records = {small, large, oversized}
    EntrySize <- SizeOf
    MaxUsageBytes = 4
SPECIFICATION Spec
INVARIANTS
    TypeOK
    WithinBudget
    RecencyMatches
PROPERTIES
    EvictsLeastRecentlyUsed
    EvictsNoMoreThanNeeded
    ImplementsCacheInterface
