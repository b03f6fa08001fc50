CONSTANTS
    None = None
    t1 = t1
    t2 = t2
    tokens <- TwoTokens
    Users = {u1, u2}
    Threshold = 4
    Cooldown = 1
    IndexModulus = 2
    Quota = 5
    MaxTime = 0
    MaxLost = 0
SPECIFICATION Spec
SYMMETRY Symmetry
INVARIANTS
    KeepsReserve
