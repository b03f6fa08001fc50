CONSTANTS
    None = None
    t1 = t1
    t2 = t2
    tokens <- TwoTokens
    Users = {u1, u2}
    Threshold = 1
    Cooldown = 1
    IndexModulus = 3
    Quota = 2
    MaxTime = 2
    MaxLost = 1
SPECIFICATION Spec
SYMMETRY Symmetry
INVARIANTS
    TypeOK
PROPERTIES
    ChoosesBest
