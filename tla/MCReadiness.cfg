SPECIFICATION FairSpec
CONSTANTS
    Probers = {p1, p2}
    Checks = {k1, k2}
    TTLs <- SmallTTLs
    DefaultTTL = 1
    MaxTime = 1
    MaxEvals = 2
    None = None
CHECK_DEADLOCK FALSE
INVARIANTS Inv ReadyIsEarned
PROPERTIES ProbesAnswered
