SPECIFICATION FairClient
CONSTANTS
    Callers = {c1, c2, c3}
    Threshold = 2
    Cooldown = 2
    MaxTime = 6
    RawAttempts <- MCRawAttempts
    RawBackoffs <- MCRawBackoffs
    DefaultInitial = 1
    DefaultMax = 2
    InitialCap = 2
    MaxCap = 3
    Timeout = 2
    RawBudgets = {0, 3}
    BodyLimit = 2
    BodySizes = {0, 2, 3}
CHECK_DEADLOCK FALSE
INVARIANTS BreakerInv HTTPInv NoBodyLeaks WithinBudget
PROPERTIES CooldownHonoured OnlyCurrentResultsCount ProbeSettles DoReturns
