SPECIFICATION Spec
CONSTANTS
    RawAttempts = {2}
    RawBackoffs = {0}
    DefaultInitial = 1
    DefaultMax = 2
    InitialCap = 2
    MaxCap = 3
    Timeout = 2
    RawBudgets = {0, 3}
    BodyLimit = 2
    BodySizes = {0, 2, 3}
INVARIANT BodyUsable
CHECK_DEADLOCK FALSE
