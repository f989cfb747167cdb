CONSTANTS
    p = p
    q = q
    Clients = {c1, c2, c3}
    Max = 2
    Window = 1
    Capacity = 1
    MaxLag = 1
    Closers = {x, y}
    Sharers = {c1, c2}
    Requests = {r, s}
    KeyLife = 2
    MaxFaults = 1
    Calls = {p, q}
    Limit = 1
    MaxAttempts = 2
    LongestDeadline = 2
    Scenarios <- MCScenarios
CHECK_DEADLOCK FALSE
SPECIFICATION AdmissionSpec
INVARIANT StreamAnswered
