SPECIFICATION FairConsumer
CONSTANTS
    Errors = {"dial", "nogroup"}
    InitialBackoff = 1
    MaxBackoff = 3
    ReportInterval = 2
    MaxTime = 3
    MaxAttempts = 3
    Consumers = {c1, c2}
    MaxMessages = 3
    Count = 2
    MaxFaults = 1
INVARIANTS LoopInv WithheldIsEquivalent GroupInv
PROPERTIES RecoverySummarisesOutage StopsOnCancel DeliversAtLeastOnce
CHECK_DEADLOCK FALSE
