CONSTANTS
    Regs = {1, 2}
    MaxFaults = 2
    Ids = {1, 2}
    MaxWrites = 3
    MaxBreaks = 1
    Capacity = 1
CHECK_DEADLOCK FALSE
SPECIFICATION FairRegistry
INVARIANTS RegistryInv
PROPERTIES Withdraws Announces Closes
