SPECIFICATION FairSpec
CONSTANTS
    Backends = {"etcd", "consul"}
    Written = {"d2", "vetoed", "startup", "bad", "absent"}
    MaxWrites = 2
    MaxFaults = 1
CHECK_DEADLOCK FALSE
INVARIANTS Inv
PROPERTIES NeverRollsBack Converges WatchersEnd
