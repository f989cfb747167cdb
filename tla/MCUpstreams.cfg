CONSTANTS
    Instances = {a, x}
    Accepted = {a}
    Grace = 2
    Resync = 2
    ChanCap = 2
    MayHang = TRUE
SPECIFICATION FairSpec
INVARIANTS Inv
PROPERTIES OutageOnlyShrinks Converges CloseReturns
