CONSTANTS
    Instances = {a}
    Accepted = {a}
    Grace = 2
    Resync = 2
    ChanCap = 1
    MayHang = TRUE
SPECIFICATION FairSpec
PROPERTIES
    FallbackExpires
