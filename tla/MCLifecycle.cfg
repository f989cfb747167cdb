CONSTANTS
    N = 2
    Servers = {"http", "pprof"}
    Databases = {"db1", "db2"}
    Files <- MCFiles
    Envs <- MCEnvs
    Layers <- MCLayers
SPECIFICATION FairSpec
INVARIANTS Inv PolicyFirst FailedNewLeaksNothing NothingLeftUp ResourcesOutliveUsers
PROPERTIES ShutdownCompletes
