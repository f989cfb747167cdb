CONSTANTS
    N = 0
    Servers = {"http"}
    Databases = {"db1"}
    Files <- MCFiles
    Envs <- MCEnvs
    Layers <- MCLayers
SPECIFICATION Spec
INVARIANTS RefusesOnlyInlineSecrets
