SPECIFICATION FairSpec
CONSTANTS
    f1 = f1  f2 = f2
    None = None
    Workers = {w1}
    Files = {f1}
    Tables = {t1}
    Builds = {b1, b2}
    Forcing = {FALSE}
    MaxFaults = 1
    MaxPublished = 0
    Configs <- MCTwoConfigs
    VersionOf <- MCVersionOf
PROPERTIES
    RebuildsAreDecided
    EveryFileIsBuilt
    FailedArtifactsAreRemoved
CHECK_DEADLOCK FALSE
