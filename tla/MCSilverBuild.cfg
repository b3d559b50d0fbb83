SPECIFICATION Spec
CONSTANTS
    f1 = f1  f2 = f2
    None = None
    Workers = {w1, w2}
    Files = {f1}
    Tables = {t1}
    Builds = {b1, b2}
    Forcing = {FALSE, TRUE}
    MaxFaults = 1
    MaxPublished = 1
    Configs <- MCOneConfig
    VersionOf <- MCVersionOf
SYMMETRY Symmetric
INVARIANTS
    BuildsAreConsistent
PROPERTIES
    OnlyFailedIsDeleted
    OutcomeIsFinal
CHECK_DEADLOCK FALSE
