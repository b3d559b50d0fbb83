SPECIFICATION
    Spec
CONSTANTS
    z1 = z1
    z2 = z2
    x = x
    f = f
    c1 = c1
    c2 = c2
    c3 = c3
    Runs = {r1, r2}
    Assets = {z1, z2, x, f}
    Captures = {c1, c2, c3}
    StreamOf <- MCStreamOf
    Kind <- MCKind
    PeriodOf <- MCPeriodOf
    Members <- MCMembers
    AssetsOf <- MCAssetsOf
    MaxClock = 4
    MaxFaults = 1
    None = None
INVARIANTS
    BronzeIsConsistent
    NoMemberIsLost
    BoundFilesWereIngested
CHECK_DEADLOCK
    FALSE
SYMMETRY
    Symmetric
PROPERTIES
    BindingsAreImmutable
