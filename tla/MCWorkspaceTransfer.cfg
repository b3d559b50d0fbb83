SPECIFICATION
    TransferSpec
CONSTANTS
    o1 = o1
    o2 = o2
    o3 = o3
    d1 = d1
    d2 = d2
    e1 = e1
    e2 = e2
    f1 = f1
    f2 = f2
    Operations = {o1, o2, o3}
    Importing = {o1, o3}
    NameOf <- MCNames
    RootsOf <- MCRoots
    ConfigOf <- MCConfig
    Within = {}
    MaxFaults = 1
    Files = {f1}
    Excluded = {}
    Exporters = {e1, e2}
    Overwriting = {e2}
    Runs = {1, 2}
    Removing = {}
    None = None
INVARIANTS
    RegistryIsConsistent
    WorkspacesAreWhole
    InstalledIsVerified
PROPERTIES
    RegistrationsAreKept
SYMMETRY
    Symmetric
CHECK_DEADLOCK
    FALSE
