SPECIFICATION
    Spec
CONSTANTS
    r1 = r1
    r2 = r2
    r3 = r3
    r4 = r4
    r5 = r5
    w1 = w1
    w2 = w2
    c1 = c1
    c2 = c2
    s1 = s1
    s2 = s2
    Runs = {r1, r2, r3, r4, r5}
    WorkspaceOf <- MCWorkspaceOf
    Captures = {c1, c2}
    DateOf <- MCDateOf
    Streams = {s1, s2}
    LegacyFiles <- MCLegacyFiles
    MaxFaults = 1
    None = None
INVARIANTS
    CapturesAreWhole
    DateNamesOneCapture
SYMMETRY
    Symmetric
CHECK_DEADLOCK
    FALSE
