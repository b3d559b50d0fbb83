SPECIFICATION FairSpec
CONSTANTS
    b1 = b1  b2 = b2  b3 = b3
    t1 = t1  t2 = t2
    old = old  new = new
    None = None
    Builds = {b1, b2, b3}
    Tables = {t1}
    Workers = {w1, w2}
    MaxFaults = 1
    Partitions <- MCPartitions
    PartitionOf <- MCPartitionOf
    Period <- MCPeriod
    TablesOf <- MCTablesOf
INVARIANTS
    FilesAreConsistent
    HealthIsConservative
PROPERTIES
    EventuallyRepaired
    PointerNeverRegresses
CHECK_DEADLOCK FALSE
