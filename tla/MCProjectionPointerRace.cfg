SPECIFICATION Spec
CONSTANTS
    b1 = b1  b2 = b2  b3 = b3
    t1 = t1  t2 = t2
    old = old  new = new
    None = None
    Builds = {b1, b2, b3}
    Tables = {t1, t2}
    Workers = {w1, w2}
    MaxFaults = 0
    Partitions <- MCPartitions
    PartitionOf <- MCPartitionOf
    Period <- MCPeriod
    TablesOf <- MCTablesOf
INVARIANTS
    SynchronizedPointer
CHECK_DEADLOCK FALSE
