SPECIFICATION FairSpec
CONSTANTS
    b1 = b1  b2 = b2  b3 = b3
    f1 = f1  f2 = f2  f3 = f3
    w1 = w1  w2 = w2
    old = old  new = new
    None = None
    Builds = {b1, b2, b3}
    Files = {f1, f2, f3}
    Workers = {w1, w2}
    Partitions <- MCPartitions
    PartitionOf <- MCPartitionOf
    FileOf <- MCFileOf
    Period <- MCPeriod
    Fingerprints <- MCFingerprints
INVARIANTS
    CatalogConsistent
    PublishedAsReviewed
    MarshalIsConsistent
PROPERTIES
    DecidedAgainstActive
    Irrevocable
    PublicHistory
    AtomicPublication
    TransactionsEnd
CHECK_DEADLOCK FALSE
