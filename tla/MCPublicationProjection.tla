---------------------- MODULE MCPublicationProjection -----------------------
(* Small instances of PublicationProjection: two revisions of the newer     *)
(* partition, the second of which drops a table, and one of the older.      *)
EXTENDS PublicationProjection, TLC

CONSTANTS b1, b2, b3, t1, t2, old, new

MCPartitions == {old, new}
MCPartitionOf == [b \in Builds |-> IF b = b3 THEN old ELSE new]
MCPeriod == (old :> 1) @@ (new :> 2)
MCTablesOf == [b \in Builds |-> IF b = b1 THEN Tables ELSE {t1}]
=============================================================================
