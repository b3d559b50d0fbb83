----------------------- MODULE MCPublicationLifecycle -----------------------
(* A small instance of PublicationLifecycle: two builds of the older        *)
(* partition compete for its revisions while a build of the newer one       *)
(* competes with them for the current publication.                          *)
EXTENDS PublicationRefinement, TLC

CONSTANTS b1, b2, b3, f1, f2, f3, w1, w2, old, new

OldContent == [version |-> 1, logical_algorithm |-> "v1", schema_algorithm |-> "v1",
           logical_data |-> "d1", schema |-> "s1"]
NewContent == [OldContent EXCEPT !.logical_data = "d2"]

MCFingerprints == {OldContent, NewContent}
MCPartitions == {old, new}
MCPartitionOf == [b \in Builds |-> IF b = b3 THEN new ELSE old]
MCFileOf == [b \in Builds |-> IF b = b3 THEN f3 ELSE IF b = b2 THEN f2 ELSE f1]
MCPeriod == (old :> 1) @@ (new :> 2)
=============================================================================
