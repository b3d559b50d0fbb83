-------------------------- MODULE MCPublicationAudit --------------------------
(* Publications 1 and 3 are of one partition, 2 of a later one.              *)
EXTENDS PublicationAudit

CONSTANTS r1, r2

MCFragile == Checks \X {1}
MCPubPeriod == [p \in Pubs |-> IF p = 2 THEN 2 ELSE 1]
=============================================================================
