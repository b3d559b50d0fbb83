----------------------- MODULE PublicationRefinement ------------------------
(* The governed lifecycle implements the public history: the refinement    *)
(* mapping reads the history of a partition off the revision numbers and   *)
(* the newest partition off the current publication.                       *)
EXTENDS PublicationLifecycle, FiniteSets

RevisionsOf(p) == {b \in Published : PartitionOf[b] = p}

HistoryOf(p) ==
    [i \in 1..Cardinality(RevisionsOf(p)) |->
        LET b == CHOOSE c \in RevisionsOf(p) : revision[c] = i
        IN  [build |-> b, content |-> fingerprint[b]]]

NewestPartition == IF FindCurrent = None THEN None ELSE PartitionOf[FindCurrent]

Public == INSTANCE PublicationHistory WITH
    Contents <- Fingerprints,
    history <- [p \in Partitions |-> HistoryOf(p)],
    newest <- NewestPartition

(* Whatever processes interleave, crash or are refused, readers only ever  *)
(* see revisions appended to a partition's history, each with a content    *)
(* that differs from the one before.                                       *)
PublicHistory == Public!Spec

(* The publish transaction, which reads and writes in separate steps among *)
(* other transactions, is the atomic Publish of the catalog.               *)
AtomicPublication == CatalogSpec

=============================================================================
