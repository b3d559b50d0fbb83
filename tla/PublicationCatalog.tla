------------------------ MODULE PublicationCatalog -------------------------
(***************************************************************************)
(* The catalog tables of one dataset, and the insertion of one publication *)
(* as a single step.  A publication is named by the Silver build it        *)
(* publishes (silver_build_id is unique in catalog.dataset_publications);  *)
(* a build whose revision is 0 has no publication row.                     *)
(***************************************************************************)
EXTENDS Naturals, FiniteSetsExt

CONSTANTS Builds,       \* Silver build identifiers
          Partitions,   \* partition_value of the dataset's partition_key
          PartitionOf,  \* the partition a build materializes
          Period,       \* version_period: a partition value denotes one date
          None          \* SQL NULL

ASSUME NoneAssumption == None \notin Builds \cup Partitions
ASSUME PartitionAssumption == PartitionOf \in [Builds -> Partitions]
ASSUME PeriodAssumption == Period \in [Partitions -> Nat]

VARIABLES revision,     \* dataset_publications.revision, 0 without a row
          active,       \* publications with is_active_revision
          current,      \* publications with is_current
          supersedes,   \* dataset_publications.supersedes_publication_id
          projection    \* rows of dataset_publication_projection_states

catalogVars == <<revision, active, current, supersedes, projection>>

MaybeBuild == Builds \cup {None}
Kinds == {"current", "history"}
RowStatus == {"absent", "pending", "synchronized", "stale"}
PeriodOf(b) == Period[PartitionOf[b]]

CatalogTypeOK ==
    /\ revision \in [Builds -> Nat]
    /\ active \in SUBSET Builds
    /\ current \in SUBSET Builds
    /\ supersedes \in [Builds -> MaybeBuild]
    /\ projection \in [Kinds -> [status: RowStatus, expected: MaybeBuild,
                                 projected: MaybeBuild]]

CatalogInit ==
    /\ revision = [b \in Builds |-> 0]
    /\ active = {}
    /\ current = {}
    /\ supersedes = [b \in Builds |-> None]
    /\ projection = [k \in Kinds |->
          [status |-> "absent", expected |-> None, projected |-> None]]

-----------------------------------------------------------------------------
(* Queries.  fetchone() of a query returns a row of its result, or NULL.   *)
OneOf(rows) == IF rows = {} THEN None ELSE CHOOSE b \in rows : TRUE

Published == {b \in Builds : revision[b] > 0}
FindCurrent == OneOf(current)
FindActive(p) == OneOf({b \in active : PartitionOf[b] = p})
(* Fault: revisions are numbered across the partitions of the dataset.     *)
DatasetWideRevision(p) == Max({revision[b] : b \in Builds} \cup {0}) + 1

NextRevision(p) == Max({revision[b] : b \in {c \in Builds : PartitionOf[c] = p}} \cup {0}) + 1

-----------------------------------------------------------------------------
(* Fault: a new expectation does not reset a synchronized status.          *)
MarkPendingKeepingStatus(currentId, historyId) ==
    projection' = [projection EXCEPT
        !["current"].expected = currentId,
        !["history"] = [@ EXCEPT !.status = "pending", !.expected = historyId]]

(* mark_pending: the row of the current projection is reset only when its  *)
(* expected publication changes, the history row always; what is already   *)
(* on disk (projected) is kept.                                            *)
MarkPending(currentId, historyId) ==
    projection' = [projection EXCEPT
        !["current"] = IF @.expected = currentId THEN @
                       ELSE [@ EXCEPT !.status = "pending", !.expected = currentId],
        !["history"] = [@ EXCEPT !.status = "pending", !.expected = historyId]]

(* Fault: whatever was published last becomes current.                     *)
LastTakesOver(b, oldCurrent) == TRUE

TakesOver(b, oldCurrent) == oldCurrent = None \/ PeriodOf(b) >= PeriodOf(oldCurrent)

(* The writes of publish(), from the rows it has read: the current         *)
(* publication, the active one of the partition and the next revision,     *)
(* followed by the reading of the new current publication and mark_pending.*)
InsertPublication(b, oldCurrent, previous, newRevision) ==
    /\ revision' = [revision EXCEPT ![b] = newRevision]
    /\ supersedes' = [supersedes EXCEPT ![b] = previous]
    /\ active' = (active \ {previous}) \cup {b}
    /\ current' = IF TakesOver(b, oldCurrent) THEN {b} ELSE current \ {previous}
    /\ current' # {}
    /\ MarkPending(OneOf(current'), b)

(* One publication, as if nothing else ran.                                *)
Publish(b) ==
    /\ revision[b] = 0
    /\ InsertPublication(b, FindCurrent, FindActive(PartitionOf[b]),
                         NextRevision(PartitionOf[b]))

CatalogNext == \E b \in Builds : Publish(b)

CatalogSpec == CatalogInit /\ [][CatalogNext]_catalogVars

-----------------------------------------------------------------------------
(* A partition's publications carry the revisions 1..n without a gap or a  *)
(* repetition, each one superseding the previous, and the active one is    *)
(* the last: concurrent publishers never fork the history of a partition.  *)
RevisionChain ==
    \A b \in Published :
        /\ revision[b] = 1 <=> supersedes[b] = None
        /\ supersedes[b] # None =>
              /\ supersedes[b] \in Published
              /\ PartitionOf[supersedes[b]] = PartitionOf[b]
              /\ revision[b] = revision[supersedes[b]] + 1
        /\ \A c \in Published :
              (PartitionOf[b] = PartitionOf[c] /\ revision[b] = revision[c]) => b = c
        /\ b \in active <=>
              \A c \in Published : PartitionOf[b] = PartitionOf[c] => revision[c] <= revision[b]

(* Once anything is published there is exactly one current publication; it *)
(* is the active revision of its partition and no publication describes a  *)
(* later period.                                                           *)
CurrentIsNewest ==
    /\ Published = {} <=> current = {}
    /\ \A b, c \in current : b = c
    /\ \A b \in current :
          /\ b \in active
          /\ \A c \in Published : PeriodOf(c) <= PeriodOf(b)

(* The state row of the current projection always expects the publication  *)
(* that is current, so no committed change of the current publication can  *)
(* go unnoticed by the health of its pointer.                              *)
ExpectedIsCurrent == projection["current"].expected = FindCurrent

(* The rows of the catalog agree, whoever published in which order.        *)
CatalogConsistent == RevisionChain /\ CurrentIsNewest /\ ExpectedIsCurrent

(* Publications are append-only: a row keeps its revision and the          *)
(* publication it supersedes, and one that was superseded is never         *)
(* reactivated.                                                            *)
NothingResurrected ==
    [][\A b \in Published :
          /\ revision'[b] = revision[b]
          /\ supersedes'[b] = supersedes[b]
          /\ b \notin active => b \notin active']_catalogVars

=============================================================================
