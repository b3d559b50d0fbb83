------------------------ MODULE PublicationDecision ------------------------
(***************************************************************************)
(* The pure comparison that decides whether a successful Silver build      *)
(* reproduces the active publication of its partition or proposes a new    *)
(* public revision (publication_decision.py).                              *)
(***************************************************************************)

(* A SilverDatasetFingerprint is a record: version, logical_algorithm and   *)
(* schema_algorithm, logical_data and schema (the two digests).            *)

AlgorithmChanged(old, new) ==
    \/ old.logical_algorithm # new.logical_algorithm
    \/ old.schema_algorithm # new.schema_algorithm

(* Fault: a digest is compared with the digest of the other kind.          *)
CrossedDigestChange(old, new) ==
    IF old.logical_data = new.schema THEN "none" ELSE "logical_data_changed"

DigestChange(old, new) ==
    CASE old.logical_data # new.logical_data /\ old.schema # new.schema ->
           "logical_data_and_schema_changed"
      [] old.logical_data # new.logical_data /\ old.schema = new.schema ->
           "logical_data_changed"
      [] old.logical_data = new.logical_data /\ old.schema # new.schema ->
           "schema_changed"
      [] OTHER -> "none"

(* The change of fingerprint `new` against the fingerprint `old` of the    *)
(* active publication: versions first, then algorithms, then digests.      *)
ChangeKind(old, new) ==
    IF old.version # new.version THEN "fingerprint_version_changed"
    ELSE IF AlgorithmChanged(old, new) THEN "fingerprint_algorithm_changed"
    ELSE DigestChange(old, new)

(* decide_silver_publication: `hasBaseline` is FALSE for a partition with  *)
(* no active publication, and `old` is read only when it is TRUE.          *)
ChangeAgainst(hasBaseline, old, new) ==
    IF hasBaseline THEN ChangeKind(old, new) ELSE "initial_publication"

VerifiedEquivalent(hasBaseline, old, new) ==
    ChangeAgainst(hasBaseline, old, new) = "none"

=============================================================================
