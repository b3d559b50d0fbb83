--------------------- MODULE PublicationLifecycle_proofs ---------------------
(***************************************************************************)
(* Proofs about the governed lifecycle for any number of processes, builds *)
(* and partitions.  The inductive invariant says, besides the properties   *)
(* themselves, what a transaction may rely on under each of its locks.     *)
(***************************************************************************)
EXTENDS PublicationRefinement, PublicationCatalog_proofs, SequenceTheorems, FiniteSetTheorems

(* A process that is not idle works on some build.                         *)
WorksOnBuild == \A w \in Workers : worker[w].at # "idle" => worker[w].build \in Builds

(* At most one process holds the dataset lock.                             *)
OneDatasetHolder ==
    \A v, w \in Workers : HoldsDataset(v) /\ HoldsDataset(w) => v = w

(* What was read under the dataset lock, for a build named rigidly.        *)
FreshReads ==
    \A w \in Workers, b \in Builds : worker[w].build = b =>
        /\ worker[w].at \in {"deciding", "inserting"} =>
              worker[w].previous = FindActive(PartitionOf[b])
        /\ worker[w].at = "inserting" =>
              /\ worker[w].seenCurrent = FindCurrent
              /\ worker[w].newRevision = NextRevision(PartitionOf[b])

(* The row lock of a candidate: one holder, and its status stays approved. *)
CandidateLocks ==
    \A w \in Workers, b \in Builds : HoldsCandidate(w, b) =>
        /\ candidate[b] = "approved"
        /\ \A v \in Workers : HoldsCandidate(v, b) => v = w

(* What was validated under the dataset lock stays valid.                  *)
Validated ==
    \A w \in Workers, b \in Builds :
        worker[w].build = b /\ worker[w].at \in {"validated", "inserting"} => Publishable(b)

(* A candidate differs from the publication it was compared with, which    *)
(* is public and therefore never changes again.                            *)
ReviewedChange ==
    \A b \in Builds :
        candidate[b] \notin {"none", "verified_equivalent"} /\ baseline[b] # None =>
            /\ baseline[b] \in Published
            /\ fingerprint[b] # fingerprint[baseline[b]]

SupersedesReviewed == \A b \in Published : supersedes[b] = baseline[b]

Fingerprinted == \A b \in Builds : build[b] = "succeeded" => fingerprint[b] \in Fingerprints

IInv ==
    /\ TypeOK
    /\ CatalogInv
    /\ GovernedPublication
    /\ WorksOnBuild
    /\ OneDatasetHolder
    /\ FreshReads
    /\ CandidateLocks
    /\ Validated
    /\ ReviewedChange
    /\ SupersedesReviewed
    /\ Fingerprinted
    /\ OnePromotedFilePerPeriod

-----------------------------------------------------------------------------
LEMMA IInvInitially == Init => IInv
<1> SUFFICES ASSUME Init  PROVE IInv
  OBVIOUS
<1>1. TypeOK
  BY CatalogInvInitially DEF CatalogInv, Init, TypeOK, BuildStatus, CandidateStatus, MaybeBuild,
     Idle, Points
<1>2. CatalogInv /\ Published = {}
  BY CatalogInvInitially DEF Init, CatalogInit, Published
<1>3. \A w \in Workers : worker[w].at = "idle"
  BY DEF Init, Idle
<1>4. /\ GovernedPublication /\ ReviewedChange /\ SupersedesReviewed
      /\ Fingerprinted /\ OnePromotedFilePerPeriod
  BY <1>2 DEF Init, GovernedPublication, ReviewedChange, SupersedesReviewed, Fingerprinted,
     OnePromotedFilePerPeriod
<1>5. WorksOnBuild /\ OneDatasetHolder /\ FreshReads /\ CandidateLocks /\ Validated
  BY <1>3 DEF WorksOnBuild, OneDatasetHolder, FreshReads, CandidateLocks, Validated,
     HoldsDataset, HoldsCandidate
<1> QED
  BY <1>1, <1>2, <1>4, <1>5 DEF IInv

(* A step that writes no catalog row leaves every query as it was.         *)
LEMMA CatalogFrame ==
    ASSUME UNCHANGED catalogVars
    PROVE  /\ Published' = Published
           /\ FindCurrent' = FindCurrent
           /\ \A p : FindActive(p)' = FindActive(p)
           /\ \A p : NextRevision(p)' = NextRevision(p)
           /\ CatalogInv => CatalogInv'
  BY CatalogInvStep DEF catalogVars, Published, FindCurrent, FindActive, NextRevision

(* Only a decision changes which builds succeeded, their fingerprints and  *)
(* the promoted files.                                                     *)
LEMMA EvidenceFrame ==
    ASSUME IInv, UNCHANGED <<fingerprint, promoted>>,
           \A b \in Builds : build'[b] = "succeeded" => build[b] = "succeeded"
    PROVE  Fingerprinted' /\ OnePromotedFilePerPeriod'
  BY DEF IInv, Fingerprinted, OnePromotedFilePerPeriod, PeriodOf

(* Steps that only move one process: what has been committed is untouched. *)
LEMMA GovernanceFrame ==
    ASSUME IInv, UNCHANGED <<catalogVars, governance>>
    PROVE  /\ CatalogInv' /\ GovernedPublication' /\ ReviewedChange' /\ SupersedesReviewed'
           /\ Fingerprinted' /\ OnePromotedFilePerPeriod'
           /\ \A b : Publishable(b)' = Publishable(b)
<1>1. CatalogInv' /\ Published' = Published /\ supersedes' = supersedes
  BY CatalogFrame DEF IInv, catalogVars
<1>2. GovernedPublication' /\ ReviewedChange' /\ SupersedesReviewed'
  BY <1>1 DEF IInv, governance, GovernedPublication, ReviewedChange, SupersedesReviewed
<1>3. ASSUME NEW b  PROVE Publishable(b)' = Publishable(b)
  BY CatalogFrame DEF governance, Publishable
<1>4. Fingerprinted' /\ OnePromotedFilePerPeriod'
  BY EvidenceFrame DEF governance
<1> QED
  BY <1>1, <1>2, <1>3, <1>4

(* A process that ends its command gives up its locks and harms no other   *)
(* process, provided that nothing these rely on is written.                *)
LEMMA FinishKeepsOthers ==
    ASSUME IInv, NEW w \in Workers, Finish(w), UNCHANGED catalogVars,
           UNCHANGED <<candidate, baseline>>,
           \A b \in Builds : build[b] = "succeeded" => build'[b] = "succeeded"
    PROVE  /\ worker' \in [Workers -> [at: Points, build: MaybeBuild, previous: MaybeBuild,
                               seenCurrent: MaybeBuild, newRevision: Nat]]
           /\ WorksOnBuild' /\ OneDatasetHolder' /\ FreshReads'
           /\ CandidateLocks' /\ Validated'
<1>1. \A v \in Workers : worker'[v] = IF v = w THEN Idle ELSE worker[v]
  BY DEF Finish, IInv, TypeOK
<1>2. Idle \in [at: Points, build: MaybeBuild, previous: MaybeBuild,
                seenCurrent: MaybeBuild, newRevision: Nat] /\ Idle.at = "idle"
  BY DEF Idle, Points, MaybeBuild
<1>3. worker' \in [Workers -> [at: Points, build: MaybeBuild, previous: MaybeBuild,
                               seenCurrent: MaybeBuild, newRevision: Nat]]
  BY <1>2 DEF Finish, IInv, TypeOK
<1>4. WorksOnBuild' /\ OneDatasetHolder'
  BY <1>1, <1>2 DEF IInv, WorksOnBuild, OneDatasetHolder, HoldsDataset
<1>5. FreshReads'
  BY <1>1, <1>2, CatalogFrame DEF IInv, FreshReads
<1>6. CandidateLocks'
  BY <1>1, <1>2 DEF IInv, CandidateLocks, HoldsCandidate
<1>7. Validated'
  BY <1>1, <1>2, CatalogFrame DEF IInv, Validated, Publishable
<1> QED
  BY <1>3, <1>4, <1>5, <1>6, <1>7

-----------------------------------------------------------------------------
LEMMA StartBuildStep ==
    ASSUME IInv, NEW w \in Workers, NEW b \in Builds, StartBuild(w, b)
    PROVE  IInv'
<1>1. \A v \in Workers : worker'[v] =
          IF v = w THEN [Idle EXCEPT !.at = "building", !.build = b] ELSE worker[v]
  BY DEF StartBuild, IInv, TypeOK
<1>2. TypeOK'
  BY CatalogFrame DEF StartBuild, IInv, TypeOK, CatalogInv, BuildStatus, Idle, Points, MaybeBuild
<1>3. CatalogInv' /\ Published' = Published
  BY CatalogFrame DEF StartBuild, IInv
<1>4. GovernedPublication'
  BY <1>3 DEF StartBuild, IInv, TypeOK, GovernedPublication, BuildStatus
<1>5. WorksOnBuild' /\ OneDatasetHolder'
  BY <1>1 DEF IInv, WorksOnBuild, OneDatasetHolder, HoldsDataset, Idle
<1>6. FreshReads'
  BY <1>1, CatalogFrame DEF StartBuild, IInv, FreshReads, Idle
<1>7. CandidateLocks'
  BY <1>1 DEF StartBuild, IInv, CandidateLocks, HoldsCandidate, Idle
<1>8. Validated'
  BY <1>1, CatalogFrame DEF StartBuild, IInv, TypeOK, Validated, Publishable, Idle
<1>9. ReviewedChange' /\ SupersedesReviewed'
  BY <1>3 DEF StartBuild, IInv, ReviewedChange, SupersedesReviewed, catalogVars
<1>10. Fingerprinted' /\ OnePromotedFilePerPeriod'
  BY EvidenceFrame DEF StartBuild, IInv, TypeOK
<1> QED
  BY <1>2, <1>3, <1>4, <1>5, <1>6, <1>7, <1>8, <1>9, <1>10 DEF IInv

LEMMA FailBuildStep ==
    ASSUME IInv, NEW w \in Workers, FailBuild(w)
    PROVE  IInv'
<1> DEFINE b == worker[w].build
<1>1. \A c \in Builds : build[c] = "succeeded" <=> build'[c] = "succeeded"
  BY DEF FailBuild, IInv, TypeOK
<1>2. build' \in [Builds -> BuildStatus]
  BY DEF FailBuild, IInv, TypeOK, BuildStatus
<1>3. Finish(w) /\ UNCHANGED <<catalogVars, fingerprint, candidate, baseline, promoted, gate>>
  BY DEF FailBuild
<1>4. CatalogInv' /\ Published' = Published
  BY <1>3, CatalogFrame DEF IInv
<1>5. GovernedPublication' /\ ReviewedChange' /\ SupersedesReviewed'
  BY <1>1, <1>3, <1>4 DEF IInv, GovernedPublication, ReviewedChange, SupersedesReviewed, catalogVars
<1>6. TypeOK'
  BY <1>1, <1>2, <1>3, <1>4, FinishKeepsOthers DEF CatalogInv, IInv, TypeOK
<1> QED
  BY <1>1, <1>3, <1>4, <1>5, <1>6, FinishKeepsOthers, EvidenceFrame DEF IInv

LEMMA LockDecisionStep ==
    ASSUME IInv, NEW w \in Workers, LockDecision(w)
    PROVE  IInv'
<1>1. worker[w].build \in Builds
  BY DEF LockDecision, IInv, WorksOnBuild
<1>2. FindActive(PartitionOf[worker[w].build]) \in MaybeBuild
  BY <1>1, FindActiveFacts, PartitionAssumption DEF IInv, MaybeBuild, Published
<1>3. /\ UNCHANGED <<catalogVars, governance>>
      /\ \A v \in Workers : worker'[v] =
            IF v = w THEN [worker[w] EXCEPT !.at = "deciding",
                              !.previous = FindActive(PartitionOf[worker[w].build])]
            ELSE worker[v]
  BY DEF LockDecision, IInv, TypeOK
<1>4. TypeOK'
  <2>1. worker' \in [Workers -> [at: Points, build: MaybeBuild, previous: MaybeBuild,
                               seenCurrent: MaybeBuild, newRevision: Nat]]
    BY <1>2 DEF LockDecision, IInv, TypeOK, Points
  <2>2. CatalogTypeOK'
    BY <1>3, CatalogFrame DEF IInv, CatalogInv
  <2> QED
    BY <1>3, <2>1, <2>2 DEF IInv, TypeOK, governance
<1>5. WorksOnBuild' /\ OneDatasetHolder'
  BY <1>1, <1>3 DEF LockDecision, IInv, TypeOK, WorksOnBuild, OneDatasetHolder,
     HoldsDataset, DatasetFree
<1>6. FreshReads'
  BY <1>3, CatalogFrame DEF LockDecision, IInv, TypeOK, FreshReads
<1>7. CandidateLocks'
  BY <1>3 DEF IInv, TypeOK, CandidateLocks, HoldsCandidate, governance, LockDecision
<1>8. Validated'
  BY <1>3, GovernanceFrame DEF IInv, TypeOK, Validated
<1> QED
  BY <1>3, <1>4, <1>5, <1>6, <1>7, <1>8, GovernanceFrame DEF IInv

(* The decision: what was read under the dataset lock is the active        *)
(* publication, hence public, and a candidate differs from it.             *)
LEMMA CommitDecisionStep ==
    ASSUME IInv, NEW w \in Workers, NEW f \in Fingerprints, CommitDecision(w, f)
    PROVE  IInv'
<1> DEFINE b == worker[w].build
           base == worker[w].previous
           equivalent == VerifiedEquivalent(base # None, fingerprint[base], f)
<1>1. /\ b \in Builds /\ base \in MaybeBuild /\ build[b] = "running"
      /\ candidate[b] = "none" /\ b \notin Published /\ worker[w].at = "deciding"
  BY DEF CommitDecision, IInv, TypeOK, WorksOnBuild, GovernedPublication
<1>2. base # None => base \in Published /\ base # b
  BY <1>1, FindActiveFacts, PartitionAssumption DEF IInv, FreshReads
<1>3. /\ build' = [build EXCEPT ![b] = "succeeded"]
      /\ fingerprint' = [fingerprint EXCEPT ![b] = f]
      /\ baseline' = [baseline EXCEPT ![b] = base]
      /\ candidate' = [candidate EXCEPT ![b] =
              IF equivalent THEN "verified_equivalent" ELSE "awaiting_approval"]
      /\ Promote(FileOf[b], PeriodOf(b))
      /\ Finish(w) /\ UNCHANGED <<catalogVars, gate>>
  BY DEF CommitDecision
<1>4. ~equivalent /\ base # None => f # fingerprint[base]
  BY DEF VerifiedEquivalent, ChangeAgainst, ChangeKind, AlgorithmChanged, DigestChange
<1> HIDE DEF b, base, equivalent
<1>5. CatalogInv' /\ Published' = Published /\ supersedes' = supersedes
  BY <1>3, CatalogFrame DEF IInv, catalogVars
<1>6. \A v \in Workers : worker'[v] = IF v = w THEN Idle ELSE worker[v]
  BY <1>3 DEF Finish, IInv, TypeOK
<1>7. TypeOK'
  <2>1. build' \in [Builds -> BuildStatus] /\ candidate' \in [Builds -> CandidateStatus]
    BY <1>1, <1>3 DEF IInv, TypeOK, BuildStatus, CandidateStatus
  <2>2. fingerprint' \in [Builds -> Fingerprints \cup {None}] /\ baseline' \in [Builds -> MaybeBuild]
    BY <1>1, <1>3 DEF IInv, TypeOK
  <2>3. promoted' \in SUBSET Files
    BY <1>1, <1>3, FileAssumption DEF Promote, IInv, TypeOK
  <2>4. worker' \in [Workers -> [at: Points, build: MaybeBuild, previous: MaybeBuild,
                               seenCurrent: MaybeBuild, newRevision: Nat]]
    BY <1>3 DEF Finish, IInv, TypeOK, Idle, Points, MaybeBuild
  <2> QED
    BY <2>1, <2>2, <2>3, <2>4, <1>3, <1>5 DEF CatalogInv, IInv, TypeOK
<1>8. GovernedPublication'
  BY <1>1, <1>3, <1>5 DEF IInv, TypeOK, GovernedPublication
<1>9. WorksOnBuild' /\ OneDatasetHolder'
  BY <1>6 DEF IInv, WorksOnBuild, OneDatasetHolder, HoldsDataset, Idle
<1>10. FreshReads'
  BY <1>3, <1>6, CatalogFrame DEF IInv, FreshReads, Idle
<1>11. CandidateLocks'
  BY <1>1, <1>3, <1>6 DEF IInv, TypeOK, CandidateLocks, HoldsCandidate, Idle
<1>12. Validated'
  <2> SUFFICES ASSUME NEW v \in Workers, NEW c \in Builds,
                      worker'[v].build = c, worker'[v].at \in {"validated", "inserting"}
               PROVE  Publishable(c)'
    BY DEF Validated
  <2>1. v # w /\ worker'[v] = worker[v] /\ Publishable(c)
    BY <1>6 DEF IInv, Validated, Idle
  <2>2. c # b
    BY <2>1, <1>1 DEF Publishable
  <2> QED
    BY <2>1, <2>2, <1>3, CatalogFrame DEF Publishable, IInv, TypeOK
<1>13. ReviewedChange'
  BY <1>1, <1>2, <1>3, <1>4, <1>5 DEF IInv, TypeOK, ReviewedChange
<1>14. SupersedesReviewed'
  BY <1>1, <1>3, <1>5 DEF IInv, TypeOK, SupersedesReviewed
<1>15. Fingerprinted'
  BY <1>1, <1>3 DEF IInv, TypeOK, Fingerprinted
<1>16. OnePromotedFilePerPeriod'
  <2> SUFFICES ASSUME NEW c \in Builds, build'[c] = "succeeded"
               PROVE  \E g \in promoted' :
                        /\ \E d \in Builds : FileOf[d] = g /\ PeriodOf(d) = PeriodOf(c)
                        /\ \A h \in promoted' :
                              (\E d \in Builds : FileOf[d] = h /\ PeriodOf(d) = PeriodOf(c)) => h = g
    BY DEF OnePromotedFilePerPeriod, PeriodOf
  <2>1. \A d, e \in Builds : FileOf[d] = FileOf[e] => PeriodOf(d) = PeriodOf(e)
    BY FileAssumption DEF PeriodOf
  <2>2. CASE PeriodOf(c) = PeriodOf(b)
    BY <1>1, <1>3, <2>1, <2>2 DEF Promote
  <2>3. CASE PeriodOf(c) # PeriodOf(b)
    <3>1. build[c] = "succeeded"
      BY <1>1, <1>3, <2>3 DEF IInv, TypeOK
    <3>2. PICK g \in promoted :
              /\ \E d \in Builds : FileOf[d] = g /\ PeriodOf(d) = PeriodOf(c)
              /\ \A h \in promoted :
                    (\E d \in Builds : FileOf[d] = h /\ PeriodOf(d) = PeriodOf(c)) => h = g
      BY <3>1 DEF IInv, OnePromotedFilePerPeriod
    <3>3. g \in promoted'
      BY <1>3, <2>1, <2>3, <3>2 DEF Promote
    <3>4. \A h \in promoted' : h \in promoted \/ h = FileOf[b]
      BY <1>3 DEF Promote
    <3> QED
      BY <1>1, <2>1, <2>3, <3>2, <3>3, <3>4
  <2> QED
    BY <2>2, <2>3
<1> QED
  BY <1>5, <1>7, <1>8, <1>9, <1>10, <1>11, <1>12, <1>13, <1>14, <1>15, <1>16 DEF IInv

(* A reviewer's verdict, on a row that no publisher has locked.            *)
LEMMA VerdictStep ==
    ASSUME IInv, NEW b \in Builds, Approve(b) \/ Reject(b)
    PROVE  IInv'
<1>1. PICK verdict \in {"approved", "rejected"} :
          /\ CandidateFree(b) /\ candidate[b] = "awaiting_approval"
          /\ candidate' = [candidate EXCEPT ![b] = verdict]
          /\ UNCHANGED <<catalogVars, build, fingerprint, baseline, promoted, gate, worker>>
  BY DEF Approve, Reject
<1>2. CatalogInv' /\ Published' = Published /\ supersedes' = supersedes
  BY <1>1, CatalogFrame DEF IInv, catalogVars
<1>3. TypeOK'
  BY <1>1, <1>2 DEF CatalogInv, IInv, TypeOK, CandidateStatus
<1>4. GovernedPublication' /\ ReviewedChange' /\ SupersedesReviewed'
  BY <1>1, <1>2 DEF IInv, TypeOK, GovernedPublication, ReviewedChange, SupersedesReviewed
<1>5. WorksOnBuild' /\ OneDatasetHolder'
  BY <1>1 DEF IInv, WorksOnBuild, OneDatasetHolder, HoldsDataset
<1>6. FreshReads'
  BY <1>1, CatalogFrame DEF IInv, FreshReads
<1>7. CandidateLocks'
  BY <1>1 DEF IInv, TypeOK, CandidateLocks, HoldsCandidate, CandidateFree
<1>8. Validated'
  BY <1>1, CatalogFrame DEF IInv, Validated, Publishable
<1> QED
  BY <1>1, <1>2, <1>3, <1>4, <1>5, <1>6, <1>7, <1>8, EvidenceFrame DEF IInv

-----------------------------------------------------------------------------
LEMMA LockCandidateStep ==
    ASSUME IInv, NEW w \in Workers, NEW b \in Builds, LockCandidate(w, b)
    PROVE  IInv'
<1>1. /\ UNCHANGED <<catalogVars, governance>>
      /\ candidate[b] = "approved" /\ CandidateFree(b)
      /\ worker'[w].at = "candidate_locked" /\ worker'[w].build = b
      /\ \A v \in Workers : v # w => worker'[v] = worker[v]
  BY DEF LockCandidate, IInv, TypeOK, Idle
<1>2. TypeOK'
  <2>1. worker' \in [Workers -> [at: Points, build: MaybeBuild, previous: MaybeBuild,
                               seenCurrent: MaybeBuild, newRevision: Nat]]
    BY DEF LockCandidate, IInv, TypeOK, Points, Idle, MaybeBuild
  <2> QED
    BY <1>1, <2>1, GovernanceFrame DEF IInv, TypeOK, CatalogInv, governance
<1>3. WorksOnBuild' /\ OneDatasetHolder'
  BY <1>1 DEF IInv, WorksOnBuild, OneDatasetHolder, HoldsDataset
<1>4. FreshReads'
  BY <1>1, CatalogFrame DEF IInv, FreshReads
<1>5. CandidateLocks'
  <2>1. \A v \in Workers, c \in Builds :
            HoldsCandidate(v, c)' <=> IF v = w THEN c = b ELSE HoldsCandidate(v, c)
    BY <1>1 DEF HoldsCandidate
  <2>2. candidate' = candidate /\ \A v \in Workers : ~HoldsCandidate(v, b)
    BY <1>1 DEF governance, CandidateFree
  <2> QED
    BY <1>1, <2>1, <2>2 DEF IInv, CandidateLocks
<1>6. Validated'
  BY <1>1, GovernanceFrame DEF IInv, Validated
<1> QED
  BY <1>1, <1>2, <1>3, <1>4, <1>5, <1>6, GovernanceFrame DEF IInv

LEMMA ValidateCandidateStep ==
    ASSUME IInv, NEW w \in Workers, ValidateCandidate(w)
    PROVE  IInv'
<1>1. /\ UNCHANGED <<catalogVars, governance>>
      /\ DatasetFree /\ worker[w].at = "candidate_locked" /\ Publishable(worker[w].build)
      /\ \A v \in Workers : worker'[v] =
            IF v = w THEN [worker[w] EXCEPT !.at = "validated"] ELSE worker[v]
  BY DEF ValidateCandidate, IInv, TypeOK
<1>2. TypeOK'
  BY <1>1, GovernanceFrame
     DEF ValidateCandidate, IInv, TypeOK, CatalogInv, Points, governance
<1>3. WorksOnBuild' /\ OneDatasetHolder'
  BY <1>1 DEF IInv, TypeOK, WorksOnBuild, OneDatasetHolder, HoldsDataset, DatasetFree
<1>4. FreshReads'
  BY <1>1, CatalogFrame DEF IInv, TypeOK, FreshReads
<1>5. CandidateLocks'
  BY <1>1 DEF IInv, TypeOK, CandidateLocks, HoldsCandidate, governance
<1>6. Validated'
  BY <1>1, GovernanceFrame DEF IInv, TypeOK, Validated
<1> QED
  BY <1>1, <1>2, <1>3, <1>4, <1>5, <1>6, GovernanceFrame DEF IInv

(* A refused or interrupted command only gives up its locks.               *)
LEMMA AbandonStep ==
    ASSUME IInv, NEW w \in Workers, RefuseStale(w) \/ Crash(w)
    PROVE  IInv'
<1>1. Finish(w) /\ UNCHANGED <<catalogVars, governance>>
  BY DEF RefuseStale, Crash
<1>2. TypeOK'
  BY <1>1, FinishKeepsOthers, GovernanceFrame DEF IInv, TypeOK, CatalogInv, governance
<1> QED
  BY <1>1, <1>2, FinishKeepsOthers, GovernanceFrame DEF IInv, governance

LEMMA FailIntegrityStep ==
    ASSUME IInv, NEW w \in Workers, FailIntegrity(w)
    PROVE  IInv'
<1>1. /\ Finish(w) /\ worker[w].build \in Builds
      /\ UNCHANGED <<catalogVars, build, fingerprint, candidate, baseline, promoted>>
      /\ gate' = gate \cup {<<worker[w].build, FALSE>>}
  BY DEF FailIntegrity, IInv, WorksOnBuild
<1>2. CatalogInv' /\ Published' = Published /\ supersedes' = supersedes
  BY <1>1, CatalogFrame DEF IInv, catalogVars
<1>3. TypeOK'
  <2>1. gate' \in SUBSET (Builds \X BOOLEAN)
    <3>1. gate \in SUBSET (Builds \X BOOLEAN)
      BY DEF IInv, TypeOK
    <3>2. <<worker[w].build, FALSE>> \in Builds \X BOOLEAN
      BY <1>1
    <3> QED
      BY <1>1, <3>1, <3>2
  <2> QED
    BY <1>1, <1>2, <2>1, FinishKeepsOthers DEF IInv, TypeOK, CatalogInv
<1>4. GovernedPublication' /\ ReviewedChange' /\ SupersedesReviewed'
  BY <1>1, <1>2 DEF IInv, GovernedPublication, ReviewedChange, SupersedesReviewed
<1> QED
  BY <1>1, <1>2, <1>3, <1>4, FinishKeepsOthers, EvidenceFrame DEF IInv

LEMMA ReadCatalogStep ==
    ASSUME IInv, NEW w \in Workers, ReadCatalog(w)
    PROVE  IInv'
<1> DEFINE b == worker[w].build
<1>1. b \in Builds /\ worker[w].at = "validated"
  BY DEF ReadCatalog, IInv, WorksOnBuild
<1> DEFINE r == [worker[w] EXCEPT !.at = "inserting",
                     !.previous = FindActive(PartitionOf[b]),
                     !.seenCurrent = FindCurrent,
                     !.newRevision = NextRevision(PartitionOf[b])]
<1>2. UNCHANGED <<catalogVars, governance>> /\ worker' = [worker EXCEPT ![w] = r]
  BY DEF ReadCatalog, IInv, TypeOK
<1>3. /\ FindActive(PartitionOf[b]) \in MaybeBuild
      /\ NextRevision(PartitionOf[b]) \in Nat
      /\ FindCurrent \in MaybeBuild
  BY <1>1, FindActiveFacts, NextRevisionFacts, OneOfFacts, PartitionAssumption
     DEF IInv, CatalogInv, CatalogTypeOK, MaybeBuild, Published, FindCurrent
<1>4. /\ r \in [at: Points, build: MaybeBuild, previous: MaybeBuild,
                seenCurrent: MaybeBuild, newRevision: Nat]
      /\ r.at = "inserting" /\ r.build = b
      /\ r.previous = FindActive(PartitionOf[b])
      /\ r.seenCurrent = FindCurrent /\ r.newRevision = NextRevision(PartitionOf[b])
  <2>1. worker[w] \in [at: Points, build: MaybeBuild, previous: MaybeBuild,
                       seenCurrent: MaybeBuild, newRevision: Nat]
    BY DEF IInv, TypeOK
  <2> QED
    BY <2>1, <1>3 DEF Points
<1> HIDE DEF r
<1>5. \A v \in Workers : worker'[v] = IF v = w THEN r ELSE worker[v]
  BY <1>2 DEF IInv, TypeOK
<1>6. TypeOK'
  BY <1>2, <1>4, GovernanceFrame DEF IInv, TypeOK, CatalogInv, governance
<1>7. WorksOnBuild' /\ OneDatasetHolder'
  BY <1>1, <1>4, <1>5 DEF IInv, TypeOK, WorksOnBuild, OneDatasetHolder, HoldsDataset
<1>8. FreshReads'
  <2> SUFFICES ASSUME NEW v \in Workers, NEW c \in Builds, worker'[v].build = c
               PROVE  /\ worker'[v].at \in {"deciding", "inserting"} =>
                            worker'[v].previous = FindActive(PartitionOf[c])'
                      /\ worker'[v].at = "inserting" =>
                            /\ worker'[v].seenCurrent = FindCurrent'
                            /\ worker'[v].newRevision = NextRevision(PartitionOf[c])'
    BY DEF FreshReads
  <2>1. CASE v = w
    <3>1. c = b
      BY <1>4, <1>5, <2>1
    <3> HIDE DEF b
    <3> QED
      BY <1>2, <1>4, <1>5, <2>1, <3>1, CatalogFrame
  <2>2. CASE v # w
    BY <1>2, <1>5, <2>2, CatalogFrame DEF IInv, FreshReads
  <2> QED
    BY <2>1, <2>2
<1>9. CandidateLocks'
  <2>1. \A v \in Workers, c \in Builds : HoldsCandidate(v, c)' <=> HoldsCandidate(v, c)
    BY <1>1, <1>4, <1>5 DEF HoldsCandidate
  <2> QED
    BY <1>2, <2>1 DEF IInv, CandidateLocks, governance
<1>10. Validated'
  BY <1>1, <1>2, <1>4, <1>5, GovernanceFrame DEF IInv, Validated
<1> QED
  BY <1>2, <1>6, <1>7, <1>8, <1>9, <1>10, GovernanceFrame DEF IInv

-----------------------------------------------------------------------------
(* The commit of a publish transaction is one atomic publication: what was *)
(* read under the dataset lock is what the catalog says at the commit, and *)
(* an approved candidate has no publication yet.                           *)
LEMMA CommitIsPublish ==
    ASSUME IInv, NEW w \in Workers, CommitPublication(w)
    PROVE  worker[w].build \in Builds /\ Publish(worker[w].build)
<1> DEFINE b == worker[w].build
<1>1. b \in Builds /\ worker[w].at = "inserting" /\ candidate[b] = "approved"
  BY DEF CommitPublication, IInv, WorksOnBuild
<1>2. revision[b] = 0
  <2>1. b \notin Published /\ revision[b] \in Nat
    BY <1>1 DEF IInv, GovernedPublication, CatalogInv, CatalogTypeOK
  <2> QED
    BY <2>1, <1>1 DEF Published
<1>3. /\ worker[w].previous = FindActive(PartitionOf[b])
      /\ worker[w].seenCurrent = FindCurrent
      /\ worker[w].newRevision = NextRevision(PartitionOf[b])
  BY <1>1 DEF IInv, FreshReads
<1>4. InsertPublication(b, worker[w].seenCurrent, worker[w].previous, worker[w].newRevision)
  BY DEF CommitPublication
<1> HIDE DEF b
<1>5. Publish(b)
  BY <1>2, <1>3, <1>4 DEF Publish
<1> QED
  BY <1>1, <1>5 DEF b

LEMMA CommitPublicationStep ==
    ASSUME IInv, NEW w \in Workers, CommitPublication(w)
    PROVE  IInv'
<1> DEFINE b == worker[w].build
<1>1. b \in Builds /\ Publish(b)
  BY CommitIsPublish
<1>2. CatalogInv'
  BY <1>1, CatalogInvStep DEF IInv, CatalogNext
<1>3. /\ worker[w].at = "inserting" /\ worker[w].build = b
      /\ candidate[b] = "approved" /\ Publishable(b)
      /\ candidate' = [candidate EXCEPT ![b] = "published"]
      /\ gate' = gate \cup {<<b, TRUE>>}
      /\ worker' = [worker EXCEPT ![w] = Idle]
      /\ UNCHANGED <<build, fingerprint, baseline, promoted>>
  BY <1>1 DEF CommitPublication, Finish, IInv, Validated
<1>4. /\ Published' = Published \cup {b} /\ b \notin Published
      /\ supersedes' = [supersedes EXCEPT ![b] = baseline[b]]
      /\ supersedes \in [Builds -> MaybeBuild] /\ Published \subseteq Builds
  BY <1>1, <1>3, PublishFacts DEF IInv, Publishable, CatalogInv, CatalogTypeOK, Published
<1> HIDE DEF b
<1>5. \A v \in Workers : /\ worker'[v] = IF v = w THEN Idle ELSE worker[v]
                         /\ HoldsDataset(v) => v = w
                         /\ HoldsCandidate(v, b) => v = w
  BY <1>1, <1>3 DEF IInv, TypeOK, OneDatasetHolder, HoldsDataset, CandidateLocks, HoldsCandidate
<1>6. \A v \in Workers : worker'[v].at \notin {"deciding", "validated", "inserting"}
  BY <1>5 DEF HoldsDataset, Idle
<1>7. TypeOK'
  <2>1. gate' \in SUBSET (Builds \X BOOLEAN)
    <3>1. gate \in SUBSET (Builds \X BOOLEAN)
      BY DEF IInv, TypeOK
    <3>2. <<b, TRUE>> \in Builds \X BOOLEAN
      BY <1>1
    <3> QED
      BY <1>3, <3>1, <3>2
  <2>2. worker' \in [Workers -> [at: Points, build: MaybeBuild, previous: MaybeBuild,
                               seenCurrent: MaybeBuild, newRevision: Nat]]
    BY <1>3 DEF IInv, TypeOK, Idle, Points, MaybeBuild
  <2>3. candidate' \in [Builds -> CandidateStatus]
    BY <1>3 DEF IInv, TypeOK, CandidateStatus
  <2> QED
    BY <1>2, <1>3, <2>1, <2>2, <2>3 DEF IInv, TypeOK, CatalogInv
<1>8. GovernedPublication'
  BY <1>1, <1>3, <1>4 DEF IInv, TypeOK, GovernedPublication
<1>9. WorksOnBuild' /\ OneDatasetHolder'
  BY <1>5, <1>6 DEF IInv, WorksOnBuild, OneDatasetHolder, HoldsDataset, Idle
<1>10. FreshReads' /\ Validated'
  BY <1>6 DEF FreshReads, Validated
<1>11. CandidateLocks'
  <2> SUFFICES ASSUME NEW v \in Workers, NEW c \in Builds, HoldsCandidate(v, c)'
               PROVE  /\ candidate'[c] = "approved"
                      /\ \A u \in Workers : HoldsCandidate(u, c)' => u = v
    BY DEF CandidateLocks
  <2>1. \A u \in Workers : HoldsCandidate(u, c)' => u # w /\ HoldsCandidate(u, c)
    BY <1>5 DEF HoldsCandidate, Idle
  <2>2. c # b
    BY <2>1, <1>5
  <2> QED
    BY <2>1, <2>2, <1>3 DEF IInv, TypeOK, CandidateLocks
<1>12. ReviewedChange' /\ SupersedesReviewed'
  BY <1>1, <1>3, <1>4 DEF IInv, TypeOK, ReviewedChange, SupersedesReviewed
<1> QED
  BY <1>2, <1>3, <1>7, <1>8, <1>9, <1>10, <1>11, <1>12, EvidenceFrame DEF IInv

-----------------------------------------------------------------------------
LEMMA IInvStep == IInv /\ [Next]_vars => IInv'
<1> SUFFICES ASSUME IInv, [Next]_vars  PROVE IInv'
  OBVIOUS
<1>1. ASSUME NEW w \in Workers, NEW b \in Builds, StartBuild(w, b)  PROVE IInv'
  BY <1>1, StartBuildStep
<1>2. ASSUME NEW w \in Workers, FailBuild(w)  PROVE IInv'
  BY <1>2, FailBuildStep
<1>3. ASSUME NEW w \in Workers, DecisionStep(w)  PROVE IInv'
  BY <1>3, LockDecisionStep, CommitDecisionStep DEF DecisionStep
<1>4. ASSUME NEW b \in Builds, Approve(b) \/ Reject(b)  PROVE IInv'
  BY <1>4, VerdictStep
<1>5. ASSUME NEW w \in Workers, NEW b \in Builds, LockCandidate(w, b)  PROVE IInv'
  BY <1>5, LockCandidateStep
<1>6. ASSUME NEW w \in Workers, PublishStep(w)  PROVE IInv'
  BY <1>6, ValidateCandidateStep, AbandonStep, FailIntegrityStep, ReadCatalogStep,
     CommitPublicationStep DEF PublishStep
<1>7. ASSUME NEW w \in Workers, Crash(w)  PROVE IInv'
  BY <1>7, AbandonStep
<1>8. CASE UNCHANGED vars
  <2>1. UNCHANGED <<catalogVars, governance>> /\ worker' = worker
    BY <1>8 DEF vars
  <2>2. TypeOK' /\ WorksOnBuild' /\ OneDatasetHolder'
    BY <2>1, GovernanceFrame DEF IInv, TypeOK, CatalogInv, governance, WorksOnBuild,
       OneDatasetHolder, HoldsDataset
  <2>3. FreshReads' /\ CandidateLocks' /\ Validated'
    BY <2>1, GovernanceFrame, CatalogFrame DEF IInv, governance, FreshReads, CandidateLocks,
       HoldsCandidate, Validated
  <2> QED
    BY <2>1, <2>2, <2>3, GovernanceFrame DEF IInv
<1> QED
  BY <1>1, <1>2, <1>3, <1>4, <1>5, <1>6, <1>7, <1>8 DEF Next

LEMMA LifecycleInvariant == Spec => []IInv
  BY IInvInitially, IInvStep, PTL DEF Spec

-----------------------------------------------------------------------------
(* Every reachable state is well formed.                                   *)
THEOREM TypeCorrect == Spec => []TypeOK
<1>1. IInv => TypeOK
  BY DEF IInv
<1> QED
  BY <1>1, LifecycleInvariant, PTL

(* The dataset lock makes the reads of a transaction current at its        *)
(* commit, however many processes run.                                     *)
THEOREM LockedReadsAreFreshCorrect == Spec => []LockedReadsAreFresh
<1>1. IInv => LockedReadsAreFresh
  BY DEF IInv, OneDatasetHolder, FreshReads, WorksOnBuild, LockedReadsAreFresh
<1> QED
  BY <1>1, LifecycleInvariant, PTL

(* Publications, candidate statuses and gate evidence never disagree.      *)
THEOREM GovernedPublicationCorrect == Spec => []GovernedPublication
<1>1. IInv => GovernedPublication
  BY DEF IInv
<1> QED
  BY <1>1, LifecycleInvariant, PTL

(* One promoted Bronze file for each period with a successful build.       *)
THEOREM OnePromotedFilePerPeriodCorrect == Spec => []OnePromotedFilePerPeriod
<1>1. IInv => OnePromotedFilePerPeriod
  BY DEF IInv
<1> QED
  BY <1>1, LifecycleInvariant, PTL

(* A publication supersedes what its candidate was reviewed against, and   *)
(* of the candidates reviewed against one baseline only one is published.  *)
THEOREM PublishedOverReviewedBaselineCorrect == Spec => []PublishedOverReviewedBaseline
<1>1. ASSUME IInv, NEW b \in Published, NEW c \in Published,
             PartitionOf[b] = PartitionOf[c], baseline[b] = baseline[c]
      PROVE  b = c
  <2>1. supersedes[b] = supersedes[c]
    BY <1>1 DEF IInv, SupersedesReviewed
  <2>2. revision[b] = revision[c]
    BY <1>1, <2>1 DEF IInv, CatalogInv, RevisionChain
  <2> QED
    BY <1>1, <2>2 DEF IInv, CatalogInv, RevisionChain
<1>2. IInv => PublishedOverReviewedBaseline
  BY <1>1 DEF IInv, SupersedesReviewed, PublishedOverReviewedBaseline
<1> QED
  BY <1>2, LifecycleInvariant, PTL

(* No revision repeats the fingerprint of the revision it supersedes.      *)
THEOREM NoRedundantRevisionCorrect == Spec => []NoRedundantRevision
<1>1. IInv => NoRedundantRevision
  BY DEF IInv, GovernedPublication, SupersedesReviewed, ReviewedChange, NoRedundantRevision,
     Published
<1> QED
  BY <1>1, LifecycleInvariant, PTL

(* The interleaved publish transactions implement the atomic publications  *)
(* of the catalog, so what is proved of CatalogSpec holds here.            *)
THEOREM AtomicPublicationCorrect == Spec => AtomicPublication
<1>1. Init => CatalogInit
  BY DEF Init
<1>2. IInv /\ [Next]_vars => [CatalogNext]_catalogVars
  <2> SUFFICES ASSUME IInv, [Next]_vars  PROVE [CatalogNext]_catalogVars
    OBVIOUS
  <2>1. ASSUME NEW w \in Workers, CommitPublication(w)  PROVE CatalogNext
    BY <2>1, CommitIsPublish DEF CatalogNext
  <2>2. CASE \A w \in Workers : ~CommitPublication(w)
    BY <2>2 DEF Next, DecisionStep, PublishStep, StartBuild, FailBuild, LockDecision,
       CommitDecision, Approve, Reject, LockCandidate, ValidateCandidate, RefuseStale,
       FailIntegrity, ReadCatalog, Crash, vars
  <2> QED
    BY <2>1, <2>2
<1> QED
  BY <1>1, <1>2, LifecycleInvariant, PTL DEF Spec, AtomicPublication, CatalogSpec

(* Concurrent publishers never fork or reorder a partition's revisions.    *)
THEOREM LifecycleRevisionChain == Spec => []RevisionChain
  BY AtomicPublicationCorrect, RevisionChainCorrect, PTL DEF AtomicPublication

(* Concurrent publishers agree on one current publication.                 *)
THEOREM LifecycleCurrentIsNewest == Spec => []CurrentIsNewest
  BY AtomicPublicationCorrect, CurrentIsNewestCorrect, PTL DEF AtomicPublication

(* Concurrent publishers never bring a superseded revision back.           *)
THEOREM LifecycleNothingResurrected == Spec => NothingResurrected
  BY AtomicPublicationCorrect, NothingResurrectedCorrect, PTL DEF AtomicPublication

-----------------------------------------------------------------------------
(* For fingerprints, comparing the parts is comparing the whole.           *)
LEMMA EquivalentIsEqual ==
    ASSUME NEW old \in Fingerprints, NEW new \in Fingerprints
    PROVE  VerifiedEquivalent(TRUE, old, new) <=> old = new
<1>1. ASSUME VerifiedEquivalent(TRUE, old, new)  PROVE old = new
  <2>1. /\ old.version = new.version
        /\ old.logical_algorithm = new.logical_algorithm
        /\ old.schema_algorithm = new.schema_algorithm
        /\ old.logical_data = new.logical_data /\ old.schema = new.schema
    BY <1>1 DEF VerifiedEquivalent, ChangeAgainst, ChangeKind, AlgorithmChanged, DigestChange
  <2> QED
    BY <2>1, FingerprintAssumption
<1>2. ASSUME old = new  PROVE VerifiedEquivalent(TRUE, old, new)
  BY <1>2 DEF VerifiedEquivalent, ChangeAgainst, ChangeKind, AlgorithmChanged, DigestChange
<1> QED
  BY <1>1, <1>2

(* The steps that change what was decided about some build.                *)
LEMMA DecisionChanges ==
    ASSUME IInv, [Next]_vars
    PROVE  \/ UNCHANGED <<fingerprint, candidate, baseline>>
           \/ \E w \in Workers, f \in Fingerprints : CommitDecision(w, f)
           \/ \E b \in Builds : Approve(b) \/ Reject(b)
           \/ \E w \in Workers : CommitPublication(w)
  BY DEF Next, vars, governance, DecisionStep, PublishStep, StartBuild, FailBuild, LockDecision,
     LockCandidate, ValidateCandidate, RefuseStale, FailIntegrity, ReadCatalog, Crash

(* No build is decided against a publication that has been superseded by   *)
(* the time the decision is committed, and equivalence is equality.        *)
THEOREM DecidedAgainstActiveCorrect == Spec => DecidedAgainstActive
<1> DEFINE Decided(b) ==
              candidate[b] = "none" /\ candidate'[b] # "none" =>
                /\ baseline'[b] = FindActive(PartitionOf[b])
                /\ candidate'[b] = "verified_equivalent" <=>
                      baseline'[b] # None /\ fingerprint'[b] = fingerprint[baseline'[b]]
<1>1. ASSUME IInv, NEW w \in Workers, NEW f \in Fingerprints, CommitDecision(w, f),
             NEW b \in Builds
      PROVE  Decided(b)
  <2> SUFFICES ASSUME candidate[b] = "none", candidate'[b] # "none"  PROVE Decided(b)
    OBVIOUS
  <2> DEFINE base == worker[w].previous
             equivalent == VerifiedEquivalent(base # None, fingerprint[base], f)
  <2>1. b = worker[w].build /\ worker[w].at = "deciding"
    BY <1>1 DEF CommitDecision, IInv, TypeOK
  <2>2. base = FindActive(PartitionOf[b])
    BY <1>1, <2>1 DEF IInv, FreshReads
  <2>3. base # None => fingerprint[base] \in Fingerprints
    <3>1. base # None => base \in Published /\ base \in Builds
      BY <1>1, <2>2, FindActiveFacts, PartitionAssumption DEF IInv, Published
    <3> QED
      BY <1>1, <3>1 DEF IInv, GovernedPublication, Fingerprinted
  <2>4. equivalent <=> base # None /\ f = fingerprint[base]
    <3>1. CASE base = None
      BY <3>1 DEF VerifiedEquivalent, ChangeAgainst
    <3>2. CASE base # None
      <4>1. VerifiedEquivalent(base # None, fingerprint[base], f)
              <=> VerifiedEquivalent(TRUE, fingerprint[base], f)
        BY <3>2 DEF VerifiedEquivalent, ChangeAgainst
      <4> QED
        BY <3>2, <4>1, <2>3, EquivalentIsEqual
    <3> QED
      BY <3>1, <3>2
  <2>5. /\ baseline'[b] = base /\ fingerprint'[b] = f
        /\ candidate'[b] = IF equivalent THEN "verified_equivalent" ELSE "awaiting_approval"
    BY <1>1, <2>1 DEF CommitDecision, IInv, TypeOK
  <2>6. baseline'[b] # None => fingerprint[baseline'[b]] = fingerprint[base]
    BY <2>5
  <2> HIDE DEF base, equivalent
  <2> QED
    BY <2>2, <2>4, <2>5, <2>6
<1>2. ASSUME IInv, NEW b \in Builds, NEW c \in Builds, Approve(c) \/ Reject(c)
      PROVE  Decided(b)
  BY <1>2 DEF Approve, Reject, IInv, TypeOK
<1>3. ASSUME IInv, NEW b \in Builds, NEW w \in Workers, CommitPublication(w)
      PROVE  Decided(b)
  BY <1>3 DEF CommitPublication, IInv, TypeOK
<1>4. IInv /\ [Next]_vars => [\A b \in Builds : Decided(b)]_vars
  BY <1>1, <1>2, <1>3, DecisionChanges
<1> QED
  BY <1>4, LifecycleInvariant, PTL DEF Spec, DecidedAgainstActive

(* Governance decisions are never taken back.                              *)
THEOREM DecisionsAreFinalCorrect == Spec => DecisionsAreFinal
<1> DEFINE Final(b) ==
          /\ candidate[b] \in {"rejected", "published", "verified_equivalent"} =>
                candidate'[b] = candidate[b]
          /\ candidate[b] = "approved" => candidate'[b] \in {"approved", "published"}
          /\ candidate[b] = "awaiting_approval" => candidate'[b] # "published"
          /\ candidate[b] # "none" =>
                /\ build'[b] = build[b]
                /\ baseline'[b] = baseline[b]
                /\ fingerprint'[b] = fingerprint[b]
<1>1. ASSUME IInv, [Next]_vars, NEW b \in Builds  PROVE build[b] = "succeeded" => build'[b] = build[b]
  <2> USE <1>1
  <2>1. ASSUME NEW w \in Workers, NEW c \in Builds, StartBuild(w, c)
        PROVE  build[b] = "succeeded" => build'[b] = build[b]
    BY <2>1 DEF StartBuild, IInv, TypeOK
  <2>2. ASSUME NEW w \in Workers, FailBuild(w)
        PROVE  build[b] = "succeeded" => build'[b] = build[b]
    BY <2>2 DEF FailBuild, IInv, TypeOK
  <2>3. ASSUME NEW w \in Workers, NEW f \in Fingerprints, CommitDecision(w, f)
        PROVE  build[b] = "succeeded" => build'[b] = build[b]
    BY <2>3 DEF CommitDecision, IInv, TypeOK
  <2> QED
    BY <2>1, <2>2, <2>3 DEF Next, vars, governance, DecisionStep, PublishStep, LockDecision,
       Approve, Reject, LockCandidate, ValidateCandidate, RefuseStale, FailIntegrity,
       ReadCatalog, CommitPublication, Crash
<1>2. ASSUME IInv, [Next]_vars, NEW b \in Builds  PROVE Final(b)
  <2> USE <1>2
  <2>1. candidate[b] # "none" => build'[b] = build[b]
    BY <1>1 DEF IInv, GovernedPublication
  <2>2. CASE UNCHANGED <<fingerprint, candidate, baseline>>
    BY <2>1, <2>2
  <2>3. ASSUME NEW w \in Workers, NEW f \in Fingerprints, CommitDecision(w, f)
        PROVE  Final(b)
    <3>1. candidate[worker[w].build] = "none" /\ worker[w].build \in Builds
      BY <2>3 DEF CommitDecision, IInv, TypeOK, WorksOnBuild, GovernedPublication
    <3> QED
      BY <2>1, <2>3, <3>1 DEF CommitDecision, IInv, TypeOK
  <2>4. ASSUME NEW c \in Builds, Approve(c) \/ Reject(c)  PROVE Final(b)
    BY <2>1, <2>4 DEF Approve, Reject, IInv, TypeOK
  <2>5. ASSUME NEW w \in Workers, CommitPublication(w)  PROVE Final(b)
    BY <2>1, <2>5 DEF CommitPublication, IInv, TypeOK
  <2> QED
    BY <2>2, <2>3, <2>4, <2>5, DecisionChanges
<1>3. IInv /\ [Next]_vars => [\A b \in Builds : Final(b)]_vars
  BY <1>2
<1> QED
  BY <1>3, LifecycleInvariant, PTL DEF Spec, DecisionsAreFinal

(* Concurrent publishers keep the expectation of the pointer up to date.   *)
THEOREM LifecycleExpectedIsCurrent == Spec => []ExpectedIsCurrent
  BY AtomicPublicationCorrect, ExpectedIsCurrentCorrect, PTL DEF AtomicPublication


-----------------------------------------------------------------------------
(* The properties as they are model-checked: conjunctions of the above.    *)

(* Types, and one promoted file for each period with a successful build.   *)
THEOREM MarshalIsConsistentCorrect == Spec => []MarshalIsConsistent
<1>1. TypeOK /\ OnePromotedFilePerPeriod <=> MarshalIsConsistent
  BY DEF MarshalIsConsistent
<1> QED BY <1>1, TypeCorrect, OnePromotedFilePerPeriodCorrect, PTL

(* Concurrent publishers keep the catalog consistent.                      *)
THEOREM LifecycleCatalogConsistent == Spec => []CatalogConsistent
  BY AtomicPublicationCorrect, CatalogConsistentCorrect, PTL DEF AtomicPublication

(* A publication is what was compared, differs from what it supersedes and *)
(* has passed its gate.                                                    *)
THEOREM PublishedAsReviewedCorrect == Spec => []PublishedAsReviewed
<1>1. PublishedOverReviewedBaseline /\ NoRedundantRevision /\ GovernedPublication
        <=> PublishedAsReviewed
  BY DEF PublishedAsReviewed
<1> QED
  BY <1>1, PublishedOverReviewedBaselineCorrect, NoRedundantRevisionCorrect,
     GovernedPublicationCorrect, PTL

(* Neither decisions nor publications are ever taken back.                 *)
THEOREM IrrevocableCorrect == Spec => Irrevocable
  BY LifecycleNothingResurrected, DecisionsAreFinalCorrect DEF Irrevocable

-----------------------------------------------------------------------------
(* The public history of a partition is an enumeration of its publications *)
(* by revision.  What enumerates a set: a numbering from 1 up to the       *)
(* number of its elements.                                                 *)
Enumerates(number, rows) ==
    /\ IsFiniteSet(rows)
    /\ \A b \in rows : number[b] \in 1..Cardinality(rows)
    /\ \A b, c \in rows : number[b] = number[c] => b = c
    /\ \A i \in 1..Cardinality(rows) : \E b \in rows : number[b] = i

EntryOf(b, content) == [build |-> b, content |-> content[b]]

(* The revisions of a set of publications, oldest first.                   *)
Chronicle(rows, number, content) ==
    [i \in 1..Cardinality(rows) |->
        LET b == CHOOSE c \in rows : number[c] = i
        IN  [build |-> b, content |-> content[b]]]

(* A new element numbered after the last extends an enumeration.           *)
LEMMA EnumerationGrows ==
    ASSUME NEW rows, NEW number, NEW later, NEW b, Enumerates(number, rows), b \notin rows,
           \A c \in rows : later[c] = number[c], later[b] = Cardinality(rows) + 1
    PROVE  Enumerates(later, rows \cup {b})
<1>1. /\ IsFiniteSet(rows \cup {b}) /\ Cardinality(rows) \in Nat
      /\ Cardinality(rows \cup {b}) = Cardinality(rows) + 1
  BY FS_AddElement, FS_CardinalityType DEF Enumerates
<1>2. PICK n \in Nat : n = Cardinality(rows)
  BY <1>1
<1>3. \A c \in rows : number[c] \in 1..n /\ later[c] \in 1..(n + 1) /\ later[c] # n + 1
  BY <1>2 DEF Enumerates
<1>4. \A i \in 1..(n + 1) : \E c \in rows \cup {b} : later[c] = i
  <2> SUFFICES ASSUME NEW i \in 1..(n + 1)  PROVE \E c \in rows \cup {b} : later[c] = i
    OBVIOUS
  <2>1. CASE i = n + 1
    BY <1>2, <2>1
  <2>2. CASE i # n + 1
    <3>1. i \in 1..n
      BY <2>2
    <3> QED
      BY <1>2, <3>1 DEF Enumerates
  <2> QED
    BY <2>1, <2>2
<1>5. \A c, d \in rows \cup {b} : later[c] = later[d] => c = d
  BY <1>2, <1>3 DEF Enumerates
<1>6. \A c \in rows \cup {b} : later[c] \in 1..(n + 1)
  BY <1>2, <1>3
<1>7. Cardinality(rows \cup {b}) = n + 1
  BY <1>1, <1>2
<1> QED
  BY <1>1, <1>4, <1>5, <1>6, <1>7 DEF Enumerates

(* A chronicle holds every row at its number, and nothing else.            *)
LEMMA ChronicleAt ==
    ASSUME NEW rows, NEW number, NEW content, Enumerates(number, rows), NEW b \in rows
    PROVE  Chronicle(rows, number, content)[number[b]] = EntryOf(b, content)
<1>1. number[b] \in 1..Cardinality(rows)
  BY DEF Enumerates
<1>2. PICK d \in rows : d = CHOOSE c \in rows : number[c] = number[b]
  OBVIOUS
<1>3. d = b
  BY <1>2 DEF Enumerates
<1> QED
  BY <1>1, <1>2, <1>3 DEF Chronicle, EntryOf

LEMMA ChronicleRows ==
    ASSUME NEW rows, NEW number, NEW content, Enumerates(number, rows),
           NEW i \in 1..Cardinality(rows)
    PROVE  \E b \in rows :
              number[b] = i /\ Chronicle(rows, number, content)[i] = EntryOf(b, content)
<1>1. PICK b \in rows : number[b] = i
  BY DEF Enumerates
<1> QED
  BY <1>1, ChronicleAt

(* It is a sequence with an entry for each row.                            *)
LEMMA ChronicleIsSequence ==
    ASSUME NEW rows, NEW number, NEW content, NEW C, Enumerates(number, rows),
           \A b \in rows : content[b] \in C
    PROVE  /\ Chronicle(rows, number, content) \in Seq([build: rows, content: C])
           /\ Len(Chronicle(rows, number, content)) = Cardinality(rows)
<1> DEFINE h == Chronicle(rows, number, content)
<1>1. PICK n \in Nat : n = Cardinality(rows)
  BY FS_CardinalityType DEF Enumerates
<1>2. \A b \in rows : EntryOf(b, content) \in [build: rows, content: C]
  BY DEF EntryOf
<1>3. ASSUME NEW i \in 1..n  PROVE h[i] \in [build: rows, content: C]
  BY <1>1, <1>2, <1>3, ChronicleRows
<1>4. DOMAIN h = 1..n /\ h = [i \in 1..n |-> h[i]]
  BY <1>1 DEF Chronicle
<1> HIDE DEF h
<1>5. h \in [1..n -> [build: rows, content: C]]
  BY <1>3, <1>4
<1>6. h \in Seq([build: rows, content: C])
  BY <1>5, SeqDef
<1>7. Len(h) = n
  BY <1>5, <1>6, LenProperties
<1> QED
  BY <1>1, <1>6, <1>7 DEF h

(* The chronicle of one more row is the old one with that row appended.    *)
LEMMA ChronicleGrows ==
    ASSUME NEW rows, NEW number, NEW later, NEW content, NEW contentLater, NEW b,
           Enumerates(number, rows), b \notin rows, later[b] = Cardinality(rows) + 1,
           \A c \in rows : later[c] = number[c] /\ contentLater[c] = content[c]
    PROVE  Chronicle(rows \cup {b}, later, contentLater)
             = Append(Chronicle(rows, number, content), EntryOf(b, contentLater))
<1> DEFINE h == Chronicle(rows, number, content)
           k == Chronicle(rows \cup {b}, later, contentLater)
           C == {contentLater[c] : c \in rows \cup {b}}
           E == [build: rows \cup {b}, content: C]
           e == EntryOf(b, contentLater)
<1>1. PICK n \in Nat : n = Cardinality(rows)
  BY FS_CardinalityType DEF Enumerates
<1>2. Cardinality(rows \cup {b}) = n + 1
  BY <1>1, FS_AddElement DEF Enumerates
<1>3. Enumerates(later, rows \cup {b})
  BY EnumerationGrows
<1>4. k \in Seq(E) /\ Len(k) = n + 1
  <2>1. \A c \in rows \cup {b} : contentLater[c] \in C
    OBVIOUS
  <2> HIDE DEF C
  <2> QED
    BY <2>1, <1>2, <1>3, ChronicleIsSequence
<1>5. h \in Seq([build: rows, content: C]) /\ Len(h) = n
  <2>1. \A c \in rows : content[c] \in C
    OBVIOUS
  <2> HIDE DEF C
  <2> QED
    BY <2>1, <1>1, ChronicleIsSequence
<1>6. h \in Seq(E)
  <2>1. [build: rows, content: C] \subseteq E
    OBVIOUS
  <2> HIDE DEF h, E
  <2> QED
    BY <1>5, <2>1, SeqMonotonic
<1>7. e \in E
  BY DEF EntryOf
<1>8. ASSUME NEW i \in 1..n  PROVE k[i] = h[i]
  <2>1. PICK c \in rows : number[c] = i /\ h[i] = EntryOf(c, content)
    <3>1. i \in 1..Cardinality(rows)
      BY <1>1
    <3> HIDE DEF C
    <3> QED
      BY <3>1, ChronicleRows
  <2>2. k[later[c]] = EntryOf(c, contentLater)
    BY <1>3, ChronicleAt
  <2>3. EntryOf(c, contentLater) = EntryOf(c, content)
    BY <2>1 DEF EntryOf
  <2> HIDE DEF h, k
  <2> QED
    BY <2>1, <2>2, <2>3
<1>9. k[n + 1] = e
  BY <1>1, <1>3, ChronicleAt
<1> HIDE DEF h, k, C, E, e
<1>10. /\ Append(h, e) \in Seq(E) /\ Len(Append(h, e)) = n + 1
       /\ \A i \in 1..n : Append(h, e)[i] = h[i]
       /\ Append(h, e)[n + 1] = e
  BY <1>5, <1>6, <1>7, AppendProperties
<1>11. \A i \in 1..(n + 1) : i \in 1..n \/ i = n + 1
  OBVIOUS
<1>12. \A i \in 1..(n + 1) : k[i] = Append(h, e)[i]
  BY <1>8, <1>9, <1>10, <1>11
<1>13. k = Append(h, e)
  BY <1>4, <1>10, <1>12, SeqEqual
<1> QED
  BY <1>13 DEF k, h, e

(* What is not numbered or changed does not matter to a chronicle.         *)
LEMMA ChronicleSame ==
    ASSUME NEW rows, NEW number, NEW later, NEW content, NEW contentLater,
           Enumerates(number, rows),
           \A c \in rows : later[c] = number[c] /\ contentLater[c] = content[c]
    PROVE  Chronicle(rows, later, contentLater) = Chronicle(rows, number, content)
<1>1. ASSUME NEW i \in 1..Cardinality(rows)
      PROVE  (CHOOSE c \in rows : later[c] = i) = (CHOOSE c \in rows : number[c] = i)
  BY Zenon
<1>2. ASSUME NEW i \in 1..Cardinality(rows)
      PROVE  (CHOOSE c \in rows : number[c] = i) \in rows
  BY <1>2 DEF Enumerates
<1>3. ASSUME NEW i \in 1..Cardinality(rows)
      PROVE  LET b == CHOOSE c \in rows : later[c] = i
                 d == CHOOSE c \in rows : number[c] = i
             IN  [build |-> b, content |-> contentLater[b]] = [build |-> d, content |-> content[d]]
  <2>1. PICK d \in rows : d = CHOOSE c \in rows : number[c] = i
    BY <1>2
  <2>2. d = CHOOSE c \in rows : later[c] = i
    BY <1>1, <2>1
  <2>3. contentLater[d] = content[d]
    OBVIOUS
  <2> QED
    BY <2>1, <2>2, <2>3
<1> QED
  BY <1>3, Zenon DEF Chronicle

-----------------------------------------------------------------------------
(* No partition has a hole in its revisions: revision enumerates them.     *)
Gapless == \A p \in Partitions : Enumerates(revision, RevisionsOf(p))

LEMMA GaplessInitially == CatalogInit => Gapless
<1> SUFFICES ASSUME CatalogInit, NEW p \in Partitions  PROVE Enumerates(revision, RevisionsOf(p))
  BY DEF Gapless
<1>1. RevisionsOf(p) = {}
  BY DEF CatalogInit, RevisionsOf, Published
<1> QED
  BY <1>1, FS_EmptySet DEF Enumerates

(* The revision that a publication gets is the number of the publications  *)
(* that its partition has, and one; the last of them is the active one.    *)
LEMMA NextIsCount ==
    ASSUME CatalogInv, Gapless, NEW p \in Partitions
    PROVE  /\ Cardinality(RevisionsOf(p)) \in Nat
           /\ NextRevision(p) = Cardinality(RevisionsOf(p)) + 1
           /\ RevisionsOf(p) = {} => Cardinality(RevisionsOf(p)) = 0
           /\ RevisionsOf(p) # {} =>
                 /\ FindActive(p) \in RevisionsOf(p)
                 /\ revision[FindActive(p)] = Cardinality(RevisionsOf(p))
<1> DEFINE rows == RevisionsOf(p)
<1>1. Enumerates(revision, rows)
  BY DEF Gapless
<1>2. PICK n \in Nat : n = Cardinality(rows)
  BY <1>1, FS_CardinalityType DEF Enumerates
<1>3. CASE rows = {}
  <2>1. FindActive(p) = None
    BY <1>3, FindActiveFacts DEF RevisionsOf
  <2>2. NextRevision(p) = 1 /\ Cardinality(rows) = 0
    BY <1>3, <2>1, NextRevisionFacts, FS_EmptySet
  <2> QED
    BY <1>2, <1>3, <2>2
<1>4. CASE rows # {}
  <2> DEFINE a == FindActive(p)
  <2>1. a \in rows /\ \A c \in rows : revision[c] <= revision[a]
    BY <1>4, FindActiveFacts DEF RevisionsOf
  <2>2. a # None
    BY <2>1, NoneAssumption DEF RevisionsOf, Published
  <2> HIDE DEF a
  <2>3. revision[a] \in 1..n
    BY <1>1, <1>2, <2>1 DEF Enumerates
  <2>4. PICK last \in rows : revision[last] = n
    BY <1>1, <1>2, <2>3 DEF Enumerates
  <2>5. n <= revision[a]
    BY <2>1, <2>4
  <2>6. revision[a] = n
    BY <2>3, <2>5
  <2>7. NextRevision(p) = revision[a] + 1
    BY <2>2, NextRevisionFacts DEF a
  <2> QED
    BY <1>2, <1>4, <2>1, <2>6, <2>7 DEF a
<1> QED
  BY <1>3, <1>4

(* A publication is one more revision of its partition, and no change of   *)
(* the others.                                                             *)
LEMMA RevisionsAfter ==
    ASSUME CatalogInv, NEW b \in Builds, Publish(b), NEW p \in Partitions
    PROVE  /\ b \notin RevisionsOf(p)
           /\ RevisionsOf(p)' = IF p = PartitionOf[b] THEN RevisionsOf(p) \cup {b}
                                ELSE RevisionsOf(p)
           /\ \A c \in RevisionsOf(p) : revision'[c] = revision[c]
           /\ revision'[b] = NextRevision(PartitionOf[b])
<1>1. revision \in [Builds -> Nat]
  BY DEF CatalogInv, CatalogTypeOK
<1> QED
  BY <1>1, PublishFacts DEF RevisionsOf, Published

LEMMA GaplessStep ==
    ASSUME CatalogInv, Gapless, NEW b \in Builds, Publish(b)
    PROVE  Gapless'
<1> SUFFICES ASSUME NEW p \in Partitions  PROVE Enumerates(revision', RevisionsOf(p)')
  BY DEF Gapless
<1>1. Enumerates(revision, RevisionsOf(p))
  BY DEF Gapless
<1>2. PICK rows : rows = RevisionsOf(p)
  OBVIOUS
<1>3. CASE p = PartitionOf[b]
  <2>1. RevisionsOf(p)' = rows \cup {b} /\ b \notin rows
    BY <1>2, <1>3, RevisionsAfter
  <2>2. revision'[b] = Cardinality(rows) + 1
    BY <1>2, <1>3, RevisionsAfter, NextIsCount
  <2>3. \A c \in rows : revision'[c] = revision[c]
    BY <1>2, RevisionsAfter
  <2>4. Enumerates(revision', rows \cup {b})
    BY <1>1, <1>2, <2>1, <2>2, <2>3, EnumerationGrows
  <2> QED
    BY <2>1, <2>4
<1>4. CASE p # PartitionOf[b]
  <2>1. RevisionsOf(p)' = RevisionsOf(p) /\ \A c \in RevisionsOf(p) : revision'[c] = revision[c]
    BY <1>4, RevisionsAfter
  <2> QED
    BY <1>1, <2>1 DEF Enumerates
<1> QED
  BY <1>3, <1>4

-----------------------------------------------------------------------------
(* The history that the mapping reads off the catalog, before and after a  *)
(* step.                                                                   *)
LEMMA HistoryIsChronicle ==
    ASSUME NEW p \in Partitions
    PROVE  /\ HistoryOf(p) = Chronicle(RevisionsOf(p), revision, fingerprint)
           /\ HistoryOf(p)' = Chronicle(RevisionsOf(p)', revision', fingerprint')
  BY Zenon DEF HistoryOf, Chronicle

(* A public revision has the fingerprint it was decided with.              *)
LEMMA PublicContent ==
    ASSUME IInv, NEW b \in Published
    PROVE  fingerprint[b] \in Fingerprints
  BY DEF IInv, GovernedPublication, Fingerprinted, Published

(* What is shown as newest, before and after a publication.                *)
LEMMA NewestFacts ==
    ASSUME CatalogInv, NEW b \in Builds, Publish(b)
    PROVE  Public!Show(PartitionOf[b])
<1>1. PartitionOf \in [Builds -> Partitions] /\ None \notin Builds /\ None \notin Partitions
  BY PartitionAssumption, NoneAssumption
<1>2. current' = IF TakesOver(b, FindCurrent) THEN {b}
                 ELSE current \ {FindActive(PartitionOf[b])}
  BY DEF Publish, InsertPublication
<1>3. FindCurrent = None \/ FindCurrent \in current
  BY OneOfFacts DEF FindCurrent
<1>4. current \subseteq Builds
  BY DEF CatalogInv, CatalogTypeOK
<1>5. NewestPartition = None <=> FindCurrent = None
  BY <1>1, <1>3, <1>4 DEF NewestPartition
<1>6. FindCurrent # None => NewestPartition = PartitionOf[FindCurrent]
  BY DEF NewestPartition
<1>7. TakesOver(b, FindCurrent)
        <=> NewestPartition = None \/ Period[PartitionOf[b]] >= Period[NewestPartition]
  BY <1>5, <1>6 DEF TakesOver, PeriodOf
<1>8. CASE TakesOver(b, FindCurrent)
  <2>1. FindCurrent' = b
    BY <1>2, <1>8, OneOfFacts DEF FindCurrent
  <2>2. NewestPartition' = PartitionOf[b]
    BY <1>1, <2>1 DEF NewestPartition
  <2> QED
    BY <1>7, <1>8, <2>2 DEF Public!Show
<1>9. CASE ~TakesOver(b, FindCurrent)
  <2>1. b \notin current
    BY PublishFacts DEF CatalogInv, CurrentIsNewest
  <2>2. current' = current
    BY <1>2, <1>9, <2>1, CurrentFacts
  <2>3. NewestPartition' = NewestPartition
    BY <2>2 DEF NewestPartition, FindCurrent
  <2> QED
    BY <1>7, <1>9, <2>3 DEF Public!Show
<1> QED
  BY <1>8, <1>9

(* What is committed is a revision that the history does not have yet and  *)
(* whose content is not that of the last one.                              *)
LEMMA CommitAppends ==
    ASSUME IInv, Gapless, NEW w \in Workers, CommitPublication(w)
    PROVE  LET b == worker[w].build
           IN  Public!AppendRevision(PartitionOf[b], b, fingerprint[b])
<1> DEFINE Histories == [q \in Partitions |-> HistoryOf(q)]
<1>1. PICK b \in Builds : b = worker[w].build /\ Publish(b)
  BY CommitIsPublish
<1>2. PICK p \in Partitions : p = PartitionOf[b]
  BY PartitionAssumption
<1>3. PICK rows : rows = RevisionsOf(p)
  OBVIOUS
<1>4. PICK n : n = Cardinality(rows)
  OBVIOUS
<1>5. CatalogInv /\ Enumerates(revision, rows) /\ n \in Nat
  BY <1>2, <1>3, <1>4, NextIsCount DEF IInv, Gapless
<1>6. /\ candidate[b] = "approved" /\ Publishable(b)
      /\ UNCHANGED fingerprint
  BY <1>1 DEF CommitPublication, IInv, Validated, WorksOnBuild
<1>7. \A c \in rows : fingerprint[c] \in Fingerprints
  BY <1>3, PublicContent DEF RevisionsOf
<1>8. fingerprint[b] \in Fingerprints
  BY <1>6 DEF IInv, Publishable, Fingerprinted
<1>9. b \notin rows /\ RevisionsOf(p)' = rows \cup {b}
  BY <1>1, <1>2, <1>3, <1>5, RevisionsAfter
<1>10. HistoryOf(p) = Chronicle(rows, revision, fingerprint)
  BY <1>3, HistoryIsChronicle
<1>11. /\ HistoryOf(p) \in Seq([build: rows, content: Fingerprints])
       /\ Len(HistoryOf(p)) = n
  <2>1. /\ Chronicle(rows, revision, fingerprint) \in Seq([build: rows, content: Fingerprints])
        /\ Len(Chronicle(rows, revision, fingerprint)) = Cardinality(rows)
    BY <1>5, <1>7, ChronicleIsSequence
  <2> QED
    BY <1>4, <1>10, <2>1
<1>12. b \notin Public!BuildsOf(HistoryOf(p))
  <2>1. \A i \in 1..n : HistoryOf(p)[i] \in [build: rows, content: Fingerprints]
    BY <1>11, ElementOfSeq
  <2>2. DOMAIN HistoryOf(p) = 1..n
    BY <1>11, LenProperties
  <2> QED
    BY <1>9, <2>1, <2>2 DEF Public!BuildsOf
<1>13. ASSUME HistoryOf(p) # <<>>
       PROVE  HistoryOf(p)[Len(HistoryOf(p))].content # fingerprint[b]
  <2>1. n # 0
    BY <1>11, <1>13, EmptySeq
  <2>2. rows # {}
    BY <1>3, <1>4, <1>5, <1>2, <2>1, NextIsCount
  <2>3. PICK a : a = FindActive(p)
    OBVIOUS
  <2>4. a \in rows /\ revision[a] = n
    BY <1>3, <1>4, <1>5, <2>2, <2>3, NextIsCount
  <2>5. HistoryOf(p)[n] = EntryOf(a, fingerprint)
    BY <1>5, <1>10, <2>4, ChronicleAt
  <2>6. a = baseline[b] /\ a # None
    BY <1>2, <1>3, <1>6, <2>3, <2>4, NoneAssumption DEF Publishable, RevisionsOf, Published
  <2>7. fingerprint[a] # fingerprint[b]
    BY <1>6, <2>6 DEF IInv, ReviewedChange
  <2> QED
    BY <1>11, <2>5, <2>7 DEF EntryOf
<1>14. HistoryOf(p)' = Append(HistoryOf(p), [build |-> b, content |-> fingerprint[b]])
  <2>1. \A c \in rows : revision'[c] = revision[c]
    BY <1>1, <1>2, <1>3, <1>5, RevisionsAfter
  <2>2. revision'[b] = n + 1
    BY <1>1, <1>2, <1>3, <1>4, <1>5, RevisionsAfter, NextIsCount
  <2>3. revision'[b] = Cardinality(rows) + 1
    BY <1>4, <2>2
  <2>4. \A c \in rows : revision'[c] = revision[c] /\ fingerprint'[c] = fingerprint[c]
    BY <1>6, <2>1
  <2>5. Chronicle(rows \cup {b}, revision', fingerprint')
          = Append(Chronicle(rows, revision, fingerprint), EntryOf(b, fingerprint'))
    <3>1. PICK number, content, later, told :
              /\ number = revision /\ later = revision'
              /\ content = fingerprint /\ told = fingerprint'
      OBVIOUS
    <3>2. /\ Enumerates(number, rows) /\ b \notin rows /\ later[b] = Cardinality(rows) + 1
          /\ \A c \in rows : later[c] = number[c] /\ told[c] = content[c]
      BY <1>5, <1>9, <2>3, <2>4, <3>1
    <3>3. Chronicle(rows \cup {b}, later, told)
            = Append(Chronicle(rows, number, content), EntryOf(b, told))
      BY <3>2, ChronicleGrows
    <3> QED
      BY <3>1, <3>3
  <2> QED
    BY <1>6, <1>9, <1>10, <2>5, HistoryIsChronicle DEF EntryOf
<1>15. ASSUME NEW q \in Partitions, q # p  PROVE HistoryOf(q)' = HistoryOf(q)
  <2>1. /\ RevisionsOf(q)' = RevisionsOf(q)
        /\ \A c \in RevisionsOf(q) : revision'[c] = revision[c] /\ fingerprint'[c] = fingerprint[c]
    BY <1>1, <1>2, <1>5, <1>6, <1>15, RevisionsAfter
  <2>2. Enumerates(revision, RevisionsOf(q))
    BY DEF Gapless
  <2> QED
    BY <2>1, <2>2, HistoryIsChronicle, ChronicleSame
<1>16. Histories' = [Histories EXCEPT ![p] = Append(@, [build |-> b, content |-> fingerprint[b]])]
  BY <1>14, <1>15
<1>17. Histories[p] = HistoryOf(p)
  OBVIOUS
<1> QED
  BY <1>1, <1>2, <1>12, <1>13, <1>16, <1>17 DEF Public!AppendRevision

(* Every other step leaves what is public as it is.                        *)
LEMMA NothingAppended ==
    ASSUME IInv, Gapless, UNCHANGED catalogVars,
           \A b \in Published : fingerprint'[b] = fingerprint[b]
    PROVE  Gapless' /\ UNCHANGED Public!vars
<1>1. Published' = Published /\ FindCurrent' = FindCurrent /\ revision' = revision
  BY CatalogFrame DEF catalogVars
<1>2. \A p \in Partitions : RevisionsOf(p)' = RevisionsOf(p)
  BY <1>1 DEF RevisionsOf
<1>3. Gapless'
  BY <1>1, <1>2 DEF Gapless
<1>4. ASSUME NEW p \in Partitions  PROVE HistoryOf(p)' = HistoryOf(p)
  <2>1. \A c \in RevisionsOf(p) : revision'[c] = revision[c] /\ fingerprint'[c] = fingerprint[c]
    BY <1>1 DEF RevisionsOf
  <2>2. Enumerates(revision, RevisionsOf(p))
    BY DEF Gapless
  <2> QED
    BY <1>2, <2>1, <2>2, HistoryIsChronicle, ChronicleSame
<1>5. NewestPartition' = NewestPartition
  BY <1>1 DEF NewestPartition
<1>6. [p \in Partitions |-> HistoryOf(p)]' = [p \in Partitions |-> HistoryOf(p)]
  BY <1>4
<1> QED
  BY <1>3, <1>5, <1>6 DEF Public!vars

(* A step of the lifecycle is a step of the public history or no step.     *)
LEMMA HistoryStep == IInv /\ Gapless /\ [Next]_vars => Gapless' /\ [Public!Next]_(Public!vars)
<1> SUFFICES ASSUME IInv, Gapless, [Next]_vars  PROVE Gapless' /\ [Public!Next]_(Public!vars)
  OBVIOUS
<1>1. ASSUME NEW w \in Workers, CommitPublication(w)
      PROVE  Gapless' /\ Public!Next
  <2>1. PICK b \in Builds : b = worker[w].build /\ Publish(b)
    BY <1>1, CommitIsPublish
  <2>2. Gapless'
    BY <2>1, GaplessStep DEF IInv
  <2>3. fingerprint[b] \in Fingerprints
    BY <1>1, <2>1 DEF CommitPublication, IInv, Validated, Publishable, Fingerprinted
  <2>4. Public!AppendRevision(PartitionOf[b], b, fingerprint[b])
    BY <1>1, <2>1, CommitAppends
  <2>5. Public!Show(PartitionOf[b])
    BY <2>1, NewestFacts DEF IInv
  <2> QED
    BY <2>2, <2>3, <2>4, <2>5 DEF Public!Next, Public!Publish
<1>2. ASSUME NEW w \in Workers, NEW f \in Fingerprints, CommitDecision(w, f)
      PROVE  Gapless' /\ UNCHANGED Public!vars
  <2>1. worker[w].build \notin Published /\ UNCHANGED catalogVars
    BY <1>2 DEF CommitDecision, IInv, GovernedPublication, Published
  <2>2. \A b \in Published : fingerprint'[b] = fingerprint[b]
    BY <1>2, <2>1 DEF CommitDecision, IInv, TypeOK, Published
  <2> QED
    BY <2>1, <2>2, NothingAppended
<1>3. CASE UNCHANGED <<catalogVars, fingerprint>>
  BY <1>3, NothingAppended
<1>4. \/ \E w \in Workers : CommitPublication(w)
      \/ \E w \in Workers, f \in Fingerprints : CommitDecision(w, f)
      \/ UNCHANGED <<catalogVars, fingerprint>>
  BY DEF Next, vars, governance, DecisionStep, PublishStep, StartBuild, FailBuild, LockDecision,
     Approve, Reject, LockCandidate, ValidateCandidate, RefuseStale, FailIntegrity,
     ReadCatalog, Crash
<1> QED
  BY <1>1, <1>2, <1>3, <1>4

LEMMA HistoryInitially == Init => Public!Init
<1> SUFFICES ASSUME Init  PROVE Public!Init
  OBVIOUS
<1>1. CatalogInit /\ FindCurrent = None
  BY OneOfFacts DEF Init, CatalogInit, FindCurrent
<1>2. ASSUME NEW p \in Partitions  PROVE HistoryOf(p) = <<>>
  <2>1. RevisionsOf(p) = {}
    BY <1>1 DEF CatalogInit, RevisionsOf, Published
  <2>2. Enumerates(revision, RevisionsOf(p)) /\ Cardinality(RevisionsOf(p)) = 0
    BY <1>1, <2>1, GaplessInitially, FS_EmptySet DEF Gapless
  <2>3. /\ Chronicle({}, revision, fingerprint) \in Seq([build: {}, content: {}])
        /\ Len(Chronicle({}, revision, fingerprint)) = 0
    BY <2>1, <2>2, ChronicleIsSequence
  <2> QED
    BY <2>1, <2>3, EmptySeq, HistoryIsChronicle
<1>3. NewestPartition = None
  BY <1>1 DEF NewestPartition
<1> QED
  BY <1>2, <1>3 DEF Public!Init

(* Whatever interleaves, crashes or is refused, the public history of a    *)
(* dataset only grows by revisions that change something, and what it      *)
(* shows never goes back to an earlier period.                             *)
THEOREM PublicHistoryCorrect == Spec => PublicHistory
<1>1. Init => Public!Init /\ Gapless
  BY HistoryInitially, GaplessInitially DEF Init
<1> QED
  BY <1>1, HistoryStep, LifecycleInvariant, PTL DEF Spec, PublicHistory, Public!Spec

=============================================================================
