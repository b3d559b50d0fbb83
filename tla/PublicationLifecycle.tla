----------------------- MODULE PublicationLifecycle ------------------------
(***************************************************************************)
(* From a Silver build to a governed publication, for one dataset.         *)
(*                                                                         *)
(* Workers are operating-system processes: pipeline runs that build and    *)
(* decide, and operator commands that publish.  Each owns one PostgreSQL   *)
(* session (READ COMMITTED).  A transaction reads under the locks it has   *)
(* taken, keeps what it read in the worker, and writes everything in its   *)
(* commit; an error or a crash before the commit writes nothing and frees  *)
(* the locks.  The locks are the dataset advisory lock                     *)
(* "dataset-publication:<dataset_id>" and the row lock of a candidate.     *)
(***************************************************************************)
EXTENDS PublicationCatalog, PublicationDecision

CONSTANTS Workers,
          Files,        \* Bronze files known to the FileMarshal
          FileOf,       \* the Bronze file a build reads
          Fingerprints  \* SilverDatasetFingerprint values a build may have

ASSUME FileAssumption ==
    /\ FileOf \in [Builds -> Files]
    /\ \A b, c \in Builds : FileOf[b] = FileOf[c] => PartitionOf[b] = PartitionOf[c]

(* A fingerprint is fully determined by its five parts.                    *)
ASSUME FingerprintAssumption ==
    \A f \in Fingerprints :
        f = [version |-> f.version,
             logical_algorithm |-> f.logical_algorithm, schema_algorithm |-> f.schema_algorithm,
             logical_data |-> f.logical_data, schema |-> f.schema]

VARIABLES build,        \* silver_build_attempts.status, "absent" without a row
          fingerprint,  \* fingerprint recorded by mark_succeeded
          candidate,    \* what was decided about a build, and what followed
          baseline,     \* active publication the decision was taken against
          promoted,     \* marshaled_files with is_promoted
          gate,         \* publication_gate_attempts: <<build, passed>>
          worker        \* what each process is doing and has read

governance == <<build, fingerprint, candidate, baseline, promoted, gate>>
vars == <<catalogVars, governance, worker>>

BuildStatus == {"absent", "running", "succeeded", "failed"}
CandidateStatus == {"none", "verified_equivalent", "awaiting_approval",
                    "approved", "rejected", "published"}

(* at: where the process stands; build: the build or candidate it works    *)
(* on; previous, seenCurrent, newRevision: rows read inside a transaction. *)
Points == {"idle", "building", "deciding", "candidate_locked", "validated", "inserting"}
Idle == [at |-> "idle", build |-> None,
         previous |-> None, seenCurrent |-> None, newRevision |-> 0]

TypeOK ==
    /\ CatalogTypeOK
    /\ build \in [Builds -> BuildStatus]
    /\ fingerprint \in [Builds -> Fingerprints \cup {None}]
    /\ candidate \in [Builds -> CandidateStatus]
    /\ baseline \in [Builds -> MaybeBuild]
    /\ promoted \in SUBSET Files
    /\ gate \in SUBSET (Builds \X BOOLEAN)
    /\ worker \in [Workers -> [at: Points, build: MaybeBuild, previous: MaybeBuild,
                               seenCurrent: MaybeBuild, newRevision: Nat]]

Init ==
    /\ CatalogInit
    /\ build = [b \in Builds |-> "absent"]
    /\ fingerprint = [b \in Builds |-> None]
    /\ candidate = [b \in Builds |-> "none"]
    /\ baseline = [b \in Builds |-> None]
    /\ promoted = {}
    /\ gate = {}
    /\ worker = [w \in Workers |-> Idle]

-----------------------------------------------------------------------------
HoldsDataset(w) == worker[w].at \in {"deciding", "validated", "inserting"}
HoldsCandidate(w, b) ==
    /\ worker[w].build = b
    /\ worker[w].at \in {"candidate_locked", "validated", "inserting"}

(* Fault: the advisory lock is not taken.                                  *)
Unlocked == TRUE

DatasetFree == \A w \in Workers : ~ HoldsDataset(w)
CandidateFree(b) == \A w \in Workers : ~ HoldsCandidate(w, b)

Finish(w) == worker' = [worker EXCEPT ![w] = Idle]

-----------------------------------------------------------------------------
(* A pipeline run inserts a running attempt and starts building.           *)
StartBuild(w, b) ==
    /\ worker[w].at = "idle"
    /\ build[b] = "absent"
    /\ build' = [build EXCEPT ![b] = "running"]
    /\ worker' = [worker EXCEPT ![w] = [Idle EXCEPT !.at = "building", !.build = b]]
    /\ UNCHANGED <<catalogVars, fingerprint, candidate, baseline, promoted, gate>>

(* A table build or the finalization fails, the decision transaction being *)
(* rolled back if it was open: the attempt is marked failed if it is still *)
(* running.                                                                *)
FailBuild(w) ==
    LET b == worker[w].build IN
    /\ worker[w].at \in {"building", "deciding"}
    /\ build' = [build EXCEPT ![b] = IF @ = "running" THEN "failed" ELSE @]
    /\ Finish(w)
    /\ UNCHANGED <<catalogVars, fingerprint, candidate, baseline, promoted, gate>>

(* Fault: the baseline is read without waiting for the lock.               *)
DecideUnlocked(w) ==
    /\ worker[w].at = "building"
    /\ worker' = [worker EXCEPT ![w].at = "deciding",
                     ![w].previous = FindActive(PartitionOf[worker[w].build])]
    /\ UNCHANGED <<catalogVars, governance>>

(* The decision transaction: take the dataset lock, then read the active   *)
(* publication of the partition.                                           *)
LockDecision(w) ==
    /\ worker[w].at = "building"
    /\ DatasetFree
    /\ worker' = [worker EXCEPT ![w].at = "deciding",
                     ![w].previous = FindActive(PartitionOf[worker[w].build])]
    /\ UNCHANGED <<catalogVars, governance>>

(* Fault: promotion does not look for a promoted file of the same period.  *)
PromoteAlso(file, period) == promoted' = promoted \cup {file}

(* promote(): the previously promoted file of the period is demoted.       *)
Promote(file, period) ==
    promoted' = {f \in promoted : \A b \in Builds : FileOf[b] = f => PeriodOf(b) # period}
                \cup {file}

(* Decide against what was read; mark the build succeeded, promote its     *)
(* file, and record either a verification of the baseline or a candidate.  *)
CommitDecision(w, f) ==
    LET b == worker[w].build
        base == worker[w].previous
        equivalent == VerifiedEquivalent(base # None, fingerprint[base], f)
    IN  /\ worker[w].at = "deciding"
        /\ build[b] = "running"
        /\ build' = [build EXCEPT ![b] = "succeeded"]
        /\ fingerprint' = [fingerprint EXCEPT ![b] = f]
        /\ baseline' = [baseline EXCEPT ![b] = base]
        /\ candidate' = [candidate EXCEPT ![b] =
               IF equivalent THEN "verified_equivalent" ELSE "awaiting_approval"]
        /\ Promote(FileOf[b], PeriodOf(b))
        /\ Finish(w)
        /\ UNCHANGED <<catalogVars, gate>>

-----------------------------------------------------------------------------
(* approve() and reject() are one conditional UPDATE, which waits for the  *)
(* row; on any other status they change nothing.                           *)
Approve(b) ==
    /\ CandidateFree(b)
    /\ candidate[b] = "awaiting_approval"
    /\ candidate' = [candidate EXCEPT ![b] = "approved"]
    /\ UNCHANGED <<catalogVars, build, fingerprint, baseline, promoted, gate, worker>>

(* Fault: an approval can still be turned into a rejection.                *)
RejectLate(b) ==
    /\ CandidateFree(b)
    /\ candidate[b] \in {"awaiting_approval", "approved"}
    /\ candidate' = [candidate EXCEPT ![b] = "rejected"]
    /\ UNCHANGED <<catalogVars, build, fingerprint, baseline, promoted, gate, worker>>

Reject(b) ==
    /\ CandidateFree(b)
    /\ candidate[b] = "awaiting_approval"
    /\ candidate' = [candidate EXCEPT ![b] = "rejected"]
    /\ UNCHANGED <<catalogVars, build, fingerprint, baseline, promoted, gate, worker>>

-----------------------------------------------------------------------------
(* The publish transaction begins: the candidate row is read FOR UPDATE.   *)
(* Any status but approved ends it at once without a write.                *)
LockCandidate(w, b) ==
    /\ worker[w].at = "idle"
    /\ CandidateFree(b)
    /\ candidate[b] = "approved"
    /\ worker' = [worker EXCEPT ![w] = [Idle EXCEPT !.at = "candidate_locked", !.build = b]]
    /\ UNCHANGED <<catalogVars, governance>>

(* Fault: the baseline is not looked at again.                             *)
PublishableAnyBaseline(b) == build[b] = "succeeded"

(* Under the dataset lock: the build must have succeeded and the approved  *)
(* baseline must still be the active publication of the partition.         *)
Publishable(b) ==
    /\ build[b] = "succeeded"
    /\ FindActive(PartitionOf[b]) = baseline[b]

ValidateCandidate(w) ==
    /\ worker[w].at = "candidate_locked"
    /\ DatasetFree
    /\ Publishable(worker[w].build)
    /\ worker' = [worker EXCEPT ![w].at = "validated"]
    /\ UNCHANGED <<catalogVars, governance>>

(* Fault: the refused transaction is left open.                            *)
RefuseStaleOpen(w) ==
    /\ worker[w].at = "candidate_locked"
    /\ DatasetFree
    /\ ~ Publishable(worker[w].build)
    /\ UNCHANGED vars

RefuseStale(w) ==
    /\ worker[w].at = "candidate_locked"
    /\ DatasetFree
    /\ ~ Publishable(worker[w].build)
    /\ Finish(w)
    /\ UNCHANGED <<catalogVars, governance>>

(* The assets of the manifest are inspected on disk.  A failure commits    *)
(* the evidence of the attempt and nothing else; the error is raised after *)
(* the commit and the candidate stays approved.                            *)
FailIntegrity(w) ==
    /\ worker[w].at = "validated"
    /\ gate' = gate \cup {<<worker[w].build, FALSE>>}
    /\ Finish(w)
    /\ UNCHANGED <<catalogVars, build, fingerprint, candidate, baseline, promoted>>

(* They are intact: publish() reads the rows it depends on.  A build that  *)
(* already has a publication is not published again.                       *)
ReadCatalog(w) ==
    LET b == worker[w].build IN
    /\ worker[w].at = "validated"
    /\ revision[b] = 0
    /\ worker' = [worker EXCEPT ![w].at = "inserting",
                     ![w].previous = FindActive(PartitionOf[b]),
                     ![w].seenCurrent = FindCurrent,
                     ![w].newRevision = NextRevision(PartitionOf[b])]
    /\ UNCHANGED <<catalogVars, governance>>

(* The rest of the transaction: the publication, the passing evidence, the *)
(* candidate's status and the pending projections become visible together. *)
CommitPublication(w) ==
    LET r == worker[w] IN
    /\ r.at = "inserting"
    /\ candidate[r.build] = "approved"
    /\ InsertPublication(r.build, r.seenCurrent, r.previous, r.newRevision)
    /\ candidate' = [candidate EXCEPT ![r.build] = "published"]
    /\ gate' = gate \cup {<<r.build, TRUE>>}
    /\ Finish(w)
    /\ UNCHANGED <<build, fingerprint, baseline, promoted>>

(* The process dies, or a publish transaction fails: the open transaction  *)
(* is rolled back.  A build it was running stays "running" for ever.       *)
Crash(w) ==
    /\ worker[w].at # "idle"
    /\ Finish(w)
    /\ UNCHANGED <<catalogVars, governance>>

-----------------------------------------------------------------------------
DecisionStep(w) == LockDecision(w) \/ (\E f \in Fingerprints : CommitDecision(w, f))
PublishStep(w) ==
    \/ ValidateCandidate(w) \/ RefuseStale(w)
    \/ FailIntegrity(w) \/ ReadCatalog(w) \/ CommitPublication(w)

Next ==
    \/ \E w \in Workers :
          \/ \E b \in Builds : StartBuild(w, b) \/ LockCandidate(w, b)
          \/ FailBuild(w) \/ DecisionStep(w) \/ PublishStep(w) \/ Crash(w)
    \/ \E b \in Builds : Approve(b) \/ Reject(b)

Spec == Init /\ [][Next]_vars

(* PostgreSQL grants a lock in the order of the requests, so a waiting     *)
(* transaction is not overtaken for ever (strong fairness); the other      *)
(* steps are straight-line code.  Nothing forces an operator to act.       *)
FairSpec ==
    /\ Spec
    /\ \A w \in Workers : SF_vars(DecisionStep(w)) /\ SF_vars(PublishStep(w))

-----------------------------------------------------------------------------
(* What a reviewer approves is what the public sees change: a publication  *)
(* supersedes exactly the publication its candidate was compared with, so  *)
(* two candidates reviewed against one baseline are never both published.  *)
PublishedOverReviewedBaseline ==
    /\ \A b \in Published : supersedes[b] = baseline[b]
    /\ \A b, c \in Published :
          (PartitionOf[b] = PartitionOf[c] /\ baseline[b] = baseline[c]) => b = c

(* Publishing never creates a revision that carries the same fingerprint   *)
(* as the revision it supersedes, although the comparison is made in one   *)
(* transaction and the publication in another, any time later.             *)
NoRedundantRevision ==
    \A b \in Published :
        supersedes[b] # None => fingerprint[b] # fingerprint[supersedes[b]]

(* A publication exists exactly for the candidates whose status says so,   *)
(* for a successful build, and with passing integrity evidence; passing    *)
(* evidence is never left behind by a publication that did not happen.     *)
GovernedPublication ==
    \A b \in Builds :
        /\ b \in Published <=> candidate[b] = "published"
        /\ b \in Published <=> <<b, TRUE>> \in gate
        /\ candidate[b] # "none" <=> build[b] = "succeeded"

(* Nothing is public but what was reviewed, as it was reviewed.            *)
PublishedAsReviewed ==
    PublishedOverReviewedBaseline /\ NoRedundantRevision /\ GovernedPublication

(* Every period with a successful build has one promoted Bronze file, even *)
(* when several partitions of the dataset share the period.                *)
OnePromotedFilePerPeriod ==
    \A b \in Builds : build[b] = "succeeded" =>
        \E f \in promoted :
            /\ \E c \in Builds : FileOf[c] = f /\ PeriodOf(c) = PeriodOf(b)
            /\ \A g \in promoted :
                  (\E c \in Builds : FileOf[c] = g /\ PeriodOf(c) = PeriodOf(b)) => g = f

(* Builds, Bronze files and candidates agree: every variable has its type, *)
(* and decisions of several builds leave one promoted file per period.     *)
MarshalIsConsistent == TypeOK /\ OnePromotedFilePerPeriod

(* At most one transaction is between its reads and its commit, and what   *)
(* it has read is still true when it writes.                               *)
LockedReadsAreFresh ==
    /\ \A v, w \in Workers : HoldsDataset(v) /\ HoldsDataset(w) => v = w
    /\ \A w \in Workers :
          /\ worker[w].at \in {"deciding", "inserting"} =>
                worker[w].previous = FindActive(PartitionOf[worker[w].build])
          /\ worker[w].at = "inserting" =>
                /\ worker[w].seenCurrent = FindCurrent
                /\ worker[w].newRevision = NextRevision(PartitionOf[worker[w].build])

(* A build is decided against the publication that is active at the moment *)
(* the decision is committed, and a build found equivalent has the         *)
(* fingerprint of that publication.                                        *)
DecidedAgainstActive ==
    [][\A b \in Builds : candidate[b] = "none" /\ candidate'[b] # "none" =>
          /\ baseline'[b] = FindActive(PartitionOf[b])
          /\ candidate'[b] = "verified_equivalent" <=>
                baseline'[b] # None /\ fingerprint'[b] = fingerprint[baseline'[b]]]_vars

(* Governance is irrevocable: a rejected candidate stays rejected, an      *)
(* approved one can only become published, a published or verified one     *)
(* never changes, and no decided build is decided again or fails later.    *)
DecisionsAreFinal ==
    [][\A b \in Builds :
          /\ candidate[b] \in {"rejected", "published", "verified_equivalent"} =>
                candidate'[b] = candidate[b]
          /\ candidate[b] = "approved" => candidate'[b] \in {"approved", "published"}
          /\ candidate[b] = "awaiting_approval" => candidate'[b] # "published"
          /\ candidate[b] # "none" =>
                /\ build'[b] = build[b]
                /\ baseline'[b] = baseline[b]
                /\ fingerprint'[b] = fingerprint[b]]_vars

(* What was decided or published stays so.                                 *)
Irrevocable == NothingResurrected /\ DecisionsAreFinal

(* No transaction waits for ever: the candidate row is always taken before *)
(* the dataset lock and nothing is waited for under that lock.             *)
TransactionsEnd ==
    \A w \in Workers : worker[w].at # "idle" ~> worker[w].at = "idle"

=============================================================================
