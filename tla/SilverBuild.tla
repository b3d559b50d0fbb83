---------------------------- MODULE SilverBuild -----------------------------
(***************************************************************************)
(* Silver builds of one dataset: how pipeline runs choose the Bronze files *)
(* to build, stage and commit their artifacts, record the outcome, and how *)
(* reconciliation deletes what failed builds have left behind.             *)
(*                                                                         *)
(* Workers are processes running `silver`; each statement outside a        *)
(* transaction commits by itself.  Cleaning is the build-artifact part of  *)
(* `reconcile_publications --delete-orphans`.  No lock relates any of them.*)
(* The decision transaction is one step here (see PublicationLifecycle).   *)
(***************************************************************************)
EXTENDS Naturals, Sequences, FiniteSets

CONSTANTS Workers,
          Files,        \* Bronze files of the dataset
          VersionOf,    \* the partition a file is discovered to hold
          Configs,      \* what a run builds with, see ConfigAssumption
          Tables,       \* tables the contract selects
          Builds,       \* Silver build identifiers
          Forcing,      \* values of --force-rebuild that occur
          MaxFaults,    \* bound on failures and crashes
          MaxPublished, \* bound on publications
          None

ASSUME FileAssumption == DOMAIN VersionOf = Files
ASSUME ConfigAssumption ==
    \A c, d \in Configs :
        (c.contract = d.contract /\ c.engine = d.engine
         /\ c.processing = d.processing /\ c.quality = d.quality) => c = d
ASSUME NoneAssumption == None \notin Builds \cup Files \cup Configs
ASSUME BoundsAssumption ==
    Tables # {} /\ Forcing \subseteq BOOLEAN /\ MaxFaults \in Nat /\ MaxPublished \in Nat

VARIABLES ingested,     \* active Bronze candidates, in the order of ingestion
          attempt,      \* logs.silver_build_attempts
          published,    \* builds with a publication
          staged,       \* files below staging/: <<build, table>>
          stored,       \* files below tables/: <<build, table>>
          details,      \* files below transformation_impacts/: <<build, table>>
          impacts,      \* recorded transformation impacts: <<build, table>>
          manifests,    \* builds with a manifest.json
          clock,        \* orders started_at and completed_at
          worker, cleaner, faults

artifacts == <<staged, stored, details, manifests>>
rows == <<ingested, attempt, published, impacts>>
vars == <<rows, artifacts, clock, worker, cleaner, faults>>

Absent == [status |-> "absent", file |-> None, config |-> None, forced |-> FALSE,
           started |-> 0, completed |-> 0]

(* queue: candidates still to process, with whether a matching successful  *)
(* build was found when the batch was selected; mine: builds whose staging *)
(* belongs to this run; build, left: the current build and the tables the  *)
(* current stage has still to handle; stamp: its completed_at.             *)
Idle == [at |-> "idle", config |-> None, force |-> FALSE, queue |-> {},
         mine |-> {}, build |-> None, left |-> {}, table |-> None, stamp |-> 0]

Resting == [at |-> "idle", published |-> {}, failed |-> {}, directories |-> {}]

Init ==
    /\ ingested = <<>>
    /\ attempt = [b \in Builds |-> Absent]
    /\ published = {}
    /\ staged = {} /\ stored = {} /\ details = {} /\ manifests = {}
    /\ impacts = {}
    /\ clock = 0
    /\ worker = [w \in Workers |-> Idle]
    /\ cleaner = Resting
    /\ faults = 0

Points == {"idle", "preparing", "building", "table_staged", "details_written",
           "committing", "writing_manifest", "deciding", "cleaning",
           "finalization_failed", "failed"}

TypeOK ==
    /\ ingested \in Seq(Files)
    /\ attempt \in [Builds -> [status: {"absent", "running", "succeeded", "failed"},
                      file: Files \cup {None}, config: Configs \cup {None},
                      forced: BOOLEAN, started: Nat, completed: Nat]]
    /\ published \in SUBSET Builds
    /\ staged \in SUBSET (Builds \X Tables)
    /\ stored \in SUBSET (Builds \X Tables)
    /\ details \in SUBSET (Builds \X Tables)
    /\ impacts \in SUBSET (Builds \X Tables)
    /\ manifests \in SUBSET Builds
    /\ clock \in Nat
    /\ worker \in [Workers -> [at: Points, config: Configs \cup {None}, force: BOOLEAN,
                      queue: SUBSET [file: Files, matched: BOOLEAN], mine: SUBSET Builds,
                      build: Builds \cup {None}, left: SUBSET Tables,
                      table: Tables \cup {None}, stamp: Nat]]
    /\ cleaner \in [at: {"idle", "publications", "builds", "deleting"},
                    published: SUBSET Builds, failed: SUBSET Builds,
                    directories: SUBSET (Builds \X {"manifests", "tables", "impacts"})]
    /\ faults \in Nat

-----------------------------------------------------------------------------
(* Queries of the build store.                                             *)
Status(b) == attempt[b].status
Signature(b) == <<attempt[b].file, attempt[b].config>>
Newest(S, field) ==
    IF S = {} THEN None ELSE CHOOSE b \in S : \A c \in S : attempt[c][field] <= attempt[b][field]

FindSuccessful(signature) == {b \in Builds : Status(b) = "succeeded" /\ Signature(b) = signature}
OfVersion(v) == {b \in Builds : Status(b) # "absent" /\ VersionOf[attempt[b].file] = v}
LatestSuccessful(v) == Newest({b \in OfVersion(v) : Status(b) = "succeeded"}, "completed")
LatestAttempt(v) == Newest(OfVersion(v), "started")

(* Fault: a rebuild waits for the attempt that is running.                 *)
RebuildReasonsUnlessRunning(file, config, matched, force) ==
    LET last == LatestAttempt(VersionOf[file]) IN
    {r \in {"initial_build"} : last = None \/ Status(last) # "running"}

(* decide_silver_rebuild: the reasons that hold, with the answer of the    *)
(* earlier signature query as an argument.                                 *)
RebuildReasons(file, config, matched, force) ==
    LET latest == LatestSuccessful(VersionOf[file])
        last == LatestAttempt(VersionOf[file])
        built == attempt[latest].config
        Changed(part) == latest # None /\ built[part] # config[part]
        applies == [initial_build |-> latest = None,
                    bronze_file_changed |-> latest # None /\ attempt[latest].file # file,
                    contract_changed |-> Changed("contract"),
                    silver_engine_changed |-> Changed("engine"),
                    processing_config_changed |-> Changed("processing"),
                    quality_config_changed |-> Changed("quality"),
                    previous_build_failed |-> last # None /\ ~ matched
                        /\ Status(last) = "failed" /\ Signature(last) = <<file, config>>,
                    manual_force |-> force]
    IN  {r \in DOMAIN applies : applies[r]}

-----------------------------------------------------------------------------
Candidates == {ingested[i] : i \in DOMAIN ingested}

(* A Bronze ingestion completes: the file becomes a Silver candidate.      *)
Ingest(f) ==
    /\ f \notin Candidates
    /\ ingested' = Append(ingested, f)
    /\ UNCHANGED <<attempt, published, impacts, artifacts, clock, worker, cleaner, faults>>

(* Fault: only the newest attempt of the version is compared.              *)
SelectByLatest(w, config, force) ==
    LET found == {[file |-> f, matched |->
            \E b \in Builds : b = LatestSuccessful(VersionOf[f]) /\ Signature(b) = <<f, config>>]
                  : f \in Candidates}
        pending == {candidate \in found : ~ candidate.matched}
    IN  /\ worker[w].at = "idle"
        /\ pending # {}
        /\ worker' = [worker EXCEPT ![w] = [Idle EXCEPT !.at = "preparing", !.config = config,
                                                       !.force = force, !.queue = pending]]
        /\ UNCHANGED <<rows, artifacts, clock, cleaner, faults>>

(* A run starts with the configuration of the moment; all candidates are   *)
(* looked up by signature in one query, and those found are skipped unless *)
(* the rebuild is forced.                                                  *)
SelectCandidates(w, config, force) ==
    LET found == {[file |-> f, matched |-> FindSuccessful(<<f, config>>) # {}] : f \in Candidates}
        pending == {candidate \in found : ~ candidate.matched \/ force}
    IN  /\ worker[w].at = "idle"
        /\ pending # {}
        /\ worker' = [worker EXCEPT ![w] = [Idle EXCEPT !.at = "preparing", !.config = config,
                                                       !.force = force, !.queue = pending]]
        /\ UNCHANGED <<rows, artifacts, clock, cleaner, faults>>

(* The batch is processed in the order of ingestion.                       *)
IsNext(candidate, queue) ==
    /\ candidate \in queue
    /\ \A other \in queue : \E i, j \in DOMAIN ingested :
          i <= j /\ ingested[i] = candidate.file /\ ingested[j] = other.file

(* The next candidate of the batch is taken up: with a reason to build, a  *)
(* running attempt is inserted.                                            *)
PrepareCandidate(w, b, candidate) ==
    LET r == worker[w] IN
    /\ r.at = "preparing"
    /\ IsNext(candidate, r.queue)
    /\ Status(b) = "absent"
    /\ RebuildReasons(candidate.file, r.config, candidate.matched, r.force) # {}
    /\ clock' = clock + 1
    /\ attempt' = [attempt EXCEPT ![b] =
           [status |-> "running", file |-> candidate.file, config |-> r.config,
            forced |-> r.force, started |-> clock + 1, completed |-> 0]]
    /\ worker' = [worker EXCEPT ![w] = [r EXCEPT !.at = "building", !.build = b,
           !.queue = r.queue \ {candidate}, !.mine = r.mine \cup {b}, !.left = Tables]]
    /\ UNCHANGED <<ingested, published, impacts, artifacts, cleaner, faults>>

(* Without a reason the rebuild decision raises, and the batch ends.       *)
RefuseWithoutReason(w, candidate) ==
    LET r == worker[w] IN
    /\ r.at = "preparing"
    /\ IsNext(candidate, r.queue)
    /\ RebuildReasons(candidate.file, r.config, candidate.matched, r.force) = {}
    /\ worker' = [worker EXCEPT ![w].at = "failed"]
    /\ UNCHANGED <<rows, artifacts, clock, cleaner, faults>>

-----------------------------------------------------------------------------
(* build_silver_table, up to the post-quality gate: the transformed table  *)
(* is saved in the staging directory of the run.                           *)
StageTable(w, t) ==
    /\ worker[w].at = "building"
    /\ t \in worker[w].left
    /\ staged' = staged \cup {<<worker[w].build, t>>}
    /\ worker' = [worker EXCEPT ![w].at = "table_staged", ![w].table = t]
    /\ UNCHANGED <<rows, stored, details, manifests, clock, cleaner, faults>>

(* Row-level evidence of a transformation is written straight into the     *)
(* final storage, before the row that names it exists.                     *)
WriteDetails(w) ==
    /\ worker[w].at = "table_staged"
    /\ details' = details \cup {<<worker[w].build, worker[w].table>>}
    /\ worker' = [worker EXCEPT ![w].at = "details_written"]
    /\ UNCHANGED <<rows, staged, stored, manifests, clock, cleaner, faults>>

EndTable(w) ==
    LET left == worker[w].left \ {worker[w].table} IN
    worker' = [worker EXCEPT ![w] = [@ EXCEPT !.table = None,
        !.at = IF left = {} THEN "committing" ELSE "building",
        !.left = IF left = {} THEN Tables ELSE left]]

(* The impact rows of the table are inserted in one statement.             *)
RecordImpacts(w) ==
    /\ worker[w].at = "details_written"
    /\ impacts' = impacts \cup {<<worker[w].build, worker[w].table>>}
    /\ EndTable(w)
    /\ UNCHANGED <<ingested, attempt, published, artifacts, clock, cleaner, faults>>

(* A table whose transformation left nothing to record.                    *)
NothingToRecord(w) ==
    /\ worker[w].at = "table_staged"
    /\ EndTable(w)
    /\ UNCHANGED <<rows, artifacts, clock, cleaner, faults>>

-----------------------------------------------------------------------------
(* commit_staged_files copies one staged file after the other; a file that *)
(* is missing raises.                                                      *)
CommitFile(w, t) ==
    LET r == worker[w] IN
    /\ r.at = "committing"
    /\ t \in r.left
    /\ <<r.build, t>> \in staged
    /\ stored' = stored \cup {<<r.build, t>>}
    /\ worker' = [worker EXCEPT ![w].left = @ \ {t}]
    /\ UNCHANGED <<rows, staged, details, manifests, clock, cleaner, faults>>

(* completed_at is taken before the manifest is written and the decision   *)
(* transaction begins.                                                     *)
StampCompletion(w) ==
    /\ worker[w].at = "committing"
    /\ worker[w].left = {}
    /\ clock' = clock + 1
    /\ worker' = [worker EXCEPT ![w].at = "writing_manifest", ![w].stamp = clock + 1]
    /\ UNCHANGED <<rows, artifacts, cleaner, faults>>

WriteManifest(w) ==
    /\ worker[w].at = "writing_manifest"
    /\ manifests' = manifests \cup {worker[w].build}
    /\ worker' = [worker EXCEPT ![w].at = "deciding"]
    /\ UNCHANGED <<rows, staged, stored, details, clock, cleaner, faults>>

MarkSucceeded(b, stamp) ==
    attempt' = [attempt EXCEPT ![b].status = "succeeded", ![b].completed = stamp]

(* The decision transaction marks the attempt succeeded if it is running.  *)
Decide(w) ==
    LET r == worker[w] IN
    /\ r.at = "deciding"
    /\ Status(r.build) = "running"
    /\ MarkSucceeded(r.build, r.stamp)
    /\ worker' = [worker EXCEPT ![w].at = "cleaning"]
    /\ UNCHANGED <<ingested, published, impacts, artifacts, clock, cleaner, faults>>

NextCandidate(w) ==
    worker' = [worker EXCEPT ![w] =
        IF @.queue = {} THEN Idle
        ELSE [@ EXCEPT !.at = "preparing", !.build = None, !.stamp = 0]]

(* Fault: the staging of the whole dataset is removed.                      *)
CleanAllStaging(w) ==
    /\ worker[w].at = "cleaning"
    /\ staged' = {}
    /\ NextCandidate(w)
    /\ UNCHANGED <<rows, stored, details, manifests, clock, cleaner, faults>>

(* Everything below staging/<run>/<dataset> is removed, as far as possible,*)
(* and the batch goes on either way.                                       *)
CleanStaging(w) ==
    /\ worker[w].at = "cleaning"
    /\ \E kept \in SUBSET {file \in staged : file[1] \in worker[w].mine} :
          staged' = {file \in staged : file[1] \notin worker[w].mine} \cup kept
    /\ NextCandidate(w)
    /\ UNCHANGED <<rows, stored, details, manifests, clock, cleaner, faults>>

-----------------------------------------------------------------------------
Fault == faults < MaxFaults /\ faults' = faults + 1

(* Bronze integrity, version discovery or a database error.                *)
FailPreparation(w) ==
    /\ worker[w].at = "preparing"
    /\ worker' = [worker EXCEPT ![w].at = "failed"]
    /\ Fault
    /\ UNCHANGED <<rows, artifacts, clock, cleaner>>

MarkFailed(b) == attempt' = [attempt EXCEPT ![b].status = "failed", ![b].completed = clock + 1]

(* A quality gate, the transformation, a write or a statement fails while  *)
(* a table is built: the details of this table are unlinked and the        *)
(* attempt is marked failed.                                               *)
FailTable(w) ==
    LET r == worker[w] IN
    /\ r.at \in {"building", "table_staged", "details_written"}
    /\ details' = details \ {<<r.build, r.table>>}
    /\ MarkFailed(r.build)
    /\ clock' = clock + 1
    /\ worker' = [worker EXCEPT ![w].at = "failed"]
    /\ Fault
    /\ UNCHANGED <<ingested, published, impacts, staged, stored, manifests, cleaner>>

(* The finalization fails before or in its transaction.                    *)
FailFinalization(w) ==
    /\ worker[w].at \in {"committing", "writing_manifest", "deciding"}
    /\ worker' = [worker EXCEPT ![w].at = "finalization_failed"]
    /\ Fault
    /\ UNCHANGED <<rows, artifacts, clock, cleaner>>

(* The transaction commits but its acknowledgement is lost: the process    *)
(* sees an error.                                                          *)
LoseAcknowledgement(w) ==
    LET r == worker[w] IN
    /\ r.at = "deciding"
    /\ Status(r.build) = "running"
    /\ MarkSucceeded(r.build, r.stamp)
    /\ worker' = [worker EXCEPT ![w].at = "finalization_failed"]
    /\ Fault
    /\ UNCHANGED <<ingested, published, impacts, artifacts, clock, cleaner>>

(* Fault: the attempt is marked failed without looking at it again.        *)
RecordFailureBlindly(w) ==
    /\ worker[w].at = "finalization_failed"
    /\ MarkFailed(worker[w].build)
    /\ clock' = clock + 1
    /\ worker' = [worker EXCEPT ![w].at = "failed"]
    /\ UNCHANGED <<ingested, published, impacts, artifacts, cleaner, faults>>

(* The attempt is looked up again and marked failed if it is still running.*)
RecordFinalizationFailure(w) ==
    LET b == worker[w].build IN
    /\ worker[w].at = "finalization_failed"
    /\ IF Status(b) = "running"
       THEN MarkFailed(b) /\ clock' = clock + 1
       ELSE UNCHANGED <<attempt, clock>>
    /\ worker' = [worker EXCEPT ![w].at = "failed"]
    /\ UNCHANGED <<ingested, published, impacts, artifacts, cleaner, faults>>

(* Fail-fast: the error ends the run and drops the rest of its batch.      *)
EndRun(w) ==
    /\ worker[w].at = "failed"
    /\ worker' = [worker EXCEPT ![w] = Idle]
    /\ UNCHANGED <<rows, artifacts, clock, cleaner, faults>>

Crash(w) ==
    /\ worker[w].at \notin {"idle", "failed"}
    /\ worker' = [worker EXCEPT ![w] = Idle]
    /\ Fault
    /\ UNCHANGED <<rows, artifacts, clock, cleaner>>

-----------------------------------------------------------------------------
(* A reviewed build is published (external to this module).                *)
Publish(b) ==
    /\ Status(b) = "succeeded"
    /\ b \notin published
    /\ Cardinality(published) < MaxPublished
    /\ published' = published \cup {b}
    /\ UNCHANGED <<ingested, attempt, impacts, artifacts, clock, worker, cleaner, faults>>

(* Reconciliation first lists the publications, then the attempts that had *)
(* none, then the directories of those.                                    *)
ListPublications ==
    /\ cleaner.at = "idle"
    /\ cleaner' = [cleaner EXCEPT !.at = "publications", !.published = published]
    /\ UNCHANGED <<rows, artifacts, clock, worker, faults>>

(* Fault: everything that was not published is eligible.                   *)
ListAllBuilds(old) ==
    /\ cleaner.at = "publications"
    /\ cleaner' = [cleaner EXCEPT !.at = "builds",
           !.failed = {b \in old \ cleaner.published : Status(b) # "absent"}]
    /\ UNCHANGED <<rows, artifacts, clock, worker, faults>>

(* Only failed attempts are eligible, and only when they are older than    *)
(* the grace period, which may be zero.                                    *)
ListBuilds(old) ==
    /\ cleaner.at = "publications"
    /\ cleaner' = [cleaner EXCEPT !.at = "builds",
           !.failed = {b \in old \ cleaner.published : Status(b) = "failed"}]
    /\ UNCHANGED <<rows, artifacts, clock, worker, faults>>

DirectoriesOf(builds) ==
    ((builds \cap manifests) \X {"manifests"})
    \cup ({b \in builds : \E t \in Tables : <<b, t>> \in stored} \X {"tables"})
    \cup ({b \in builds : \E t \in Tables : <<b, t>> \in details} \X {"impacts"})

(* Fault: only builds that got as far as a manifest are visited.           *)
ListManifested ==
    /\ cleaner.at = "builds"
    /\ cleaner' = [cleaner EXCEPT !.at = "deleting",
                       !.directories = DirectoriesOf(cleaner.failed \cap manifests)]
    /\ UNCHANGED <<rows, artifacts, clock, worker, faults>>

ListDirectories ==
    /\ cleaner.at = "builds"
    /\ cleaner' = [cleaner EXCEPT !.at = "deleting",
                                  !.directories = DirectoriesOf(cleaner.failed)]
    /\ UNCHANGED <<rows, artifacts, clock, worker, faults>>

Without(files, b) == {file \in files : file[1] # b}

(* One directory tree is removed, or, when the system refuses, reported    *)
(* and left for another run.  No property depends on the sorted order.     *)
(* Only what failed is removed: removals may fail once more than MaxFaults.*)
DeleteDirectory(b, root) ==
    /\ cleaner.at = "deleting"
    /\ <<b, root>> \in cleaner.directories
    /\ manifests' = IF root = "manifests" THEN manifests \ {b} ELSE manifests
    /\ stored' = IF root = "tables" THEN Without(stored, b) ELSE stored
    /\ details' = IF root = "impacts" THEN Without(details, b) ELSE details
    /\ cleaner' = [cleaner EXCEPT !.directories = @ \ {<<b, root>>}]
    /\ UNCHANGED <<rows, staged, clock, worker, faults>>

LeaveDirectory(b, root) ==
    /\ cleaner.at = "deleting"
    /\ <<b, root>> \in cleaner.directories
    /\ cleaner' = [cleaner EXCEPT !.directories = @ \ {<<b, root>>}]
    /\ faults <= MaxFaults /\ faults' = faults + 1
    /\ UNCHANGED <<rows, artifacts, clock, worker>>

EndCleaning ==
    /\ cleaner.at = "deleting"
    /\ cleaner.directories = {}
    /\ cleaner' = Resting
    /\ UNCHANGED <<rows, artifacts, clock, worker, faults>>

-----------------------------------------------------------------------------
BuildStep(w) ==
    \/ \E candidate \in worker[w].queue :
          RefuseWithoutReason(w, candidate) \/ \E b \in Builds : PrepareCandidate(w, b, candidate)
    \/ (\E t \in Tables : StageTable(w, t)) \/ WriteDetails(w)
    \/ RecordImpacts(w) \/ NothingToRecord(w)
    \/ (\E t \in Tables : CommitFile(w, t)) \/ StampCompletion(w)
    \/ WriteManifest(w) \/ Decide(w) \/ CleanStaging(w)
    \/ RecordFinalizationFailure(w) \/ EndRun(w)

FailureStep(w) ==
    \/ FailPreparation(w) \/ FailTable(w) \/ FailFinalization(w)
    \/ LoseAcknowledgement(w) \/ Crash(w)

Select(w) == \E config \in Configs, force \in Forcing : SelectCandidates(w, config, force)

CleanerStep ==
    \/ ListPublications \/ (\E old \in SUBSET Builds : ListBuilds(old))
    \/ ListDirectories \/ EndCleaning
    \/ \E b \in Builds, root \in {"manifests", "tables", "impacts"} :
          DeleteDirectory(b, root) \/ LeaveDirectory(b, root)

Next ==
    \/ \E f \in Files : Ingest(f)
    \/ \E w \in Workers : Select(w) \/ BuildStep(w) \/ FailureStep(w)
    \/ \E b \in Builds : Publish(b)
    \/ CleanerStep

Spec == Init /\ [][Next]_vars

(* A process that has begun goes on, somebody runs the pipeline and the     *)
(* reconciliation again and again, and every attempt grows old.            *)
FairSpec ==
    /\ Spec
    /\ \A w \in Workers : WF_vars(BuildStep(w)) /\ SF_vars(Select(w))
    /\ WF_vars(CleanerStep) /\ SF_vars(ListBuilds(Builds))

-----------------------------------------------------------------------------
Complete(b) == b \in manifests /\ {b} \X Tables \subseteq stored

(* What the catalog may refer to is on disk: a successful attempt has its  *)
(* manifest and every table, whatever failed, crashed or was cleaned up    *)
(* around it, and every impact row of an attempt that did not fail has its *)
(* details.                                                                *)
SucceededIsComplete ==
    /\ \A b \in Builds : Status(b) = "succeeded" => Complete(b)
    /\ \A entry \in impacts : Status(entry[1]) # "failed" => entry \in details

(* A manifest is never seen without the tables it lists, unless the build  *)
(* has failed (reconciliation may then be deleting it).                    *)
ManifestIsLast ==
    \A b \in manifests : Status(b) # "failed" => {b} \X Tables \subseteq stored

(* What a run has staged stays there until it is committed: neither the    *)
(* cleanup of another run nor of an earlier candidate removes it.          *)
StagingAwaitsCommit ==
    \A w \in Workers :
        worker[w].at = "committing" => {worker[w].build} \X worker[w].left \subseteq staged

(* Rows, manifests, stored and staged tables agree at every moment.        *)
BuildsAreConsistent ==
    TypeOK /\ SucceededIsComplete /\ ManifestIsLast /\ StagingAwaitsCommit

(* Reconciliation never takes anything from a build that is still running, *)
(* succeeded or published, although it acts on what it has read before.    *)
OnlyFailedIsDeleted ==
    [][\A b \in Builds :
          cleaner.at = "deleting" /\ cleaner' # cleaner /\ Status(b) # "failed" =>
              /\ b \in manifests => b \in manifests'
              /\ \A t \in Tables : <<b, t>> \in stored => <<b, t>> \in stored']_vars

(* The outcome of an attempt is final, also when the acknowledgement of    *)
(* the decision was lost and the process believes that it failed.          *)
OutcomeIsFinal ==
    [][\A b \in Builds : Status(b) \in {"succeeded", "failed"} =>
          attempt'[b] = attempt[b]]_vars

(* With one process at a time, a signature is built successfully once,     *)
(* unless somebody forces a rebuild.                                       *)
OneSuccessPerSignature ==
    \A b, c \in Builds :
        (/\ Status(b) = "succeeded" /\ Status(c) = "succeeded"
         /\ Signature(b) = Signature(c)
         /\ ~ attempt[b].forced /\ ~ attempt[c].forced) => b = c

(* A candidate without a successful build of its signature always has a    *)
(* reason to be built: a failed, crashed or superseded attempt never       *)
(* leaves a file that no run will build again.                             *)
AlwaysAReason ==
    \A f \in Files, config \in Configs :
        FindSuccessful(<<f, config>>) = {} => RebuildReasons(f, config, FALSE, FALSE) # {}

(* The documented outcome of a preparation: a candidate for which an       *)
(* identical successful build exists is skipped, so without --force a      *)
(* batch neither builds it again nor fails on it.                          *)
IdenticalBuildIsSkipped ==
    [][\A w \in Workers : \A candidate \in worker[w].queue :
          LET r == worker[w] IN
          /\ r.at = "preparing"
          /\ ~ r.force
          /\ IsNext(candidate, r.queue)
          /\ FindSuccessful(<<candidate.file, r.config>>) # {}
          => worker'[w].at \notin {"building", "failed"}]_vars

(* With one process at a time no candidate is built twice, fails because   *)
(* it was built before, or is left without a reason to be built.           *)
RebuildsAreDecided == [](OneSuccessPerSignature /\ AlwaysAReason) /\ IdenticalBuildIsSkipped

(* Attempts that failed, or were left running by a process that died, do   *)
(* not keep a file from being built: every candidate is built in the end.  *)
EveryFileIsBuilt ==
    \A f \in Files : (\E i \in DOMAIN ingested : ingested[i] = f) ~>
        \E b \in Builds : Status(b) = "succeeded" /\ attempt[b].file = f

(* The artifacts of every failed attempt are removed in the end, also when *)
(* the removal of a directory has failed before.                           *)
FailedArtifactsAreRemoved ==
    \A b \in Builds : Status(b) = "failed" ~> [](DirectoriesOf({b}) = {})

=============================================================================
