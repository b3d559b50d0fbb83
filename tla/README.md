# metrka-core: specifications, model checks and proofs

metrka-core is a data pipeline library.  A *workspace* holds datasets.  A pipeline
run captures source files (acquisition), registers and converts them (Bronze),
passes quality gates, transforms them into immutable versioned tables (Silver), and
decides whether a successful Silver build reproduces what is public or proposes a new
*publication*.  Operators approve, reject and publish the proposals, approve engine
releases, reconcile what failures left, and export, import and register workspaces.
State lives in PostgreSQL (metadata, decisions, evidence, health) and in the file
system (landing zones, artifacts, manifests, the latest pointers, SQL views, packages,
the placement file).

This directory specifies those protocols, checks them with TLC on small instances and
proves the most important of them with TLAPS.  Paths below are relative to
`src/src/metrka_core/`.

Contents: 1 inventory, 2 modules, 3 modelling decisions, 4 runs, 5 fairness,
6 where code and documentation disagree, 7 proofs, 8 what is only model-checked and what
is not modelled, 9 plan.

## 1. Inventory

Processes are operating-system processes: a pipeline run (`pipeline/run.py`), and the
operator commands.  There are no threads or event loops in the core; all concurrency is
between processes that share one database and one directory tree.

| component | state | operations | hard behaviours | what makes it correct |
|---|---|---|---|---|
| publication decision `pipeline/silver/publication_decision.py` | none (pure) | compare two fingerprints | order of the comparisons | equivalent iff all five parts agree |
| publication catalog `catalog/postgres_publication_store.py` | `dataset_publications` | `publish`, queries | concurrent publishers, late corrections of old periods | revision chain per partition, current = newest period, append-only |
| publication governance `pipeline/silver/postgres_*_unit_of_work.py`, `catalog/postgres_publication_candidate_store.py` | candidates, verifications, gate evidence, promoted files | decide, approve, reject, publish | two lock kinds, approval long before publication, crashes | what was reviewed is what is published; decisions are final |
| projections `pipeline/silver/publication_projection.py`, `publication_indexes.py`, `silver_artifacts.py` | pointer and view files, projection state rows | refresh, mark synchronized or stale | no lock on files, several processes, partial failures | pointer never dangles or goes back; `synchronized` is true |
| reconciliation `pipeline/silver/reconciliation/` | integrity checks | refresh, backfill, verify, delete orphans | acts on what it read earlier; one item fails | a clean report is true; deletes only what failed |
| Silver build `pipeline/silver/candidate_*.py`, `storage/silver_store.py`, `rebuild_decision.py` | build attempts, staging and table directories, manifests | select, stage, commit, decide, clean up | crash between file and row, stale selection, lost acknowledgement | a successful attempt is complete on disk |
| engine governance `pipeline/silver/postgres_engine_store.py`, `engine_policy.py` | `silver_engine_releases` | register, approve, reject, gate | lock and unique index, gate checked once per run | one approved release; production builds are reviewed |
| file marshal `metadata/file_marshal.py` | `marshaled_files` | register, record artifacts, promote | check-then-insert, read-modify-write | entries, files and pointer agree |
| Bronze ingestion `pipeline/bronze/` | Bronze artifacts, latest pointer | ingest a file, an archive or a batch | failure between registration and recording; concurrent change detection | no changed member is lost |
| acquisition `pipeline/acquisition/`, `storage/landing_store.py` | captures, receipts, bindings | acquire, resolve, register, bind | partial downloads, several captures of a date | a registered capture is whole |
| quality `quality/` | check definitions, check runs | four gates, their rules and loader | missing values, empty tables, `current_year`, failing statements | gates let through exactly what the rules allow; evidence tells the verdict |
| workspaces and transfer `datasets/` | placement file, directories, packages | init, import, export, verify | stale reads, crash between move and registration, replaced packages | disjoint, durable registrations; installed = verified |
| pipeline runs and observability `pipeline/runner.py`, `observability/` | `pipeline_runs`, `execution_logs` | run, actions, nested steps | failure while a failure is recorded, interrupts | cause is reported, records are true |
| metadata session, atomic writes | sessions, files | transaction, replace | errors before and after the effect | modelled inside the modules that use them |
| transform, lineage, validation, values, extensions, composition, command line | derived from contents | transform rows, wire objects | none that is stateful | out of scope, see section 8 |

Interactions.  A run acquires a capture, hands it to Bronze, which registers files and
artifacts; Silver selects the registered candidates, builds, and opens the decision
transaction, which promotes the Bronze file through the file marshal.  Quality gates sit
before Bronze, after Bronze, and before and after a Silver transformation.  An operator
*command* approves, another publishes: its transaction writes the catalog, the
evidence, the candidate and the pending projection rows, and after the commit the same
process refreshes the projections.  Reconciliation shares the projection functions,
deletes what failed builds left and verifies what was published.  Everything meets in
the database and on disk.

`PROJECT.json` lists every component, and under `hazards` what tests hardly reach, with
the property that watches each.

## 2. Modules

| module | models | how state and actions correspond to the code |
|---|---|---|
| `PublicationDecision` | `decide_silver_publication` | `ChangeAgainst`; a fingerprint is a record of its five parts |
| `PublicationCatalog` | the catalog rows of one dataset, `publish()`, `mark_pending()` | `revision`, `active`, `current`, `supersedes` are columns keyed by build (a build has at most one publication); `projection` is the two health rows; `Publish` is one undisturbed call |
| `PublicationLifecycle` | decision and publish transactions, approvals | `build`, `fingerprint`: attempt rows; `candidate`, `baseline`: the candidate row, or the verification row of an equivalent build; `promoted`: `marshaled_files`; `gate`: gate attempts; `worker`: a process, its transaction, its locks and the rows it has read |
| `PublicationHistory`, `PublicationRefinement` | the abstract promise to readers, and the mapping to it | per partition a sequence of revisions, and the newest partition; `HistoryOf`, `NewestPartition` |
| `PublicationProjection` | pointer, views, health rows, refreshes by several processes | `pointer`: `latest/silver/<dataset>.json`; `latestViews`, `historyViews`: view files; every query and file write is a step |
| `SilverBuild` | a batch of `process_silver_queue`, orphan deletion | `attempt`: `silver_build_attempts`; `staged`, `stored`, `details`, `manifests`: files; `worker.queue`: the candidates of the batch that are left, each with the match found when it was selected, taken in the order of ingestion (`IsNext`); `SelectCandidates`, `PrepareCandidate`, `StageTable`, `CommitFile`, `WriteManifest`, `Decide`, `CleanStaging` follow the control flow of the code; `cleaner` is `reconcile_publications --delete-orphans` |
| `EngineGovernance` | `approve`, `reject`, `register_candidate`, the gate of a run | `BeginApproval`, `LockApproval`, `LockRow`, `RetireOthers`, `CommitApproval` are the statements of one transaction; `Compose`, `EvaluateGate`, `Build` are a run |
| `BronzeIngestion` | `ingest_to_bronze`, batches, `FileMarshal`, `asset_ingestion` | `marshal`: `marshaled_files`; `disk`: Bronze run directories; `pointer`: latest Bronze pointer; `bound`: `source_capture_assets`; one step per statement or file |
| `SourceCapture` | `landing_store`, acquisition, capture registration | `made`, `landed`, `receipt`: landing directories, files, `source_capture.json`; `row`: `meta.source_captures`, shared by workspaces |
| `PipelineRun` | `runner`, `run_step`, `pipeline_run` | `open` and `log`: the nested scopes and their receipts; `row`: `logs.pipeline_runs`; `error` is in flight, `cause` is what ended the work |
| `WorkspaceRegistry` | init and import against the placement file | `registry`, `lock`, `dir`; `Check` before the work, `Acquire`, `Render`, `Make`, `Write`, `Release` under the lock; `Unwind`, `CleanUp` when it fails |
| `WorkspaceExport` | export and verification of packages | `data`: workspace files by version; `Collect`, `Package`, `Publish`; `VerifyImport`, `Extract`, `Confirm` |
| `WorkspaceTransfer` | their composition | an import passes both modules' steps in the order of `import_workspace` |
| `PublicationAudit` | the other half of reconciliation: assets, manifests, details, contracts | `file`: state of each file; `rows`: what the asset rows say, as recorded, altered or damaged (`EntryKinds`); `evidence`: integrity checks; a run's `passed` and `failed` are its report, its `seen` are the files it found as recorded |
| `QualityRules` | loader, workspace validation and the checks of rules (pure) | `Accepts` and `Loads`: the loader; `Valid`: workspace validation; `RuleStatus`, `ColumnCheck`: a check on rows |
| `QualityGates` | the four gates with their evidence | `definitions`, `evidence`: the two quality tables, one statement per step |
| `MC*` | instances for TLC | |
| `*_proofs` | theorems and proofs | |

`PublicationLifecycle` and `PublicationProjection` both extend `PublicationCatalog`.  The
second uses its atomic `Publish`; that the interleaved transaction of the first
implements that atomic step is `AtomicPublication`, which is proved.  `SilverBuild` in
turn treats the decision transaction as one step.  `WorkspaceTransfer` extends
`WorkspaceRegistry` and instantiates `WorkspaceExport`; that the composition implements
the registry's own specification, and installs only what was verified, is proved as well.

Operators preceded by a comment "Fault:" are deliberately wrong variants of the
definition that follows them.  Nothing uses them; substituted for the right definition
they make one property fail, which shows that the property watches it.

## 3. Modelling decisions

- **Transactions.** The sessions are READ COMMITTED.  A transaction is modelled as its
  lock acquisitions with the reads that follow them, and one commit with all writes.
  Reads stay in the process until the commit, so stale reads would be used if the locks
  did not prevent them.  Where a caller uses an autocommit session (build store, file
  marshal, quality, run records) every statement is a step that commits by itself.
- **Locks.** `pg_advisory_xact_lock` on `dataset-publication:<dataset>` is held from
  `LockDecision` or `ValidateCandidate` to the end of the transaction; `SELECT ... FOR
  UPDATE` on a candidate from `LockCandidate`; the engine approval lock and the rows it
  changes from `LockApproval` and `LockRow`; the lock file beside the placement file from
  `Acquire` to `Release`, or until its holder dies.  A conditional UPDATE waits for
  a locked row and reads it again.
- **Unique indexes are not guards.** The partial unique indexes on active and current
  publications and on the approved engine would turn a violation into an error; the
  invariants show that the locks alone prevent it.
- **Files.** Writing, replacing or deleting one file or directory is a step.
  `atomic_writes` replaces a file in one step, and may raise after it has done so.
- **Faults.** `MaxFaults` (`MaxFailures` in the run, `MaxErrors` and `MaxDamages` in the audit)
  only bounds how often things go wrong; where and when is free: a
  statement, a file operation or an acknowledgement fails, Ctrl-C arrives, the process dies.
  An error takes the `except` and `finally` blocks of the code with it.
- **One dataset.** Locks, publications, candidates, attempts and projection rows are keyed
  by dataset, and no operation touches two.  Captures and placement files are shared
  by workspaces, and there two of them are modelled.
- **Data.** A fingerprint, a hash, a file's content or a configuration is a member of a
  small set.  `PeriodOf` is the date a partition value denotes (`_format_partition_value`).
  A Bronze asset is its set of named members; a table is a sequence of rows with a
  number or a missing value in a column; a rule is evaluated as the code does it, on the
  positions of the rows it concerns, missing values, empty selections and coinciding bounds included.
- **Projection rows** exist from the first publication on, because `mark_pending` is in
  that transaction, so the insert branches of `mark_synchronized` and `mark_stale` are
  unreachable and not modelled.
- **Order.** Tables, downloads and files are handled in any order where the code sorts or
  iterates them and no property depends on it; streams, actions, checks and candidates
  keep the order the code gives them.
- **Altered manifests.** A damaged manifest is refused, or read as what it now says.  What it says
  may name files with other sizes and checksums (`damaged`), or only files that agree with it: a table
  left out, other counts or columns, another snapshot that is intact (`altered`).
  A comparison with an altered entry may have either result (`Verdicts`), because the code compares
  sizes and checksums and nothing else.
- **History variables** (`overlapped` in the projection, `skipped` and `broken` in Bronze, `seen` in the
  export and in the audit, `changed` and `restored` in the audit, `cause` in the pipeline run)
  record what happened for a property to mention it.  No guard of an action reads them.

## 4. Runs

| run | question | bounds |
|---|---|---|
| `lifecycle` | do concurrent builds, decisions and publications keep the catalog, the review and the marshal consistent; do they implement the atomic catalog and the public history; does every transaction end? | 3 builds of 2 periods, 2 processes, 2 fingerprints; 54,000 states |
| `projection` | is health conservative, does the pointer never dangle or go back, does reconciliation repair? | 3 builds, 1 table, 2 operators, 1 fault; 1.25 million states |
| `projection_pointer_race` | counterexample: concurrent refreshes | 2 operators, 2 tables, no fault |
| `silver` | do rows, manifests and files of builds agree, is only what failed deleted, are outcomes final? | 2 runs and the cleaner, 1 file, 2 builds, 1 table, 1 fault and one failing removal; 1.3 million states |
| `silver_liveness` | is every file built in the end, is there always a reason, are failed artifacts removed? | 1 run process at a time, 2 configurations, 1 fault and one failing removal; 53,000 states |
| `engine` | is there always exactly one approved engine, and is production built by approved ones? | 2 releases, 2 operators, 1 run, 1 fault; 126,000 states |
| `bronze` | do concurrent ingestions lose a changed member, or bind a capture to a file that was not ingested? | 2 runs, 3 captures: a workbook then the smaller archive, the larger archive, a flat file; 4 identifiers, 1 fault; 612,000 states |
| `capture` | are captures whole when they are used, and does a date name one? | 5 runs of 2 workspaces, 2 captures and flat files of one date, 2 streams, 1 fault; 118,000 states |
| `pipeline_run` | is the first cause reported and the record true, and does the run end? | 5 pipelines, 2 faults, each an error or an interrupt; 10,500 states |
| `transfer` | disjoint and durable registrations, whole workspaces, and is what is installed what was verified? | 2 imports, an init of an overlapping workspace, 2 exports, 2 pipeline runs, 1 file, 1 fault; 3.6 million states |
| `audit` | does a clean reconciliation report tell the truth, and is the report kept? | 2 operators, 3 publications (two from before asset rows, the first of them superseded by the third), files of the first damaged and restored up to twice, 1 fault; 5.5 million states |
| `quality` | do the gates let through exactly what the rules allow, and does the evidence tell the verdict? | every rule on a numeric and a text column, 74 configurations, tables of at most two rows, 1 failing statement; 250,000 states |

Why the bounds suffice.

- *Publication.* A conflict over a revision, a baseline or the current publication needs
  two transactions; a stale approval needs two builds decided against one
  baseline; a build of a newer period makes corrections of an old period possible
  while the current publication is elsewhere.  Two fingerprints give "equal" and
  "different".  The theorems of section 7 remove these bounds.
- *Projection.* One table suffices for the order of views and pointer; a fault may hit the
  refresh or the record of its failure, and three builds give a newer and an older publication
  beside the current one.
- *Silver.* Two runs that select one file race for the rebuild decision and for its
  staging; one fault per run puts a crash at each step; two configurations give a change, and
  a change back.  Each table is handled alone, so one table shows each stage of a
  candidate.
- *Bronze.* The two archives make "unchanged", "one member changed" and "all
  new" occur, in both orders and at the same time; four identifiers allow every
  content to be registered once, or one of them twice.
- *Capture.* Two captures of a date are the least ambiguity, a second workspace the least
  clash of identifiers.
- *Transfer.* A second import of the same name and an init of another name with the same
  directory are the two ways of colliding; the second export replaces the package, the
  second run the files.
- *Audit.* One publication is made with its rows, two get theirs by a backfill.  Two damages let a
  manifest change before the backfill and again after its verification, or a manifest and a file it
  names; the files of one publication suffice because each publication is judged by itself, and the
  catalog may move on under it because the third publication supersedes it.
- *Engine.* Two releases, because approving one retires the other; two operators approve the
  same or different ones.

Deadlock is checked in `engine` only.  Every other system may come to rest: when all
builds are decided, operations have ended or the identifiers are used up.

## 5. Fairness

- `PublicationLifecycle!FairSpec`: strong fairness of the steps of a decision or publish
  transaction of each process.  The code is straight-line between the locks;
  PostgreSQL queues lock requests in order, so a waiter is not overtaken for ever.
- `EngineGovernance!FairSpec`: strong fairness of the steps of an approval, for the same
  reason.
- `PublicationProjection!FairSpec`: weak fairness of the steps of a refresh that has begun,
  and strong fairness of `Reconcile`: an operator or a schedule keeps running
  `reconcile_publications`.  That is an assumption about how the program is operated: the
  publish command prints this advice when a refresh fails
  (`manage_publication_candidates.py:246`).
- `SilverBuild!FairSpec`: weak fairness of a build that has begun and of a cleaner that has
  begun; strong fairness of `SelectCandidates` and of `ListBuilds`: the pipeline and
  the reconciliation are run again and again, and attempts do grow older than the
  retention of orphans.  Again an assumption about operation.
- `PipelineRun!RunSpec`: weak fairness of the steps of a process that has not died.
- No fairness is assumed of operators' decisions, new builds, ingestion, failures or
  crashes; the other modules state safety only.

## 6. Where code and documentation disagree

`projection_pointer_race` is a run whose counterexample is expected.  The other properties
below are defined in the modules but not part of a run; TLC refutes each one when it
is added to the configuration named in brackets.

- **Pointer race** (`SynchronizedPointer`).  `refresh_current` reads the current publication,
  writes views and replaces the pointer; only after that is the expected publication
  compared with the health row.  Two publish commands, the first slow: the second
  commits, refreshes and marks the row synchronized; the first then replaces the
  pointer by its older publication.  Its `mark_synchronized` fails and its `mark_stale` matches
  no row.  The row says `synchronized` while the pointer names a superseded publication,
  contrary to `catalog/publication_projection_models.py:61`.  `EventuallyRepaired` shows that
  a later reconciliation repairs it, and `HealthIsConservative` that nothing but
  overlapping refreshes breaks it.
- **Dropped table** (`HistoryListsActiveOnly`) [`MCProjectionPointerRace.cfg`, two tables].  When a
  revision no longer has a table and no other active publication has it, its
  `history.sql` keeps listing superseded publications (`silver_artifacts.py:264`, `:278`).
- **Identical build** (`IdenticalBuildIsSkipped`) [`MCSilverBuild.cfg`].  The batch looks up matching
  builds once.  A second process that finishes the same build meanwhile makes the
  rebuild decision run without a reason, and the run fails instead of skipping
  (`candidate_processing.py:253`, `:261`; `rebuild_decision.py:121`).
- **Duplicate registration** (`OneFilePerContent`) [`MCBronzeIngestion.cfg`].  Two runs that ingest
  the same bytes both find no entry and both register (`file_marshal.py:77`).
- **Unchanged archive** (`RefusalsFollowFailures`) [`MCBronzeIngestion.cfg`].  An archive without changed
  members ends successfully with no artifacts; landing it again is refused because "the
  earlier Bronze ingestion did not finish successfully" (`bronze_ingestion.py:234`).
- **Flat captures** (`NoForeignConflict`) [`MCSourceCapture.cfg`].  The identifier `legacy_<date>` is the same
  in every workspace of a shared database: the second workspace to backfill a date is
  refused (`landing_store.py:217`).
- **Removed workspace** (`OnlyOwnRootsRemoved`, `RegisteredRootsExist`) [`MCWorkspaceTransfer.cfg`].  A failed
  init removes its roots after releasing the lock, when another operation may have
  installed a workspace there (`scaffolding.py:138`); an import that fails after its
  registration was written removes the workspace it registered
  (`workspace_import.py:105`).
- **Nested roots** (`NoOverlap`) [`MCWorkspaceTransfer.cfg` with a nonempty `Within`].  Only equal roots are rejected,
  not a root inside another workspace (`workspace_registry.py:60`, `:96`).
- **Export beside a run** (`PackageIsOneState`) [`MCWorkspaceTransfer.cfg` with two files].  Export looks for
  execution markers which nothing writes, so a package may combine two states.
- **Overwritten package** (`NoUnaskedOverwrite`) [`MCWorkspaceTransfer.cfg`].  The destination is looked at once,
  before packaging; a package put there meanwhile is replaced without being asked.
- **Rewritten severity** (`EvidenceTellsVerdict`) [`MCQualityGates.cfg` with two jobs].  A check run copies
  severity and target from the definition row at that moment, which a job with
  another `quality.yaml` may have changed: a gate that blocked leaves a row that only warns.
  `EvidenceIsTrue` holds for a job that is alone with its definitions, and for any number of
  jobs if their rules agree on severities (`Undisputed`, section 7); `GatesAreSound` and
  `EvidenceComplete` hold regardless.

- **Altered manifests** (`CleanRowsAreRight`, `CleanRunSawItsContracts`) [`MCPublicationAudit.cfg`].  No
  document is contradicted here; the two statements say what one might expect of a report
  without failures and does not get.  A manifest is validated for identity and fingerprints
  (`publication_indexes.py:128`), and any list of well-formed tables is taken
  (`publication_asset_mapping.py:10`).  Rows backfilled from an altered manifest are immutable, each is
  compared by size and checksum alone (`publication_asset_integrity.py:79`), and once the manifest is
  restored every run is clean.  For the contract the manifest is read again after it was
  verified (`reconciliation/evidence.py:209`) and need not be the verified one, although the
  snapshot of a manifest that did not pass is "not trusted" (`:202`).  `CleanReportIsTrue` says
  exactly what remains.

What holds in spite of these is what the passing runs say; `WorkspacesAreWhole`, for
instance, says that a registered workspace is whole unless something else had to do with its
directories (`Disturbed`): a failed operation that was to make one of them or a directory
around it, or an operation of another placement file with the same root.

## 7. Proofs

All theorems hold for any finite or infinite sets of processes, builds, files, releases,
captures and workspaces, from the named assumptions on the constants only.

Where one process goes through two components, one module holds the proofs of both: the
reconciliation command refreshes projections and audits, a pipeline run passes the engine gate,
a landed file goes on to the quality gates.  Such a module extends both, so the names of the
second (`AuditSpec`, `RunSpec`, `GatesSpec`, `Missing`, `Nothing`, `Jobs`, `MaxErrors`,
`MaxFailures`, `MaxStoreFaults`) differ from those of the first; they share no variable.

**`PublicationCatalog_proofs`.** `CatalogSpec => []CatalogInv`, where `CatalogInv` adds to the stated
properties that active publications are published and that every partition with a
publication has an active one.  Both are needed: `NextRevision` is the successor of a
maximum, and only the existence of an active row that *is* that maximum makes the
new row a successor of the one it supersedes.  `CatalogConsistentCorrect` and
`NothingResurrectedCorrect` follow.

**`PublicationLifecycle_proofs`.** `LifecycleInvariant` proves `Spec => []IInv`.  Its parts: type,
`CatalogInv`, `GovernedPublication`; every busy process works on a build; at most one
process holds the dataset lock; what a process has read under it is still so
(`FreshReads`); a locked candidate is approved; a validated candidate's baseline is still
active; a reviewed change differs in content from its baseline; a publication supersedes
its baseline; every decided build has a fingerprint; one promoted file per period.
The argument: mutual exclusion makes reads fresh; fresh reads make the commit equal to
the atomic `Publish`, so `AtomicPublication` holds and the catalog's theorems carry over
(`LifecycleCatalogConsistent`); a validated baseline that cannot move gives
`PublishedAsReviewedCorrect`.  `DecidedAgainstActiveCorrect` and `IrrevocableCorrect` are action
properties from the same invariant.

**`PublicationLifecycle_proofs`, the public history.** `PublicHistoryCorrect` is the refinement of
`PublicationHistory`.  Beside `IInv` it needs `Gapless`: the revisions of a partition's
publications number them from 1 to how many they are (`Enumerates`).  It is inductive although
no code counts publications: the next revision is one more than the greatest of the partition,
which was read under the dataset lock, and publications are never taken back.  The history of a
partition is then the sequence read off that numbering (`Chronicle`), and only a commit can change it: by one entry at the end
(`CommitAppends`), whose content differs from the entry before because its candidate was
reviewed against that very publication and fingerprints of decided builds stay.  That the
newest partition never goes back to an earlier period follows from `TakesOver` and from the
current publication being of the newest period.
`NoneAssumption` says that the mark for "nothing" is no build and no partition
(`partition_value` is a text that is NOT NULL).

**`EngineGovernance_proofs`.** `IInv` is `TypeOK`, `OneReviewedEngine`, `ApprovalIsNeverRefused` and
`ProductionIsReviewed` with three facts about the code: only the holder of the advisory lock
is past it (`HolderOnly`), the release it approves is its own and not among those it
retires (`OwnRelease`), and a production run past the gate has a release that was approved
(`GateHolds`).  The lock alone makes the retired set complete: nobody else approves
meanwhile, and rejections touch candidates only.  `ApprovalIsContinuousCorrect` is the
action property.

**`EngineGovernance_proofs`, the run.** `RunInv` says where a run can be: it is in the script of
its current action, its open steps being those of the script at that place (`Following`), or an
exception is in flight with nothing left to do and no scope around it that could turn it
into a warning (`Abandoned`, `Hopeless`).  Every step that has ended succeeded, unless it is one
of the two that may only warn, or the run is hopeless (`Whole`); that is why a row with `success`
tells of a whole run.  While every call is answered, a step is open or closed by one receipt
that is later than those of the steps within it (`Receipted`, `Closed`), because the open scopes
are the unfinished receipts in their order (`Opened`).  `Recorded` ties row, error and cause
together, and gives `CauseIsReportedCorrect`.  `Outlived` says that an exception of a committed
finalization is still inside the scope that makes it a warning; it reaches the caller only as
an interrupt.  The scripts are finite sequences, and four lemmas (`ScriptScopes`,
`ScriptSteps`, `ScriptWarnings`, `AfterStep`) say all that the steps need of them: scopes nest at
most two deep, and what follows a shielded step is the rest of the queue's.
`RecordsAreTrueCorrect` is the conjunction.

**`WorkspaceTransfer_proofs`, the registry.** `RegInv` is `TypeOK`, `RootsAreDisjoint`, and the two
facts the lock gives: its holder is the only operation between taking and releasing it
(`LockHeld`), and what that operation rendered from is still the registry (`ReadIsCurrent`).
From them `RegistryIsConsistentCorrect`, `Durability` (no registration is lost or changed) and
`Exclusion`.  The first check of the registry, before the work, plays no part in the proof:
only the second one, under the lock, protects anything.

`WorkspacesAreWholeCorrect` needs to know who owns a directory: an operation owns only roots of
its own, a directory that names an operation is one it owns and has not given up, and a lock is
held by an operation that commits (`Ownership`).  `Placed` is the property itself.  A directory
that a registered workspace has can only go when the operation that made it cleans up, and
then that operation fails and its roots are `Disturbed`.  `Placed` survives a `Write` because an
operation writes its registration after it has made all its roots.

**`WorkspaceTransfer_proofs`, the transfer.** `TransferSpec => Spec`: every step of the
composition is a step of the registry or leaves it alone.  The registry's theorems then hold of
the whole transfer without a second proof.  For the packages, `PackagesInv` says that a package
at the destination, and any package an import has verified, agrees with its manifest and comes
from an export that has ended (`Sound`); that an import which extracted from the package it
verified has its files; and that a confirmed import therefore has those of its manifest.  The
ended export matters: what replaces the package between two looks at it comes from an export
that had not ended, so it is never mistaken for the verified one.  With one fact that ties the
two together (`OnlyConfirmed`: an import is past its preparation, or has a directory, only after
it confirmed the package) both invariants give `InstalledIsVerifiedCorrect`.

**`PublicationProjection_proofs`.** It extends the catalog's proofs: `Publish` is their step, and
`ProjectionInv` contains `CatalogInv`.  For the pointer, `LatestWritten` says that a process which
writes latest views has written all that are no longer on its list, of one publication; the
pointer is replaced when the list is empty, so it names a publication with all its views
(`FilesAreConsistentCorrect`), overlaps and faults included, because views are never removed.
For health, `Undisturbed` says that until two refreshes overlap at most one process is busy and
what it has read, written and expects is still true (`Fresh`).  `HealthIsConservativeCorrect` and
`PointerNeverRegressesCorrect` follow; the second uses that the current publication is of the
newest period and the newest revision of its partition, the catalog's theorem.

**`PublicationProjection_proofs`, the audit.** `AuditInv` says four things of every run of the
audit, and one of the rows.  `Selected`: a publication that is active now and was there when the run listed the
catalog is among those it examines, although the catalog may have moved on, because nothing
becomes active again.  `Judged`: for each of these there is a result of each check the run has
behind it, and of the current check for each that it no longer has to do.  `Documented`: the
evidence rows are those of the report, and asset rows once written stay.  A report without
failures then has a result of every check of every publication (`CleanReportIsTrueCorrect`), whatever
was damaged after it was examined, and a failed statement may lose evidence of a failure but never
invents a success (`ReportIsKeptCorrect`).

What a result proves is said by `Trusted`, for every run and whatever it is doing: assets that passed
were found as recorded or their rows are altered; a contract that passed was found as recorded or
the manifest changed after it had passed (`changed`); and where both assets and manifest passed with
altered rows, the manifest was restored in between (`restored`).  `RowsStand` supplies the last:
rows that are not as recorded belong to a legacy publication, and its manifest is damaged still or has
been restored (`Remade`).  The stages matter: the backfill of a run comes before its verification of
manifests (`Early`), so what it read for the rows cannot count as verified.  A result of another run,
a damage or a restoration in between only adds to the histories (`Onward`, `TrustStands`).

**`SilverBuild_proofs`.** `BuildInv` adds to the parts of `BuildsAreConsistent`: a process works on
an attempt that it inserted itself, and no two processes have inserted the same (`Ownership`);
how much of a build is staged, stored and recorded at each point of the work (`Progress`); and
that what the cleaner has listed has failed (`ListedHaveFailed`).  Ownership is what keeps the
others away: a step of a process leaves alone all builds but its own (`Frame`), including its
cleanup of staging and its record of a failure.  The cleaner acts on lists that may be old, but
a failed attempt never becomes anything else, so `OnlyFailedIsDeletedCorrect` needs no lock.
`OutcomeIsFinalCorrect` covers the lost acknowledgement: the conditional UPDATE finds the attempt
succeeded and changes nothing.

**`BronzeIngestion_proofs`.** No lock protects the ingestion; `BronzeInv` rests on identifiers.
Two runs never work under one identifier (`Distinct`), an entry keeps its identifier, asset and
recorded artifacts, and a run's directory holds what the run has written (`Work`).  So what
concurrent runs do to the entries of others is limited to registering, promoting and recording
their own (`RowsKept`, `Touches`).  For `NoMemberIsLostCorrect` the comparison with the promoted
file is the heart: whatever file was promoted when the run looked, it had a manifest, and by
induction each of its members is held by some file of the stream; a member that is not
extracted is one of these, and a recorded manifest is never taken back.  `Batch` says the same
of the assets a run has behind it, and gives `BoundFilesWereIngestedCorrect`.  The invariant also
carries that a nonempty set of entries has a last and a youngest member, which the lookup of the
latest promoted file relies on and which could otherwise only be had by induction over sets.

**`SourceCapture_proofs`.** `IInv` adds to the stated properties: a receipt names every stream; a run
works on a capture of its workspace, and one that is resolved or collected has a
receipt; what was collected is whole; and what two backfills of a date resolved
without a name is the same capture (`OnePerDate`).  The last is inductive because such a
backfill is refused when the date has several captures, and directories are never given
up: whoever resolved before found a capture that still counts.  `IdentifierAssumption` says
that the identifiers of flat files are not those of captures.

**`SourceCapture_proofs`, the quality gates.** `GatesInv` says of every job that its list of checks is
the one its gate computes for what it looks at, under a `quality.yaml` that was accepted; that
its results are a prefix of these checks, all of them once there is a verdict; and that the
verdict is theirs.  What a verdict means is then a matter of the lists: concatenated lists block
when one of them does (`ConcatBlocked`), so a gate blocks exactly when one check of
`LandedFacts`, `BronzeFacts` or `OutputFacts` does.  For the rules, `BreakingIsNotPermitted` shows
rule by rule that the rows which the code picks out are those with a cell outside `Permitted`;
`CheckOfRule` adds the tables a condition leaves empty, and that an accepted numeric rule never
meets a text.  `unique` counts values, and a function on a finite set has as many values as
arguments exactly when no two coincide (`Unrepeating`).  With these, `GatesAreSoundCorrect`.
No gate is ever without checks (`GateChecks`), so the `ValueError` of `_run_gate` is never raised.

`EvidenceInv` is about the rows: a job has rows only of gates it has been at (`Visited`), and
those of its present gate rank like its results, the row with rank `k` telling of check `k`
(`Recorded`), but for one last row of a statement that failed after it was carried out.  A row
written by another job changes no rank.  This gives `EvidenceCompleteCorrect` for any jobs side
by side.  Which severity a row carries depends on who wrote the definition last, so
`EvidenceIsTrueCorrect` assumes `Undisputed`: there is one job, or no two accepted rules with one
check id differ in severity.  It cannot be dropped (section 6, rewritten severity).  The
assumptions on the constants give the inputs their types: cells, bounds and lists are numbers,
the mark for a missing value is not one and is no column, and a table is saved in at least one
format (`_parse_output_formats` accepts no empty list).

## 8. Only model-checked, and not modelled

By TLC only:

- Liveness (`TransactionsEnd`, `EventuallyRepaired`, `RebuildsAreDecided`, `EveryFileIsBuilt`,
  `FailedArtifactsAreRemoved`, `ApprovalsEnd`, `RunEnds`), which is beyond the prover.

Every other property of a passing run is stated by a theorem.

Not modelled:

- `transform/`: operations on the rows of a table, without state or protocol; their order
  comes from the contract.
- `lineage/` and `validation/`: derived records and checks of contents.
- `values/`, `extensions/`, `api/`, `cli.py`, `operations/`, the composition of services: value
  types, wiring and argument parsing.
- `metadata/`: connection setup, database roles and migrations; `FileMarshal.supersede()`, which has
  no caller.
- The audit of directories without a build record, which only reports.
- Of quality rules: regular expressions (a set of matching values stands for one), the ZIP
  and XLSX formats (sound or not), `.nan` bounds, nested lists and null members of lists in
  `quality.yaml` (`RulesAssumption`).
- Of transfer: validation of definition files and of paths inside a package.  `VerifyImport` reads
  the manifest and the checksum of a package in one step.
- Of the audit: that a check and its evidence are two steps of one process, and a
  commit of evidence whose acknowledgement is lost (the report then says "failed", the database keeps
  what was found).
- Fingerprints, hashes, and rendering of SQL, JSON and YAML.  Of the contents of manifests only what
  `EntryKinds` tells apart.

## 9. Plan

| module | composes | abstract specification, main properties | status |
|---|---|---|---|
| `PublicationDecision`, `PublicationCatalog`, `PublicationLifecycle` | the third extends the others | `PublicationHistory`; chain, review, marshal | checked, proved |
| `PublicationProjection` | catalog | pointer and health against the catalog | checked, proved |
| `SilverBuild` | lifecycle's attempt states | complete builds, orphans, rebuild decision | checked, proved but for liveness |
| `EngineGovernance` | | one reviewed engine | checked, proved |
| `BronzeIngestion`, `SourceCapture` | capture assets bound to files | no member lost, whole captures | checked, proved |
| `WorkspaceRegistry`, `WorkspaceExport`, `WorkspaceTransfer` | the third composes the others | disjoint, whole, durable, verified | checked, proved |
| `PipelineRun` | | cause, records | checked, proved but for liveness |
| `PublicationAudit` | | clean report, report kept | checked, proved |
| `QualityRules`, `QualityGates` | gates extend rules | exact gates, evidence | checked, proved |
