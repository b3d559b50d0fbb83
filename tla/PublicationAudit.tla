--------------------------- MODULE PublicationAudit ---------------------------
(***************************************************************************)
(* reconcile-publications, as an audit: a run selects publications, adds   *)
(* missing asset rows from manifests, and compares assets, manifests,      *)
(* transformation details and contract snapshots with what was recorded of *)
(* them.  Meanwhile datasets are published, files are damaged and restored,*)
(* and other operators do the same.  The repair of the projections is in   *)
(* PublicationProjection, the cleanup of artifacts in SilverBuild.         *)
(***************************************************************************)
EXTENDS Naturals

CONSTANTS MaxPubs,       \* bound on publications, numbered in the order they are made
          PubPeriod,     \* publication -> its partition
          Legacy,        \* those made before asset rows were kept
          Hashless,      \* those whose build has no recorded manifest hash
          Operators,     \* reconciliation runs
          WithHistory,   \* --verify-history-assets
          Backfilling,   \* --backfill-publication-assets
          Fragile,       \* the files that may be damaged, as <<kind, publication>>
          MaxDamages, MaxErrors,  \* bounds on damages of files and database errors
          Missing

Pubs == 1..MaxPubs
Checks == {"asset", "manifest", "details", "contract"}
Files == Checks \X Pubs

ASSUME PubAssumption ==
    /\ MaxPubs \in Nat
    /\ DOMAIN PubPeriod = Pubs /\ Legacy \subseteq Pubs /\ Hashless \subseteq Pubs
ASSUME OperatorAssumption ==
    WithHistory \subseteq Operators /\ Backfilling \subseteq Operators
ASSUME BoundAssumption == Fragile \subseteq Files /\ MaxDamages \in Nat /\ MaxErrors \in Nat
ASSUME MarkAssumption == Missing \notin Pubs /\ Missing \notin {"recorded", "altered", "damaged"}

VARIABLES published,  \* how many publications exist
          rows,       \* publication -> the contents of its asset rows
          file,       \* <<kind, publication>> -> state of the file
          evidence,   \* integrity checks kept: <<operator, publication, verdict>>
          run, damages, errors,
          changed,    \* history: operator -> those whose manifest it found as recorded
                      \* and which was damaged after that
          restored    \* history: those whose manifest was damaged and restored

auditVars == <<published, rows, file, evidence, run, damages, errors, changed, restored>>
histories == <<changed, restored>>

Contents == {"recorded", "damaged"}

(* What a manifest, or rows made of it, say of files: as recorded; damaged *)
(* where any comparison shows it, in sizes and checksums; or altered where *)
(* none does: a table left out, other columns or counts, other files that  *)
(* are as the manifest says.                                               *)
EntryKinds == {"recorded", "altered", "damaged"}

(* passed, failed: the results of the run, failed checks and checks that   *)
(* could not be made alike; seen: files found as recorded.                 *)
NotStarted == [at |-> "idle", current |-> Missing, all |-> {}, pubs |-> {}, todo |-> {},
               entry |-> Missing, passed |-> {}, failed |-> {}, seen |-> {}]

AuditInit ==
    /\ published \in 0..MaxPubs
    /\ Legacy = 1..published
    /\ rows = [p \in Pubs |-> Missing]
    /\ file = [f \in Files |-> "recorded"]
    /\ evidence = {}
    /\ run = [r \in Operators |-> NotStarted]
    /\ damages = 0
    /\ errors = 0
    /\ changed = [r \in Operators |-> {}]
    /\ restored = {}

Stages == {"idle", "selecting", "backfill", "register", "asset", "manifest", "details",
           "contract", "done", "aborted"}

AuditTypeOK ==
    /\ published \in 0..MaxPubs
    /\ rows \in [Pubs -> EntryKinds \cup {Missing}]
    /\ file \in [Files -> Contents]
    /\ evidence \subseteq Operators \X Pubs \X {"passed", "failed"}
    /\ run \in [Operators ->
          [at: Stages, current: Pubs \cup {Missing}, all: SUBSET Pubs, pubs: SUBSET Pubs,
           todo: SUBSET Pubs, entry: EntryKinds \cup {Missing},
           passed: SUBSET Files, failed: SUBSET ((Checks \cup {"rows"}) \X Pubs),
           seen: SUBSET Files]]
    /\ damages \in 0..MaxDamages /\ errors \in 0..MaxErrors
    /\ changed \in [Operators -> SUBSET Pubs] /\ restored \subseteq Pubs

-----------------------------------------------------------------------------
Existing == 1..published
IsActive(p) == p \in Existing /\ \A q \in Existing : PubPeriod[q] = PubPeriod[p] => q <= p
Active == {p \in Existing : IsActive(p)}
IsCurrent(p) == IsActive(p) /\ \A q \in Existing : PubPeriod[q] <= PubPeriod[p]
IsFirst(p, set) == p \in set /\ \A q \in set : p <= q

(* A publication is made with its asset rows, from verified files: see     *)
(* PublicationLifecycle.                                                   *)
NewPublication ==
    /\ published < MaxPubs
    /\ published' = published + 1
    /\ rows' = [rows EXCEPT ![published + 1] = "recorded"]
    /\ UNCHANGED <<file, evidence, run, damages, errors, histories>>

(* Files of the workspace change or vanish, and are restored.              *)
Damage(f) ==
    /\ damages < MaxDamages /\ f[2] \in Existing /\ file[f] = "recorded"
    /\ file' = [file EXCEPT ![f] = "damaged"]
    /\ damages' = damages + 1
    /\ changed' = [r \in Operators |->
                      IF f[1] = "manifest" /\ f \in run[r].seen THEN changed[r] \cup {f[2]}
                      ELSE changed[r]]
    /\ UNCHANGED <<published, rows, evidence, run, errors, restored>>

Restore(f) ==
    /\ file[f] # "recorded"
    /\ file' = [file EXCEPT ![f] = "recorded"]
    /\ restored' = IF f[1] = "manifest" THEN restored \cup {f[2]} ELSE restored
    /\ UNCHANGED <<published, rows, evidence, run, damages, errors, changed>>

-----------------------------------------------------------------------------
(* What reading and validating a manifest can yield: a damaged one may be  *)
(* refused (no file, no JSON, another identity, no tables) or accepted,    *)
(* damaged where it does not matter, where a comparison shows it or where  *)
(* none does.                                                              *)
ManifestEntries(p) ==
    IF file[<<"manifest", p>>] = "recorded" THEN {"recorded"} ELSE EntryKinds \cup {Missing}

(* find_current.                                                           *)
Begin(r) ==
    /\ run[r].at = "idle"
    /\ \E found \in IF Existing = {} THEN {Missing} ELSE {p \in Existing : IsCurrent(p)} :
          run' = [run EXCEPT ![r].at = "selecting", ![r].current = found]
    /\ UNCHANGED <<published, rows, file, evidence, damages, errors, histories>>

(* Fault: the current publication alone, unless all are asked for.         *)
CurrentPubs(r) == (IF r \in WithHistory THEN Existing ELSE {}) \cup ({run[r].current} \ {Missing})

(* Active publications, the current one read before, and on request all.   *)
IntegrityPubs(r) == Active \cup ({run[r].current} \ {Missing})
                           \cup (IF r \in WithHistory THEN Existing ELSE {})

(* list_all; with backfill, list_active.                                   *)
Select(r) ==
    /\ run[r].at = "selecting"
    /\ run' = [run EXCEPT ![r].at = IF r \in Backfilling THEN "backfill" ELSE "asset",
                          ![r].all = Existing,
                          ![r].pubs = IntegrityPubs(r),
                          ![r].todo = IF r \in Backfilling THEN Active ELSE IntegrityPubs(r)]
    /\ UNCHANGED <<published, rows, file, evidence, damages, errors, histories>>

After(at) == CASE at = "backfill" -> "asset"
               [] at = "asset"    -> "manifest"
               [] at = "manifest" -> "details"
               [] at = "details"  -> "contract"
               [] OTHER           -> "done"

Advance(r) ==
    /\ run[r].at \in {"backfill"} \cup Checks
    /\ run[r].todo = {}
    /\ run' = [run EXCEPT ![r].at = After(@),
                          ![r].todo = IF After(run[r].at) = "done" THEN {} ELSE run[r].pubs]
    /\ UNCHANGED <<published, rows, file, evidence, damages, errors, histories>>

(* A comparison with what an entry says of a file: it passes when the file *)
(* is as recorded; of an altered entry it may say anything.                *)
Verdicts(entry, f) ==
    CASE entry = "recorded" -> {file[f] = "recorded"}
      [] entry = "altered"  -> BOOLEAN
      [] OTHER              -> {FALSE}

(* The record of a run after the check of a publication.  Only an entry as *)
(* recorded makes the run look at the recorded file.                       *)
Passed(r, p, entry) ==
    [run[r] EXCEPT !.todo = @ \ {p}, !.passed = @ \cup {<<run[r].at, p>>},
                   !.seen = IF entry = "recorded" THEN @ \cup {<<run[r].at, p>>} ELSE @]
Failed(r, p) == [run[r] EXCEPT !.todo = @ \ {p}, !.failed = @ \cup {<<run[r].at, p>>}]

(* Missing rows are looked for, and the manifest read and validated.       *)
ReadEntry(r, p) ==
    /\ run[r].at = "backfill" /\ IsFirst(p, run[r].todo)
    /\ LET failure == [run[r] EXCEPT !.todo = @ \ {p}, !.failed = @ \cup {<<"rows", p>>}]
       IN  IF rows[p] # Missing
           THEN run' = [run EXCEPT ![r].todo = @ \ {p}]
           ELSE \E entry \in ManifestEntries(p) :
                   run' = [run EXCEPT ![r] = IF entry = Missing THEN failure
                                             ELSE [@ EXCEPT !.at = "register", !.entry = entry]]
    /\ UNCHANGED <<published, rows, file, evidence, damages, errors, histories>>

(* The row of the publication is locked; asset rows that came in meanwhile *)
(* are kept, and refused when they differ, as two alterations may.         *)
Register(r, p) ==
    /\ run[r].at = "register" /\ IsFirst(p, run[r].todo)
    /\ LET entry == run[r].entry
           done == [run[r] EXCEPT !.at = "backfill", !.todo = @ \ {p}, !.entry = Missing]
           refused == [done EXCEPT !.failed = @ \cup {<<"rows", p>>}]
       IN  /\ rows' = [rows EXCEPT ![p] = IF @ = Missing THEN entry ELSE @]
           /\ \/ rows[p] \in {Missing, entry} /\ run' = [run EXCEPT ![r] = done]
              \/ /\ rows[p] # Missing /\ (rows[p] = entry => entry # "recorded")
                 /\ run' = [run EXCEPT ![r] = refused]
    /\ UNCHANGED <<published, file, evidence, damages, errors, histories>>

-----------------------------------------------------------------------------
(* insert_check: a check with its verdict, linked to the publication.      *)
Check(r, p, matches) == <<r, p, IF matches THEN "passed" ELSE "failed">>

(* A publication's assets are inspected (size and checksum of each file    *)
(* its rows name) and the check kept with its verdict in one transaction;  *)
(* without rows there is nothing to verify and nothing to keep, which is a *)
(* failure of its own.                                                     *)
VerifyAssets(r, p) ==
    /\ run[r].at = "asset" /\ IsFirst(p, run[r].todo)
    /\ IF rows[p] = Missing
       THEN run' = [run EXCEPT ![r] = Failed(r, p)] /\ UNCHANGED evidence
       ELSE \E matches \in Verdicts(rows[p], <<"asset", p>>) :
               /\ run' = [run EXCEPT ![r] = IF matches THEN Passed(r, p, rows[p])
                                            ELSE Failed(r, p)]
               /\ evidence' = evidence \cup {Check(r, p, matches)}
    /\ UNCHANGED <<published, rows, file, damages, errors, histories>>

(* The check cannot be kept: it is a failure whatever it found.            *)
LoseEvidence(r, p) ==
    /\ run[r].at = "asset" /\ IsFirst(p, run[r].todo)
    /\ errors < MaxErrors
    /\ run' = [run EXCEPT ![r] = Failed(r, p)]
    /\ errors' = errors + 1
    /\ UNCHANGED <<published, rows, file, evidence, damages, histories>>

(* The manifest against the hash its build recorded.                       *)
VerifyManifest(r, p) ==
    /\ run[r].at = "manifest" /\ IsFirst(p, run[r].todo)
    /\ run' = [run EXCEPT ![r] =
           IF p \notin Hashless /\ file[<<"manifest", p>>] = "recorded"
           THEN Passed(r, p, "recorded") ELSE Failed(r, p)]
    /\ UNCHANGED <<published, rows, file, evidence, damages, errors, histories>>

VerifyDetails(r, p) ==
    /\ run[r].at = "details" /\ IsFirst(p, run[r].todo)
    /\ run' = [run EXCEPT ![r] =
           IF file[<<"details", p>>] = "recorded"
           THEN Passed(r, p, "recorded") ELSE Failed(r, p)]
    /\ UNCHANGED <<published, rows, file, evidence, damages, errors, histories>>

(* The recorded impacts cannot be read: one failure for all of them.       *)
LoseDetails(r) ==
    /\ run[r].at = "details" /\ run[r].todo = run[r].pubs /\ run[r].todo # {}
    /\ errors < MaxErrors
    /\ errors' = errors + 1
    /\ run' = [run EXCEPT ![r].todo = {},
                          ![r].failed = @ \cup {<<"details", p>> : p \in run[r].pubs}]
    /\ UNCHANGED <<published, rows, file, evidence, damages, histories>>

(* Fault: the snapshot is looked up in any manifest.                       *)
TrustManifest(r, p) ==
    /\ run[r].at = "contract" /\ IsFirst(p, run[r].todo)
    /\ \E entry \in ManifestEntries(p) : \E matches \in Verdicts(entry, <<"contract", p>>) :
          run' = [run EXCEPT ![r] = IF matches THEN Passed(r, p, entry)
                                    ELSE [@ EXCEPT !.todo = @ \ {p}]]
    /\ UNCHANGED <<published, rows, file, evidence, damages, errors, histories>>

(* The snapshot and the checksum named in the manifest, only when the      *)
(* manifest passed.  It is read again for them and validated, and not      *)
(* compared with what passed.                                              *)
VerifyContract(r, p) ==
    /\ run[r].at = "contract" /\ IsFirst(p, run[r].todo)
    /\ \E entry \in ManifestEntries(p) : \E matches \in Verdicts(entry, <<"contract", p>>) :
          run' = [run EXCEPT ![r] =
             IF <<"manifest", p>> \in run[r].passed /\ matches
             THEN Passed(r, p, entry) ELSE Failed(r, p)]
    /\ UNCHANGED <<published, rows, file, evidence, damages, errors, histories>>

(* A database error outside the handled parts, or the end of the process.  *)
Abort(r) ==
    /\ run[r].at \notin {"idle", "done", "aborted"}
    /\ errors < MaxErrors
    /\ errors' = errors + 1
    /\ run' = [run EXCEPT ![r].at = "aborted"]
    /\ UNCHANGED <<published, rows, file, evidence, damages, histories>>

Step(r) == \/ Select(r) \/ Advance(r)
           \/ \E p \in Pubs :
                 \/ ReadEntry(r, p) \/ Register(r, p) \/ VerifyAssets(r, p)
                 \/ VerifyManifest(r, p) \/ VerifyDetails(r, p) \/ VerifyContract(r, p)

AuditNext ==
    \/ NewPublication
    \/ \E f \in Fragile : Damage(f) \/ Restore(f)
    \/ \E r \in Operators :
          \/ Begin(r) \/ Step(r) \/ LoseDetails(r) \/ Abort(r)
          \/ \E p \in Pubs : LoseEvidence(r, p)

AuditSpec == AuditInit /\ [][AuditNext]_auditVars

-----------------------------------------------------------------------------
(* The exit code of the command.                                           *)
Clean(r) == run[r].at = "done" /\ run[r].failed = {}

(* A run that reports no failure has found the manifest and the details of *)
(* every publication that is active, or on request of any, as they were    *)
(* recorded, and its assets and its contract too: the assets unless its    *)
(* rows were made of an altered manifest, the contract unless the manifest *)
(* changed after it was verified, for it is read again.                    *)
CleanRunSawItsFiles ==
    \A r \in Operators : Clean(r) =>
        \A p \in run[r].all : IsActive(p) \/ r \in WithHistory =>
            /\ {<<"manifest", p>>, <<"details", p>>} \subseteq run[r].seen
            /\ <<"asset", p>> \in run[r].seen \/ rows[p] = "altered"
            /\ <<"contract", p>> \in run[r].seen \/ p \in changed[r]

(* Wrong rows do not get past a clean run unless they were backfilled from *)
(* an altered manifest that somebody restored since: rows made with their  *)
(* publication are right, and while the manifest is as it was when wrong   *)
(* rows were made of it, its own check fails.                              *)
WrongRowsNeedARestoredManifest ==
    \A r \in Operators, p \in Pubs :
        Clean(r) /\ p \in run[r].pubs =>
            \/ rows[p] = "recorded"
            \/ rows[p] = "altered" /\ p \in Legacy /\ p \in restored

(* Not so, though each check compares what it reads with a checksum: that  *)
(* the rows behind a clean report are right, and that it saw the recorded  *)
(* snapshot of every publication whose manifest it verified.  Rows may come*)
(* of an altered manifest that was restored since, and the snapshot is     *)
(* looked up in a manifest read again.                                     *)
CleanRowsAreRight ==
    \A r \in Operators, p \in Pubs : Clean(r) /\ p \in run[r].pubs => rows[p] = "recorded"

CleanRunSawItsContracts ==
    \A r \in Operators : Clean(r) => {"contract"} \X run[r].pubs \subseteq run[r].seen

(* A run that ends has a result for every file of every publication it     *)
(* selected: no failure keeps others from being examined.                  *)
ReportIsComplete ==
    \A r \in Operators : run[r].at = "done" =>
        Checks \X run[r].pubs \subseteq run[r].passed \cup run[r].failed

(* What a run says of a publication's assets, for better or worse, is      *)
(* what the database keeps of it.                                          *)
EvidenceMatchesReport ==
    \A r \in Operators, p \in Pubs :
        /\ <<r, p, "passed">> \in evidence <=> <<"asset", p>> \in run[r].passed
        /\ <<r, p, "failed">> \in evidence => <<"asset", p>> \in run[r].failed
        /\ errors = 0 /\ p \notin Legacy /\ <<"asset", p>> \in run[r].failed
              => <<r, p, "failed">> \in evidence

(* What an exit code of zero says of files and asset rows.                 *)
CleanReportIsTrue == CleanRunSawItsFiles /\ WrongRowsNeedARestoredManifest

(* The report of a run is complete, and the evidence kept agrees with it.  *)
ReportIsKept == AuditTypeOK /\ ReportIsComplete /\ EvidenceMatchesReport
=============================================================================
