--------------------------- MODULE WorkspaceExport ---------------------------
(***************************************************************************)
(* The package of a workspace: export hashes every file of the workspace   *)
(* into a manifest, then packs the files into a temporary ZIP, verifies it *)
(* against the manifest and puts it at its destination; import verifies    *)
(* the package, extracts it and makes sure it is the package it verified.  *)
(* Pipeline runs may write the workspace meanwhile.  WorkspaceTransfer     *)
(* composes these steps with the registration of what was extracted.       *)
(***************************************************************************)
EXTENDS Naturals, FiniteSets

CONSTANTS Files,       \* files of the workspace, exported or not
          Excluded,    \* Silver staging, caches, version control
          Exporters, Overwriting,  \* exports to one destination; those asked to overwrite
          Importers,   \* imports of the package
          Runs,        \* pipeline runs 1, 2, ...: run v writes version v of the files
          Removing,    \* runs that remove the files they replace
          None

VARIABLES data,     \* file -> its version, 0 when it does not exist
          writing,  \* run -> files it has yet to write, None before it begins
          export, package, import,
          seen      \* the states of the workspace between runs so far

vars == <<data, writing, export, package, import, seen>>

Versions == Runs \cup {0}
Contents == [Files -> Versions]
Exported == Files \ Excluded
Empty == [f \in Files |-> 0]

(* execution markers: nothing in the program writes one.                   *)
Markers == {}

Init ==
    /\ data = Empty
    /\ writing = [v \in Runs |-> None]
    /\ export = [e \in Exporters |->
                   [at |-> "idle", todo |-> {}, manifest |-> Empty, zip |-> Empty]]
    /\ package = None
    /\ import = [i \in Importers |-> [at |-> "idle", verified |-> None, files |-> Empty]]
    /\ seen = {Empty}

Package(e) == [by |-> e, manifest |-> export[e].manifest, zip |-> export[e].zip]

AllPackages == [by: Exporters, manifest: Contents, zip: Contents]

TypeOK ==
    /\ data \in Contents
    /\ writing \in [Runs -> (SUBSET Files) \cup {None}]
    /\ export \in [Exporters ->
          [at: {"idle", "collecting", "packing", "verified", "done", "refused", "failed"},
           todo: SUBSET Exported, manifest: Contents, zip: Contents]]
    /\ package \in AllPackages \cup {None}
    /\ import \in [Importers ->
          [at: {"idle", "verified", "extracted", "confirmed", "failed"},
           verified: AllPackages \cup {None}, files: Contents]]

-----------------------------------------------------------------------------
(* A pipeline run rewrites the workspace, file by file.                    *)
BeginRun(v) ==
    /\ writing[v] = None
    /\ \A w \in Runs : writing[w] \in {None, {}}
    /\ writing' = [writing EXCEPT ![v] = Files]
    /\ UNCHANGED <<data, export, package, import, seen>>

WriteFile(v, f) ==
    /\ writing[v] # None /\ f \in writing[v]
    /\ data' = [data EXCEPT ![f] = IF v \in Removing /\ @ # 0 THEN 0 ELSE v]
    /\ writing' = [writing EXCEPT ![v] = @ \ {f}]
    /\ seen' = IF writing'[v] = {} THEN seen \cup {data'} ELSE seen
    /\ UNCHANGED <<export, package, import>>

-----------------------------------------------------------------------------
(* _require_quiescent_workspace.                                           *)
BeginExport(e) ==
    /\ export[e].at = "idle"
    /\ export' = [export EXCEPT ![e].at = IF Markers = {} THEN "collecting" ELSE "refused",
                                ![e].todo = Exported]
    /\ UNCHANGED <<data, writing, package, import, seen>>

(* A file found in the workspace is measured and hashed.                   *)
Collect(e, f) ==
    /\ export[e].at = "collecting" /\ f \in export[e].todo
    /\ export' = [export EXCEPT ![e].todo = @ \ {f}, ![e].manifest[f] = data[f]]
    /\ UNCHANGED <<data, writing, package, import, seen>>

Payload(e) == {f \in Exported : export[e].manifest[f] # 0}

(* A package that is already at the destination stays, unless overwriting. *)
BeginPackage(e) ==
    /\ export[e].at = "collecting" /\ export[e].todo = {}
    /\ export' = [export EXCEPT ![e].at = IF package # None /\ e \notin Overwriting
                                          THEN "refused" ELSE "packing",
                                ![e].todo = Payload(e)]
    /\ UNCHANGED <<data, writing, package, import, seen>>

(* The file is read again for the archive; one that is gone fails it.      *)
Pack(e, f) ==
    /\ export[e].at = "packing" /\ f \in export[e].todo
    /\ export' = [export EXCEPT ![e].at = IF data[f] = 0 THEN "failed" ELSE @,
                                ![e].todo = @ \ {f}, ![e].zip[f] = data[f]]
    /\ UNCHANGED <<data, writing, package, import, seen>>

(* Membership, sizes and checksums of the archive against its manifest.    *)
Intact(p) == p.zip = p.manifest

(* Fault: the archive is put in place unverified.                          *)
VerifyNothing(e) ==
    /\ export[e].at = "packing" /\ export[e].todo = {}
    /\ export' = [export EXCEPT ![e].at = "verified"]
    /\ UNCHANGED <<data, writing, package, import, seen>>

(* The temporary archive is verified before it is put in place.            *)
Verify(e) ==
    /\ export[e].at = "packing" /\ export[e].todo = {}
    /\ export' = [export EXCEPT ![e].at = IF Intact(Package(e)) THEN "verified" ELSE "failed"]
    /\ UNCHANGED <<data, writing, package, import, seen>>

(* atomic_write: the archive replaces whatever is at the destination now.  *)
Publish(e) ==
    /\ export[e].at = "verified"
    /\ package' = Package(e)
    /\ export' = [export EXCEPT ![e].at = "done"]
    /\ UNCHANGED <<data, writing, import, seen>>

(* An error or a kill: the temporary archive goes, or is left behind.      *)
FailExport(e) ==
    /\ export[e].at \in {"collecting", "packing", "verified"}
    /\ export' = [export EXCEPT ![e].at = "failed"]
    /\ UNCHANGED <<data, writing, package, import, seen>>

-----------------------------------------------------------------------------
(* import_workspace verifies the package.                                  *)
VerifyImport(i) ==
    /\ import[i].at = "idle" /\ package # None
    /\ import' = [import EXCEPT ![i].at = IF Intact(package) THEN "verified" ELSE "failed",
                                ![i].verified = package]
    /\ UNCHANGED <<data, writing, export, package, seen>>

(* The package at the path, whichever it is now, is opened, verified again *)
(* and extracted.                                                          *)
Extract(i) ==
    /\ import[i].at = "verified"
    /\ import' = [import EXCEPT ![i].at = IF Intact(package) THEN "extracted" ELSE "failed",
                                ![i].files = package.zip]
    /\ UNCHANGED <<data, writing, export, package, seen>>

(* Fault: what was extracted is installed.                                 *)
ConfirmAny(i) ==
    /\ import[i].at = "extracted"
    /\ import' = [import EXCEPT ![i].at = "confirmed"]
    /\ UNCHANGED <<data, writing, export, package, seen>>

(* The package must still be, by checksum, the one first verified.         *)
Confirm(i) ==
    /\ import[i].at = "extracted"
    /\ import' = [import EXCEPT ![i].at = IF package = import[i].verified
                                          THEN "confirmed" ELSE "failed"]
    /\ UNCHANGED <<data, writing, export, package, seen>>

ExportStep(e) == \/ BeginExport(e) \/ (\E f \in Files : Collect(e, f) \/ Pack(e, f))
                 \/ BeginPackage(e) \/ Verify(e) \/ Publish(e) \/ FailExport(e)
RunStep(v) == BeginRun(v) \/ \E f \in Files : WriteFile(v, f)

-----------------------------------------------------------------------------
(* However runs change files between the hashing and the packing, a        *)
(* package at the destination is what its manifest says.                   *)
PackageMatchesManifest == package # None => Intact(package)

(* PUBLIC_API.md: one package cannot combine two runtime states: it holds  *)
(* the workspace as it was at some moment between runs.                    *)
PackageIsOneState ==
    package # None =>
        \E state \in seen : \A f \in Exported : package.zip[f] = state[f]

(* PUBLIC_API.md: export fails if an existing destination would be         *)
(* overwritten without explicit permission.                                *)
NoUnaskedOverwrite ==
    [][package # None /\ package' # package => package'.by \in Overwriting]_vars
=============================================================================
