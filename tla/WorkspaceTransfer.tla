-------------------------- MODULE WorkspaceTransfer --------------------------
(***************************************************************************)
(* Export, import and registration of workspaces together.  An import      *)
(* verifies the package, checks the registry and the destination, extracts *)
(* the package beside it and confirms that it still is the verified one,   *)
(* and only then joins the operations that commit under the registry lock. *)
(* Exports may replace the package, and runs the exported files, meanwhile.*)
(***************************************************************************)
EXTENDS WorkspaceRegistry

CONSTANTS Files, Excluded, Exporters, Overwriting, Runs, Removing

ASSUME FileAssumption == Excluded \subseteq Files /\ IsFiniteSet(Files)
ASSUME RunAssumption == Runs \subseteq Nat \ {0} /\ Removing \subseteq Runs
ASSUME ExportAssumption == Overwriting \subseteq Exporters

VARIABLES data, writing, export, package, import, seen

Packages == INSTANCE WorkspaceExport WITH Importers <- Importing

packaging == <<data, writing, export, package, import, seen>>
transfer == <<vars, packaging>>

TransferInit == Init /\ Packages!Init

(* The package is verified before the destination is looked at.            *)
VerifyPackage(o) ==
    /\ op[o].at = "idle"
    /\ Packages!VerifyImport(o)
    /\ UNCHANGED vars

CheckDestination(o) ==
    /\ o \in Importing => import[o].at = "verified"
    /\ Check(o)
    /\ UNCHANGED packaging

Ready(o) == op[o].at = "ready"
Confirmed(o) == import[o].at = "confirmed"

(* The package is extracted into a temporary directory ...                 *)
ExtractPackage(o) ==
    /\ op[o].at = "checked"
    /\ Packages!Extract(o)
    /\ IF import'[o].at = "failed" THEN Prepare(o) /\ ~Ready(o)' ELSE UNCHANGED vars

(* ... and compared with the verified one before anything is locked.       *)
ConfirmPackage(o) ==
    /\ Packages!Confirm(o)
    /\ Prepare(o) /\ (Ready(o)' <=> Confirmed(o)')

PrepareWorkspace(o) == o \notin Importing /\ Prepare(o) /\ UNCHANGED packaging

(* The steps under the registry lock, errors, interrupts and crashes.      *)
Commit(o) ==
    /\ \/ Acquire(o) \/ TimeOut(o) \/ Render(o) \/ Claim(o) \/ (\E r \in Roots : Make(o, r))
       \/ Write(o) \/ Release(o) \/ Unwind(o) \/ CleanUp(o)
    /\ UNCHANGED packaging
Break(o) == (Fail(o) \/ FailLate(o) \/ Crash(o)) /\ UNCHANGED packaging

Outside == (\E e \in Exporters : Packages!ExportStep(e)) \/ (\E v \in Runs : Packages!RunStep(v))

TransferNext ==
    \/ \E o \in Importing : VerifyPackage(o) \/ ExtractPackage(o) \/ ConfirmPackage(o)
    \/ \E o \in Operations :
          CheckDestination(o) \/ PrepareWorkspace(o) \/ Commit(o) \/ Break(o)
    \/ Outside /\ UNCHANGED vars

TransferSpec == TransferInit /\ [][TransferNext]_transfer

-----------------------------------------------------------------------------
(* What is packed, verified, extracted and installed stays one thing: the  *)
(* package at the destination is what its manifest says, and an imported   *)
(* workspace in its place holds the files of the package its import        *)
(* verified, even when runs change the files and exports replace the       *)
(* package between any two of these steps.                                 *)
InstalledIsVerified ==
    /\ Packages!TypeOK /\ Packages!PackageMatchesManifest
    /\ \A r \in Roots : dir[r] \in Importing =>
          LET i == import[dir[r]] IN i.at = "confirmed" /\ i.files = i.verified.manifest
=============================================================================
