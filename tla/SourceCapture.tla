---------------------------- MODULE SourceCapture ----------------------------
(***************************************************************************)
(* Acquisition: a scheduled run creates a capture directory in the landing *)
(* zone of its workspace, downloads every stream into it, writes the       *)
(* receipt and registers the capture; a backfill run resolves an existing  *)
(* capture by date (or by identifier), checks the files against the        *)
(* receipt and registers it.  Old landing dates hold files without capture *)
(* directories.  The metadata database is shared by all workspaces.        *)
(***************************************************************************)
EXTENDS Naturals, FiniteSets

CONSTANTS Runs, WorkspaceOf,   \* pipeline runs and the workspace of each
          Captures, DateOf,    \* captures to come and the date each begins on
          Streams,             \* the streams http.files downloads
          LegacyFiles,         \* [workspace][date]: streams with a flat landing file
          MaxFaults,           \* bound on failures, crashes and damaged files
          None

Workspaces == {WorkspaceOf[r] : r \in Runs}
Dates == {DateOf[c] : c \in Captures}

ASSUME RunAssumption == DOMAIN WorkspaceOf = Runs /\ DOMAIN DateOf = Captures
ASSUME LegacyAssumption == LegacyFiles \in [Workspaces -> [Dates -> SUBSET Streams]]
ASSUME BoundsAssumption == MaxFaults \in Nat /\ Streams # {} /\ None \notin Captures \cup Workspaces

VARIABLES made,      \* capture -> the workspace whose landing zone has its directory
          landed,    \* capture -> streams with a file in the directory
          receipt,   \* capture -> streams in source_capture.json
          damaged,   \* files that are gone or changed size since: <<capture, stream>>
          row,       \* meta.source_captures: identifier -> workspace
          run, faults

vars == <<made, landed, receipt, damaged, row, run, faults>>

(* The identifier of the files of a date without capture directories.      *)
Legacy(d) == <<"legacy", d>>
Identifiers == Captures \cup {Legacy(d) : d \in Dates}

ASSUME IdentifierAssumption ==
    /\ \A d \in Dates : Legacy(d) \notin Captures
    /\ \A present \in SUBSET Streams : present # None

(* named: whether the backfill names its capture; date: what it asks for.  *)
Idle == [at |-> "idle", capture |-> None, date |-> None, named |-> FALSE, assets |-> {}]

Init ==
    /\ made = [c \in Captures |-> None]
    /\ landed = [c \in Captures |-> {}]
    /\ receipt = [c \in Captures |-> None]
    /\ damaged = {}
    /\ row = [i \in Identifiers |-> None]
    /\ run = [r \in Runs |-> Idle]
    /\ faults = 0

TypeOK ==
    /\ made \in [Captures -> Workspaces \cup {None}]
    /\ landed \in [Captures -> SUBSET Streams]
    /\ receipt \in [Captures -> (SUBSET Streams) \cup {None}]
    /\ damaged \in SUBSET (Captures \X Streams)
    /\ row \in [Identifiers -> Workspaces \cup {None}]
    /\ run \in [Runs -> [at: {"idle", "downloading", "resolved", "collected", "acquired",
                              "failed", "conflict"},
                         capture: Identifiers \cup {None}, date: Dates \cup {None},
                         named: BOOLEAN, assets: SUBSET Streams]]
    /\ faults \in 0..MaxFaults

-----------------------------------------------------------------------------
(* begin_capture: a directory of its own, below the date of the clock.     *)
BeginCapture(r, c) ==
    /\ run[r].at = "idle" /\ made[c] = None
    /\ made' = [made EXCEPT ![c] = WorkspaceOf[r]]
    /\ run' = [run EXCEPT ![r].at = "downloading", ![r].capture = c]
    /\ UNCHANGED <<landed, receipt, damaged, row, faults>>

(* One stream is downloaded beside its destination and moved into place.   *)
Download(r, s) ==
    /\ run[r].at = "downloading"
    /\ s \notin run[r].assets
    /\ landed' = [landed EXCEPT ![run[r].capture] = @ \cup {s}]
    /\ run' = [run EXCEPT ![r].assets = @ \cup {s}]
    /\ UNCHANGED <<made, receipt, damaged, row, faults>>

(* Once every stream has landed, the receipt replaces nothing, atomically. *)
WriteReceipt(r) ==
    /\ run[r].at = "downloading"
    /\ run[r].assets = Streams
    /\ receipt' = [receipt EXCEPT ![run[r].capture] = run[r].assets]
    /\ run' = [run EXCEPT ![r].at = "collected"]
    /\ UNCHANGED <<made, landed, damaged, row, faults>>

-----------------------------------------------------------------------------
CapturesOn(w, d) == {c \in Captures : made[c] = w /\ DateOf[c] = d}

(* Fault: of several captures the newest with a receipt is taken.          *)
ResolvableAny(w, d, name) ==
    {c \in CapturesOn(w, d) : receipt[c] # None /\ name \in {None, c}}

(* resolve_capture: the named capture, or the only one of the date, if its *)
(* receipt can be read; flat files only where the date has no capture.     *)
Resolvable(w, d, name) ==
    IF name # None THEN {c \in CapturesOn(w, d) \cap {name} : receipt[c] # None}
    ELSE IF CapturesOn(w, d) # {}
    THEN {c \in CapturesOn(w, d) : CapturesOn(w, d) = {c} /\ receipt[c] # None}
    ELSE IF LegacyFiles[w][d] # {} THEN {Legacy(d)} ELSE {}

Resolve(r, d, name) ==
    /\ run[r].at = "idle"
    /\ LET found == Resolvable(WorkspaceOf[r], d, name)
           asked == [Idle EXCEPT !.date = d, !.named = (name # None)]
       IN  \/ \E i \in found :
                 run' = [run EXCEPT ![r] = [asked EXCEPT !.at = "resolved", !.capture = i]]
           \/ found = {} /\ run' = [run EXCEPT ![r] = [asked EXCEPT !.at = "failed"]]
    /\ UNCHANGED <<made, landed, receipt, damaged, row, faults>>

Intact(c) == {s \in landed[c] : <<c, s>> \notin damaged}

(* Fault: files of the receipt that are gone are skipped with a warning.   *)
CollectPresent(r) ==
    /\ run[r].at = "resolved"
    /\ LET c == run[r].capture IN
       run' = [run EXCEPT ![r].at = "collected",
                          ![r].assets = IF c \in Captures THEN receipt[c] \cap Intact(c)
                                        ELSE LegacyFiles[WorkspaceOf[r]][run[r].date]]
    /\ UNCHANGED <<made, landed, receipt, damaged, row, faults>>

(* Flat files are matched with the streams they fit; of a capture, every   *)
(* file of the receipt must be there with its size.                        *)
Collect(r) ==
    /\ run[r].at = "resolved"
    /\ LET c == run[r].capture IN
       \/ /\ c \notin Captures
          /\ run' = [run EXCEPT ![r].at = "collected",
                                ![r].assets = LegacyFiles[WorkspaceOf[r]][run[r].date]]
       \/ /\ c \in Captures /\ receipt[c] \subseteq Intact(c)
          /\ run' = [run EXCEPT ![r].at = "collected", ![r].assets = receipt[c]]
       \/ /\ c \in Captures /\ ~ receipt[c] \subseteq Intact(c)
          /\ run' = [run EXCEPT ![r].at = "failed"]
    /\ UNCHANGED <<made, landed, receipt, damaged, row, faults>>

-----------------------------------------------------------------------------
(* register_capture, in one transaction: insert the row if there is none;  *)
(* what is there must be the same capture; bind the pipeline run.          *)
Register(r) ==
    /\ run[r].at = "collected"
    /\ LET i == run[r].capture
           w == WorkspaceOf[r]
       IN  \/ /\ row[i] \in {None, w}
              /\ row' = [row EXCEPT ![i] = w]
              /\ run' = [run EXCEPT ![r].at = "acquired"]
           \/ /\ row[i] \notin {None, w}
              /\ run' = [run EXCEPT ![r].at = "conflict"]
              /\ UNCHANGED row
    /\ UNCHANGED <<made, landed, receipt, damaged, faults>>

(* A download, the disk or the database fails, or the process dies.        *)
Fail(r) ==
    /\ run[r].at \in {"downloading", "resolved", "collected"}
    /\ faults < MaxFaults
    /\ faults' = faults + 1
    /\ run' = [run EXCEPT ![r].at = "failed"]
    /\ UNCHANGED <<made, landed, receipt, damaged, row>>

(* A landed file is deleted or replaced by one of another size.            *)
Damage(c, s) ==
    /\ s \in landed[c] /\ <<c, s>> \notin damaged
    /\ faults < MaxFaults
    /\ faults' = faults + 1
    /\ damaged' = damaged \cup {<<c, s>>}
    /\ UNCHANGED <<made, landed, receipt, row, run>>

Advance(r) == (\E s \in Streams : Download(r, s)) \/ WriteReceipt(r) \/ Collect(r) \/ Register(r)

Next ==
    \/ \E r \in Runs : Advance(r) \/ Fail(r) \/ (\E c \in Captures : BeginCapture(r, c))
    \/ \E r \in Runs, d \in Dates, name \in Captures \cup {None} : Resolve(r, d, name)
    \/ \E c \in Captures, s \in Streams : Damage(c, s)

Spec == Init /\ [][Next]_vars

-----------------------------------------------------------------------------
Acquired(r) == run[r].at = "acquired"

(* A run goes on with every stream of its capture or not at all: what a    *)
(* download left unfinished is not used in part, nor is a capture without  *)
(* the files that were damaged.  That a file has its recorded size when it *)
(* is collected is a guard of Collect, and not restated here.              *)
AcquisitionIsWhole ==
    \A r \in Runs : Acquired(r) /\ run[r].capture \in Captures => run[r].assets = Streams

(* Backfills of a date that name no capture agree on the capture.          *)
DateNamesOneCapture ==
    \A q, r \in Runs :
        /\ Acquired(q) /\ run[q].date # None /\ ~ run[q].named /\ run[q].capture \in Captures
        /\ Acquired(r) /\ run[r].date = run[q].date /\ ~ run[r].named
        /\ run[r].capture \in Captures /\ WorkspaceOf[q] = WorkspaceOf[r]
        => run[q].capture = run[r].capture

(* A registered capture can be backfilled: it has a receipt.               *)
RegisteredCapturesHaveReceipts ==
    \A c \in Captures : row[c] # None => receipt[c] # None /\ made[c] = row[c]

(* What runs acquired and what is registered agrees with the landing zones. *)
CapturesAreWhole == TypeOK /\ AcquisitionIsWhole /\ RegisteredCapturesHaveReceipts

(* Flat landing files of one workspace can be backfilled whatever other    *)
(* workspaces have registered.                                             *)
NoForeignConflict == \A r \in Runs : run[r].at # "conflict"
=============================================================================
