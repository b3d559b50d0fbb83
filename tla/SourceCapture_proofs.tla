------------------------- MODULE SourceCapture_proofs -------------------------
(***************************************************************************)
(* What a run takes in.  Captures are whole and a date names one of them,  *)
(* for any number of runs, workspaces, captures and streams.  Then the     *)
(* quality gates, which landed files reach next: they let through what     *)
(* they should for any rules, files and tables, and leave their evidence   *)
(* for any number of jobs.                                                 *)
(***************************************************************************)
EXTENDS SourceCapture, QualityGates, SequenceTheorems, FiniteSetTheorems, TLAPS

(* A receipt names every stream, and belongs to a directory that exists.   *)
ReceiptsAreWhole == \A c \in Captures : receipt[c] # None => receipt[c] = Streams

Resolved == {"resolved", "collected", "acquired"}

(* What a run downloads or has resolved is a capture of its workspace; one *)
(* that was resolved, or collected after a download, has its receipt.      *)
OwnCapture ==
    \A r \in Runs :
        /\ run[r].at \in {"downloading"} \cup Resolved => run[r].capture \in Identifiers
        /\ run[r].at \in {"downloading"} \cup Resolved /\ run[r].capture \in Captures =>
              made[run[r].capture] = WorkspaceOf[r]
        /\ run[r].at = "downloading" => run[r].capture \in Captures
        /\ run[r].at \in {"idle", "downloading"} => run[r].date = None
        /\ run[r].at = "resolved" => run[r].date \in Dates
        /\ run[r].at \in Resolved /\ run[r].capture \in Captures =>
              receipt[run[r].capture] # None

(* What a run has collected of a capture is all of it.                     *)
CollectedIsWhole ==
    \A r \in Runs : run[r].at \in {"collected", "acquired"} /\ run[r].capture \in Captures =>
        run[r].assets = Streams

(* What a backfill of a date without a name resolved is of that date ...   *)
OfItsDate ==
    \A r \in Runs : run[r].at \in Resolved /\ run[r].date # None /\ run[r].capture \in Captures =>
        DateOf[run[r].capture] = run[r].date

(* ... and the only one its workspace had, which a second one would have   *)
(* kept from being resolved again.                                         *)
OnePerDate ==
    \A q, r \in Runs :
        /\ run[q].at \in Resolved /\ run[q].date # None /\ ~ run[q].named
        /\ run[r].at \in Resolved /\ run[r].date = run[q].date /\ ~ run[r].named
        /\ run[q].capture \in Captures /\ run[r].capture \in Captures
        /\ WorkspaceOf[q] = WorkspaceOf[r]
        => run[q].capture = run[r].capture

IInv == /\ TypeOK /\ ReceiptsAreWhole /\ OwnCapture /\ CollectedIsWhole
        /\ OfItsDate /\ OnePerDate /\ RegisteredCapturesHaveReceipts

-----------------------------------------------------------------------------
LEMMA Initially == Init => IInv
<1> SUFFICES ASSUME Init PROVE IInv
  OBVIOUS
<1>1. TypeOK
  BY BoundsAssumption DEF Init, TypeOK, Idle
<1>2. ReceiptsAreWhole /\ OwnCapture /\ CollectedIsWhole /\ OfItsDate /\ OnePerDate
  BY DEF Init, Idle, ReceiptsAreWhole, OwnCapture, CollectedIsWhole, OfItsDate, OnePerDate, Resolved
<1>3. RegisteredCapturesHaveReceipts
  BY DEF Init, RegisteredCapturesHaveReceipts, Identifiers
<1> QED
  BY <1>1, <1>2, <1>3 DEF IInv

States == {"idle", "downloading", "resolved", "collected", "acquired", "failed", "conflict"}
Records == [at: States, capture: Identifiers \cup {None}, date: Dates \cup {None},
            named: BOOLEAN, assets: SUBSET Streams]

LEMMA OfRun == ASSUME NEW r \in Runs PROVE WorkspaceOf[r] \in Workspaces /\ WorkspaceOf[r] # None
BY BoundsAssumption DEF Workspaces

(* The record a step leaves.                                               *)
LEMMA Updates ==
    ASSUME NEW rec \in Records, NEW at \in States, NEW capture \in Identifiers,
           NEW assets \in SUBSET Streams
    PROVE  /\ [rec EXCEPT !.at = at] \in Records
           /\ [rec EXCEPT !.assets = assets] \in Records
           /\ [rec EXCEPT !.at = at, !.capture = capture] \in Records
           /\ [rec EXCEPT !.at = at, !.assets = assets] \in Records
BY DEF Records

(* A step changes the record of one run.                                   *)
Becomes(r, rec) ==
    /\ rec \in Records
    /\ run' \in [Runs -> Records]
    /\ \A q \in Runs : run'[q] = IF q = r THEN rec ELSE run[q]

LEMMA RunChanges ==
    ASSUME TypeOK, NEW r \in Runs, NEW rec \in Records, run' = [run EXCEPT ![r] = rec]
    PROVE  Becomes(r, rec)
BY DEF TypeOK, Becomes, Records, States

LEMMA RunTyped ==
    ASSUME TypeOK, NEW r \in Runs
    PROVE  run \in [Runs -> Records] /\ run[r] \in Records
BY DEF TypeOK, Records, States

(* A directory is taken that no run has and no row names.                  *)
LEMMA BeginCaptureStep ==
    ASSUME IInv, NEW r \in Runs, NEW c \in Captures, BeginCapture(r, c)
    PROVE  IInv'
<1> DEFINE rec == [run[r] EXCEPT !.at = "downloading", !.capture = c]
<1>1. /\ run[r].at = "idle" /\ made[c] = None
      /\ made' = [made EXCEPT ![c] = WorkspaceOf[r]]
      /\ UNCHANGED <<landed, receipt, damaged, row, faults>>
  BY DEF BeginCapture
<1>0. run[r] \in Records
  BY RunTyped DEF IInv
<1>2. Becomes(r, rec)
  <2>1. run' = [run EXCEPT ![r] = rec]
    BY DEF BeginCapture
  <2>2. rec \in Records
    BY <1>0, Updates DEF States, Identifiers
  <2> HIDE DEF rec
  <2> QED
    BY <2>1, <2>2, RunChanges DEF IInv
<1>3. rec.at = "downloading" /\ rec.capture = c /\ rec.date = run[r].date
  BY <1>0 DEF Records
<1> HIDE DEF rec
<1>4. TypeOK'
  <2>1. made' \in [Captures -> Workspaces \cup {None}]
    BY <1>1, OfRun DEF IInv, TypeOK
  <2> QED
    BY <1>1, <1>2, <2>1 DEF IInv, TypeOK, Becomes, Records, States
<1>5. row[c] = None /\ \A q \in Runs : run[q].at \in {"downloading"} \cup Resolved =>
                                            run[q].capture # c
  BY <1>1, OfRun DEF IInv, TypeOK, OwnCapture, RegisteredCapturesHaveReceipts, Identifiers
<1>6. RegisteredCapturesHaveReceipts' /\ ReceiptsAreWhole'
  BY <1>1, <1>5 DEF IInv, TypeOK, RegisteredCapturesHaveReceipts, ReceiptsAreWhole
<1>7. OwnCapture'
  BY <1>1, <1>2, <1>3, <1>5 DEF IInv, TypeOK, OwnCapture, Becomes, Identifiers, Resolved
<1>8. CollectedIsWhole' /\ OfItsDate' /\ OnePerDate'
  BY <1>1, <1>2, <1>3 DEF IInv, CollectedIsWhole, OfItsDate, OnePerDate, Becomes, Resolved
<1> QED
  BY <1>4, <1>6, <1>7, <1>8 DEF IInv

LEMMA DownloadStep ==
    ASSUME IInv, NEW r \in Runs, NEW s \in Streams, Download(r, s)
    PROVE  IInv'
<1> DEFINE rec == [run[r] EXCEPT !.assets = @ \cup {s}]
<1>1. /\ run[r].at = "downloading" /\ run[r].capture \in Captures
      /\ landed' = [landed EXCEPT ![run[r].capture] = @ \cup {s}]
      /\ UNCHANGED <<made, receipt, damaged, row, faults>>
  BY DEF Download, IInv, OwnCapture
<1>2. run[r] \in Records
  BY RunTyped DEF IInv
<1>3. Becomes(r, rec)
  <2>1. run' = [run EXCEPT ![r] = rec]
    BY DEF Download
  <2>2. run[r].assets \cup {s} \in SUBSET Streams
    BY <1>2 DEF Records
  <2>3. rec \in Records
    BY <1>2, <2>2, Updates DEF Records
  <2> HIDE DEF rec
  <2> QED
    BY <2>1, <2>3, RunChanges DEF IInv
<1>4. rec.at = "downloading" /\ rec.capture = run[r].capture /\ rec.date = run[r].date
  BY <1>1, <1>2 DEF Records
<1> HIDE DEF rec
<1>5. TypeOK'
  <2>1. landed' \in [Captures -> SUBSET Streams]
    BY <1>1 DEF IInv, TypeOK
  <2> QED
    BY <1>1, <1>3, <2>1 DEF IInv, TypeOK, Becomes, Records, States
<1>6. RegisteredCapturesHaveReceipts' /\ ReceiptsAreWhole'
  BY <1>1 DEF IInv, RegisteredCapturesHaveReceipts, ReceiptsAreWhole
<1>7. OwnCapture'
  BY <1>1, <1>3, <1>4 DEF IInv, OwnCapture, Becomes, Resolved
<1>8. CollectedIsWhole' /\ OfItsDate' /\ OnePerDate'
  BY <1>3, <1>4, <1>1 DEF IInv, CollectedIsWhole, OfItsDate, OnePerDate, Becomes, Resolved
<1> QED
  BY <1>5, <1>6, <1>7, <1>8 DEF IInv

LEMMA WriteReceiptStep ==
    ASSUME IInv, NEW r \in Runs, WriteReceipt(r)
    PROVE  IInv'
<1> DEFINE rec == [run[r] EXCEPT !.at = "collected"]
<1>1. /\ run[r].at = "downloading" /\ run[r].capture \in Captures /\ run[r].date = None
      /\ run[r].assets = Streams
      /\ receipt' = [receipt EXCEPT ![run[r].capture] = Streams]
      /\ UNCHANGED <<made, landed, damaged, row, faults>>
  BY DEF WriteReceipt, IInv, OwnCapture
<1>2. run[r] \in Records
  BY RunTyped DEF IInv
<1>3. Becomes(r, rec)
  <2>1. run' = [run EXCEPT ![r] = rec]
    BY DEF WriteReceipt
  <2>2. rec \in Records
    BY <1>2 DEF Records, States
  <2> HIDE DEF rec
  <2> QED
    BY <2>1, <2>2, RunChanges DEF IInv
<1>4. /\ rec.at = "collected" /\ rec.capture = run[r].capture /\ rec.date = run[r].date
      /\ rec.assets = Streams
  BY <1>1, <1>2 DEF Records
<1> HIDE DEF rec
<1>5. TypeOK'
  <2>1. receipt' \in [Captures -> (SUBSET Streams) \cup {None}]
    BY <1>1 DEF IInv, TypeOK
  <2> QED
    BY <1>1, <1>3, <2>1 DEF IInv, TypeOK, Becomes, Records, States
<1>6. Streams # None
  BY IdentifierAssumption
<1>7. RegisteredCapturesHaveReceipts' /\ ReceiptsAreWhole'
  BY <1>1, <1>6 DEF IInv, TypeOK, RegisteredCapturesHaveReceipts, ReceiptsAreWhole
<1>8. OwnCapture'
  BY <1>1, <1>3, <1>4, <1>6 DEF IInv, TypeOK, OwnCapture, Becomes, Resolved
<1>9. CollectedIsWhole' /\ OfItsDate' /\ OnePerDate'
  BY <1>3, <1>4, <1>1 DEF IInv, CollectedIsWhole, OfItsDate, OnePerDate, Becomes, Resolved
<1> QED
  BY <1>5, <1>7, <1>8, <1>9 DEF IInv

(* A run whose record leaves it where nothing is said of it.               *)
LEMMA GiveUpStep ==
    ASSUME IInv, NEW r \in Runs, NEW rec \in Records, run' = [run EXCEPT ![r] = rec],
           rec.at \in {"failed", "conflict"},
           UNCHANGED <<made, landed, receipt, row>>,
           damaged' \in SUBSET (Captures \X Streams), faults' \in 0..MaxFaults
    PROVE  IInv'
<1>1. Becomes(r, rec)
  BY RunChanges DEF IInv
<1>2. TypeOK'
  BY <1>1 DEF IInv, TypeOK, Becomes, Records, States
<1>3. RegisteredCapturesHaveReceipts' /\ ReceiptsAreWhole'
  BY DEF IInv, RegisteredCapturesHaveReceipts, ReceiptsAreWhole
<1>4. OwnCapture'
  BY <1>1 DEF IInv, OwnCapture, Becomes, Resolved
<1>5. CollectedIsWhole' /\ OfItsDate' /\ OnePerDate'
  BY <1>1 DEF IInv, CollectedIsWhole, OfItsDate, OnePerDate, Becomes, Resolved
<1> QED
  BY <1>2, <1>3, <1>4, <1>5 DEF IInv

(* The capture of a date is resolved only when it is the only one, so      *)
(* whoever resolves the date again finds the same.                         *)
LEMMA ResolveStep ==
    ASSUME IInv, NEW r \in Runs, NEW d \in Dates, NEW name \in Captures \cup {None},
           Resolve(r, d, name)
    PROVE  IInv'
<1> DEFINE asked == [Idle EXCEPT !.date = d, !.named = (name # None)]
           w == WorkspaceOf[r]
<1>1. UNCHANGED <<made, landed, receipt, damaged, row, faults>>
  BY DEF Resolve
<1>2. /\ asked \in Records /\ asked.date = d /\ (asked.named <=> name # None)
      /\ asked.at = "idle"
  BY DEF Idle, Records, States
<1>3. CASE run' = [run EXCEPT ![r] = [asked EXCEPT !.at = "failed"]]
  <2> DEFINE rec == [asked EXCEPT !.at = "failed"]
  <2> HIDE DEF asked
  <2>1. rec \in Records /\ rec.at = "failed"
    BY <1>2 DEF Records, States
  <2>2. run' = [run EXCEPT ![r] = rec]
    BY <1>3
  <2> HIDE DEF rec
  <2> QED
    BY <1>1, <2>1, <2>2, GiveUpStep DEF IInv, TypeOK
<1>4. CASE \E i \in Resolvable(w, d, name) :
              run' = [run EXCEPT ![r] = [asked EXCEPT !.at = "resolved", !.capture = i]]
  <2>1. PICK i \in Resolvable(w, d, name) :
            run' = [run EXCEPT ![r] = [asked EXCEPT !.at = "resolved", !.capture = i]]
    BY <1>4
  <2> DEFINE rec == [asked EXCEPT !.at = "resolved", !.capture = i]
  <2>2. i \in Identifiers
    BY <2>1 DEF Resolvable, CapturesOn, Identifiers
  <2>3. i \in Captures => receipt[i] # None /\ made[i] = w /\ DateOf[i] = d
    BY <2>1, IdentifierAssumption DEF Resolvable, CapturesOn
  <2>4. i \in Captures /\ name = None => CapturesOn(w, d) = {i}
    BY <2>1, IdentifierAssumption DEF Resolvable, CapturesOn
  <2> HIDE DEF asked
  <2>5. /\ rec \in Records /\ rec.at = "resolved" /\ rec.capture = i /\ rec.date = d
        /\ (rec.named <=> name # None)
    BY <1>2, <2>2 DEF Records, States
  <2>6. run' = [run EXCEPT ![r] = rec]
    BY <2>1
  <2> HIDE DEF rec
  <2>7. Becomes(r, rec)
    BY <2>5, <2>6, RunChanges DEF IInv
  <2>8. TypeOK'
    BY <1>1, <2>7 DEF IInv, TypeOK, Becomes, Records, States
  <2>9. RegisteredCapturesHaveReceipts' /\ ReceiptsAreWhole'
    BY <1>1 DEF IInv, RegisteredCapturesHaveReceipts, ReceiptsAreWhole
  <2>10. OwnCapture' /\ CollectedIsWhole' /\ OfItsDate'
    BY <1>1, <2>2, <2>3, <2>5, <2>7
       DEF IInv, OwnCapture, CollectedIsWhole, OfItsDate, Becomes, Resolved
  <2>11. \A q \in Runs : run[q].at \in Resolved /\ run[q].date = d /\ WorkspaceOf[q] = w
                          /\ run[q].date # None /\ run[q].capture \in Captures
                          => run[q].capture \in CapturesOn(w, d)
    BY DEF IInv, OwnCapture, OfItsDate, CapturesOn, Resolved
  <2>12. OnePerDate'
    BY <2>4, <2>5, <2>7, <2>11 DEF IInv, OnePerDate, Becomes, Resolved
  <2> QED
    BY <2>8, <2>9, <2>10, <2>12 DEF IInv
<1> QED
  BY <1>3, <1>4 DEF Resolve

LEMMA CollectStep ==
    ASSUME IInv, NEW r \in Runs, Collect(r)
    PROVE  IInv'
<1> DEFINE c == run[r].capture
           whole == IF c \in Captures THEN receipt[c] ELSE LegacyFiles[WorkspaceOf[r]][run[r].date]
           rec == [run[r] EXCEPT !.at = "collected", !.assets = whole]
           none == [run[r] EXCEPT !.at = "failed"]
<1>1. run[r].at = "resolved" /\ UNCHANGED <<made, landed, receipt, damaged, row, faults>>
  BY DEF Collect
<1>2. run[r] \in Records
  BY RunTyped DEF IInv
<1>3. CASE run' = [run EXCEPT ![r] = none]
  <2>1. none \in Records /\ none.at = "failed"
    BY <1>2 DEF Records, States
  <2> HIDE DEF none
  <2> QED
    BY <1>1, <1>3, <2>1, GiveUpStep DEF IInv, TypeOK
<1>4. CASE run' = [run EXCEPT ![r] = rec] /\ whole \in SUBSET Streams
  <2>1. /\ rec \in Records /\ rec.at = "collected" /\ rec.capture = run[r].capture
        /\ rec.date = run[r].date /\ rec.named = run[r].named /\ rec.assets = whole
    BY <1>2, <1>4 DEF Records, States
  <2>2. c \in Captures => whole = Streams
    BY <1>1 DEF IInv, OwnCapture, ReceiptsAreWhole, Resolved
  <2> HIDE DEF rec, whole
  <2>3. Becomes(r, rec)
    BY <1>4, <2>1, RunChanges DEF IInv
  <2>4. TypeOK'
    BY <1>1, <2>3 DEF IInv, TypeOK, Becomes, Records, States
  <2>5. RegisteredCapturesHaveReceipts' /\ ReceiptsAreWhole'
    BY <1>1 DEF IInv, RegisteredCapturesHaveReceipts, ReceiptsAreWhole
  <2>6. OwnCapture' /\ CollectedIsWhole' /\ OfItsDate' /\ OnePerDate'
    BY <1>1, <2>1, <2>2, <2>3
       DEF IInv, OwnCapture, CollectedIsWhole, OfItsDate, OnePerDate, Becomes, Resolved
  <2> QED
    BY <2>4, <2>5, <2>6 DEF IInv
<1>5. c \in Captures => whole \in SUBSET Streams
  BY <1>1 DEF IInv, OwnCapture, ReceiptsAreWhole, Resolved
<1>6. c \notin Captures => whole \in SUBSET Streams
  <2>1. WorkspaceOf[r] \in Workspaces /\ run[r].date \in Dates
    BY <1>1, OfRun DEF IInv, OwnCapture
  <2>2. LegacyFiles[WorkspaceOf[r]][run[r].date] \in SUBSET Streams
    BY <2>1, LegacyAssumption
  <2> QED
    BY <2>2
<1>7. run' = [run EXCEPT ![r] = none] \/ run' = [run EXCEPT ![r] = rec]
  BY DEF Collect
<1> QED
  BY <1>3, <1>4, <1>5, <1>6, <1>7

(* A row is inserted only for a capture whose receipt exists.              *)
LEMMA RegisterStep ==
    ASSUME IInv, NEW r \in Runs, Register(r)
    PROVE  IInv'
<1> DEFINE i == run[r].capture
           w == WorkspaceOf[r]
           rec == [run[r] EXCEPT !.at = "acquired"]
           lost == [run[r] EXCEPT !.at = "conflict"]
<1>1. run[r].at = "collected" /\ UNCHANGED <<made, landed, receipt, damaged, faults>>
  BY DEF Register
<1>2. run[r] \in Records
  BY RunTyped DEF IInv
<1>3. CASE run' = [run EXCEPT ![r] = lost] /\ UNCHANGED row
  <2>1. lost \in Records /\ lost.at = "conflict"
    BY <1>2 DEF Records, States
  <2> HIDE DEF lost
  <2> QED
    BY <1>1, <1>3, <2>1, GiveUpStep DEF IInv, TypeOK
<1>4. CASE run' = [run EXCEPT ![r] = rec] /\ row' = [row EXCEPT ![i] = w]
  <2>1. /\ rec \in Records /\ rec.at = "acquired" /\ rec.capture = run[r].capture
        /\ rec.date = run[r].date /\ rec.named = run[r].named /\ rec.assets = run[r].assets
    BY <1>2 DEF Records, States
  <2> HIDE DEF rec
  <2>2. Becomes(r, rec)
    BY <1>4, <2>1, RunChanges DEF IInv
  <2>3. i \in Identifiers /\ w \in Workspaces
        /\ (i \in Captures => made[i] = w /\ receipt[i] # None)
    BY <1>1, OfRun DEF IInv, OwnCapture, Resolved
  <2>4. row' \in [Identifiers -> Workspaces \cup {None}]
    BY <1>4, <2>3 DEF IInv, TypeOK
  <2>5. TypeOK'
    BY <1>1, <2>2, <2>4 DEF IInv, TypeOK, Becomes, Records, States
  <2>6. RegisteredCapturesHaveReceipts' /\ ReceiptsAreWhole'
    BY <1>1, <1>4, <2>3
       DEF IInv, TypeOK, RegisteredCapturesHaveReceipts, ReceiptsAreWhole, Identifiers
  <2>7. OwnCapture' /\ CollectedIsWhole' /\ OfItsDate' /\ OnePerDate'
    BY <1>1, <2>1, <2>2
       DEF IInv, OwnCapture, CollectedIsWhole, OfItsDate, OnePerDate, Becomes, Resolved
  <2> QED
    BY <2>5, <2>6, <2>7 DEF IInv
<1> QED
  BY <1>3, <1>4 DEF Register

LEMMA FailStep ==
    ASSUME IInv, NEW r \in Runs, Fail(r)
    PROVE  IInv'
<1> DEFINE rec == [run[r] EXCEPT !.at = "failed"]
<1>1. run[r] \in Records
  BY RunTyped DEF IInv
<1>2. rec \in Records /\ rec.at = "failed" /\ run' = [run EXCEPT ![r] = rec]
  BY <1>1 DEF Records, States, Fail
<1>3. faults' \in 0..MaxFaults /\ UNCHANGED <<made, landed, receipt, damaged, row>>
  BY BoundsAssumption DEF Fail, IInv, TypeOK
<1> HIDE DEF rec
<1> QED
  BY <1>2, <1>3, GiveUpStep DEF IInv, TypeOK

(* Nothing of the invariant is about the bytes that are there.             *)
LEMMA DamageStep ==
    ASSUME IInv, NEW c \in Captures, NEW s \in Streams, Damage(c, s)
    PROVE  IInv'
<1>1. UNCHANGED <<made, landed, receipt, row, run>>
  BY DEF Damage
<1>2. faults' \in 0..MaxFaults /\ damaged' \in SUBSET (Captures \X Streams)
  BY BoundsAssumption DEF Damage, IInv, TypeOK
<1>3. TypeOK'
  BY <1>1, <1>2 DEF IInv, TypeOK
<1> QED
  BY <1>1, <1>3 DEF IInv, ReceiptsAreWhole, OwnCapture, CollectedIsWhole, OfItsDate, OnePerDate,
                    RegisteredCapturesHaveReceipts

LEMMA Stuttering == IInv /\ UNCHANGED vars => IInv'
BY DEF vars, IInv, TypeOK, ReceiptsAreWhole, OwnCapture, CollectedIsWhole, OfItsDate, OnePerDate,
       RegisteredCapturesHaveReceipts

LEMMA Induction == IInv /\ [Next]_vars => IInv'
BY BeginCaptureStep, DownloadStep, WriteReceiptStep, ResolveStep, CollectStep, RegisterStep,
   FailStep, DamageStep, Stuttering DEF Next, Advance

LEMMA Invariance == Spec => []IInv
<1> QED
  BY Initially, Induction, PTL DEF Spec

-----------------------------------------------------------------------------
(* Every capture a run acquired is whole and every registered capture has  *)
(* its receipt: what source_capture.py and http_files.py promise their     *)
(* callers, for any number of runs, crashes and damaged files.             *)
THEOREM CapturesAreWholeCorrect == Spec => []CapturesAreWhole
<1>1. IInv => CapturesAreWhole
  BY DEF IInv, CapturesAreWhole, AcquisitionIsWhole, Acquired, CollectedIsWhole
<1> QED
  BY Invariance, <1>1, PTL

(* Backfills of one date that name no capture acquire the same one         *)
(* (source_capture.py, resolve_capture).                                   *)
THEOREM DateNamesOneCaptureCorrect == Spec => []DateNamesOneCapture
<1>1. IInv => DateNamesOneCapture
  BY DEF IInv, DateNamesOneCapture, Acquired, OnePerDate, Resolved
<1> QED
  BY Invariance, <1>1, PTL

-----------------------------------------------------------------------------
(* Rules.  An accepted item is one rule with a known severity.             *)
RuleNames == Flags \cup NumericRules \cup ListRules \cup {"pattern"}

LEMMA ParsedRule ==
    ASSUME NEW item, Accepts(item)
    PROVE  /\ ParseRule(item).rule \in RuleNames
           /\ ParseRule(item).severity \in Severities
           /\ ParseRule(item).value = item.value
<1>1. PICK rule \in item.rules :
          /\ item.rules = {rule}
          /\ IF item.bare THEN rule \in Flags
             ELSE item.severity \in Severities /\ Takes(rule, item.value)
  BY DEF Accepts
<1>2. ParseRule(item).rule = rule
  BY <1>1 DEF ParseRule
<1>3. rule \in RuleNames
  BY <1>1 DEF Takes, RuleNames, NumericRules
<1>4. ParseRule(item).severity \in Severities
  BY <1>1 DEF ParseRule, Severities
<1> QED
  BY <1>2, <1>3, <1>4 DEF ParseRule

LEMMA BoundIsNumber == ASSUME NEW b \in Nat \cup {CurrentYear} PROVE Bound(b) \in Nat
BY ValuesAssumption DEF Bound

Cells == Values \cup {Null}

(* A value breaks a rule exactly when the rule does not permit it.         *)
LEMMA BreakingIsNotPermitted ==
    ASSUME NEW rows, NEW places, NEW column, NEW rule \in RuleNames \ {"unique"}, NEW value,
           {value.low, value.high} \subseteq Nat \cup {CurrentYear}, value.set \subseteq Nat,
           \A i \in places : rows[i][column] \in Cells
    PROVE  Breaking(rows, places, column, rule, value)
               = {i \in places : rows[i][column] \notin Permitted(rule, value)}
<1> USE DEF Cells
<1>1. CASE rule = "not_null"
  <2>1. Breaking(rows, places, column, rule, value) = {i \in places : rows[i][column] = Null}
    BY <1>1 DEF Breaking
  <2>2. Permitted(rule, value) = Values
    BY <1>1 DEF Permitted
  <2> QED
    BY <2>1, <2>2, ValuesAssumption, MarksAssumption
<1>2. CASE rule = "is_null"
  <2>1. Breaking(rows, places, column, rule, value) = {i \in places : rows[i][column] # Null}
    BY <1>2 DEF Breaking
  <2>2. Permitted(rule, value) = {Null}
    BY <1>2 DEF Permitted
  <2> QED
    BY <2>1, <2>2
<1>3. CASE rule = "min"
  <2>1. Breaking(rows, places, column, rule, value)
            = {i \in places : rows[i][column] # Null /\ rows[i][column] < Bound(value.low)}
    BY <1>3 DEF Breaking
  <2>2. Permitted(rule, value) = {Null} \cup {v \in Values : v >= Bound(value.low)}
    BY <1>3 DEF Permitted
  <2>3. \A v \in Values : v \in Nat /\ v # Null
    BY ValuesAssumption, MarksAssumption
  <2>4. Bound(value.low) \in Nat
    BY BoundIsNumber
  <2>5. \A v \in Values : v < Bound(value.low) <=> ~(v >= Bound(value.low))
    BY <2>3, <2>4
  <2> QED
    BY <2>1, <2>2, <2>3, <2>5
<1>4. CASE rule = "max"
  <2>1. Breaking(rows, places, column, rule, value)
            = {i \in places : rows[i][column] # Null /\ rows[i][column] > Bound(value.low)}
    BY <1>4 DEF Breaking
  <2>2. Permitted(rule, value) = {Null} \cup {v \in Values : v <= Bound(value.low)}
    BY <1>4 DEF Permitted
  <2>3. \A v \in Values : v \in Nat /\ v # Null
    BY ValuesAssumption, MarksAssumption
  <2>4. Bound(value.low) \in Nat
    BY BoundIsNumber
  <2>5. \A v \in Values : v > Bound(value.low) <=> ~(v <= Bound(value.low))
    BY <2>3, <2>4
  <2> QED
    BY <2>1, <2>2, <2>3, <2>5
<1>5. CASE rule = "between"
  <2>1. Breaking(rows, places, column, rule, value)
            = {i \in places : /\ rows[i][column] # Null
                              /\ \/ rows[i][column] < Bound(value.low)
                                 \/ rows[i][column] > Bound(value.high)}
    BY <1>5 DEF Breaking
  <2>2. Permitted(rule, value) = {Null} \cup (Values \cap (Bound(value.low) .. Bound(value.high)))
    BY <1>5 DEF Permitted
  <2>3. \A v \in Values : v \in Nat /\ v # Null
    BY ValuesAssumption, MarksAssumption
  <2>4. Bound(value.low) \in Nat /\ Bound(value.high) \in Nat
    BY BoundIsNumber
  <2>5. \A v \in Values : v < Bound(value.low) \/ v > Bound(value.high)
                              <=> v \notin Bound(value.low) .. Bound(value.high)
    BY <2>3, <2>4
  <2> QED
    BY <2>1, <2>2, <2>3, <2>5
<1>6. CASE rule \in {"allowed", "pattern"}
  <2>1. Breaking(rows, places, column, rule, value)
            = {i \in places : rows[i][column] # Null /\ rows[i][column] \notin value.set}
    BY <1>6 DEF Breaking
  <2>2. Permitted(rule, value) = {Null} \cup (Values \cap value.set)
    BY <1>6 DEF Permitted
  <2> QED
    BY <2>1, <2>2
<1>7. CASE rule = "forbidden"
  <2>1. Breaking(rows, places, column, rule, value) = {i \in places : rows[i][column] \in value.set}
    BY <1>7 DEF Breaking
  <2>2. Permitted(rule, value) = {Null} \cup (Values \ value.set)
    BY <1>7 DEF Permitted
  <2> QED
    BY <2>1, <2>2, MarksAssumption
<1> QED
  BY <1>1, <1>2, <1>3, <1>4, <1>5, <1>6, <1>7 DEF RuleNames, Flags, NumericRules, ListRules

(* A finite family has as many values as members when none repeats.        *)
LEMMA Unrepeating ==
    ASSUME NEW S, NEW f, IsFiniteSet(S)
    PROVE  Cardinality({f[i] : i \in S}) = Cardinality(S)
               <=> \A i, j \in S : i # j => f[i] # f[j]
<1> DEFINE T == {f[i] : i \in S}
           g == [i \in S |-> f[i]]
<1>1. g \in Surjection(S, T)
  BY DEF Surjection
<1>2. IsFiniteSet(T) /\ Cardinality(T) <= Cardinality(S)
  BY <1>1, FS_Surjection
<1>3. ASSUME Cardinality(T) = Cardinality(S)
      PROVE  \A i, j \in S : i # j => f[i] # f[j]
  <2>1. g \in Injection(S, T)
    BY <1>1, <1>2, <1>3, FS_SurjSameCardinalityImpliesInj
  <2> QED
    BY <2>1 DEF Injection, IsInjective
<1>4. ASSUME \A i, j \in S : i # j => f[i] # f[j]
      PROVE  Cardinality(T) = Cardinality(S)
  <2>1. g \in Bijection(S, T)
    BY <1>1, <1>4 DEF Bijection, Injection, IsInjective
  <2> QED
    BY <2>1, FS_Bijection DEF ExistsBijection
<1> QED
  BY <1>3, <1>4

(* An accepted rule on a published column, numeric where the rule is: its  *)
(* check never raises, and fails exactly when the table does not keep it.  *)
Fits(entry) ==
    /\ entry \in Rules /\ Accepts(entry.item) /\ entry.column \in Published
    /\ ParseRule(entry.item).rule \in NumericRules => entry.column \in Numeric

LEMMA CheckOfRule ==
    ASSUME NEW rows \in Seq([Published -> Cells]), NEW entry, Fits(entry)
    PROVE  /\ ColumnCheck(rows, entry).status \in {"passed", "failed", "skipped"}
           /\ ColumnCheck(rows, entry).severity = ParseRule(entry.item).severity
           /\ ColumnCheck(rows, entry).status = "failed" <=> ~Keeps(rows, entry)
<1> DEFINE parsed == ParseRule(entry.item)
           places == MatchingRows(rows, entry)
           bad == Breaking(rows, places, entry.column, parsed.rule, parsed.value)
           status == RuleStatus(rows, places, entry.column, parsed.rule, parsed.value)
           values == {rows[i][entry.column] : i \in places}
<1>1. /\ ColumnCheck(rows, entry).status = status
      /\ ColumnCheck(rows, entry).severity = parsed.severity
  BY DEF ColumnCheck
<1>2. parsed.rule \in RuleNames /\ parsed.value = entry.item.value
  BY ParsedRule DEF Fits
<1>3. ~Raises(rows, places, entry.column, parsed.rule)
  BY DEF Raises, Fits
<1>4. status = IF places = {} /\ parsed.rule # "unique" THEN "skipped"
               ELSE IF bad = {} THEN "passed" ELSE "failed"
  BY <1>3 DEF RuleStatus
<1>5. IsFiniteSet(places)
  <2>1. places \subseteq 1 .. Len(rows) /\ Len(rows) \in Nat
    BY DEF MatchingRows
  <2>2. IsFiniteSet(1 .. Len(rows))
    BY <2>1, FS_Interval
  <2> QED
    BY <2>1, <2>2, FS_Subset
<1>6. \A i \in places : rows[i][entry.column] \in Cells
  BY ElementOfSeq DEF MatchingRows, Fits
<1>7. CASE parsed.rule = "unique"
  <2>1. bad = {i \in places : \E j \in places \ {i} : rows[j][entry.column] = rows[i][entry.column]}
    BY <1>7 DEF Breaking
  <2> DEFINE f == [i \in places |-> rows[i][entry.column]]
  <2>2. Cardinality({f[i] : i \in places}) = Cardinality(places)
            <=> \A i, j \in places : i # j => f[i] # f[j]
    BY <1>5, Unrepeating
  <2>3. {f[i] : i \in places} = values
    OBVIOUS
  <2>4. Keeps(rows, entry) <=> Cardinality(values) = Cardinality(places)
    BY <1>7 DEF Keeps
  <2>5. bad = {} <=> \A i, j \in places : i # j => f[i] # f[j]
    BY <2>1
  <2>6. status = IF bad = {} THEN "passed" ELSE "failed"
    BY <1>4, <1>7
  <2> QED
    BY <1>1, <2>2, <2>3, <2>4, <2>5, <2>6
<1>8. CASE parsed.rule # "unique"
  <2>1. /\ {parsed.value.low, parsed.value.high} \subseteq Nat \cup {CurrentYear}
        /\ parsed.value.set \subseteq Nat
    BY <1>2, RulesAssumption DEF Fits
  <2>2. bad = {i \in places : rows[i][entry.column] \notin Permitted(parsed.rule, parsed.value)}
    BY <1>2, <1>6, <1>8, <2>1, BreakingIsNotPermitted
  <2>3. Keeps(rows, entry) <=> values \subseteq Permitted(parsed.rule, parsed.value)
    BY <1>2, <1>8 DEF Keeps
  <2>4. bad = {} <=> values \subseteq Permitted(parsed.rule, parsed.value)
    BY <2>2
  <2>5. places = {} => bad = {}
    BY <2>2
  <2> QED
    BY <1>1, <1>4, <1>8, <2>3, <2>4, <2>5
<1>9. status \in {"passed", "failed", "skipped"}
  BY <1>4
<1> QED
  BY <1>1, <1>7, <1>8, <1>9

(* What the workspace validation accepts fits the contract.                *)
Accepted(config) == config \in Configs /\ Loads(config) /\ Valid(config)

LEMMA AcceptedEntries ==
    ASSUME NEW config, Accepted(config)
    PROVE  /\ Entries(config) \in Seq(Rules) /\ config.unique \subseteq Published
           /\ \A i \in DOMAIN Entries(config) : Fits(Entries(config)[i])
<1>1. Entries(config) \in Seq(Rules)
  BY ConfigsAssumption, ConcatProperties DEF Accepted, Entries
<1>2. config.unique \subseteq Published
  BY DEF Accepted, Valid, Named
<1>3. ASSUME NEW i \in DOMAIN Entries(config)  PROVE Fits(Entries(config)[i])
  <2>1. Entries(config)[i] \in Rules
    BY <1>1, <1>3, ElementOfSeq
  <2>2. Accepts(Entries(config)[i].item)
    BY <1>3 DEF Accepted, Loads
  <2>3. Entries(config)[i].column \in Named(config)
    BY <1>3 DEF Named
  <2> QED
    BY <1>3, <2>1, <2>2, <2>3 DEF Accepted, Valid, Fits
<1> QED
  BY <1>1, <1>2, <1>3

-----------------------------------------------------------------------------
(* Checks.  A list of checks with known severities and statuses.           *)
Bad(check) == check.status \in {"failed", "error"} /\ check.severity = "blocking"
Known(check) == check.severity \in Severities /\ check.status \in Statuses
ChecksKnown(checks) == checks \in Seq(Range(checks)) /\ \A check \in Range(checks) : Known(check)

LEMMA BlockedByOne == \A checks : Blocked(checks) <=> \E check \in Range(checks) : Bad(check)
BY DEF Blocked, Bad, Range

LEMMA ConcatRange ==
    ASSUME NEW s, NEW t, ChecksKnown(s), ChecksKnown(t)
    PROVE  Range(s \o t) = Range(s) \cup Range(t)
<1> DEFINE S == Range(s) \cup Range(t)
<1>1. s \in Seq(S) /\ t \in Seq(S)
  BY SeqMonotonic DEF ChecksKnown
<1> QED
  BY <1>1, RangeConcatenation

LEMMA ConcatKnown ==
    ASSUME NEW s, NEW t, ChecksKnown(s), ChecksKnown(t)
    PROVE  ChecksKnown(s \o t)
<1> DEFINE S == Range(s) \cup Range(t)
<1>1. s \in Seq(S) /\ t \in Seq(S)
  BY SeqMonotonic DEF ChecksKnown
<1>2. s \o t \in Seq(S)
  BY <1>1, ConcatProperties
<1> QED
  BY <1>2, ConcatRange DEF ChecksKnown

LEMMA ConcatNotEmpty ==
    ASSUME NEW s, NEW t, ChecksKnown(s), ChecksKnown(t), s # <<>>
    PROVE  s \o t # <<>>
<1> DEFINE S == Range(s) \cup Range(t)
<1>1. s \in Seq(S) /\ t \in Seq(S)
  BY SeqMonotonic DEF ChecksKnown
<1>2. Len(s \o t) = Len(s) + Len(t) /\ Len(s) \in Nat \ {0} /\ Len(t) \in Nat
  BY <1>1, ConcatProperties
<1> QED
  BY <1>2

LEMMA ConcatBlocked ==
    ASSUME NEW s, NEW t, ChecksKnown(s), ChecksKnown(t)
    PROVE  Blocked(s \o t) <=> Blocked(s) \/ Blocked(t)
BY ConcatRange, BlockedByOne

LEMMA NoChecks == ChecksKnown(<<>>) /\ Range(<<>>) = {} /\ ~Blocked(<<>>)
<1>1. Range(<<>>) = {}
  BY DEF Range
<1>2. <<>> \in Seq(Range(<<>>))
  OBVIOUS
<1> QED
  BY <1>1, <1>2, BlockedByOne DEF ChecksKnown

LEMMA OneCheck ==
    ASSUME NEW a, Known(a)
    PROVE  ChecksKnown(<<a>>) /\ Range(<<a>>) = {a} /\ (Blocked(<<a>>) <=> Bad(a))
<1>1. Range(<<a>>) = {a}
  BY DEF Range
<1>2. <<a>> \in Seq({a})
  OBVIOUS
<1> QED
  BY <1>1, <1>2, BlockedByOne DEF ChecksKnown

LEMMA TwoChecks ==
    ASSUME NEW a, NEW b, Known(a), Known(b)
    PROVE  /\ ChecksKnown(<<a, b>>)
           /\ Range(<<a, b>>) = {a, b}
           /\ Blocked(<<a, b>>) <=> Bad(a) \/ Bad(b)
<1>1. Range(<<a, b>>) = {a, b}
  BY DEF Range
<1>2. <<a, b>> \in Seq({a, b})
  OBVIOUS
<1> QED
  BY <1>1, <1>2, BlockedByOne DEF ChecksKnown

LEMMA ThreeChecks ==
    ASSUME NEW a, NEW b, NEW c, Known(a), Known(b), Known(c)
    PROVE  /\ ChecksKnown(<<a, b, c>>)
           /\ Range(<<a, b, c>>) = {a, b, c}
           /\ Blocked(<<a, b, c>>) <=> Bad(a) \/ Bad(b) \/ Bad(c)
<1>1. Range(<<a, b, c>>) = {a, b, c}
  BY DEF Range
<1>2. <<a, b, c>> \in Seq({a, b, c})
  OBVIOUS
<1> QED
  BY <1>1, <1>2, BlockedByOne DEF ChecksKnown

LEMMA VerdictFacts ==
    \A b \in BOOLEAN : Verdict(b) \in {"passed", "failed"} /\ (Verdict(b) = "failed" <=> ~b)
BY DEF Verdict

(* A built-in check blocks.                                                *)
LEMMA BuiltInFacts ==
    ASSUME NEW name, NEW status \in Statuses
    PROVE  /\ Known(BuiltIn(name, status))
           /\ Bad(BuiltIn(name, status)) <=> status \in {"failed", "error"}
           /\ BuiltIn(name, status).status = status
BY DEF BuiltIn, Known, Bad, Severities

(* The gate of a landed file.                                              *)
FileNames == {"file_not_empty", "sha256_recorded", "payload_fingerprint_recorded",
              "zip_crc_valid", "xlsx_package_integrity", "xlsx_has_data_rows"}

LEMMA FileStatusKnown ==
    ASSUME NEW file \in Files, NEW name \in FileNames
    PROVE  FileStatus(name, file) \in {"passed", "failed", "error"}
<1>1. Verdict(file.size > 0) \in {"passed", "failed"} /\ Verdict(file.digest) \in {"passed", "failed"}
  BY DEF Verdict
<1>2. Verdict(file.members > 0) \in {"passed", "failed"} /\ Verdict(file.sound) \in {"passed", "failed"}
  BY DEF Verdict
<1>3. CASE name = "file_not_empty"
  BY <1>1, <1>3 DEF FileStatus
<1>4. CASE name = "sha256_recorded"
  BY <1>1, <1>4 DEF FileStatus
<1>5. CASE name = "payload_fingerprint_recorded"
  BY <1>2, <1>5 DEF FileStatus
<1>6. CASE name \in {"zip_crc_valid", "xlsx_package_integrity"}
  BY <1>2, <1>6 DEF FileStatus
<1>7. CASE name = "xlsx_has_data_rows"
  BY <1>2, <1>7 DEF FileStatus
<1> QED
  BY <1>3, <1>4, <1>5, <1>6, <1>7 DEF FileNames

FileCheck(name, file) == BuiltIn(name, FileStatus(name, file))

LEMMA FileCheckFacts ==
    ASSUME NEW file \in Files, NEW name \in FileNames
    PROVE  /\ Known(FileCheck(name, file))
           /\ ~Bad(FileCheck(name, file)) <=> FileStatus(name, file) = "passed"
<1>1. FileStatus(name, file) \in {"passed", "failed", "error"}
  BY FileStatusKnown
<1> QED
  BY <1>1, BuiltInFacts DEF FileCheck, Statuses

LEMMA LandedList ==
    ASSUME NEW file \in Files
    PROVE  LandedChecks(file)
             = <<FileCheck("file_not_empty", file), FileCheck("sha256_recorded", file)>>
               \o (IF file.suffix = "zip"
                   THEN <<FileCheck("zip_crc_valid", file),
                          FileCheck("payload_fingerprint_recorded", file)>>
                   ELSE IF file.suffix = "xlsx" /\ file.sheet = "none"
                   THEN <<FileCheck("xlsx_package_integrity", file)>>
                   ELSE IF file.suffix = "xlsx"
                   THEN <<FileCheck("xlsx_package_integrity", file),
                          FileCheck("xlsx_has_data_rows", file)>>
                   ELSE <<>>)
<1>1. CASE file.suffix = "zip"
  BY <1>1 DEF LandedChecks, FileCheck
<1>2. CASE file.suffix = "xlsx" /\ file.sheet = "none"
  BY <1>2 DEF LandedChecks, FileCheck
<1>3. CASE file.suffix = "xlsx" /\ file.sheet # "none"
  BY <1>3 DEF LandedChecks, FileCheck
<1>4. CASE file.suffix \notin {"zip", "xlsx"}
  BY <1>4 DEF LandedChecks, FileCheck
<1> QED
  BY <1>1, <1>2, <1>3, <1>4

(* What a landed file is that no blocking check of its gate objects to.    *)
FileIsGood(file) ==
    /\ file.size > 0 /\ file.digest
    /\ file.suffix \in {"zip", "xlsx"} => file.sound
    /\ file.suffix = "zip" \/ (file.suffix = "xlsx" /\ file.sheet # "none") => file.members > 0
    /\ file.suffix = "xlsx" => file.sheet # "missing"

LEMMA LandedFacts ==
    ASSUME NEW file \in Files
    PROVE  /\ ChecksKnown(LandedChecks(file)) /\ LandedChecks(file) # <<>>
           /\ ~Blocked(LandedChecks(file)) => FileIsGood(file)
<1> DEFINE a == FileCheck("file_not_empty", file)
           b == FileCheck("sha256_recorded", file)
           zip == FileCheck("zip_crc_valid", file)
           payload == FileCheck("payload_fingerprint_recorded", file)
           package == FileCheck("xlsx_package_integrity", file)
           sheet == FileCheck("xlsx_has_data_rows", file)
           rest == IF file.suffix = "zip" THEN <<zip, payload>>
                   ELSE IF file.suffix = "xlsx" /\ file.sheet = "none" THEN <<package>>
                   ELSE IF file.suffix = "xlsx" THEN <<package, sheet>>
                   ELSE <<>>
<1>1. LandedChecks(file) = <<a, b>> \o rest
  BY LandedList
<1>2. /\ Known(a) /\ Known(b) /\ Known(zip) /\ Known(payload) /\ Known(package) /\ Known(sheet)
      /\ ~Bad(a) <=> FileStatus("file_not_empty", file) = "passed"
      /\ ~Bad(b) <=> FileStatus("sha256_recorded", file) = "passed"
      /\ ~Bad(zip) <=> FileStatus("zip_crc_valid", file) = "passed"
      /\ ~Bad(payload) <=> FileStatus("payload_fingerprint_recorded", file) = "passed"
      /\ ~Bad(package) <=> FileStatus("xlsx_package_integrity", file) = "passed"
      /\ ~Bad(sheet) <=> FileStatus("xlsx_has_data_rows", file) = "passed"
  BY FileCheckFacts DEF FileNames
<1>3. /\ FileStatus("file_not_empty", file) = Verdict(file.size > 0)
      /\ FileStatus("sha256_recorded", file) = Verdict(file.digest)
      /\ FileStatus("zip_crc_valid", file) = Verdict(file.sound)
      /\ FileStatus("payload_fingerprint_recorded", file) = Verdict(file.members > 0)
      /\ FileStatus("xlsx_package_integrity", file) = Verdict(file.sound)
      /\ FileStatus("xlsx_has_data_rows", file)
            = IF file.sound /\ file.sheet = "found" THEN Verdict(file.members > 0) ELSE "error"
  BY DEF FileStatus
<1>4. /\ ~Bad(a) => file.size > 0
      /\ ~Bad(b) => file.digest
      /\ ~Bad(zip) => file.sound
      /\ ~Bad(payload) => file.members > 0
      /\ ~Bad(package) => file.sound
      /\ ~Bad(sheet) => file.members > 0 /\ file.sheet = "found"
  BY <1>2, <1>3 DEF Verdict
<1>5. ChecksKnown(<<a, b>>) /\ (Blocked(<<a, b>>) <=> Bad(a) \/ Bad(b))
  BY <1>2, TwoChecks
<1>6. ASSUME NEW t, ChecksKnown(t)
       PROVE  /\ ChecksKnown(<<a, b>> \o t) /\ <<a, b>> \o t # <<>>
              /\ Blocked(<<a, b>> \o t) <=> Blocked(<<a, b>>) \/ Blocked(t)
  <2>1. <<a, b>> # <<>>
    OBVIOUS
  <2> HIDE DEF a, b
  <2> QED
    BY <1>5, <1>6, <2>1, ConcatKnown, ConcatBlocked, ConcatNotEmpty
<1>7. CASE file.suffix = "zip"
  <2>1. rest = <<zip, payload>>
    BY <1>7
  <2>2. ChecksKnown(rest) /\ (Blocked(rest) <=> Bad(zip) \/ Bad(payload))
    BY <1>2, <2>1, TwoChecks
  <2>3. /\ ChecksKnown(<<a, b>> \o rest) /\ <<a, b>> \o rest # <<>>
        /\ Blocked(<<a, b>> \o rest) <=> Blocked(<<a, b>>) \/ Blocked(rest)
    BY <2>2, <1>6
  <2> QED
    BY <1>1, <1>4, <1>5, <1>7, <2>2, <2>3 DEF FileIsGood
<1>8. CASE file.suffix = "xlsx" /\ file.sheet = "none"
  <2>1. rest = <<package>>
    BY <1>8
  <2>2. ChecksKnown(rest) /\ (Blocked(rest) <=> Bad(package))
    BY <1>2, <2>1, OneCheck
  <2>3. /\ ChecksKnown(<<a, b>> \o rest) /\ <<a, b>> \o rest # <<>>
        /\ Blocked(<<a, b>> \o rest) <=> Blocked(<<a, b>>) \/ Blocked(rest)
    BY <2>2, <1>6
  <2> QED
    BY <1>1, <1>4, <1>5, <1>8, <2>2, <2>3 DEF FileIsGood
<1>9. CASE file.suffix = "xlsx" /\ file.sheet # "none"
  <2>1. rest = <<package, sheet>>
    BY <1>9
  <2>2. ChecksKnown(rest) /\ (Blocked(rest) <=> Bad(package) \/ Bad(sheet))
    BY <1>2, <2>1, TwoChecks
  <2>3. /\ ChecksKnown(<<a, b>> \o rest) /\ <<a, b>> \o rest # <<>>
        /\ Blocked(<<a, b>> \o rest) <=> Blocked(<<a, b>>) \/ Blocked(rest)
    BY <2>2, <1>6
  <2> QED
    BY <1>1, <1>4, <1>5, <1>9, <2>2, <2>3 DEF FileIsGood
<1>10. CASE file.suffix \notin {"zip", "xlsx"}
  <2>1. rest = <<>>
    BY <1>10
  <2>2. ChecksKnown(rest) /\ ~Blocked(rest)
    BY <2>1, NoChecks
  <2>3. /\ ChecksKnown(<<a, b>> \o rest) /\ <<a, b>> \o rest # <<>>
        /\ Blocked(<<a, b>> \o rest) <=> Blocked(<<a, b>>) \/ Blocked(rest)
    BY <2>2, <1>6
  <2> QED
    BY <1>1, <1>4, <1>5, <1>10, <2>2, <2>3 DEF FileIsGood
<1> QED
  BY <1>7, <1>8, <1>9, <1>10

(* The gate of Bronze output.                                              *)
OutputIsGood(output) ==
    /\ output.required => output.files # <<>> /\ \A i \in DOMAIN output.files : output.files[i] > 0
    /\ output.extraction # "failed"

LEMMA CreatedFacts ==
    ASSUME NEW files \in Seq(Nat), NEW required \in BOOLEAN
    PROVE  /\ Known(FilesCreated(files, required))
           /\ FilesCreated(files, required).status # "error"
           /\ ~Bad(FilesCreated(files, required))
                <=> (required => files # <<>> /\ \A i \in DOMAIN files : files[i] > 0)
<1> DEFINE there == Len(files) > 0 /\ \A i \in DOMAIN files : files[i] > 0
           status == IF ~required THEN "skipped" ELSE Verdict(there)
<1>1. Verdict(there) \in {"passed", "failed"} /\ (Verdict(there) = "failed" <=> ~there)
  BY DEF Verdict
<1>2. FilesCreated(files, required) = BuiltIn("output_files_created", status)
  BY DEF FilesCreated
<1>3. status \in Statuses /\ status # "error"
  BY <1>1 DEF Statuses
<1>4. there <=> files # <<>> /\ \A i \in DOMAIN files : files[i] > 0
  OBVIOUS
<1> HIDE DEF there
<1>5. status \in {"failed", "error"} <=> required /\ ~there
  BY <1>1
<1> HIDE DEF status
<1> QED
  BY <1>2, <1>3, <1>4, <1>5, BuiltInFacts

LEMMA BronzeFacts ==
    ASSUME NEW output \in Outputs
    PROVE  /\ ChecksKnown(BronzeChecks(output))
           /\ ~Blocked(BronzeChecks(output)) => OutputIsGood(output)
<1> DEFINE created == FilesCreated(output.files, output.required)
           extracted == BuiltIn("bronze_extraction_completed", Verdict(output.extraction = "done"))
           rest == IF output.extraction = "none" THEN <<>> ELSE <<extracted>>
<1>1. output.files \in Seq(Nat) /\ output.required \in BOOLEAN
      /\ output.extraction \in {"none", "done", "failed"}
  BY OutputsAssumption
<1>2. ChecksKnown(<<created>>) /\ (Blocked(<<created>>) <=> Bad(created))
  BY <1>1, CreatedFacts, OneCheck
<1>3. ~Bad(created) <=> (output.required => output.files # <<>>
                            /\ \A i \in DOMAIN output.files : output.files[i] > 0)
  BY <1>1, CreatedFacts
<1>4. Known(extracted) /\ (Bad(extracted) <=> output.extraction # "done")
  <2>1. Verdict(output.extraction = "done") \in Statuses
    BY DEF Verdict, Statuses
  <2>2. Verdict(output.extraction = "done") \in {"failed", "error"} <=> output.extraction # "done"
    BY DEF Verdict
  <2> QED
    BY <2>1, <2>2, BuiltInFacts
<1>5. ChecksKnown(rest) /\ (output.extraction = "failed" => Blocked(rest))
  BY <1>4, OneCheck, NoChecks
<1>6. BronzeChecks(output) = <<created>> \o rest
  BY DEF BronzeChecks
<1> HIDE DEF created, rest
<1>7. ChecksKnown(<<created>> \o rest)
  BY <1>2, <1>5, ConcatKnown
<1>8. Blocked(<<created>> \o rest) <=> Blocked(<<created>>) \/ Blocked(rest)
  BY <1>2, <1>5, ConcatBlocked
<1> QED
  BY <1>1, <1>2, <1>3, <1>5, <1>6, <1>7, <1>8 DEF OutputIsGood

(* The gates of a Silver table.                                            *)
LEMMA VerdictCheck ==
    ASSUME NEW name, NEW b \in BOOLEAN
    PROVE  /\ Known(BuiltIn(name, Verdict(b)))
           /\ BuiltIn(name, Verdict(b)).status # "error"
           /\ Bad(BuiltIn(name, Verdict(b))) <=> ~b
<1>1. Verdict(b) \in {"passed", "failed"} /\ (Verdict(b) = "failed" <=> ~b)
  BY VerdictFacts
<1>2. Verdict(b) \in Statuses
  BY <1>1 DEF Statuses
<1> QED
  BY <1>1, <1>2, BuiltInFacts

LEMMA InputFacts == ASSUME NEW input PROVE ChecksKnown(InputChecks(input))
<1>1. Known(BuiltIn("has_rows", Verdict(input.rows # <<>>)))
  BY VerdictCheck
<1>2. Known(ColumnsMatch(input.columns, TRUE))
  <2> DEFINE match == Published \subseteq input.columns /\ (TRUE \/ input.columns \subseteq Published)
  <2>1. match \in BOOLEAN
    OBVIOUS
  <2>2. ColumnsMatch(input.columns, TRUE) = BuiltIn("columns_match", Verdict(match))
    BY DEF ColumnsMatch
  <2> HIDE DEF match
  <2> QED
    BY <2>1, <2>2, VerdictCheck
<1> QED
  BY <1>1, <1>2, TwoChecks DEF InputChecks

Finished == [columns : {Published}, rows : Tables, files : Saved]

(* The rows are unique as configured.                                      *)
AsUnique(config, rows) ==
    config.unique # {} =>
        Cardinality({[c \in config.unique |-> rows[i][c]] : i \in DOMAIN rows}) = Len(rows)

LEMMA UnrepeatedRows ==
    ASSUME NEW rows \in Seq([Published -> Cells]), NEW columns \in SUBSET Published
    PROVE  Unrepeated(rows, columns)
             <=> Cardinality({[c \in columns |-> rows[i][c]] : i \in DOMAIN rows}) = Len(rows)
<1> DEFINE S == 1 .. Len(rows)
           f == [i \in S |-> [c \in columns |-> rows[i][c]]]
<1>1. DOMAIN rows = S /\ Len(rows) \in Nat
  OBVIOUS
<1>2. IsFiniteSet(S) /\ Cardinality(S) = Len(rows)
  BY <1>1, FS_Interval
<1>3. Cardinality({f[i] : i \in S}) = Cardinality(S) <=> \A i, j \in S : i # j => f[i] # f[j]
  <2> HIDE DEF f, S
  <2> QED
    BY <1>2, Unrepeating
<1>4. {f[i] : i \in S} = {[c \in columns |-> rows[i][c]] : i \in DOMAIN rows}
  BY <1>1
<1>5. ASSUME NEW i \in S, NEW j \in S
      PROVE  f[i] # f[j] <=> \E c \in columns : rows[i][c] # rows[j][c]
  OBVIOUS
<1>6. Unrepeated(rows, columns) <=> \A i, j \in S : i # j => f[i] # f[j]
  BY <1>1, <1>5 DEF Unrepeated
<1> QED
  BY <1>2, <1>3, <1>4, <1>6

(* What a finished table is that no blocking check objects to.             *)
TableIsGood(config, table) ==
    /\ table.rows # <<>>
    /\ \A i \in DOMAIN table.files : table.files[i] > 0
    /\ AsUnique(config, table.rows)
    /\ Broken(config, table.rows, {"blocking"}) = {}

(* The checks of the rules, by themselves.                                 *)
RuleChecks(config, rows) ==
    [i \in DOMAIN Entries(config) |-> ColumnCheck(rows, Entries(config)[i])]

LEMMA RuleChecksFacts ==
    ASSUME NEW config, Accepted(config), NEW rows \in Seq([Published -> Cells])
    PROVE  /\ ChecksKnown(RuleChecks(config, rows))
           /\ \A check \in Range(RuleChecks(config, rows)) : check.status # "error"
           /\ Blocked(RuleChecks(config, rows)) <=> Broken(config, rows, {"blocking"}) # {}
<1> DEFINE entries == Entries(config)
           checks == RuleChecks(config, rows)
<1>1. entries \in Seq(Rules) /\ DOMAIN entries = 1 .. Len(entries) /\ Len(entries) \in Nat
  BY AcceptedEntries
<1>2. ASSUME NEW i \in DOMAIN entries
      PROVE  /\ checks[i].status \in {"passed", "failed", "skipped"}
             /\ checks[i].severity = ParseRule(entries[i].item).severity
             /\ checks[i].status = "failed" <=> ~Keeps(rows, entries[i])
             /\ checks[i].severity \in Severities
  <2>1. Fits(entries[i])
    BY <1>2, AcceptedEntries
  <2>2. checks[i] = ColumnCheck(rows, entries[i])
    BY <1>2 DEF RuleChecks
  <2>3. ParseRule(entries[i].item).severity \in Severities
    BY <2>1, ParsedRule DEF Fits
  <2> QED
    BY <2>1, <2>2, <2>3, CheckOfRule
<1>3. DOMAIN checks = DOMAIN entries
  BY DEF RuleChecks
<1>4. checks \in Seq(Range(checks))
  <2>1. checks = [i \in 1 .. Len(entries) |-> checks[i]]
    BY <1>1 DEF RuleChecks
  <2>2. \A i \in 1 .. Len(entries) : checks[i] \in Range(checks)
    BY <1>1, <1>3 DEF Range
  <2> HIDE DEF checks, entries
  <2> QED
    BY <1>1, <2>1, <2>2
<1>5. \A check \in Range(checks) : Known(check) /\ check.status # "error"
  BY <1>2, <1>3 DEF Range, Known, Statuses
<1>6. Blocked(checks) <=> \E i \in DOMAIN entries : checks[i].status = "failed"
                                                    /\ checks[i].severity = "blocking"
  BY <1>2, <1>3 DEF Blocked
<1>7. Broken(config, rows, {"blocking"})
        = {i \in DOMAIN entries : checks[i].severity = "blocking" /\ checks[i].status = "failed"}
  BY <1>2 DEF Broken
<1> QED
  BY <1>4, <1>5, <1>6, <1>7 DEF ChecksKnown

LEMMA OutputFacts ==
    ASSUME NEW config, Accepted(config), NEW table \in Finished
    PROVE  /\ ChecksKnown(OutputChecks(config, table))
           /\ \A check \in Range(OutputChecks(config, table)) : check.status # "error"
           /\ Blocked(OutputChecks(config, table)) <=> ~TableIsGood(config, table)
<1> DEFINE rows == table.rows
           has == BuiltIn("has_rows", Verdict(rows # <<>>))
           match == ColumnsMatch(table.columns, FALSE)
           created == FilesCreated(table.files, TRUE)
           unique == BuiltIn("unique", Verdict(Unrepeated(rows, config.unique)))
           first == <<has, match, created>>
           second == IF config.unique = {} THEN <<>> ELSE <<unique>>
           third == RuleChecks(config, rows)
<1>1. rows \in Seq([Published -> Cells]) /\ table.columns = Published /\ table.files \in Saved
  BY TablesAssumption DEF Finished, Cells
<1>2. OutputChecks(config, table) = first \o second \o third
  BY DEF OutputChecks, RuleChecks
<1>3. Known(has) /\ has.status # "error" /\ (Bad(has) <=> rows = <<>>)
  BY VerdictCheck
<1>4. Known(match) /\ match.status # "error" /\ ~Bad(match)
  <2> DEFINE equal == Published \subseteq Published /\ (FALSE \/ Published \subseteq Published)
  <2>1. match = BuiltIn("columns_match", Verdict(equal))
    BY <1>1 DEF ColumnsMatch
  <2>2. equal = TRUE
    OBVIOUS
  <2> HIDE DEF equal, match
  <2> QED
    BY <2>1, <2>2, VerdictCheck
<1>5. /\ Known(created) /\ created.status # "error"
      /\ Bad(created) <=> ~\A i \in DOMAIN table.files : table.files[i] > 0
  <2>1. table.files \in Seq(Nat) /\ table.files # <<>>
    BY <1>1, SavedAssumption
  <2> QED
    BY <2>1, CreatedFacts
<1>6. Known(unique) /\ unique.status # "error" /\ (Bad(unique) <=> ~Unrepeated(rows, config.unique))
  <2>1. Unrepeated(rows, config.unique) \in BOOLEAN
    BY DEF Unrepeated
  <2> QED
    BY <2>1, VerdictCheck
<1> HIDE DEF has, match, created, unique
<1>7. /\ ChecksKnown(first) /\ Range(first) = {has, match, created}
      /\ Blocked(first) <=> Bad(has) \/ Bad(match) \/ Bad(created)
  BY <1>3, <1>4, <1>5, ThreeChecks
<1>8. /\ ChecksKnown(second) /\ \A check \in Range(second) : check.status # "error"
      /\ Blocked(second) <=> ~AsUnique(config, rows)
  <2>1. CASE config.unique = {}
    BY <2>1, NoChecks DEF AsUnique
  <2>2. CASE config.unique # {}
    <3>1. Unrepeated(rows, config.unique) <=> AsUnique(config, rows)
      BY <1>1, <2>2, AcceptedEntries, UnrepeatedRows DEF AsUnique
    <3>2. second = <<unique>>
      BY <2>2
    <3> QED
      BY <1>6, <3>1, <3>2, OneCheck
  <2> QED
    BY <2>1, <2>2
<1>9. /\ ChecksKnown(third) /\ \A check \in Range(third) : check.status # "error"
      /\ Blocked(third) <=> Broken(config, rows, {"blocking"}) # {}
  BY <1>1, RuleChecksFacts
<1> HIDE DEF first, second, third
<1>10. ChecksKnown(first \o second)
  BY <1>7, <1>8, ConcatKnown
<1>11. /\ Range(first \o second) = Range(first) \cup Range(second)
       /\ Blocked(first \o second) <=> Blocked(first) \/ Blocked(second)
  BY <1>7, <1>8, ConcatRange, ConcatBlocked
<1>12. ChecksKnown((first \o second) \o third)
  BY <1>9, <1>10, ConcatKnown
<1>13. /\ Range((first \o second) \o third) = Range(first \o second) \cup Range(third)
       /\ Blocked((first \o second) \o third) <=> Blocked(first \o second) \/ Blocked(third)
  BY <1>9, <1>10, ConcatRange, ConcatBlocked
<1>14. \A check \in Range((first \o second) \o third) : check.status # "error"
  BY <1>3, <1>4, <1>5, <1>7, <1>8, <1>9, <1>11, <1>13
<1>15. Blocked((first \o second) \o third) <=> ~TableIsGood(config, table)
  BY <1>3, <1>4, <1>5, <1>7, <1>8, <1>9, <1>11, <1>13 DEF TableIsGood
<1> QED
  BY <1>2, <1>12, <1>14, <1>15

-----------------------------------------------------------------------------
(* The invariant of the gates.  A job that has not come to a gate has run  *)
(* nothing; at a gate, its checks are those of what the gate looks at, its *)
(* results those of the first checks, and its verdict that of all.         *)
Waiting == {"idle", "configured", "refused"}

AtGate(s) ==
    \/ s.gate = "pre_bronze" /\ s.subject \in Files /\ s.checks = LandedChecks(s.subject)
    \/ s.gate = "post_bronze" /\ s.subject \in Outputs /\ s.checks = BronzeChecks(s.subject)
    \/ s.gate = "pre_silver" /\ Accepted(s.config) /\ s.checks = InputChecks(s.subject)
    \/ /\ s.gate = "post_silver" /\ Accepted(s.config) /\ s.subject \in Finished
       /\ s.checks = OutputChecks(s.config, s.subject)

Progress(s) ==
    /\ s.results \in Seq(Range(s.checks)) /\ Len(s.results) <= Len(s.checks)
    /\ \A i \in 1 .. Len(s.results) : s.results[i] = s.checks[i]
    /\ s.pc \in {"check", "insert"} => Len(s.results) < Len(s.checks)
    /\ s.pc \in Ended => /\ Len(s.results) = Len(s.checks)
                         /\ s.pc = "blocked" <=> Blocked(s.checks)

JobOK(s) ==
    /\ s = [pc |-> s.pc, gate |-> s.gate, config |-> s.config, subject |-> s.subject,
            checks |-> s.checks, results |-> s.results]
    /\ s.pc \in Waiting \cup {"check", "insert", "failed"} \cup Ended
    /\ s.pc \in Waiting => s.gate = Null /\ s.checks = <<>> /\ s.results = <<>>
    /\ s.pc = "configured" => Accepted(s.config)
    /\ s.pc \notin Waiting => AtGate(s) /\ Progress(s)

JobsOK == state = [r \in Jobs |-> state[r]] /\ \A r \in Jobs : JobOK(state[r])

(* Every row of evidence has its definition, which has a known severity.   *)
RowOK(e) == /\ e.job \in Jobs /\ e.status \in Statuses
            /\ e.severity \in Severities /\ e.id \in DOMAIN definitions

StoreOK ==
    /\ storeFaults \in 0 .. MaxStoreFaults
    /\ definitions = [id \in DOMAIN definitions |-> definitions[id]]
    /\ \A id \in DOMAIN definitions : definitions[id].severity \in Severities
    /\ evidence \in Seq(Range(evidence)) /\ \A i \in DOMAIN evidence : RowOK(evidence[i])
    /\ \A r \in Jobs : state[r].pc = "insert" => CheckId(r) \in DOMAIN definitions

GatesInv == JobsOK /\ StoreOK

(* A gate has checks, all of them known.                                   *)
LEMMA GateChecks ==
    ASSUME NEW s, AtGate(s)
    PROVE  ChecksKnown(s.checks) /\ Len(s.checks) \in Nat \ {0}
<1>1. CASE s.gate = "pre_bronze" /\ s.subject \in Files /\ s.checks = LandedChecks(s.subject)
  BY <1>1, LandedFacts DEF ChecksKnown
<1>2. CASE s.gate = "post_bronze" /\ s.subject \in Outputs /\ s.checks = BronzeChecks(s.subject)
  <2>1. ChecksKnown(s.checks)
    BY <1>2, BronzeFacts
  <2>2. Len(s.checks) \in Nat \ {0}
    BY <1>2 DEF BronzeChecks
  <2> QED
    BY <2>1, <2>2
<1>3. CASE s.checks = InputChecks(s.subject)
  <2>1. ChecksKnown(s.checks)
    BY <1>3, InputFacts
  <2>2. \A a, b : Len(<<a, b>>) = 2
    OBVIOUS
  <2> QED
    BY <1>3, <2>1, <2>2 DEF InputChecks
<1>4. CASE /\ s.gate = "post_silver" /\ Accepted(s.config) /\ s.subject \in Finished
           /\ s.checks = OutputChecks(s.config, s.subject)
  <2>1. ChecksKnown(s.checks)
    BY <1>4, OutputFacts
  <2>2. Len(s.checks) \in Nat \ {0}
    BY <1>4 DEF OutputChecks
  <2> QED
    BY <2>1, <2>2
<1> QED
  BY <1>1, <1>2, <1>3, <1>4 DEF AtGate

(* A gate that opens has nothing behind it.                                *)
LEMMA Opened ==
    ASSUME NEW s, s.pc = "check", s.results = <<>>, AtGate(s),
           s = [pc |-> s.pc, gate |-> s.gate, config |-> s.config, subject |-> s.subject,
                checks |-> s.checks, results |-> s.results]
    PROVE  JobOK(s)
<1>1. Len(s.checks) \in Nat \ {0}
  BY GateChecks
<1>2. s.results \in Seq(Range(s.checks)) /\ Len(s.results) = 0
  OBVIOUS
<1> QED
  BY <1>1, <1>2 DEF JobOK, Progress, Waiting, Ended

LEMMA GatesInitially == GatesInit => GatesInv
<1> SUFFICES ASSUME GatesInit  PROVE GatesInv
  OBVIOUS
<1>1. JobsOK
  BY DEF GatesInit, JobsOK, JobOK, NotBegun, Waiting
<1>2. definitions = [id \in DOMAIN definitions |-> definitions[id]] /\ DOMAIN definitions = {}
  BY DEF GatesInit
<1>3. evidence \in Seq(Range(evidence)) /\ DOMAIN evidence = {}
  BY DEF GatesInit
<1>4. \A r \in Jobs : state[r].pc # "insert"
  BY DEF GatesInit, NotBegun
<1> QED
  BY <1>1, <1>2, <1>3, <1>4, StoreAssumption DEF GatesInv, StoreOK, GatesInit

(* A step of one job leaves the others as they are.                        *)
LEMMA JobStep ==
    ASSUME NEW r \in Jobs, NEW s, JobsOK, JobOK(s), state' = [state EXCEPT ![r] = s]
    PROVE  JobsOK' /\ state'[r] = s /\ \A q \in Jobs \ {r} : state'[q] = state[q]
<1>1. state = [q \in Jobs |-> state[q]]
  BY DEF JobsOK
<1>2. state'[r] = s /\ \A q \in Jobs \ {r} : state'[q] = state[q]
  BY <1>1
<1>3. state' = [q \in Jobs |-> state'[q]]
  BY <1>1
<1>4. \A q \in Jobs : JobOK(state'[q])
  BY <1>2 DEF JobsOK
<1> QED
  BY <1>2, <1>3, <1>4 DEF JobsOK

LEMMA CheckIdFrame ==
    ASSUME NEW q \in Jobs,
           state'[q].gate = state[q].gate, state'[q].checks = state[q].checks,
           state'[q].results = state[q].results
    PROVE  CheckId(q)' = CheckId(q) /\ Current(q)' = Current(q)
BY DEF CheckId, Current

LEMMA CurrentFacts ==
    ASSUME NEW r \in Jobs, JobsOK, state[r].pc \in {"check", "insert"}
    PROVE  /\ Known(Current(r))
           /\ Len(state[r].results) \in Nat /\ Len(state[r].checks) \in Nat
           /\ Len(state[r].results) < Len(state[r].checks)
           /\ Current(r) = state[r].checks[Len(state[r].results) + 1]
           /\ Current(r) \in Range(state[r].checks)
<1> DEFINE s == state[r]
<1>1. AtGate(s) /\ Progress(s)
  BY DEF JobsOK, JobOK, Waiting
<1>2. ChecksKnown(s.checks)
  BY <1>1, GateChecks
<1>3. /\ Len(s.results) \in Nat /\ Len(s.checks) \in Nat /\ Len(s.results) < Len(s.checks)
      /\ DOMAIN s.checks = 1 .. Len(s.checks)
  BY <1>1, <1>2 DEF Progress, ChecksKnown
<1>4. Len(s.results) + 1 \in DOMAIN s.checks
  BY <1>3
<1>5. Current(r) = s.checks[Len(s.results) + 1]
  BY DEF Current
<1>6. Current(r) \in Range(s.checks)
  BY <1>4, <1>5 DEF Range
<1> QED
  BY <1>2, <1>3, <1>5, <1>6 DEF ChecksKnown

LEMMA Appended ==
    ASSUME NEW q, q \in Seq(Range(q)), NEW e
    PROVE  /\ Append(q, e) \in Seq(Range(Append(q, e)))
           /\ Len(Append(q, e)) = Len(q) + 1 /\ Len(q) \in Nat
           /\ DOMAIN q = 1 .. Len(q) /\ DOMAIN Append(q, e) = 1 .. Len(q) + 1
           /\ Append(q, e)[Len(q) + 1] = e
           /\ \A i \in 1 .. Len(q) : Append(q, e)[i] = q[i]
<1> DEFINE S == Range(q) \cup {e}
<1>1. q \in Seq(S) /\ e \in S
  BY SeqMonotonic
<1>2. Append(q, e) \in Seq(S)
  BY <1>1
<1> HIDE DEF S
<1>3. Append(q, e) \in Seq(Range(Append(q, e)))
  BY <1>2, SeqOfRange
<1> QED
  BY <1>1, <1>3

(* The two statements of the store.                                        *)
LEMMA UpsertFacts ==
    ASSUME NEW r \in Jobs, JobsOK, StoreOK, state[r].pc = "check", DefinitionUpserted(r)
    PROVE  /\ definitions' = [id \in DOMAIN definitions' |-> definitions'[id]]
           /\ DOMAIN definitions' = DOMAIN definitions \cup {CheckId(r)}
           /\ \A id \in DOMAIN definitions' : definitions'[id].severity \in Severities
           /\ definitions'[CheckId(r)].severity = Current(r).severity
           /\ \A id \in DOMAIN definitions \ {CheckId(r)} : definitions'[id] = definitions[id]
<1>1. Current(r).severity \in Severities
  BY CurrentFacts DEF Known
<1>2. /\ definitions' = [id \in DOMAIN definitions' |-> definitions'[id]]
      /\ DOMAIN definitions' = DOMAIN definitions \cup {CheckId(r)}
  BY DEF DefinitionUpserted
<1>3. definitions'[CheckId(r)].severity = Current(r).severity
  BY DEF DefinitionUpserted
<1>4. \A id \in DOMAIN definitions \ {CheckId(r)} : definitions'[id] = definitions[id]
  BY DEF DefinitionUpserted
<1> QED
  BY <1>1, <1>2, <1>3, <1>4 DEF StoreOK

RowFor(r) == [job |-> r, id |-> CheckId(r), status |-> Current(r).status,
              severity |-> definitions[CheckId(r)].severity]

LEMMA InsertFacts ==
    ASSUME NEW r \in Jobs, JobsOK, StoreOK, state[r].pc = "insert", RunInserted(r)
    PROVE  /\ evidence' \in Seq(Range(evidence')) /\ Len(evidence) \in Nat
           /\ DOMAIN evidence = 1 .. Len(evidence) /\ DOMAIN evidence' = 1 .. Len(evidence) + 1
           /\ evidence'[Len(evidence) + 1] = RowFor(r)
           /\ \A i \in 1 .. Len(evidence) : evidence'[i] = evidence[i]
BY Appended DEF RunInserted, RowFor, StoreOK

LEMMA RowForOK ==
    ASSUME NEW r \in Jobs, JobsOK, StoreOK, state[r].pc = "insert"
    PROVE  RowOK(RowFor(r))
BY CurrentFacts DEF RowOK, RowFor, StoreOK, Known

(* A job comes to a gate.                                                  *)
LEMMA OpenStep ==
    ASSUME NEW r \in Jobs, NEW gate, NEW config, NEW subject, NEW checks, JobsOK, StoreOK,
           Open(r, gate, config, subject, checks), Kept,
           AtGate([pc |-> "check", gate |-> gate, config |-> config, subject |-> subject,
                   checks |-> checks, results |-> <<>>])
    PROVE  GatesInv'
<1> DEFINE s == [pc |-> "check", gate |-> gate, config |-> config, subject |-> subject,
                 checks |-> checks, results |-> <<>>]
<1>1. JobOK(s)
  BY Opened
<1>2. state' = [state EXCEPT ![r] = s]
  BY DEF Open
<1>3. s.pc = "check"
  OBVIOUS
<1> HIDE DEF s
<1>4. JobsOK' /\ state'[r] = s /\ \A q \in Jobs \ {r} : state'[q] = state[q]
  BY <1>1, <1>2, JobStep
<1>5. \A q \in Jobs : state'[q].pc = "insert" => CheckId(q)' \in DOMAIN definitions
  <2> SUFFICES ASSUME NEW q \in Jobs, state'[q].pc = "insert"
               PROVE  CheckId(q)' \in DOMAIN definitions
    OBVIOUS
  <2>1. state'[q] = state[q]
    BY <1>3, <1>4
  <2> QED
    BY <2>1, CheckIdFrame DEF StoreOK
<1> QED
  BY <1>4, <1>5 DEF Kept, GatesInv, StoreOK, RowOK

(* The record a step leaves.                                               *)
IsJob(s) == s = [pc |-> s.pc, gate |-> s.gate, config |-> s.config, subject |-> s.subject,
                 checks |-> s.checks, results |-> s.results]

LEMMA OneField ==
    ASSUME NEW s, IsJob(s), NEW pc, NEW config, NEW results
    PROVE  /\ [s EXCEPT !.pc = pc] = [pc |-> pc, gate |-> s.gate, config |-> s.config,
                subject |-> s.subject, checks |-> s.checks, results |-> s.results]
           /\ [s EXCEPT !.results = results] = [pc |-> s.pc, gate |-> s.gate, config |-> s.config,
                subject |-> s.subject, checks |-> s.checks, results |-> results]
BY DEF IsJob

LEMMA TwoFields ==
    ASSUME NEW s, IsJob(s), NEW pc, NEW config, NEW results
    PROVE  /\ [s EXCEPT !.pc = pc, !.config = config]
                = [pc |-> pc, gate |-> s.gate, config |-> config, subject |-> s.subject,
                   checks |-> s.checks, results |-> s.results]
           /\ [s EXCEPT !.results = results, !.pc = pc]
                = [pc |-> pc, gate |-> s.gate, config |-> s.config, subject |-> s.subject,
                   checks |-> s.checks, results |-> results]
<1>1. [s EXCEPT !.pc = pc, !.config = config] = [[s EXCEPT !.pc = pc] EXCEPT !.config = config]
  OBVIOUS
<1>2. [s EXCEPT !.results = results, !.pc = pc] = [[s EXCEPT !.results = results] EXCEPT !.pc = pc]
  OBVIOUS
<1> DEFINE a == [s EXCEPT !.pc = pc]
           b == [s EXCEPT !.results = results]
<1>3. a = [pc |-> pc, gate |-> s.gate, config |-> s.config, subject |-> s.subject,
           checks |-> s.checks, results |-> s.results]
  BY OneField
<1>4. b = [pc |-> s.pc, gate |-> s.gate, config |-> s.config, subject |-> s.subject,
           checks |-> s.checks, results |-> results]
  BY OneField
<1> HIDE DEF a, b
<1>5. [a EXCEPT !.config = config]
        = [pc |-> pc, gate |-> s.gate, config |-> config, subject |-> s.subject,
           checks |-> s.checks, results |-> s.results]
  BY <1>3
<1>6. [b EXCEPT !.pc = pc]
        = [pc |-> pc, gate |-> s.gate, config |-> s.config, subject |-> s.subject,
           checks |-> s.checks, results |-> results]
  BY <1>4
<1> QED
  BY <1>1, <1>2, <1>5, <1>6 DEF a, b

(* A job at a gate moves on without a new result.                          *)
LEMMA PcStep ==
    ASSUME NEW r \in Jobs, NEW pc \in {"check", "insert", "failed"}, JobsOK,
           state[r].pc \in {"check", "insert"},
           state' = [state EXCEPT ![r].pc = pc]
    PROVE  /\ JobsOK'
           /\ \A q \in Jobs \ {r} : state'[q] = state[q]
           /\ state'[r].pc = pc
           /\ \A q \in Jobs : CheckId(q)' = CheckId(q) /\ Current(q)' = Current(q)
<1> DEFINE s == state[r]
           n == [s EXCEPT !.pc = pc]
<1>1. state' = [state EXCEPT ![r] = n]
  OBVIOUS
<1>2. n = [pc |-> pc, gate |-> s.gate, config |-> s.config, subject |-> s.subject,
           checks |-> s.checks, results |-> s.results]
  BY DEF JobsOK, JobOK
<1>3. AtGate(s) /\ Progress(s)
  BY DEF JobsOK, JobOK, Waiting
<1> HIDE DEF n
<1>4. n.pc = pc /\ n.gate = s.gate /\ n.config = s.config /\ n.subject = s.subject
      /\ n.checks = s.checks /\ n.results = s.results
  BY <1>2
<1>5. AtGate(n)
  BY <1>3, <1>4 DEF AtGate
<1>6. Progress(n)
  BY <1>3, <1>4 DEF Progress, Ended
<1>7. JobOK(n)
  BY <1>2, <1>4, <1>5, <1>6 DEF JobOK, Waiting
<1>8. JobsOK' /\ state'[r] = n /\ \A q \in Jobs \ {r} : state'[q] = state[q]
  BY <1>1, <1>7, JobStep
<1>9. \A q \in Jobs : CheckId(q)' = CheckId(q) /\ Current(q)' = Current(q)
  <2> TAKE q \in Jobs
  <2>1. state'[q].gate = state[q].gate /\ state'[q].checks = state[q].checks
        /\ state'[q].results = state[q].results
    BY <1>4, <1>8
  <2> QED
    BY <2>1, CheckIdFrame
<1> QED
  BY <1>4, <1>8, <1>9

LEMMA UpsertStep ==
    ASSUME NEW r \in Jobs, JobsOK, StoreOK, UpsertDefinition(r)
    PROVE  GatesInv'
<1>1. /\ JobsOK' /\ \A q \in Jobs \ {r} : state'[q] = state[q]
      /\ \A q \in Jobs : CheckId(q)' = CheckId(q)
  BY PcStep DEF UpsertDefinition
<1>2. /\ definitions' = [id \in DOMAIN definitions' |-> definitions'[id]]
      /\ DOMAIN definitions' = DOMAIN definitions \cup {CheckId(r)}
      /\ \A id \in DOMAIN definitions' : definitions'[id].severity \in Severities
  BY UpsertFacts DEF UpsertDefinition
<1>3. evidence' = evidence /\ storeFaults' = storeFaults
  BY DEF UpsertDefinition
<1>4. \A i \in DOMAIN evidence' : RowOK(evidence[i])'
  BY <1>2, <1>3 DEF StoreOK, RowOK
<1>5. \A q \in Jobs : state'[q].pc = "insert" => CheckId(q)' \in DOMAIN definitions'
  BY <1>1, <1>2 DEF StoreOK
<1> QED
  BY <1>1, <1>2, <1>3, <1>4, <1>5 DEF GatesInv, StoreOK

LEMMA InsertStep ==
    ASSUME NEW r \in Jobs, JobsOK, StoreOK, InsertRun(r)
    PROVE  GatesInv'
<1> DEFINE s == state[r]
           results == Append(s.results, Current(r))
           pc == IF Len(results) < Len(s.checks) THEN "check"
                 ELSE IF Blocked(results) THEN "blocked" ELSE "passed"
           n == [s EXCEPT !.results = results, !.pc = pc]
<1>1. state' = [state EXCEPT ![r] = n] /\ s.pc = "insert" /\ RunInserted(r)
      /\ definitions' = definitions /\ storeFaults' = storeFaults
  BY DEF InsertRun
<1>2. n = [pc |-> pc, gate |-> s.gate, config |-> s.config, subject |-> s.subject,
           checks |-> s.checks, results |-> results]
  <2>1. IsJob(s)
    BY DEF JobsOK, JobOK, IsJob
  <2> HIDE DEF s, pc, results
  <2> QED
    BY <2>1, TwoFields
<1>3. AtGate(s) /\ Progress(s)
  BY <1>1 DEF JobsOK, JobOK, Waiting
<1>4. ChecksKnown(s.checks)
  BY <1>3, GateChecks
<1>5. /\ Current(r) \in Range(s.checks) /\ Current(r) = s.checks[Len(s.results) + 1]
      /\ Len(s.results) \in Nat /\ Len(s.checks) \in Nat /\ Len(s.results) < Len(s.checks)
  BY <1>1, CurrentFacts
<1>6. /\ results \in Seq(Range(s.checks)) /\ Len(results) = Len(s.results) + 1
      /\ \A i \in 1 .. Len(s.results) : results[i] = s.results[i]
      /\ results[Len(s.results) + 1] = Current(r)
  <2> DEFINE C == Range(s.checks)
  <2>1. s.results \in Seq(C) /\ Current(r) \in C
    BY <1>3, <1>5 DEF Progress
  <2> HIDE DEF C
  <2>2. /\ results \in Seq(C) /\ Len(results) = Len(s.results) + 1
        /\ \A i \in 1 .. Len(s.results) : results[i] = s.results[i]
        /\ results[Len(s.results) + 1] = Current(r)
    BY <2>1
  <2> QED
    BY <2>2 DEF C
<1> HIDE DEF results
<1>7. \A i \in 1 .. Len(results) : results[i] = s.checks[i]
  <2> TAKE i \in 1 .. Len(results)
  <2>1. CASE i = Len(s.results) + 1
    BY <1>5, <1>6, <2>1
  <2>2. CASE i # Len(s.results) + 1
    <3>1. i \in 1 .. Len(s.results)
      BY <1>5, <1>6, <2>2
    <3> QED
      BY <1>3, <1>6, <3>1 DEF Progress
  <2> QED
    BY <2>1, <2>2
<1>8. Len(results) <= Len(s.checks)
  BY <1>5, <1>6
<1>9. ASSUME ~(Len(results) < Len(s.checks))
      PROVE  Len(results) = Len(s.checks) /\ results = s.checks
  <2>1. Len(results) = Len(s.checks)
    BY <1>5, <1>6, <1>8, <1>9
  <2>2. s.checks \in Seq(Range(s.checks))
    BY <1>4 DEF ChecksKnown
  <2> QED
    BY <1>6, <1>7, <2>1, <2>2, SeqEqual
<1>10. /\ pc \in {"check", "blocked", "passed"}
       /\ pc = "check" => Len(results) < Len(s.checks)
       /\ pc \in Ended => /\ Len(results) = Len(s.checks)
                          /\ pc = "blocked" <=> Blocked(s.checks)
  BY <1>9 DEF Ended
<1> HIDE DEF pc, n
<1>11. n.pc = pc /\ n.gate = s.gate /\ n.config = s.config /\ n.subject = s.subject
       /\ n.checks = s.checks /\ n.results = results
  BY <1>2
<1>12. AtGate(n)
  BY <1>3, <1>11 DEF AtGate
<1>13. Progress(n)
  BY <1>6, <1>7, <1>8, <1>10, <1>11 DEF Progress
<1>14. JobOK(n)
  BY <1>2, <1>10, <1>11, <1>12, <1>13 DEF JobOK, Waiting, Ended
<1>15. JobsOK' /\ state'[r] = n /\ \A q \in Jobs \ {r} : state'[q] = state[q]
  BY <1>1, <1>14, JobStep
<1>16. \A q \in Jobs : state'[q].pc = "insert" => CheckId(q)' \in DOMAIN definitions
  <2> SUFFICES ASSUME NEW q \in Jobs, state'[q].pc = "insert"
               PROVE  CheckId(q)' \in DOMAIN definitions
    OBVIOUS
  <2>1. state'[q] = state[q]
    BY <1>10, <1>11, <1>15
  <2> QED
    BY <2>1, CheckIdFrame DEF StoreOK
<1>17. /\ evidence' \in Seq(Range(evidence')) /\ Len(evidence) \in Nat
       /\ DOMAIN evidence = 1 .. Len(evidence) /\ DOMAIN evidence' = 1 .. Len(evidence) + 1
       /\ evidence'[Len(evidence) + 1] = RowFor(r)
       /\ \A i \in 1 .. Len(evidence) : evidence'[i] = evidence[i]
  BY <1>1, InsertFacts
<1>18. \A i \in DOMAIN evidence' : RowOK(evidence'[i])
  <2>1. RowOK(RowFor(r)) /\ \A i \in 1 .. Len(evidence) : RowOK(evidence[i])
    BY <1>1, <1>17, RowForOK DEF StoreOK
  <2>2. \A i \in 1 .. Len(evidence) + 1 : i \in 1 .. Len(evidence) \/ i = Len(evidence) + 1
    BY <1>17
  <2> QED
    BY <1>17, <2>1, <2>2
<1>19. \A i \in DOMAIN evidence' : RowOK(evidence[i])'
  BY <1>1, <1>18 DEF RowOK
<1> QED
  BY <1>1, <1>15, <1>16, <1>17, <1>19 DEF GatesInv, StoreOK

LEMMA StoreFailStep ==
    ASSUME NEW r \in Jobs, JobsOK, StoreOK, StoreFails(r)
    PROVE  GatesInv'
<1>1. /\ state[r].pc \in {"check", "insert"} /\ state' = [state EXCEPT ![r].pc = "failed"]
      /\ storeFaults < MaxStoreFaults /\ storeFaults' = storeFaults + 1
  BY DEF StoreFails
<1>2. /\ JobsOK' /\ state'[r].pc = "failed" /\ \A q \in Jobs \ {r} : state'[q] = state[q]
      /\ \A q \in Jobs : CheckId(q)' = CheckId(q)
  BY <1>1, PcStep
<1>3. storeFaults' \in 0 .. MaxStoreFaults
  BY <1>1, StoreAssumption DEF StoreOK
<1>4. CASE UNCHANGED <<definitions, evidence>>
  BY <1>2, <1>3, <1>4 DEF GatesInv, StoreOK, RowOK
<1>5. CASE state[r].pc = "check" /\ DefinitionUpserted(r) /\ UNCHANGED evidence
  <2>1. /\ definitions' = [id \in DOMAIN definitions' |-> definitions'[id]]
        /\ DOMAIN definitions' = DOMAIN definitions \cup {CheckId(r)}
        /\ \A id \in DOMAIN definitions' : definitions'[id].severity \in Severities
    BY <1>5, UpsertFacts
  <2>2. \A i \in DOMAIN evidence' : RowOK(evidence[i])'
    BY <1>5, <2>1 DEF StoreOK, RowOK
  <2>3. \A q \in Jobs : state'[q].pc = "insert" => CheckId(q)' \in DOMAIN definitions'
    BY <1>2, <2>1 DEF StoreOK
  <2> QED
    BY <1>2, <1>3, <1>5, <2>1, <2>2, <2>3 DEF GatesInv, StoreOK
<1>6. CASE state[r].pc = "insert" /\ RunInserted(r) /\ UNCHANGED definitions
  <2>1. /\ evidence' \in Seq(Range(evidence')) /\ Len(evidence) \in Nat
        /\ DOMAIN evidence = 1 .. Len(evidence) /\ DOMAIN evidence' = 1 .. Len(evidence) + 1
        /\ evidence'[Len(evidence) + 1] = RowFor(r)
        /\ \A i \in 1 .. Len(evidence) : evidence'[i] = evidence[i]
    BY <1>6, InsertFacts
  <2>2. RowOK(RowFor(r)) /\ \A i \in 1 .. Len(evidence) : RowOK(evidence[i])
    BY <1>6, <2>1, RowForOK DEF StoreOK
  <2>3. \A i \in 1 .. Len(evidence) + 1 : i \in 1 .. Len(evidence) \/ i = Len(evidence) + 1
    BY <2>1
  <2>4. \A i \in DOMAIN evidence' : RowOK(evidence'[i])
    BY <2>1, <2>2, <2>3
  <2>5. \A i \in DOMAIN evidence' : RowOK(evidence[i])'
    BY <1>6, <2>4 DEF RowOK
  <2>6. \A q \in Jobs : state'[q].pc = "insert" => CheckId(q)' \in DOMAIN definitions'
    BY <1>2, <1>6 DEF StoreOK
  <2> QED
    BY <1>2, <1>3, <1>6, <2>1, <2>5, <2>6 DEF GatesInv, StoreOK
<1> QED
  BY <1>4, <1>5, <1>6 DEF StoreFails

LEMMA GatesStep == GatesInv /\ [GatesNext]_gatesVars => GatesInv'
<1> SUFFICES ASSUME GatesInv, [GatesNext]_gatesVars  PROVE GatesInv'
  OBVIOUS
<1>1. JobsOK /\ StoreOK
  BY DEF GatesInv
<1>2. ASSUME NEW r \in Jobs, NEW file \in Files, LandFile(r, file)  PROVE GatesInv'
  <2>1. AtGate([pc |-> "check", gate |-> "pre_bronze", config |-> NoConfig, subject |-> file,
                checks |-> LandedChecks(file), results |-> <<>>])
    BY DEF AtGate
  <2> QED
    BY <1>1, <1>2, <2>1, OpenStep DEF LandFile
<1>3. ASSUME NEW r \in Jobs, NEW output \in Outputs, WriteBronze(r, output)  PROVE GatesInv'
  <2>1. AtGate([pc |-> "check", gate |-> "post_bronze", config |-> NoConfig, subject |-> output,
                checks |-> BronzeChecks(output), results |-> <<>>])
    BY DEF AtGate
  <2> QED
    BY <1>1, <1>3, <2>1, OpenStep DEF WriteBronze
<1>4. ASSUME NEW r \in Jobs, NEW input \in Inputs, ReadInput(r, input)  PROVE GatesInv'
  <2>1. Accepted(state[r].config)
    BY <1>1, <1>4 DEF ReadInput, JobsOK, JobOK
  <2>2. AtGate([pc |-> "check", gate |-> "pre_silver", config |-> state[r].config,
                subject |-> input, checks |-> InputChecks(input), results |-> <<>>])
    BY <2>1 DEF AtGate
  <2> QED
    BY <1>1, <1>4, <2>2, OpenStep DEF ReadInput
<1>5. ASSUME NEW r \in Jobs, NEW rows \in Tables, NEW files \in Saved, Transform(r, rows, files)
      PROVE  GatesInv'
  <2> DEFINE table == [columns |-> Published, rows |-> rows, files |-> files]
             config == state[r].config
  <2>1. Accepted(config)
    BY <1>1, <1>5 DEF Transform, JobsOK, JobOK, AtGate, Waiting
  <2>2. AtGate([pc |-> "check", gate |-> "post_silver", config |-> config, subject |-> table,
                checks |-> OutputChecks(config, table), results |-> <<>>])
    BY <2>1 DEF AtGate, Finished
  <2>3. Open(r, "post_silver", config, table, OutputChecks(config, table)) /\ Kept
    BY <1>5 DEF Transform
  <2> QED
    BY <1>1, <2>2, <2>3, OpenStep
<1>6. ASSUME NEW r \in Jobs, NEW config \in Configs, Configure(r, config)  PROVE GatesInv'
  <2> DEFINE s == state[r]
             pc == IF Loads(config) /\ Valid(config) THEN "configured" ELSE "refused"
             n == [s EXCEPT !.pc = pc, !.config = config]
  <2>1. state' = [state EXCEPT ![r] = n] /\ s.pc = "idle"
    BY <1>6 DEF Configure
  <2>2. n = [pc |-> pc, gate |-> s.gate, config |-> config, subject |-> s.subject,
             checks |-> s.checks, results |-> s.results]
    <3>1. IsJob(s)
      BY <1>1 DEF JobsOK, JobOK, IsJob
    <3> HIDE DEF s, pc
    <3> QED
      BY <3>1, TwoFields
  <2>3. s.gate = Null /\ s.checks = <<>> /\ s.results = <<>>
    BY <1>1, <2>1 DEF JobsOK, JobOK, Waiting
  <2>4. pc \in {"configured", "refused"} /\ (pc = "configured" => Accepted(config))
    BY DEF Accepted
  <2>5. JobOK(n)
    <3> HIDE DEF pc, n
    <3> QED
      BY <2>2, <2>3, <2>4 DEF JobOK, Waiting
  <2>6. n.pc # "insert"
    <3> HIDE DEF pc, n
    <3> QED
      BY <2>2, <2>4
  <2> HIDE DEF n
  <2>7. JobsOK' /\ state'[r] = n /\ \A q \in Jobs \ {r} : state'[q] = state[q]
    BY <1>1, <2>1, <2>5, JobStep
  <2>8. \A q \in Jobs : state'[q].pc = "insert" => CheckId(q)' \in DOMAIN definitions
    <3> SUFFICES ASSUME NEW q \in Jobs, state'[q].pc = "insert"
                 PROVE  CheckId(q)' \in DOMAIN definitions
      OBVIOUS
    <3>1. state'[q] = state[q]
      BY <2>6, <2>7
    <3> QED
      BY <1>1, <3>1, CheckIdFrame DEF StoreOK
  <2> QED
    BY <1>1, <1>6, <2>7, <2>8 DEF Configure, Kept, GatesInv, StoreOK, RowOK
<1>7. ASSUME NEW r \in Jobs, UpsertDefinition(r)  PROVE GatesInv'
  BY <1>1, <1>7, UpsertStep
<1>8. ASSUME NEW r \in Jobs, InsertRun(r)  PROVE GatesInv'
  BY <1>1, <1>8, InsertStep
<1>9. ASSUME NEW r \in Jobs, StoreFails(r)  PROVE GatesInv'
  BY <1>1, <1>9, StoreFailStep
<1>10. CASE UNCHANGED gatesVars
  BY <1>1, <1>10 DEF gatesVars, GatesInv, JobsOK, StoreOK, RowOK, CheckId, Current
<1> QED
  BY <1>2, <1>3, <1>4, <1>5, <1>6, <1>7, <1>8, <1>9, <1>10 DEF GatesNext

LEMMA GatesInvariant == GatesSpec => []GatesInv
BY GatesInitially, GatesStep, PTL DEF GatesSpec

-----------------------------------------------------------------------------
(* What the gates let through.                                             *)
LEMMA ResultsArePrefix ==
    ASSUME NEW s, ChecksKnown(s.checks), Progress(s)
    PROVE  s.results = SubSeq(s.checks, 1, Len(s.results))
<1> DEFINE C == Range(s.checks)
           k == Len(s.results)
<1>1. s.checks \in Seq(C) /\ s.results \in Seq(C) /\ k <= Len(s.checks) /\ k \in Nat
  BY DEF ChecksKnown, Progress
<1>2. \A i \in 1 .. k : s.results[i] = s.checks[i]
  BY DEF Progress
<1> HIDE DEF C
<1>3. /\ SubSeq(s.checks, 1, k) \in Seq(C) /\ Len(SubSeq(s.checks, 1, k)) = k
      /\ \A i \in 1 .. k : SubSeq(s.checks, 1, k)[i] = s.checks[i]
  BY <1>1, SubSeqProperties
<1> QED
  BY <1>1, <1>2, <1>3, SeqEqual

LEMMA AtEnd ==
    ASSUME NEW r \in Jobs, GatesInv, state[r].pc \in Ended
    PROVE  AtGate(state[r]) /\ (state[r].pc = "blocked" <=> Blocked(state[r].checks))
BY DEF GatesInv, JobsOK, JobOK, Progress, Waiting, Ended

LEMMA TypeFacts == GatesInv => GatesTypeOK
<1> SUFFICES ASSUME GatesInv  PROVE GatesTypeOK
  OBVIOUS
<1>1. ASSUME NEW r \in Jobs
      PROVE  /\ state[r].pc \in {"idle", "configured", "refused", "check", "insert", "failed"}
                                   \cup Ended
             /\ state[r].results = SubSeq(state[r].checks, 1, Len(state[r].results))
             /\ state[r].pc \in {"check", "insert"} => Len(state[r].results) < Len(state[r].checks)
  <2>1. JobOK(state[r])
    BY DEF GatesInv, JobsOK
  <2>2. CASE state[r].pc \in Waiting
    <3>1. SubSeq(<<>>, 1, Len(<<>>)) = <<>>
      OBVIOUS
    <3> QED
      BY <2>1, <2>2, <3>1 DEF JobOK, Waiting
  <2>3. CASE state[r].pc \notin Waiting
    <3>1. AtGate(state[r]) /\ Progress(state[r])
      BY <2>1, <2>3 DEF JobOK
    <3>2. state[r].results = SubSeq(state[r].checks, 1, Len(state[r].results))
      BY <3>1, GateChecks, ResultsArePrefix
    <3> QED
      BY <2>1, <3>1, <3>2 DEF JobOK, Waiting, Progress
  <2> QED
    BY <2>2, <2>3
<1> QED
  BY <1>1 DEF GatesTypeOK, GatesInv, StoreOK, RowOK

LEMMA KeepOutFacts == GatesInv => BronzeGatesKeepOut
<1> SUFFICES ASSUME GatesInv, NEW r \in Jobs, state[r].pc = "passed"
             PROVE  LET s == state[r].subject
                    IN  CASE state[r].gate = "pre_bronze" ->
                               /\ s.size > 0 /\ s.digest /\ (s.suffix \in {"zip", "xlsx"} => s.sound)
                               /\ s.suffix = "zip" \/ (s.suffix = "xlsx" /\ s.sheet # "none")
                                    => s.members > 0
                               /\ s.suffix = "xlsx" => s.sheet # "missing"
                          [] state[r].gate = "post_bronze" ->
                               /\ s.required => s.files # <<>> /\ \A i \in DOMAIN s.files : s.files[i] > 0
                               /\ s.extraction # "failed"
                          [] OTHER -> TRUE
  BY DEF BronzeGatesKeepOut
<1>1. AtGate(state[r]) /\ ~Blocked(state[r].checks)
  BY AtEnd DEF Ended
<1>2. CASE state[r].gate = "pre_bronze"
  <2>1. FileIsGood(state[r].subject)
    BY <1>1, <1>2, LandedFacts DEF AtGate
  <2> QED
    BY <1>2, <2>1 DEF FileIsGood
<1>3. CASE state[r].gate = "post_bronze"
  <2>1. OutputIsGood(state[r].subject)
    BY <1>1, <1>3, BronzeFacts DEF AtGate
  <2> QED
    BY <1>3, <2>1 DEF OutputIsGood
<1>4. CASE state[r].gate \notin {"pre_bronze", "post_bronze"}
  BY <1>4
<1> QED
  BY <1>2, <1>3, <1>4

LEMMA ExactFacts == GatesInv => SilverGateIsExact
<1> SUFFICES ASSUME GatesInv, NEW r \in Jobs, At(r, "post_silver")
             PROVE  state[r].pc = "passed" <=> TableIsGood(state[r].config, state[r].subject)
  BY DEF SilverGateIsExact, TableIsGood, AsUnique
<1>1. /\ AtGate(state[r]) /\ state[r].gate = "post_silver" /\ state[r].pc \in Ended
      /\ state[r].pc = "blocked" <=> Blocked(state[r].checks)
  BY AtEnd DEF At
<1>2. /\ Accepted(state[r].config) /\ state[r].subject \in Finished
      /\ state[r].checks = OutputChecks(state[r].config, state[r].subject)
  BY <1>1 DEF AtGate
<1>3. Blocked(state[r].checks) <=> ~TableIsGood(state[r].config, state[r].subject)
  BY <1>2, OutputFacts
<1> QED
  BY <1>1, <1>3 DEF Ended

LEMMA RunFacts == GatesInv => AcceptedRulesRun
<1> SUFFICES ASSUME GatesInv, NEW r \in Jobs, state[r].gate = "post_silver",
                    NEW i \in DOMAIN state[r].results
             PROVE  state[r].results[i].status # "error"
  BY DEF AcceptedRulesRun
<1>1. JobOK(state[r])
  BY DEF GatesInv, JobsOK
<1>2. state[r].pc \notin Waiting
  BY <1>1 DEF JobOK
<1>3. AtGate(state[r]) /\ Progress(state[r])
  BY <1>1, <1>2 DEF JobOK
<1>4. state[r].results[i] \in Range(state[r].checks)
  BY <1>3, ElementOfSeq DEF Progress
<1>5. \A check \in Range(state[r].checks) : check.status # "error"
  BY <1>3, OutputFacts DEF AtGate
<1> QED
  BY <1>4, <1>5

(* The gates let through exactly what they should: no file, output or      *)
(* table that a blocking check objects to, and every table that no         *)
(* blocking rule of the job's own quality.yaml objects to, whatever other  *)
(* jobs write into the shared definitions; and accepted rules never raise. *)
THEOREM GatesAreSoundCorrect == GatesSpec => []GatesAreSound
<1>1. GatesInv => GatesAreSound
  BY TypeFacts, KeepOutFacts, ExactFacts, RunFacts DEF GatesAreSound
<1> QED
  BY <1>1, GatesInvariant, PTL

-----------------------------------------------------------------------------
(* Evidence.  The rank of a position among others, and how it grows when   *)
(* a position after all of them is added.                                  *)
Rank(R, i) == Cardinality({j \in R : j <= i})

Ranked(R) ==
    /\ IsFiniteSet(R)
    /\ \A i \in R : Rank(R, i) \in 1 .. Cardinality(R)
    /\ \A k \in 1 .. Cardinality(R) : \E i \in R : Rank(R, i) = k

LEMMA NoneRanked == Ranked({}) /\ Cardinality({}) = 0
BY FS_EmptySet DEF Ranked

LEMMA OldRank ==
    ASSUME NEW m \in Nat, NEW R \in SUBSET (1 .. m), NEW i \in R
    PROVE  Rank(R \cup {m + 1}, i) = Rank(R, i)
<1>1. {j \in R \cup {m + 1} : j <= i} = {j \in R : j <= i}
  <2>1. ~(m + 1 <= i)
    OBVIOUS
  <2> QED
    BY <2>1
<1> QED
  BY <1>1 DEF Rank

LEMMA NewRank ==
    ASSUME NEW m \in Nat, NEW R \in SUBSET (1 .. m), IsFiniteSet(R)
    PROVE  /\ Cardinality(R \cup {m + 1}) = Cardinality(R) + 1
           /\ Cardinality(R) \in Nat
           /\ Rank(R \cup {m + 1}, m + 1) = Cardinality(R) + 1
<1>1. m + 1 \notin R
  OBVIOUS
<1>2. Cardinality(R \cup {m + 1}) = Cardinality(R) + 1 /\ Cardinality(R) \in Nat
  BY <1>1, FS_AddElement, FS_CardinalityType
<1>3. {j \in R \cup {m + 1} : j <= m + 1} = R \cup {m + 1}
  <2>1. \A j \in R \cup {m + 1} : j <= m + 1
    OBVIOUS
  <2> QED
    BY <2>1
<1> QED
  BY <1>2, <1>3 DEF Rank

LEMMA RankedGrows ==
    ASSUME NEW m \in Nat, NEW R \in SUBSET (1 .. m), Ranked(R)
    PROVE  Ranked(R \cup {m + 1})
<1> DEFINE N == R \cup {m + 1}
           c == Cardinality(R)
<1>1. IsFiniteSet(R) /\ IsFiniteSet(N)
  BY FS_AddElement DEF Ranked
<1>2. Cardinality(N) = c + 1 /\ c \in Nat /\ Rank(N, m + 1) = c + 1
  BY <1>1, NewRank
<1>3. \A i \in R : Rank(N, i) = Rank(R, i)
  BY OldRank
<1>4. \A i \in N : Rank(N, i) \in 1 .. c + 1
  <2> TAKE i \in N
  <2>1. CASE i = m + 1
    BY <1>2, <2>1
  <2>2. CASE i \in R
    <3>1. Rank(R, i) \in 1 .. c
      BY <2>2 DEF Ranked
    <3> QED
      BY <1>2, <1>3, <2>2, <3>1
  <2> QED
    BY <2>1, <2>2
<1>5. \A k \in 1 .. c + 1 : \E i \in N : Rank(N, i) = k
  <2> TAKE k \in 1 .. c + 1
  <2>1. CASE k = c + 1
    BY <1>2, <2>1
  <2>2. CASE k # c + 1
    <3>1. k \in 1 .. c
      BY <1>2, <2>2
    <3>2. PICK i \in R : Rank(R, i) = k
      BY <3>1 DEF Ranked
    <3>3. i \in N /\ Rank(N, i) = k
      BY <1>3, <3>2
    <3> QED
      BY <3>3
  <2> QED
    BY <2>1, <2>2
<1> QED
  BY <1>1, <1>2, <1>4, <1>5 DEF Ranked

(* Severities are undisputed when there is one job, or when no two rules   *)
(* of accepted files have the same id but different severities.            *)
OneSeverity ==
    \A config, other \in Configs : Accepted(config) /\ Accepted(other) =>
        \A i \in DOMAIN Entries(config), j \in DOMAIN Entries(other) :
            CheckKey(Entries(config)[i]) = CheckKey(Entries(other)[j])
                => ParseRule(Entries(config)[i].item).severity
                       = ParseRule(Entries(other)[j].item).severity

Undisputed == (\E q, r \in Jobs : q # r) => OneSeverity

(* A check of a Silver table is built in, or that of a rule.               *)
IsBuiltIn(check) == check.severity = "blocking" /\ check.key.column = Null
IsOfRule(check, config) ==
    \E i \in DOMAIN Entries(config) :
        /\ check.key = CheckKey(Entries(config)[i])
        /\ check.severity = ParseRule(Entries(config)[i].item).severity

LEMMA BuiltInIs == \A name, status : IsBuiltIn(BuiltIn(name, status))
BY DEF IsBuiltIn, BuiltIn, Key

LEMMA OutputOrigins ==
    ASSUME NEW config, Accepted(config), NEW table \in Finished,
           NEW check \in Range(OutputChecks(config, table))
    PROVE  IsBuiltIn(check) \/ IsOfRule(check, config)
<1> DEFINE rows == table.rows
           has == BuiltIn("has_rows", Verdict(rows # <<>>))
           match == ColumnsMatch(table.columns, FALSE)
           created == FilesCreated(table.files, TRUE)
           unique == BuiltIn("unique", Verdict(Unrepeated(rows, config.unique)))
           first == <<has, match, created>>
           second == IF config.unique = {} THEN <<>> ELSE <<unique>>
           third == RuleChecks(config, rows)
<1>1. OutputChecks(config, table) = first \o second \o third
  BY DEF OutputChecks, RuleChecks
<1>2. IsBuiltIn(has) /\ IsBuiltIn(match) /\ IsBuiltIn(created) /\ IsBuiltIn(unique)
  BY BuiltInIs DEF ColumnsMatch, FilesCreated
<1>3. \A c \in Range(third) : IsOfRule(c, config)
  BY DEF Range, RuleChecks, ColumnCheck, IsOfRule
<1>4. first \in Seq(Range(first)) /\ Range(first) = {has, match, created}
  <2> HIDE DEF has, match, created
  <2>1. Range(<<has, match, created>>) = {has, match, created}
    BY DEF Range
  <2>2. <<has, match, created>> \in Seq({has, match, created})
    OBVIOUS
  <2> QED
    BY <2>1, <2>2
<1>5. second \in Seq(Range(second)) /\ \A c \in Range(second) : IsBuiltIn(c)
  <2> HIDE DEF unique
  <2>1. Range(<<unique>>) = {unique} /\ Range(<<>>) = {}
    BY DEF Range
  <2>2. <<unique>> \in Seq({unique}) /\ <<>> \in Seq({})
    OBVIOUS
  <2> QED
    BY <1>2, <2>1, <2>2
<1>6. third \in Seq(Range(third))
  BY RuleChecksFacts, TablesAssumption DEF Finished, Cells, ChecksKnown
<1> HIDE DEF first, second, third
<1> DEFINE S == Range(first) \cup Range(second) \cup Range(third)
<1>7. first \in Seq(S) /\ second \in Seq(S) /\ third \in Seq(S)
  BY <1>4, <1>5, <1>6, SeqMonotonic
<1> HIDE DEF S
<1>8. first \o second \in Seq(S)
  BY <1>7, ConcatProperties
<1>9. Range(first \o second) = Range(first) \cup Range(second)
  BY <1>7, RangeConcatenation
<1>10. Range((first \o second) \o third) = Range(first \o second) \cup Range(third)
  BY <1>7, <1>8, RangeConcatenation
<1> QED
  BY <1>1, <1>2, <1>3, <1>4, <1>5, <1>9, <1>10

LEMMA BuiltInOrigins ==
    ASSUME NEW s, AtGate(s), s.gate # "post_silver", NEW check \in Range(s.checks)
    PROVE  IsBuiltIn(check)
<1>1. CASE s.subject \in Files /\ s.checks = LandedChecks(s.subject)
  BY <1>1, BuiltInIs DEF LandedChecks, Range
<1>2. CASE s.subject \in Outputs /\ s.checks = BronzeChecks(s.subject)
  <2> DEFINE output == s.subject
             created == FilesCreated(output.files, output.required)
             extracted == BuiltIn("bronze_extraction_completed", Verdict(output.extraction = "done"))
  <2>1. IsBuiltIn(created) /\ IsBuiltIn(extracted)
    BY BuiltInIs DEF FilesCreated
  <2>2. s.checks = <<created>> \o (IF output.extraction = "none" THEN <<>> ELSE <<extracted>>)
    BY <1>2 DEF BronzeChecks
  <2> HIDE DEF created, extracted
  <2>3. <<created>> \in Seq({created, extracted}) /\ <<extracted>> \in Seq({created, extracted})
        /\ <<>> \in Seq({created, extracted})
    OBVIOUS
  <2>4. s.checks \in Seq({created, extracted})
    BY <2>2, <2>3, ConcatProperties
  <2> QED
    BY <2>1, <2>4, RangeOfSeq
<1>3. CASE s.checks = InputChecks(s.subject)
  <2> DEFINE a == BuiltIn("has_rows", Verdict(s.subject.rows # <<>>))
             b == ColumnsMatch(s.subject.columns, TRUE)
  <2>1. IsBuiltIn(a) /\ IsBuiltIn(b) /\ s.checks = <<a, b>>
    BY <1>3, BuiltInIs DEF InputChecks, ColumnsMatch
  <2> HIDE DEF a, b
  <2>2. Range(<<a, b>>) = {a, b}
    BY DEF Range
  <2> QED
    BY <2>1, <2>2
<1> QED
  BY <1>1, <1>2, <1>3 DEF AtGate

LEMMA SeverityAgrees ==
    ASSUME NEW s, NEW t, OneSeverity, AtGate(s), AtGate(t), s.gate = t.gate,
           NEW a \in Range(s.checks), NEW b \in Range(t.checks), a.key = b.key
    PROVE  a.severity = b.severity
<1>1. CASE s.gate # "post_silver"
  BY <1>1, BuiltInOrigins DEF IsBuiltIn
<1>2. CASE s.gate = "post_silver"
  <2>1. Accepted(s.config) /\ Accepted(t.config)
    BY <1>2 DEF AtGate
  <2>2. /\ IsBuiltIn(a) \/ IsOfRule(a, s.config)
        /\ IsBuiltIn(b) \/ IsOfRule(b, t.config)
    BY <1>2, OutputOrigins DEF AtGate
  <2>3. ASSUME NEW config, Accepted(config), NEW i \in DOMAIN Entries(config)
        PROVE  CheckKey(Entries(config)[i]).column # Null
    <3>1. Fits(Entries(config)[i])
      BY <2>3, AcceptedEntries
    <3> QED
      BY <3>1, MarksAssumption DEF CheckKey, Fits
  <2>4. IsOfRule(a, s.config) \/ IsOfRule(b, t.config) => ~IsBuiltIn(a) /\ ~IsBuiltIn(b)
    BY <2>1, <2>3 DEF IsOfRule, IsBuiltIn
  <2>5. CASE IsBuiltIn(a) /\ IsBuiltIn(b)
    BY <2>5 DEF IsBuiltIn
  <2>6. CASE IsOfRule(a, s.config) /\ IsOfRule(b, t.config)
    <3>1. PICK i \in DOMAIN Entries(s.config) :
              /\ a.key = CheckKey(Entries(s.config)[i])
              /\ a.severity = ParseRule(Entries(s.config)[i].item).severity
      BY <2>6 DEF IsOfRule
    <3>2. PICK j \in DOMAIN Entries(t.config) :
              /\ b.key = CheckKey(Entries(t.config)[j])
              /\ b.severity = ParseRule(Entries(t.config)[j].item).severity
      BY <2>6 DEF IsOfRule
    <3>3. s.config \in Configs /\ t.config \in Configs
      BY <2>1 DEF Accepted
    <3>4. CheckKey(Entries(s.config)[i]) = CheckKey(Entries(t.config)[j])
      BY <3>1, <3>2
    <3>5. PICK config \in Configs, other \in Configs : config = s.config /\ other = t.config
      BY <3>3
    <3>6. ParseRule(Entries(config)[i].item).severity = ParseRule(Entries(other)[j].item).severity
      BY <2>1, <3>4, <3>5 DEF OneSeverity
    <3> QED
      BY <3>1, <3>2, <3>5, <3>6
  <2> QED
    BY <2>2, <2>4, <2>5, <2>6
<1> QED
  BY <1>1, <1>2

-----------------------------------------------------------------------------
(* The invariant of the evidence.  Gates a job has behind it or before it. *)
Visited(s) == IF s.pc \in Waiting THEN {}
              ELSE IF s.gate = "post_bronze" THEN {"pre_bronze", "post_bronze"}
              ELSE IF s.gate = "post_silver" THEN {"pre_silver", "post_silver"}
              ELSE {s.gate}

(* A row tells of the check with its rank.                                 *)
Tells(e, check) == /\ e.id[2] = check.key /\ e.status = check.status
                   /\ Undisputed => e.severity = check.severity

(* The rows of a job's gate are those of its results, but for the row of a *)
(* statement that failed after it was carried out.                         *)
Recorded(r) ==
    /\ Ranked(RowsOf(r))
    /\ \A i \in RowsOf(r) : Tells(evidence[i], state[r].checks[Place(r, i)])
    /\ state[r].pc # "failed" => Cardinality(RowsOf(r)) = Len(state[r].results)
    /\ state[r].pc = "failed" => Cardinality(RowsOf(r)) <= Len(state[r].checks)

EvidenceInv ==
    \A r \in Jobs :
        /\ \A i \in DOMAIN evidence : evidence[i].job = r => evidence[i].id[1] \in Visited(state[r])
        /\ Recorded(r)
        /\ Undisputed /\ state[r].pc = "insert"
              => definitions[CheckId(r)].severity = Current(r).severity

(* What no step of a job's own changes.                                    *)
LEMMA RowsFrame ==
    ASSUME NEW q \in Jobs, StoreOK,
           state'[q].gate = state[q].gate,
           DOMAIN evidence \subseteq DOMAIN evidence',
           \A i \in DOMAIN evidence : evidence'[i] = evidence[i],
           \A i \in DOMAIN evidence' \ DOMAIN evidence : evidence'[i].job # q
    PROVE  RowsOf(q)' = RowsOf(q)
BY DEF RowsOf

LEMMA RecordedFrame ==
    ASSUME NEW q \in Jobs, StoreOK, Recorded(q),
           state'[q].gate = state[q].gate, state'[q].checks = state[q].checks,
           state'[q].results = state[q].results,
           DOMAIN evidence \subseteq DOMAIN evidence',
           \A i \in DOMAIN evidence : evidence'[i] = evidence[i],
           \A i \in DOMAIN evidence' \ DOMAIN evidence : evidence'[i].job # q,
           state'[q].pc # "failed" => state[q].pc # "failed",
           state'[q].pc = "failed" => Cardinality(RowsOf(q)) <= Len(state[q].checks)
    PROVE  Recorded(q)'
<1>1. RowsOf(q)' = RowsOf(q)
  BY RowsFrame
<1>2. \A i \in RowsOf(q) : Place(q, i)' = Place(q, i)
  BY <1>1 DEF Place
<1>3. \A i \in RowsOf(q) : evidence'[i] = evidence[i]
  BY DEF RowsOf
<1>4. Ranked(RowsOf(q))'
  BY <1>1 DEF Recorded
<1>5. \A i \in RowsOf(q)' : Tells(evidence'[i], state'[q].checks[Place(q, i)'])
  BY <1>1, <1>2, <1>3 DEF Recorded
<1> QED
  BY <1>1, <1>4, <1>5 DEF Recorded, Tells

LEMMA EvidenceInitially == GatesInit => EvidenceInv
<1> SUFFICES ASSUME GatesInit, NEW r \in Jobs
             PROVE  /\ \A i \in DOMAIN evidence :
                          evidence[i].job = r => evidence[i].id[1] \in Visited(state[r])
                    /\ Recorded(r)
                    /\ Undisputed /\ state[r].pc = "insert"
                          => definitions[CheckId(r)].severity = Current(r).severity
  BY DEF EvidenceInv
<1>1. DOMAIN evidence = {} /\ state[r].pc = "idle" /\ Len(state[r].results) = 0
  BY DEF GatesInit, NotBegun
<1>2. RowsOf(r) = {}
  BY <1>1 DEF RowsOf
<1>3. Recorded(r)
  BY <1>1, <1>2, NoneRanked DEF Recorded
<1> QED
  BY <1>1, <1>3

(* Jobs that a step does not move, when no row of theirs is written.       *)
LEMMA OthersKept ==
    ASSUME NEW q \in Jobs, GatesInv, EvidenceInv, state'[q] = state[q],
           DOMAIN evidence \subseteq DOMAIN evidence',
           \A i \in DOMAIN evidence : evidence'[i] = evidence[i],
           \A i \in DOMAIN evidence' \ DOMAIN evidence : evidence'[i].job # q
    PROVE  /\ \A i \in DOMAIN evidence' :
                 evidence'[i].job = q => evidence'[i].id[1] \in Visited(state'[q])
           /\ Recorded(q)'
<1>1. Recorded(q)'
  <2>1. state[q].pc = "failed" => Cardinality(RowsOf(q)) <= Len(state[q].checks)
    BY DEF EvidenceInv, Recorded
  <2> QED
    BY <2>1, RecordedFrame DEF EvidenceInv, GatesInv
<1>2. ASSUME NEW i \in DOMAIN evidence', evidence'[i].job = q
      PROVE  evidence'[i].id[1] \in Visited(state'[q])
  <2>1. i \in DOMAIN evidence
    BY <1>2
  <2>2. evidence'[i] = evidence[i]
    BY <2>1
  <2> QED
    BY <1>2, <2>1, <2>2 DEF EvidenceInv
<1> QED
  BY <1>1, <1>2

(* A job comes to a gate it has not been at.                               *)
LEMMA OpenEvidence ==
    ASSUME NEW r \in Jobs, NEW gate, NEW config, NEW subject, NEW checks, GatesInv, EvidenceInv,
           Open(r, gate, config, subject, checks), Kept, gate \notin Visited(state[r]),
           Visited(state[r]) \subseteq
               Visited([pc |-> "check", gate |-> gate, config |-> config, subject |-> subject,
                        checks |-> checks, results |-> <<>>])
    PROVE  EvidenceInv'
<1> DEFINE s == [pc |-> "check", gate |-> gate, config |-> config, subject |-> subject,
                 checks |-> checks, results |-> <<>>]
<1>1. s.pc = "check" /\ s.gate = gate /\ Len(s.results) = 0
  OBVIOUS
<1>2. state' = [state EXCEPT ![r] = s] /\ state = [q \in Jobs |-> state[q]]
  BY DEF Open, GatesInv, JobsOK
<1>3. Visited(state[r]) \subseteq Visited(s)
  OBVIOUS
<1> HIDE DEF s
<1>4. state'[r] = s /\ \A q \in Jobs \ {r} : state'[q] = state[q]
  BY <1>2
<1>5. evidence' = evidence /\ definitions' = definitions
  BY DEF Kept
<1>6. RowsOf(r)' = {}
  <2>1. ASSUME NEW i \in DOMAIN evidence, evidence[i].job = r  PROVE evidence[i].id[1] # gate
    BY <2>1 DEF EvidenceInv
  <2>2. RowsOf(r)' = {i \in DOMAIN evidence : evidence[i].job = r /\ evidence[i].id[1] = gate}
    BY <1>1, <1>4, <1>5 DEF RowsOf
  <2> QED
    BY <2>1, <2>2
<1>7. Recorded(r)'
  BY <1>1, <1>4, <1>6, NoneRanked DEF Recorded
<1>8. \A i \in DOMAIN evidence' : evidence'[i].job = r => evidence'[i].id[1] \in Visited(state'[r])
  BY <1>3, <1>4, <1>5 DEF EvidenceInv
<1>9. ASSUME NEW q \in Jobs, q # r
      PROVE  /\ \A i \in DOMAIN evidence' :
                   evidence'[i].job = q => evidence'[i].id[1] \in Visited(state'[q])
             /\ Recorded(q)'
  BY <1>4, <1>5, <1>9, OthersKept
<1>10. ASSUME NEW q \in Jobs, Undisputed, state'[q].pc = "insert"
       PROVE  definitions'[CheckId(q)'].severity = Current(q)'.severity
  <2>1. state'[q] = state[q]
    BY <1>1, <1>4, <1>10
  <2>2. CheckId(q)' = CheckId(q) /\ Current(q)' = Current(q)
    BY <2>1, CheckIdFrame
  <2> QED
    BY <1>5, <1>10, <2>1, <2>2 DEF EvidenceInv
<1>11. ASSUME NEW q \in Jobs
       PROVE  /\ \A i \in DOMAIN evidence' :
                    evidence'[i].job = q => evidence'[i].id[1] \in Visited(state'[q])
              /\ Recorded(q)'
  BY <1>7, <1>8, <1>9
<1> QED
  BY <1>10, <1>11 DEF EvidenceInv, Undisputed, OneSeverity

(* The row that a job writes ranks after those it has written.             *)
LEMMA RowAdded ==
    ASSUME NEW r \in Jobs, GatesInv, EvidenceInv, state[r].pc = "insert", RunInserted(r),
           state'[r].gate = state[r].gate
    PROVE  /\ Ranked(RowsOf(r)')
           /\ Cardinality(RowsOf(r)') = Len(state[r].results) + 1
           /\ \A i \in RowsOf(r)' : Tells(evidence'[i], state[r].checks[Place(r, i)'])
<1> DEFINE m == Len(evidence)
           R == RowsOf(r)
           N == R \cup {m + 1}
<1>1. /\ m \in Nat /\ DOMAIN evidence = 1 .. m /\ DOMAIN evidence' = 1 .. m + 1
      /\ evidence'[m + 1] = RowFor(r)
      /\ \A i \in 1 .. m : evidence'[i] = evidence[i]
  BY InsertFacts DEF GatesInv
<1>2. RowFor(r).job = r /\ RowFor(r).id = <<state[r].gate, Current(r).key>>
  BY DEF RowFor, CheckId
<1>3. RowsOf(r)' = N
  <2>1. RowsOf(r)' = {i \in 1 .. m + 1 : evidence'[i].job = r /\ evidence'[i].id[1] = state[r].gate}
    BY <1>1 DEF RowsOf
  <2>2. R = {i \in 1 .. m : evidence[i].job = r /\ evidence[i].id[1] = state[r].gate}
    BY <1>1 DEF RowsOf
  <2>3. evidence'[m + 1].job = r /\ evidence'[m + 1].id[1] = state[r].gate
    BY <1>1, <1>2
  <2>4. \A i \in 1 .. m + 1 : i \in 1 .. m \/ i = m + 1
    BY <1>1
  <2>5. \A i \in 1 .. m : i \in 1 .. m + 1
    BY <1>1
  <2>6. m + 1 \in 1 .. m + 1
    BY <1>1
  <2> HIDE DEF R, m
  <2> QED
    BY <1>1, <2>1, <2>2, <2>3, <2>4, <2>5, <2>6
<1>4. /\ Ranked(R) /\ Cardinality(R) = Len(state[r].results)
      /\ \A i \in R : Tells(evidence[i], state[r].checks[Place(r, i)])
  BY DEF EvidenceInv, Recorded
<1>5. R \subseteq 1 .. m /\ IsFiniteSet(R)
  BY <1>1, <1>4 DEF RowsOf, Ranked
<1>6. /\ Ranked(N) /\ Cardinality(N) = Cardinality(R) + 1
      /\ Rank(N, m + 1) = Cardinality(R) + 1
      /\ \A i \in R : Rank(N, i) = Rank(R, i)
  BY <1>1, <1>4, <1>5, RankedGrows, NewRank, OldRank
<1>7. \A i : Place(r, i)' = Rank(N, i) /\ Place(r, i) = Rank(R, i)
  BY <1>3 DEF Place, Rank
<1>8. Tells(RowFor(r), Current(r)) /\ Current(r) = state[r].checks[Len(state[r].results) + 1]
  <2>1. Undisputed => definitions[CheckId(r)].severity = Current(r).severity
    BY DEF EvidenceInv
  <2> QED
    BY <2>1 DEF Tells, RowFor, CheckId, Current
<1> HIDE DEF R, N, m
<1>9. ASSUME NEW i \in N  PROVE Tells(evidence'[i], state[r].checks[Rank(N, i)])
  <2>1. CASE i = m + 1
    BY <1>1, <1>4, <1>6, <1>8, <2>1
  <2>2. CASE i \in R
    <3>1. evidence'[i] = evidence[i]
      BY <1>1, <1>5, <2>2
    <3> QED
      BY <1>4, <1>6, <1>7, <2>2, <3>1
  <2> QED
    BY <2>1, <2>2 DEF N
<1>10. \A i \in RowsOf(r)' : Tells(evidence'[i], state[r].checks[Place(r, i)'])
  BY <1>3, <1>7, <1>9
<1> QED
  BY <1>3, <1>4, <1>6, <1>10

(* After an upsert the definition has the severity of the job's check, and *)
(* still that of others which are about to copy it.                        *)
LEMMA UpsertSeverities ==
    ASSUME NEW r \in Jobs, GatesInv, EvidenceInv, state[r].pc = "check", DefinitionUpserted(r),
           NEW q \in Jobs, Undisputed, q = r \/ state[q].pc = "insert"
    PROVE  definitions'[CheckId(q)].severity = Current(q).severity
<1>1. /\ definitions'[CheckId(r)].severity = Current(r).severity
      /\ \A id \in DOMAIN definitions \ {CheckId(r)} : definitions'[id] = definitions[id]
  BY UpsertFacts DEF GatesInv
<1>2. CASE q = r
  BY <1>1, <1>2
<1>3. CASE q # r /\ CheckId(q) # CheckId(r)
  <2>1. definitions[CheckId(q)].severity = Current(q).severity /\ CheckId(q) \in DOMAIN definitions
    BY <1>3 DEF EvidenceInv, GatesInv, StoreOK
  <2> QED
    BY <1>1, <1>3, <2>1
<1>4. CASE q # r /\ CheckId(q) = CheckId(r)
  <2>1. OneSeverity
    BY <1>4 DEF Undisputed
  <2>2. AtGate(state[q]) /\ AtGate(state[r])
    BY <1>4 DEF GatesInv, JobsOK, JobOK, Waiting
  <2>3. Current(q) \in Range(state[q].checks) /\ Current(r) \in Range(state[r].checks)
    BY <1>4, CurrentFacts DEF GatesInv
  <2>4. state[q].gate = state[r].gate /\ Current(q).key = Current(r).key
    BY <1>4 DEF CheckId
  <2>5. Current(q).severity = Current(r).severity
    BY <2>1, <2>2, <2>3, <2>4, SeverityAgrees
  <2> QED
    BY <1>1, <1>4, <2>5
<1> QED
  BY <1>2, <1>3, <1>4

(* What holds of a job whose own pc the step does not make "insert".       *)
LEMMA SeveritiesKept ==
    ASSUME NEW r \in Jobs, GatesInv, EvidenceInv, definitions' = definitions,
           \A q \in Jobs \ {r} : state'[q] = state[q], state'[r].pc # "insert"
    PROVE  \A q \in Jobs : Undisputed /\ state'[q].pc = "insert"
               => definitions'[CheckId(q)'].severity = Current(q)'.severity
<1> SUFFICES ASSUME NEW q \in Jobs, Undisputed, state'[q].pc = "insert"
             PROVE  definitions'[CheckId(q)'].severity = Current(q)'.severity
  OBVIOUS
<1>1. state'[q] = state[q]
  OBVIOUS
<1>2. CheckId(q)' = CheckId(q) /\ Current(q)' = Current(q)
  BY <1>1, CheckIdFrame
<1> QED
  BY <1>1, <1>2 DEF EvidenceInv

(* A row of a job's own.                                                   *)
LEMMA InsertEvidence ==
    ASSUME NEW r \in Jobs, GatesInv, EvidenceInv, state[r].pc = "insert", RunInserted(r),
           definitions' = definitions,
           \A q \in Jobs \ {r} : state'[q] = state[q],
           state'[r].gate = state[r].gate, state'[r].checks = state[r].checks,
           state'[r].pc \in {"check", "failed"} \cup Ended,
           state'[r].pc # "failed" => Len(state'[r].results) = Len(state[r].results) + 1
    PROVE  EvidenceInv'
<1>1. /\ Ranked(RowsOf(r)') /\ Cardinality(RowsOf(r)') = Len(state[r].results) + 1
      /\ \A i \in RowsOf(r)' : Tells(evidence'[i], state[r].checks[Place(r, i)'])
  BY RowAdded
<1>2. /\ Len(state[r].results) \in Nat /\ Len(state[r].checks) \in Nat
      /\ Len(state[r].results) < Len(state[r].checks)
  BY CurrentFacts DEF GatesInv
<1>3. Len(state[r].results) + 1 <= Len(state[r].checks)
  BY <1>2
<1>4. Recorded(r)'
  BY <1>1, <1>3 DEF Recorded, Ranked, Rank, Tells
<1>5. /\ DOMAIN evidence = 1 .. Len(evidence) /\ DOMAIN evidence' = 1 .. Len(evidence) + 1
      /\ evidence'[Len(evidence) + 1] = RowFor(r) /\ Len(evidence) \in Nat
      /\ \A i \in 1 .. Len(evidence) : evidence'[i] = evidence[i]
  BY InsertFacts DEF GatesInv
<1>6. \A i \in 1 .. Len(evidence) + 1 : i \in 1 .. Len(evidence) \/ i = Len(evidence) + 1
  BY <1>5
<1>7. RowFor(r).job = r /\ RowFor(r).id[1] = state[r].gate
  BY DEF RowFor, CheckId
<1>8. Visited(state'[r]) = Visited(state[r]) /\ state[r].gate \in Visited(state[r])
  BY DEF Visited, Waiting, Ended
<1>9. ASSUME NEW i \in DOMAIN evidence', evidence'[i].job = r
      PROVE  evidence'[i].id[1] \in Visited(state'[r])
  BY <1>5, <1>6, <1>7, <1>8, <1>9 DEF EvidenceInv
<1>10. ASSUME NEW q \in Jobs, q # r
       PROVE  /\ \A i \in DOMAIN evidence' :
                    evidence'[i].job = q => evidence'[i].id[1] \in Visited(state'[q])
              /\ Recorded(q)'
  <2>1. DOMAIN evidence \subseteq DOMAIN evidence'
    BY <1>5
  <2>2. \A i \in DOMAIN evidence' \ DOMAIN evidence : evidence'[i].job # q
    BY <1>5, <1>6, <1>7, <1>10
  <2> QED
    BY <1>5, <1>10, <2>1, <2>2, OthersKept
<1>11. ASSUME NEW q \in Jobs
       PROVE  /\ \A i \in DOMAIN evidence' :
                    evidence'[i].job = q => evidence'[i].id[1] \in Visited(state'[q])
              /\ Recorded(q)'
  BY <1>4, <1>9, <1>10
<1>12. state'[r].pc # "insert"
  BY DEF Ended
<1>13. \A q \in Jobs : Undisputed /\ state'[q].pc = "insert"
           => definitions'[CheckId(q)'].severity = Current(q)'.severity
  BY <1>12, SeveritiesKept
<1> QED
  BY <1>11, <1>13 DEF EvidenceInv, Undisputed, OneSeverity

(* A step of a job that writes nothing and stays at its gate.              *)
LEMMA QuietEvidence ==
    ASSUME NEW r \in Jobs, GatesInv, EvidenceInv, evidence' = evidence,
           \A q \in Jobs \ {r} : state'[q] = state[q],
           state'[r].gate = state[r].gate, state'[r].checks = state[r].checks,
           state'[r].results = state[r].results, Visited(state'[r]) = Visited(state[r]),
           state[r].pc # "failed",
           Len(state[r].results) <= Len(state[r].checks)
    PROVE  \A q \in Jobs :
               /\ \A i \in DOMAIN evidence' :
                    evidence'[i].job = q => evidence'[i].id[1] \in Visited(state'[q])
               /\ Recorded(q)'
<1>1. Recorded(r)'
  <2>1. Cardinality(RowsOf(r)) <= Len(state[r].checks)
    BY DEF EvidenceInv, Recorded
  <2> QED
    BY <2>1, RecordedFrame DEF EvidenceInv, GatesInv
<1>2. \A i \in DOMAIN evidence' : evidence'[i].job = r => evidence'[i].id[1] \in Visited(state'[r])
  BY DEF EvidenceInv
<1>3. ASSUME NEW q \in Jobs, q # r
      PROVE  /\ \A i \in DOMAIN evidence' :
                   evidence'[i].job = q => evidence'[i].id[1] \in Visited(state'[q])
             /\ Recorded(q)'
  BY <1>3, OthersKept
<1> QED
  BY <1>1, <1>2, <1>3

LEMMA UpsertEvidence ==
    ASSUME NEW r \in Jobs, GatesInv, EvidenceInv, state[r].pc = "check", DefinitionUpserted(r),
           evidence' = evidence, NEW pc \in {"insert", "failed"},
           state' = [state EXCEPT ![r].pc = pc]
    PROVE  EvidenceInv'
<1>1. /\ \A q \in Jobs \ {r} : state'[q] = state[q]
      /\ state'[r].pc = pc
      /\ state'[r].gate = state[r].gate /\ state'[r].checks = state[r].checks
      /\ state'[r].results = state[r].results
  BY DEF GatesInv, JobsOK, JobOK
<1>2. \A q \in Jobs : CheckId(q)' = CheckId(q) /\ Current(q)' = Current(q)
  BY <1>1, CheckIdFrame
<1>3. Visited(state'[r]) = Visited(state[r])
  BY <1>1 DEF Visited, Waiting
<1>4. Len(state[r].results) <= Len(state[r].checks)
  BY CurrentFacts DEF GatesInv
<1>5. \A q \in Jobs :
          /\ \A i \in DOMAIN evidence' :
                evidence'[i].job = q => evidence'[i].id[1] \in Visited(state'[q])
          /\ Recorded(q)'
  BY <1>1, <1>3, <1>4, QuietEvidence
<1>6. ASSUME NEW q \in Jobs, Undisputed, state'[q].pc = "insert"
      PROVE  definitions'[CheckId(q)'].severity = Current(q)'.severity
  <2>1. q = r \/ state[q].pc = "insert"
    BY <1>1, <1>6
  <2> QED
    BY <1>2, <1>6, <2>1, UpsertSeverities
<1> QED
  BY <1>5, <1>6 DEF EvidenceInv, Undisputed, OneSeverity

LEMMA FailEvidence ==
    ASSUME NEW r \in Jobs, GatesInv, EvidenceInv, StoreFails(r)
    PROVE  EvidenceInv'
<1>1. state[r].pc \in {"check", "insert"} /\ state' = [state EXCEPT ![r].pc = "failed"]
  BY DEF StoreFails
<1>2. /\ \A q \in Jobs \ {r} : state'[q] = state[q]
      /\ state'[r].pc = "failed"
      /\ state'[r].gate = state[r].gate /\ state'[r].checks = state[r].checks
      /\ state'[r].results = state[r].results
  BY <1>1 DEF GatesInv, JobsOK, JobOK
<1>3. CASE UNCHANGED <<definitions, evidence>>
  <2>1. Visited(state'[r]) = Visited(state[r])
    BY <1>1, <1>2 DEF Visited, Waiting
  <2>2. Len(state[r].results) <= Len(state[r].checks)
    BY <1>1, CurrentFacts DEF GatesInv
  <2>3. \A q \in Jobs :
            /\ \A i \in DOMAIN evidence' :
                  evidence'[i].job = q => evidence'[i].id[1] \in Visited(state'[q])
            /\ Recorded(q)'
    BY <1>1, <1>2, <1>3, <2>1, <2>2, QuietEvidence
  <2>4. \A q \in Jobs : Undisputed /\ state'[q].pc = "insert"
            => definitions'[CheckId(q)'].severity = Current(q)'.severity
    BY <1>2, <1>3, SeveritiesKept
  <2> QED
    BY <2>3, <2>4 DEF EvidenceInv, Undisputed, OneSeverity
<1>4. CASE state[r].pc = "check" /\ DefinitionUpserted(r) /\ UNCHANGED evidence
  BY <1>1, <1>4, UpsertEvidence
<1>5. CASE state[r].pc = "insert" /\ RunInserted(r) /\ UNCHANGED definitions
  BY <1>2, <1>5, InsertEvidence
<1> QED
  BY <1>3, <1>4, <1>5 DEF StoreFails

LEMMA EvidenceStep == GatesInv /\ EvidenceInv /\ [GatesNext]_gatesVars => EvidenceInv'
<1> SUFFICES ASSUME GatesInv, EvidenceInv, [GatesNext]_gatesVars  PROVE EvidenceInv'
  OBVIOUS
<1>1. ASSUME NEW r \in Jobs, NEW file \in Files, LandFile(r, file)  PROVE EvidenceInv'
  <2>1. Visited(state[r]) = {}
    BY <1>1 DEF LandFile, Visited, Waiting
  <2> QED
    BY <1>1, <2>1, OpenEvidence DEF LandFile
<1>2. ASSUME NEW r \in Jobs, NEW output \in Outputs, WriteBronze(r, output)  PROVE EvidenceInv'
  <2>1. Visited(state[r]) = {"pre_bronze"}
    BY <1>2 DEF WriteBronze, Visited, Waiting
  <2>2. Visited([pc |-> "check", gate |-> "post_bronze", config |-> NoConfig, subject |-> output,
                 checks |-> BronzeChecks(output), results |-> <<>>]) = {"pre_bronze", "post_bronze"}
    BY DEF Visited, Waiting
  <2> QED
    BY <1>2, <2>1, <2>2, OpenEvidence DEF WriteBronze
<1>3. ASSUME NEW r \in Jobs, NEW input \in Inputs, ReadInput(r, input)  PROVE EvidenceInv'
  <2>1. Visited(state[r]) = {}
    BY <1>3 DEF ReadInput, Visited, Waiting
  <2> QED
    BY <1>3, <2>1, OpenEvidence DEF ReadInput
<1>4. ASSUME NEW r \in Jobs, NEW rows \in Tables, NEW files \in Saved, Transform(r, rows, files)
      PROVE  EvidenceInv'
  <2> DEFINE table == [columns |-> Published, rows |-> rows, files |-> files]
             config == state[r].config
  <2>1. Visited(state[r]) = {"pre_silver"}
    BY <1>4 DEF Transform, Visited, Waiting
  <2>2. Visited([pc |-> "check", gate |-> "post_silver", config |-> config, subject |-> table,
                 checks |-> OutputChecks(config, table), results |-> <<>>])
          = {"pre_silver", "post_silver"}
    BY DEF Visited, Waiting
  <2>3. Open(r, "post_silver", config, table, OutputChecks(config, table)) /\ Kept
    BY <1>4 DEF Transform
  <2> QED
    BY <2>1, <2>2, <2>3, OpenEvidence
<1>5. ASSUME NEW r \in Jobs, NEW config \in Configs, Configure(r, config)  PROVE EvidenceInv'
  <2>1. state[r].pc = "idle"
    BY <1>5 DEF Configure
  <2>2. /\ \A q \in Jobs \ {r} : state'[q] = state[q]
        /\ state'[r].pc \in {"configured", "refused"}
        /\ state'[r].gate = state[r].gate /\ state'[r].checks = state[r].checks
        /\ state'[r].results = state[r].results
    <3> DEFINE pc == IF Loads(config) /\ Valid(config) THEN "configured" ELSE "refused"
               n == [state[r] EXCEPT !.pc = pc, !.config = config]
    <3>1. state' = [state EXCEPT ![r] = n] /\ state = [q \in Jobs |-> state[q]]
      BY <1>5 DEF Configure, GatesInv, JobsOK
    <3>2. IsJob(state[r])
      BY DEF GatesInv, JobsOK, JobOK, IsJob
    <3>3. pc \in {"configured", "refused"}
      OBVIOUS
    <3> HIDE DEF pc
    <3>4. n = [pc |-> pc, gate |-> state[r].gate, config |-> config, subject |-> state[r].subject,
               checks |-> state[r].checks, results |-> state[r].results]
      BY <3>2, TwoFields
    <3> HIDE DEF n
    <3> QED
      BY <3>1, <3>3, <3>4
  <2>3. evidence' = evidence /\ definitions' = definitions
    BY <1>5 DEF Configure, Kept
  <2>4. Visited(state'[r]) = Visited(state[r])
    BY <2>1, <2>2 DEF Visited, Waiting
  <2>5. state[r].checks = <<>> /\ state[r].results = <<>>
    BY <2>1 DEF GatesInv, JobsOK, JobOK, Waiting
  <2>6. Len(state[r].results) <= Len(state[r].checks)
    BY <2>5
  <2>7. \A q \in Jobs :
            /\ \A i \in DOMAIN evidence' :
                  evidence'[i].job = q => evidence'[i].id[1] \in Visited(state'[q])
            /\ Recorded(q)'
    BY <2>1, <2>2, <2>3, <2>4, <2>6, QuietEvidence
  <2>8. \A q \in Jobs : Undisputed /\ state'[q].pc = "insert"
            => definitions'[CheckId(q)'].severity = Current(q)'.severity
    BY <2>2, <2>3, SeveritiesKept
  <2> QED
    BY <2>7, <2>8 DEF EvidenceInv, Undisputed, OneSeverity
<1>6. ASSUME NEW r \in Jobs, UpsertDefinition(r)  PROVE EvidenceInv'
  BY <1>6, UpsertEvidence DEF UpsertDefinition
<1>7. ASSUME NEW r \in Jobs, InsertRun(r)  PROVE EvidenceInv'
  <2> DEFINE s == state[r]
             results == Append(s.results, Current(r))
             pc == IF Len(results) < Len(s.checks) THEN "check"
                   ELSE IF Blocked(results) THEN "blocked" ELSE "passed"
             n == [s EXCEPT !.results = results, !.pc = pc]
  <2>1. state' = [state EXCEPT ![r] = n] /\ state = [q \in Jobs |-> state[q]]
        /\ s.pc = "insert" /\ RunInserted(r) /\ definitions' = definitions
    BY <1>7 DEF InsertRun, GatesInv, JobsOK
  <2>2. IsJob(s)
    BY DEF GatesInv, JobsOK, JobOK, IsJob
  <2>3. pc \in {"check"} \cup Ended
    BY DEF Ended
  <2>4. Len(results) = Len(s.results) + 1
    <3>1. s.results \in Seq(Range(s.checks)) /\ Current(r) \in Range(s.checks)
      BY <2>1, CurrentFacts DEF GatesInv, JobsOK, JobOK, Progress, Waiting
    <3> QED
      BY <3>1
  <2> HIDE DEF pc, results
  <2>5. n = [pc |-> pc, gate |-> s.gate, config |-> s.config, subject |-> s.subject,
             checks |-> s.checks, results |-> results]
    <3> HIDE DEF s
    <3> QED
      BY <2>2, TwoFields
  <2> HIDE DEF n
  <2>6. state'[r] = n /\ \A q \in Jobs \ {r} : state'[q] = state[q]
    BY <2>1
  <2>7. /\ state'[r].gate = s.gate /\ state'[r].checks = s.checks /\ state'[r].results = results
        /\ state'[r].pc = pc
    BY <2>5, <2>6
  <2> QED
    BY <2>1, <2>3, <2>4, <2>6, <2>7, InsertEvidence
<1>8. ASSUME NEW r \in Jobs, StoreFails(r)  PROVE EvidenceInv'
  BY <1>8, FailEvidence
<1>9. CASE UNCHANGED gatesVars
  <2>1. state' = state /\ evidence' = evidence /\ definitions' = definitions
    BY <1>9 DEF gatesVars
  <2>2. ASSUME NEW q \in Jobs
        PROVE  /\ \A i \in DOMAIN evidence' :
                     evidence'[i].job = q => evidence'[i].id[1] \in Visited(state'[q])
               /\ Recorded(q)'
               /\ Undisputed /\ state'[q].pc = "insert"
                     => definitions'[CheckId(q)'].severity = Current(q)'.severity
    <3>1. state'[q] = state[q]
      BY <2>1
    <3>2. /\ \A i \in DOMAIN evidence' :
                evidence'[i].job = q => evidence'[i].id[1] \in Visited(state'[q])
          /\ Recorded(q)'
      BY <2>1, <3>1, OthersKept
    <3>3. CheckId(q)' = CheckId(q) /\ Current(q)' = Current(q)
      BY <3>1, CheckIdFrame
    <3> QED
      BY <2>1, <3>1, <3>2, <3>3 DEF EvidenceInv
  <2> QED
    BY <2>2 DEF EvidenceInv, Undisputed, OneSeverity
<1> QED
  BY <1>1, <1>2, <1>3, <1>4, <1>5, <1>6, <1>7, <1>8, <1>9 DEF GatesNext

LEMMA CompleteFacts == GatesInv /\ EvidenceInv => EvidenceComplete
<1> SUFFICES ASSUME GatesInv, EvidenceInv, NEW r \in Jobs
             PROVE  /\ Cardinality(RowsOf(r)) <= Len(state[r].checks)
                    /\ \A i \in RowsOf(r) :
                          LET check == state[r].checks[Place(r, i)]
                          IN  evidence[i].id[2] = check.key /\ evidence[i].status = check.status
                    /\ state[r].pc \in Ended => Cardinality(RowsOf(r)) = Len(state[r].checks)
  BY DEF EvidenceComplete
<1>1. Recorded(r)
  BY DEF EvidenceInv
<1>2. JobOK(state[r])
  BY DEF GatesInv, JobsOK
<1>3. state[r].pc # "failed" => Len(state[r].results) <= Len(state[r].checks)
  BY <1>2 DEF JobOK, Progress
<1>4. state[r].pc \in Ended => Len(state[r].results) = Len(state[r].checks)
  BY <1>2 DEF JobOK, Progress, Waiting, Ended
<1>5. state[r].pc \in Ended => state[r].pc # "failed"
  BY DEF Ended
<1>6. Cardinality(RowsOf(r)) <= Len(state[r].checks)
  BY <1>1, <1>3 DEF Recorded
<1> QED
  BY <1>1, <1>4, <1>5, <1>6 DEF Recorded, Tells

LEMMA VerdictTold == GatesInv /\ EvidenceInv /\ Undisputed => EvidenceTellsVerdict
<1> SUFFICES ASSUME GatesInv, EvidenceInv, Undisputed, NEW r \in Jobs, state[r].pc \in Ended
             PROVE  state[r].pc = "blocked" <=>
                        \E i \in RowsOf(r) : /\ evidence[i].status \in {"failed", "error"}
                                             /\ evidence[i].severity = "blocking"
  BY DEF EvidenceTellsVerdict
<1> DEFINE checks == state[r].checks
<1>1. AtGate(state[r]) /\ (state[r].pc = "blocked" <=> Blocked(checks))
  BY AtEnd
<1>2. Recorded(r) /\ Cardinality(RowsOf(r)) = Len(checks)
  BY CompleteFacts DEF EvidenceInv, EvidenceComplete
<1>3. DOMAIN checks = 1 .. Len(checks)
  BY <1>1, GateChecks DEF ChecksKnown
<1>4. /\ \A i \in RowsOf(r) : Place(r, i) \in DOMAIN checks
      /\ \A k \in DOMAIN checks : \E i \in RowsOf(r) : Place(r, i) = k
  BY <1>2, <1>3 DEF Recorded, Ranked, Rank, Place
<1>5. ASSUME NEW i \in RowsOf(r)
      PROVE  /\ evidence[i].status = checks[Place(r, i)].status
             /\ evidence[i].severity = checks[Place(r, i)].severity
  BY <1>2 DEF Recorded, Tells
<1> HIDE DEF checks
<1>6. Blocked(checks) <=> \E k \in DOMAIN checks : /\ checks[k].status \in {"failed", "error"}
                                                   /\ checks[k].severity = "blocking"
  BY DEF Blocked
<1>7. ASSUME Blocked(checks)
      PROVE  \E i \in RowsOf(r) : /\ evidence[i].status \in {"failed", "error"}
                                  /\ evidence[i].severity = "blocking"
  <2>1. PICK k \in DOMAIN checks : /\ checks[k].status \in {"failed", "error"}
                                   /\ checks[k].severity = "blocking"
    BY <1>6, <1>7
  <2>2. PICK i \in RowsOf(r) : Place(r, i) = k
    BY <1>4
  <2> QED
    BY <1>5, <2>1, <2>2
<1>8. ASSUME NEW i \in RowsOf(r), evidence[i].status \in {"failed", "error"},
             evidence[i].severity = "blocking"
      PROVE  Blocked(checks)
  BY <1>4, <1>5, <1>6, <1>8
<1> QED
  BY <1>1, <1>7, <1>8

LEMMA EvidenceInvariant == GatesSpec => []EvidenceInv
BY EvidenceInitially, EvidenceStep, GatesInvariant, PTL DEF GatesSpec

(* Whatever jobs run beside each other and whichever statement fails, the  *)
(* rows of a gate are those of its first checks, in order, and those of    *)
(* all its checks when it gave a verdict.                                  *)
THEOREM EvidenceCompleteCorrect == GatesSpec => []EvidenceComplete
BY CompleteFacts, EvidenceInvariant, GatesInvariant, PTL

(* Where no two rules with one id differ in severity, or there is only one *)
(* job, the rows of evidence also tell the verdict of every gate.          *)
THEOREM EvidenceIsTrueCorrect == ASSUME Undisputed PROVE GatesSpec => []EvidenceIsTrue
<1>1. GatesInv /\ EvidenceInv => EvidenceIsTrue
  BY CompleteFacts, VerdictTold DEF EvidenceIsTrue
<1> QED
  BY <1>1, EvidenceInvariant, GatesInvariant, PTL
=============================================================================
