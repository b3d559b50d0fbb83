--------------------- MODULE PublicationProjection_proofs ---------------------
(***************************************************************************)
(* The pointer never dangles, health rows are conservative and the pointer *)
(* never goes back, for any number of processes, publications and tables.  *)
(* The second half is about the audit of the same command: what its clean  *)
(* report proves, and that its report is kept, for any number of operators *)
(* and publications, and whatever is damaged or fails meanwhile.           *)
(***************************************************************************)
EXTENDS PublicationProjection, PublicationAudit, PublicationCatalog_proofs

(* Only what was published is ever projected.                              *)
Begun == \A w \in Workers : worker[w].at # "idle" => Published # {}

(* A process that writes the latest views has written all that are no      *)
(* longer left, of one publication.                                        *)
LatestWritten ==
    \A w \in Workers : worker[w].at = "writing" /\ worker[w].kind = "current" =>
        \E x \in Published :
            worker[w].found = {x} /\ {x} \X (TablesOf[x] \ worker[w].left) \subseteq latestViews

Listed(tables) == \A t \in tables : historyViews[t] = Entries(active, t)

(* What the process r has read, written and expects is still true.         *)
Fresh(r) ==
    /\ r.at # "idle" /\ r.kind = "current" => r.expected = FindCurrent
    /\ r.at = "writing" /\ r.kind = "current" => r.found = {FindCurrent}
    /\ r.at = "marking" /\ r.kind = "current" => pointer = r.expected
    /\ r.at = "writing" /\ r.kind = "history" =>
          r.found = active /\ Listed(TablesShown(active) \ r.left)
    /\ r.at = "marking" /\ r.kind = "history" => Listed(TablesShown(active))

(* Without an overlap there is one process at most, and it is fresh.       *)
Undisturbed ==
    /\ \A v, w \in Workers : worker[v].at # "idle" /\ worker[w].at # "idle" => v = w
    /\ \A w \in Workers : Fresh(worker[w])
    /\ SynchronizedPointer /\ SynchronizedHistory

ProjectionInv ==
    /\ TypeOK /\ CatalogInv /\ PointerTargetsExist /\ Begun /\ LatestWritten
    /\ ~ overlapped => Undisturbed

-----------------------------------------------------------------------------
Records == [at: Points, kind: Kinds, expected: MaybeBuild, found: SUBSET Builds,
            left: SUBSET Tables, historyId: MaybeBuild]
Rows == [status: RowStatus, expected: MaybeBuild, projected: MaybeBuild]

(* A step changes the record of one process.                               *)
Becomes(w, rec) ==
    /\ rec \in Records /\ worker' \in [Workers -> Records]
    /\ \A v \in Workers : worker'[v] = IF v = w THEN rec ELSE worker[v]

LEMMA WorkerChanges ==
    ASSUME TypeOK, NEW w \in Workers, NEW rec \in Records, worker' = [worker EXCEPT ![w] = rec]
    PROVE  Becomes(w, rec)
BY DEF TypeOK, Records, Becomes

LEMMA WorkerTyped == ASSUME TypeOK, NEW w \in Workers PROVE worker[w] \in Records
BY DEF TypeOK, Records

LEMMA FaultsTyped == ASSUME ProjectionInv, Fault PROVE faults' \in 0..MaxFaults
<1>1. faults \in 0..MaxFaults /\ faults < MaxFaults /\ faults' = faults + 1
  BY DEF ProjectionInv, TypeOK, Fault
<1> QED
  BY <1>1, FaultsAssumption

(* Once something is published there is a current publication and its      *)
(* partition has an active one.                                            *)
LEMMA CurrentExists ==
    ASSUME CatalogInv, Published # {}
    PROVE  FindCurrent \in current /\ FindCurrent \in Published /\ FindCurrent # None
<1>1. current # {}
  BY DEF CatalogInv, CurrentIsNewest
<1>2. FindCurrent \in current
  BY <1>1, OneOfFacts DEF FindCurrent
<1>3. FindCurrent \in Published
  BY <1>2 DEF CatalogInv, CurrentIsNewest
<1> QED
  BY <1>2, <1>3, NoneAssumption DEF Published

(* A step that leaves the publications alone leaves the catalog consistent.*)
LEMMA CatalogKept ==
    ASSUME CatalogInv, UNCHANGED <<revision, active, current, supersedes>>,
           projection' \in [Kinds -> Rows],
           projection'["current"].expected = projection["current"].expected
    PROVE  CatalogInv' /\ Published' = Published /\ FindCurrent' = FindCurrent
<1>1. Published' = Published /\ FindCurrent' = FindCurrent
  BY DEF Published, FindCurrent
<1>2. CatalogTypeOK' /\ (active \subseteq Published)'
  BY <1>1 DEF CatalogInv, CatalogTypeOK, Rows
<1>3. RevisionChain' /\ ActiveExists'
  BY <1>1 DEF CatalogInv, RevisionChain, ActiveExists
<1>4. CurrentIsNewest' /\ ExpectedIsCurrent'
  BY <1>1 DEF CatalogInv, CurrentIsNewest, ExpectedIsCurrent, PeriodOf
<1> QED
  BY <1>1, <1>2, <1>3, <1>4 DEF CatalogInv

-----------------------------------------------------------------------------
LEMMA ProjectionInitially == Init => ProjectionInv
<1> SUFFICES ASSUME Init PROVE ProjectionInv
  OBVIOUS
<1>1. CatalogInv
  BY CatalogInvInitially DEF Init
<1>2. Published = {}
  BY DEF Init, CatalogInit, Published
<1>3. Idle \in Records
  BY DEF Idle, Records, Points, Kinds, MaybeBuild
<1>4. TypeOK
  <2>1. faults \in 0..MaxFaults
    BY FaultsAssumption DEF Init
  <2> QED
    BY <1>1, <1>3, <2>1 DEF Init, TypeOK, CatalogInv, Records, MaybeBuild
<1>5. PointerTargetsExist /\ Begun /\ LatestWritten
  BY DEF Init, Idle, PointerTargetsExist, Begun, LatestWritten
<1>6. \A w \in Workers : worker[w] = Idle
  BY DEF Init
<1>7. \A w \in Workers : Fresh(worker[w])
  BY <1>6 DEF Idle, Fresh
<1>8. SynchronizedPointer /\ SynchronizedHistory
  BY DEF Init, CatalogInit, Kinds, SynchronizedPointer, SynchronizedHistory
<1> QED
  BY <1>1, <1>4, <1>5, <1>6, <1>7, <1>8 DEF ProjectionInv, Undisturbed, Idle

(* A command begins: it expects the publication that is current then.      *)
LEMMA CommandBegins ==
    ASSUME ProjectionInv, NEW w \in Workers, worker[w].at = "idle", NEW h \in MaybeBuild,
           Refresh(w, FindCurrent', h), CatalogInv', Published' # {},
           Published \subseteq Published', UNCHANGED <<files, faults>>,
           SynchronizedPointer => SynchronizedPointer',
           SynchronizedHistory => SynchronizedHistory'
    PROVE  ProjectionInv'
<1> DEFINE rec == [Idle EXCEPT !.at = "reading", !.expected = FindCurrent', !.historyId = h]
<1>1. FindCurrent' \in MaybeBuild
  BY CurrentExists DEF MaybeBuild, CatalogInv, CatalogTypeOK, FindCurrent, OneOf
<1>2. /\ rec \in Records /\ rec.at = "reading" /\ rec.kind = "current"
      /\ rec.expected = FindCurrent'
  BY <1>1 DEF Idle, Records, Points, Kinds, MaybeBuild
<1>3. worker' = [worker EXCEPT ![w] = rec]
      /\ overlapped' = (overlapped \/ \E v \in Workers : worker[v].at # "idle")
  BY DEF Refresh
<1> HIDE DEF rec
<1>4. Becomes(w, rec)
  BY <1>2, <1>3, WorkerChanges DEF ProjectionInv
<1>5. TypeOK'
  BY <1>3, <1>4 DEF ProjectionInv, TypeOK, Becomes, Records, files, CatalogInv
<1>6. PointerTargetsExist'
  BY DEF ProjectionInv, PointerTargetsExist, files
<1>7. Begun'
  BY DEF Begun
<1>8. LatestWritten'
  BY <1>2, <1>4 DEF ProjectionInv, LatestWritten, Becomes, files
<1>9. ~ overlapped' => Undisturbed'
  <2> SUFFICES ASSUME ~ overlapped' PROVE Undisturbed'
    OBVIOUS
  <2>1. ~ overlapped /\ \A v \in Workers : worker[v].at = "idle"
    BY <1>3
  <2>2. \A v \in Workers : v = w \/ worker'[v].at = "idle"
    BY <2>1, <1>4 DEF Becomes
  <2>3. \A v \in Workers : Fresh(worker[v])'
    BY <2>2, <1>2, <1>4 DEF Becomes, Fresh
  <2> QED
    BY <2>1, <2>2, <2>3 DEF ProjectionInv, Undisturbed
<1> QED
  BY <1>5, <1>6, <1>7, <1>8, <1>9 DEF ProjectionInv

-----------------------------------------------------------------------------
(* A step of a running process preserves the invariant if the catalog stays *)
(* consistent, the pointer does not dangle, and the process is fresh again. *)
LEMMA StepKeeps ==
    ASSUME ProjectionInv, NEW w \in Workers, worker[w].at # "idle", NEW rec, Becomes(w, rec),
           CatalogInv', UNCHANGED <<active, overlapped>>,
           Published' = Published, FindCurrent' = FindCurrent,
           pointer' \in MaybeBuild, latestViews' \in SUBSET (Builds \X Tables),
           historyViews' \in [Tables -> SUBSET Builds], faults' \in 0..MaxFaults,
           latestViews \subseteq latestViews', PointerTargetsExist',
           rec.at = "writing" /\ rec.kind = "current" =>
               \E x \in Published :
                   /\ rec.found = {x}
                   /\ {x} \X (TablesOf[x] \ rec.left) \subseteq latestViews',
           ~ overlapped => /\ Fresh(worker[w])'
                           /\ SynchronizedPointer'
                           /\ SynchronizedHistory'
    PROVE  ProjectionInv'
<1>1. TypeOK'
  BY DEF ProjectionInv, TypeOK, Becomes, Records, CatalogInv
<1>2. Begun'
  BY DEF ProjectionInv, Begun, Becomes
<1>3. LatestWritten'
  <2> SUFFICES ASSUME NEW v \in Workers, worker'[v].at = "writing", worker'[v].kind = "current"
               PROVE  \E x \in Published :
                          /\ worker'[v].found = {x}
                          /\ {x} \X (TablesOf[x] \ worker'[v].left) \subseteq latestViews'
    BY DEF LatestWritten
  <2>1. CASE v = w
    BY <2>1 DEF Becomes
  <2>2. CASE v # w
    BY <2>2 DEF Becomes, ProjectionInv, LatestWritten
  <2> QED
    BY <2>1, <2>2
<1>4. ASSUME ~ overlapped'  PROVE Undisturbed'
  <2>1. \A v \in Workers : v = w \/ (worker[v].at = "idle" /\ worker'[v].at = "idle")
    BY <1>4 DEF ProjectionInv, Undisturbed, Becomes
  <2>2. ASSUME NEW v \in Workers  PROVE Fresh(worker[v])'
    <3>1. CASE v = w
      BY <3>1, <1>4
    <3>2. CASE v # w
      BY <3>2, <2>1 DEF Fresh
    <3> QED
      BY <3>1, <3>2
  <2> QED
    BY <1>4, <2>1, <2>2 DEF Undisturbed
<1> QED
  BY <1>1, <1>2, <1>3, <1>4 DEF ProjectionInv

(* The same for a step that leaves the catalog alone.                      *)
LEMMA CatalogUntouched ==
    ASSUME ProjectionInv, UNCHANGED catalogVars
    PROVE  CatalogInv' /\ Published' = Published /\ FindCurrent' = FindCurrent /\ active' = active
<1>1. CatalogInv'
  BY CatalogInvStep DEF ProjectionInv
<1> QED
  BY <1>1 DEF catalogVars, Published, FindCurrent

(* What a running process relies on.                                       *)
LEMMA Running ==
    ASSUME ProjectionInv, NEW w \in Workers, worker[w].at # "idle"
    PROVE  /\ worker[w] \in Records
           /\ FindCurrent \in Published /\ FindCurrent # None
           /\ projection["current"].expected = FindCurrent
           /\ ~ overlapped => Fresh(worker[w]) /\ SynchronizedPointer /\ SynchronizedHistory
<1>1. Published # {}
  BY DEF ProjectionInv, Begun
<1> QED
  BY <1>1, CurrentExists, WorkerTyped
     DEF ProjectionInv, Undisturbed, CatalogInv, ExpectedIsCurrent

-----------------------------------------------------------------------------
LEMMA PublishThenRefreshKeeps ==
    ASSUME ProjectionInv, NEW w \in Workers, NEW b \in Builds, PublishThenRefresh(w, b)
    PROVE  ProjectionInv'
<1>1. CatalogInv /\ Publish(b)
  BY DEF ProjectionInv, PublishThenRefresh
<1>2. CatalogInv'
  BY <1>1, CatalogInvStep DEF CatalogNext
<1>3. Published' = Published \cup {b}
  BY <1>1, PublishFacts
<1>4. /\ worker[w].at = "idle" /\ UNCHANGED <<files, faults>>
      /\ Refresh(w, FindCurrent', b)
  BY DEF PublishThenRefresh, FindCurrent
<1>5. MarkPending(FindCurrent', b)
  BY <1>1 DEF Publish, InsertPublication, FindCurrent
<1>6. /\ projection'["current"] =
             IF projection["current"].expected = FindCurrent' THEN projection["current"]
             ELSE [projection["current"] EXCEPT !.status = "pending", !.expected = FindCurrent']
      /\ projection'["history"].status = "pending"
  BY <1>1, <1>5 DEF MarkPending, CatalogInv, CatalogTypeOK, Kinds
<1>7. SynchronizedPointer => SynchronizedPointer'
  BY <1>1, <1>4, <1>6 DEF SynchronizedPointer, files, CatalogInv, CatalogTypeOK, Kinds
<1>8. SynchronizedHistory'
  BY <1>6 DEF SynchronizedHistory
<1> QED
  BY <1>2, <1>3, <1>4, <1>7, <1>8, CommandBegins DEF MaybeBuild

LEMMA CommandKeeps ==
    ASSUME ProjectionInv, NEW w \in Workers, Command(w)
    PROVE  ProjectionInv'
<1>1. ASSUME worker[w].at = "idle", NEW h \in MaybeBuild, Refresh(w, FindCurrent, h),
             Published # {}, UNCHANGED <<catalogVars, files, faults>>
      PROVE  ProjectionInv'
  <2>1. CatalogInv' /\ Published' = Published /\ FindCurrent' = FindCurrent
    BY <1>1, CatalogUntouched
  <2>2. /\ SynchronizedPointer => SynchronizedPointer'
        /\ SynchronizedHistory => SynchronizedHistory'
    BY <1>1 DEF catalogVars, files, SynchronizedPointer, SynchronizedHistory
  <2> QED
    BY <1>1, <2>1, <2>2, CommandBegins
<1>2. CASE Reconcile(w)
  <2>1. current # {}
    BY <1>2, OneOfFacts DEF Reconcile, FindCurrent
  <2>2. Published # {}
    BY <2>1 DEF ProjectionInv, CatalogInv, CurrentIsNewest
  <2> QED
    BY <1>1, <1>2, <2>2 DEF Reconcile, MaybeBuild
<1>3. ASSUME NEW b \in Builds, PublishAgain(w, b)  PROVE ProjectionInv'
  BY <1>1, <1>3 DEF PublishAgain, MaybeBuild
<1> QED
  BY <1>2, <1>3, PublishThenRefreshKeeps DEF Command

-----------------------------------------------------------------------------
LEMMA ReadCurrentKeeps ==
    ASSUME ProjectionInv, NEW w \in Workers, ReadCurrent(w)
    PROVE  ProjectionInv'
<1> DEFINE r == worker[w]
           rec == [r EXCEPT !.at = "writing", !.found = {FindCurrent},
                            !.left = TablesShown({FindCurrent})]
<1>1. /\ r.at = "reading" /\ r.kind = "current" /\ worker' = [worker EXCEPT ![w] = rec]
      /\ UNCHANGED <<catalogVars, files, overlapped, faults>>
  BY DEF ReadCurrent, Read
<1>2. /\ r \in Records /\ FindCurrent \in Published /\ FindCurrent \in Builds
      /\ ~ overlapped => Fresh(r) /\ SynchronizedPointer /\ SynchronizedHistory
  BY <1>1, Running DEF Published
<1>3. TablesShown({FindCurrent}) = TablesOf[FindCurrent]
      /\ TablesOf[FindCurrent] \in SUBSET Tables
  BY <1>2, TablesAssumption DEF TablesShown
<1>4. /\ rec \in Records /\ rec.at = "writing" /\ rec.kind = "current"
      /\ rec.expected = r.expected
      /\ rec.found = {FindCurrent} /\ rec.left = TablesOf[FindCurrent]
  BY <1>1, <1>2, <1>3 DEF Records, Points
<1> HIDE DEF rec
<1>5. Becomes(w, rec) /\ worker'[w] = rec
  BY <1>1, <1>4, WorkerChanges DEF ProjectionInv, Becomes
<1>6. CatalogInv' /\ Published' = Published /\ FindCurrent' = FindCurrent /\ active' = active
  BY <1>1, CatalogUntouched
<1>7. PointerTargetsExist' /\ latestViews' = latestViews
  BY <1>1, <1>6 DEF ProjectionInv, PointerTargetsExist, files
<1>8. {FindCurrent} \X (TablesOf[FindCurrent] \ rec.left) \subseteq latestViews'
  BY <1>4
<1>9. ASSUME ~ overlapped
      PROVE  Fresh(worker[w])' /\ SynchronizedPointer' /\ SynchronizedHistory'
  BY <1>1, <1>2, <1>4, <1>5, <1>6, <1>9
     DEF Fresh, SynchronizedPointer, SynchronizedHistory, files, catalogVars
<1> QED
  BY <1>1, <1>2, <1>4, <1>5, <1>6, <1>7, <1>8, <1>9, StepKeeps
     DEF files, ProjectionInv, TypeOK

LEMMA ReadActiveKeeps ==
    ASSUME ProjectionInv, NEW w \in Workers, ReadActive(w)
    PROVE  ProjectionInv'
<1> DEFINE r == worker[w]
           rec == [r EXCEPT !.at = "writing", !.found = active, !.left = TablesShown(active)]
<1>1. /\ r.at = "reading" /\ r.kind = "history" /\ worker' = [worker EXCEPT ![w] = rec]
      /\ UNCHANGED <<catalogVars, files, overlapped, faults>>
  BY DEF ReadActive, Read
<1>2. /\ r \in Records
      /\ ~ overlapped => Fresh(r) /\ SynchronizedPointer /\ SynchronizedHistory
  BY <1>1, Running
<1>3. active \in SUBSET Builds /\ TablesShown(active) \in SUBSET Tables
  BY TablesAssumption DEF TablesShown, ProjectionInv, TypeOK, CatalogTypeOK
<1>4. /\ rec \in Records /\ rec.at = "writing" /\ rec.kind = "history"
      /\ rec.found = active /\ rec.left = TablesShown(active)
  BY <1>1, <1>2, <1>3 DEF Records, Points
<1> HIDE DEF rec
<1>5. Becomes(w, rec) /\ worker'[w] = rec
  BY <1>1, <1>4, WorkerChanges DEF ProjectionInv, Becomes
<1>6. CatalogInv' /\ Published' = Published /\ FindCurrent' = FindCurrent /\ active' = active
  BY <1>1, CatalogUntouched
<1>7. PointerTargetsExist' /\ latestViews' = latestViews
  BY <1>1, <1>6 DEF ProjectionInv, PointerTargetsExist, files
<1>8. ASSUME ~ overlapped
      PROVE  Fresh(worker[w])' /\ SynchronizedPointer' /\ SynchronizedHistory'
  <2>1. Fresh(worker[w])'
    BY <1>4, <1>5, <1>6 DEF Fresh, Listed, TablesShown
  <2> QED
    BY <1>1, <1>2, <1>8, <2>1 DEF SynchronizedPointer, SynchronizedHistory, files, catalogVars
<1> QED
  BY <1>1, <1>4, <1>5, <1>6, <1>7, <1>8, StepKeeps DEF files, ProjectionInv, TypeOK

(* Only a reconciler of the history does not know what to expect.          *)
LEMMA ReadHistoryExpectedKeeps ==
    ASSUME ProjectionInv, NEW w \in Workers, ReadHistoryExpected(w)
    PROVE  ProjectionInv'
<1> DEFINE r == worker[w]
           rec == [r EXCEPT !.expected = projection["history"].expected]
<1>1. /\ r.at = "reading" /\ r.expected = None /\ worker' = [worker EXCEPT ![w] = rec]
      /\ UNCHANGED <<catalogVars, files, overlapped, faults>>
  BY DEF ReadHistoryExpected
<1>2. /\ r \in Records /\ FindCurrent # None
      /\ ~ overlapped => Fresh(r) /\ SynchronizedPointer /\ SynchronizedHistory
  BY <1>1, Running
<1>3. projection["history"].expected \in MaybeBuild
  BY DEF ProjectionInv, TypeOK, CatalogTypeOK, Kinds
<1>4. rec \in Records /\ rec.at = "reading" /\ rec.kind = r.kind
  BY <1>1, <1>2, <1>3 DEF Records
<1> HIDE DEF rec
<1>5. Becomes(w, rec) /\ worker'[w] = rec
  BY <1>1, <1>4, WorkerChanges DEF ProjectionInv, Becomes
<1>6. CatalogInv' /\ Published' = Published /\ FindCurrent' = FindCurrent /\ active' = active
  BY <1>1, CatalogUntouched
<1>7. PointerTargetsExist' /\ latestViews' = latestViews
  BY <1>1, <1>6 DEF ProjectionInv, PointerTargetsExist, files
<1>8. ASSUME ~ overlapped
      PROVE  Fresh(worker[w])' /\ SynchronizedPointer' /\ SynchronizedHistory'
  <2>1. r.kind # "current"
    BY <1>1, <1>2, <1>8 DEF Fresh
  <2>2. Fresh(worker[w])'
    BY <2>1, <1>4, <1>5 DEF Fresh
  <2> QED
    BY <1>1, <1>2, <1>8, <2>2 DEF SynchronizedPointer, SynchronizedHistory, files, catalogVars
<1> QED
  BY <1>1, <1>4, <1>5, <1>6, <1>7, <1>8, StepKeeps DEF files, ProjectionInv, TypeOK

-----------------------------------------------------------------------------
LEMMA WriteLatestViewKeeps ==
    ASSUME ProjectionInv, NEW w \in Workers, NEW t \in Tables, WriteView(w, t),
           worker[w].kind = "current"
    PROVE  ProjectionInv'
<1> DEFINE r == worker[w]
           rec == [r EXCEPT !.left = @ \ {t}]
<1>1. /\ r.at = "writing" /\ t \in r.left
      /\ latestViews' = latestViews \cup (r.found \X {t}) /\ UNCHANGED historyViews
      /\ worker' = [worker EXCEPT ![w].left = @ \ {t}, ![w].at = @]
      /\ UNCHANGED <<catalogVars, pointer, overlapped, faults>>
  BY DEF WriteView
<1>2. /\ r \in Records
      /\ ~ overlapped => Fresh(r) /\ SynchronizedPointer /\ SynchronizedHistory
  BY <1>1, Running
<1>3. worker' = [worker EXCEPT ![w] = rec]
  BY <1>1, <1>2 DEF ProjectionInv, TypeOK, Records
<1>4. /\ rec \in Records /\ rec.at = "writing" /\ rec.kind = "current"
      /\ rec.expected = r.expected /\ rec.found = r.found /\ rec.left = r.left \ {t}
  BY <1>1, <1>2 DEF Records
<1>5. PICK x \in Published :
          /\ r.found = {x}
          /\ {x} \X (TablesOf[x] \ r.left) \subseteq latestViews
  BY <1>1 DEF ProjectionInv, LatestWritten
<1> HIDE DEF rec
<1>6. Becomes(w, rec) /\ worker'[w] = rec
  BY <1>3, <1>4, WorkerChanges DEF ProjectionInv, Becomes
<1>7. CatalogInv' /\ Published' = Published /\ FindCurrent' = FindCurrent /\ active' = active
  BY <1>1, CatalogUntouched
<1>8. latestViews' \in SUBSET (Builds \X Tables) /\ latestViews \subseteq latestViews'
  BY <1>1, <1>5 DEF ProjectionInv, TypeOK, Published
<1>9. {x} \X (TablesOf[x] \ rec.left) \subseteq latestViews'
  BY <1>1, <1>4, <1>5
<1>10. PointerTargetsExist'
  BY <1>1, <1>7, <1>8 DEF ProjectionInv, PointerTargetsExist
<1>11. ASSUME ~ overlapped
       PROVE  Fresh(worker[w])' /\ SynchronizedPointer' /\ SynchronizedHistory'
  BY <1>1, <1>2, <1>4, <1>6, <1>7, <1>11
     DEF Fresh, SynchronizedPointer, SynchronizedHistory, catalogVars
<1>12. /\ pointer' \in MaybeBuild /\ faults' \in 0..MaxFaults
       /\ historyViews' \in [Tables -> SUBSET Builds]
  BY <1>1 DEF ProjectionInv, TypeOK
<1>13. rec.at = "writing" /\ rec.kind = "current" =>
           \E y \in Published :
               /\ rec.found = {y}
               /\ {y} \X (TablesOf[y] \ rec.left) \subseteq latestViews'
  BY <1>4, <1>5, <1>9
<1> QED
  BY <1>1, <1>6, <1>7, <1>8, <1>10, <1>11, <1>12, <1>13, StepKeeps

LEMMA WriteHistoryViewKeeps ==
    ASSUME ProjectionInv, NEW w \in Workers, NEW t \in Tables, WriteView(w, t),
           worker[w].kind # "current"
    PROVE  ProjectionInv'
<1> DEFINE r == worker[w]
           next == IF r.left = {t} THEN "marking" ELSE "writing"
           rec == [r EXCEPT !.left = @ \ {t}, !.at = next]
<1>1. /\ r.at = "writing" /\ t \in r.left
      /\ historyViews' = [historyViews EXCEPT ![t] = Entries(r.found, t)]
      /\ UNCHANGED latestViews
      /\ worker' = [worker EXCEPT ![w].left = @ \ {t},
                       ![w].at = IF r.kind = "history" /\ r.left = {t} THEN "marking" ELSE @]
      /\ UNCHANGED <<catalogVars, pointer, overlapped, faults>>
  BY DEF WriteView
<1>2. /\ r \in Records
      /\ ~ overlapped => Fresh(r) /\ SynchronizedPointer /\ SynchronizedHistory
  BY <1>1, Running
<1>3. r.kind = "history"
  BY <1>2 DEF Records, Kinds
<1>4. worker' = [worker EXCEPT ![w] = rec]
  BY <1>1, <1>2, <1>3 DEF ProjectionInv, TypeOK, Records
<1>5. /\ rec \in Records /\ rec.at = next /\ rec.kind = "history"
      /\ rec.found = r.found /\ rec.left = r.left \ {t}
  BY <1>1, <1>2, <1>3 DEF Records, Points
<1> HIDE DEF rec
<1>6. Becomes(w, rec) /\ worker'[w] = rec
  BY <1>4, <1>5, WorkerChanges DEF ProjectionInv, Becomes
<1>7. CatalogInv' /\ Published' = Published /\ FindCurrent' = FindCurrent /\ active' = active
  BY <1>1, CatalogUntouched
<1>8. /\ historyViews' \in [Tables -> SUBSET Builds]
      /\ \A u \in Tables : historyViews'[u] = IF u = t THEN Entries(r.found, t)
                                              ELSE historyViews[u]
  BY <1>1, <1>2 DEF ProjectionInv, TypeOK, Entries, Records
<1>9. PointerTargetsExist'
  BY <1>1, <1>7 DEF ProjectionInv, PointerTargetsExist
<1>10. ASSUME ~ overlapped
       PROVE  Fresh(worker[w])' /\ SynchronizedPointer' /\ SynchronizedHistory'
  <2>1. r.found = active /\ Listed(TablesShown(active) \ r.left)
    BY <1>1, <1>2, <1>3, <1>10 DEF Fresh
  <2>2. TablesShown(active) \in SUBSET Tables /\ TablesShown(active)' = TablesShown(active)
    BY <1>7, TablesAssumption DEF ProjectionInv, TypeOK, CatalogTypeOK, TablesShown
  <2>3. \A u \in TablesShown(active) \ (r.left \ {t}) : historyViews'[u] = Entries(active, u)
    BY <2>1, <2>2, <1>8 DEF Listed
  <2>4. (next = "marking" => r.left \ {t} = {}) /\ next # "reading"
    OBVIOUS
  <2> HIDE DEF next
  <2>5. Fresh(worker[w])'
    BY <2>1, <2>2, <2>3, <2>4, <1>5, <1>6, <1>7 DEF Fresh, Listed, Entries
  <2>6. SynchronizedHistory'
    BY <2>1, <2>2, <1>1, <1>2, <1>7, <1>8, <1>10 DEF SynchronizedHistory, Entries, catalogVars
  <2>7. SynchronizedPointer'
    BY <1>1, <1>2, <1>10 DEF SynchronizedPointer, catalogVars
  <2> QED
    BY <2>5, <2>6, <2>7
<1>11. /\ pointer' \in MaybeBuild /\ faults' \in 0..MaxFaults
       /\ latestViews' \in SUBSET (Builds \X Tables) /\ latestViews' = latestViews
  BY <1>1 DEF ProjectionInv, TypeOK
<1> QED
  BY <1>1, <1>5, <1>6, <1>7, <1>8, <1>9, <1>10, <1>11, StepKeeps

(* Without an overlap the pointer is set to the current publication.       *)
LEMMA WrittenPointer ==
    ASSUME ProjectionInv, NEW w \in Workers, WritePointer(w)
    PROVE  /\ pointer' \in Published
           /\ {pointer'} \X TablesOf[pointer'] \subseteq latestViews
           /\ ~ overlapped => pointer' = FindCurrent
<1>1. PICK x \in Published :
          /\ worker[w].found = {x}
          /\ {x} \X (TablesOf[x] \ worker[w].left) \subseteq latestViews
  BY DEF WritePointer, ProjectionInv, LatestWritten
<1>2. pointer' = x /\ worker[w].left = {}
  BY <1>1, OneOfFacts DEF WritePointer
<1>3. ~ overlapped => worker[w].found = {FindCurrent}
  BY Running DEF WritePointer, Fresh
<1> QED
  BY <1>1, <1>2, <1>3

LEMMA WritePointerKeeps ==
    ASSUME ProjectionInv, NEW w \in Workers, WritePointer(w)
    PROVE  ProjectionInv'
<1> DEFINE r == worker[w]
           next == IF OneOf(r.found) = r.expected THEN "marking" ELSE "failed"
           rec == [r EXCEPT !.at = next]
<1>1. /\ r.at = "writing" /\ r.kind = "current"
      /\ pointer' = OneOf(r.found)
      /\ worker' = [worker EXCEPT ![w] = rec]
      /\ UNCHANGED <<catalogVars, latestViews, historyViews, overlapped, faults>>
  BY DEF WritePointer
<1>2. /\ r \in Records
      /\ projection["current"].expected = FindCurrent
      /\ ~ overlapped => Fresh(r) /\ SynchronizedPointer /\ SynchronizedHistory
  BY <1>1, Running
<1>3. /\ rec \in Records /\ rec.at = next /\ rec.kind = "current" /\ rec.expected = r.expected
  BY <1>1, <1>2 DEF Records, Points
<1>4. next \in {"marking", "failed"} /\ (next = "marking" => pointer' = r.expected)
  BY <1>1
<1> HIDE DEF rec, next
<1>5. Becomes(w, rec) /\ worker'[w] = rec
  BY <1>1, <1>3, WorkerChanges DEF ProjectionInv, Becomes
<1>6. CatalogInv' /\ Published' = Published /\ FindCurrent' = FindCurrent /\ active' = active
  BY <1>1, CatalogUntouched
<1>7. PointerTargetsExist' /\ pointer' \in MaybeBuild
  BY <1>1, <1>6, WrittenPointer DEF PointerTargetsExist, Published, MaybeBuild
<1>8. ASSUME ~ overlapped
      PROVE  Fresh(worker[w])' /\ SynchronizedPointer' /\ SynchronizedHistory'
  <2>1. pointer' = FindCurrent
    BY <1>8, WrittenPointer
  <2>2. Fresh(worker[w])'
    BY <1>1, <1>2, <1>3, <1>4, <1>5, <1>6, <1>8 DEF Fresh
  <2> QED
    BY <2>1, <2>2, <1>1, <1>2, <1>8 DEF SynchronizedPointer, SynchronizedHistory, catalogVars
<1>9. /\ faults' \in 0..MaxFaults /\ historyViews' \in [Tables -> SUBSET Builds]
      /\ latestViews' \in SUBSET (Builds \X Tables) /\ latestViews' = latestViews
  BY <1>1 DEF ProjectionInv, TypeOK
<1> QED
  BY <1>1, <1>3, <1>4, <1>5, <1>6, <1>7, <1>8, <1>9, StepKeeps

-----------------------------------------------------------------------------
(* What follows a projection: the history projection, or the end.          *)
LEMMA NextProjectionBecomes ==
    ASSUME ProjectionInv, NEW w \in Workers, NextProjection(w)
    PROVE  \E rec \in Records :
               /\ Becomes(w, rec)
               /\ rec.at \in {"idle", "reading"}
               /\ rec.at = "reading" => rec.kind = "history"
<1> DEFINE history == [Idle EXCEPT !.at = "reading", !.kind = "history",
                                   !.expected = worker[w].historyId]
           rec == IF worker[w].kind = "current" THEN history ELSE Idle
<1>1. worker[w] \in Records
  BY WorkerTyped DEF ProjectionInv
<1>2. history \in Records /\ history.at = "reading" /\ history.kind = "history"
  BY <1>1 DEF Idle, Records, Points, Kinds, MaybeBuild
<1>3. Idle \in Records /\ Idle.at = "idle"
  BY DEF Idle, Records, Points, Kinds, MaybeBuild
<1>4. worker' = [worker EXCEPT ![w] = rec]
  BY DEF NextProjection
<1> HIDE DEF history
<1>5. rec \in Records /\ rec.at \in {"idle", "reading"}
      /\ (rec.at = "reading" => rec.kind = "history")
  BY <1>2, <1>3
<1> HIDE DEF rec
<1> QED
  BY <1>4, <1>5, WorkerChanges DEF ProjectionInv

(* A step after which a process is no longer writing or marking, and which *)
(* touches no file, may change the rows as long as they stay true.         *)
LEMMA RowsKeep ==
    ASSUME ProjectionInv, NEW w \in Workers, worker[w].at # "idle", NEW rec, Becomes(w, rec),
           rec.at \in {"idle", "reading", "failed"},
           rec.at # "idle" /\ rec.kind = "current" => rec.expected = worker[w].expected
                                                      /\ worker[w].kind = "current",
           UNCHANGED <<revision, active, current, supersedes, files, overlapped>>,
           faults' \in 0..MaxFaults, projection' \in [Kinds -> Rows],
           projection'["current"].expected = projection["current"].expected,
           ~ overlapped => SynchronizedPointer' /\ SynchronizedHistory'
    PROVE  ProjectionInv'
<1>1. CatalogInv' /\ Published' = Published /\ FindCurrent' = FindCurrent
  BY CatalogKept DEF ProjectionInv
<1>2. PointerTargetsExist'
  BY <1>1 DEF ProjectionInv, PointerTargetsExist, files
<1>3. ASSUME ~ overlapped  PROVE Fresh(worker[w])'
  <2>1. Fresh(worker[w])
    BY <1>3, Running
  <2>2. worker'[w] = rec
    BY DEF Becomes
  <2> QED
    BY <1>1, <2>1, <2>2 DEF Fresh
<1>4. /\ pointer' \in MaybeBuild /\ historyViews' \in [Tables -> SUBSET Builds]
      /\ latestViews' \in SUBSET (Builds \X Tables) /\ latestViews' = latestViews
  BY DEF ProjectionInv, TypeOK, files
<1> QED
  BY <1>1, <1>2, <1>3, <1>4, StepKeeps

LEMMA MarkSynchronizedKeeps ==
    ASSUME ProjectionInv, NEW w \in Workers, MarkSynchronized(w)
    PROVE  ProjectionInv'
<1> DEFINE r == worker[w]
<1>1. /\ r.at = "marking"
      /\ UNCHANGED <<revision, active, current, supersedes, files, overlapped, faults>>
  BY DEF MarkSynchronized
<1>2. /\ r \in Records
      /\ ~ overlapped => Fresh(r) /\ SynchronizedPointer /\ SynchronizedHistory
  BY <1>1, Running
<1>3. projection \in [Kinds -> Rows] /\ faults' \in 0..MaxFaults
  BY <1>1 DEF ProjectionInv, TypeOK, CatalogTypeOK, Rows
<1>4. CASE RowMatches(r)
  <2> DEFINE row == [projection[r.kind] EXCEPT !.status = "synchronized",
                                               !.projected = r.expected]
  <2>1. projection' = [projection EXCEPT ![r.kind] = row] /\ NextProjection(w)
    BY <1>4 DEF MarkSynchronized
  <2>2. r.kind \in Kinds /\ row \in Rows /\ row.expected = r.expected
        /\ projection[r.kind].expected = r.expected
    BY <1>2, <1>3, <1>4 DEF RowMatches, Records, Rows, RowStatus
  <2> HIDE DEF row
  <2>3. /\ projection' \in [Kinds -> Rows]
        /\ \A k \in Kinds : projection'[k] = IF k = r.kind THEN row ELSE projection[k]
    BY <1>3, <2>1, <2>2
  <2>4. projection'["current"].expected = projection["current"].expected
    BY <2>2, <2>3 DEF Kinds
  <2>5. PICK rec \in Records :
            /\ Becomes(w, rec)
            /\ rec.at \in {"idle", "reading"}
            /\ rec.at = "reading" => rec.kind = "history"
    BY <2>1, NextProjectionBecomes
  <2>6. ASSUME ~ overlapped  PROVE SynchronizedPointer' /\ SynchronizedHistory'
    <3>1. Fresh(r) /\ SynchronizedPointer /\ SynchronizedHistory
      BY <1>2, <2>6
    <3>2. SynchronizedPointer'
      BY <1>1, <2>2, <2>3, <3>1 DEF SynchronizedPointer, Fresh, files, Kinds
    <3>3. r.kind = "history" => Listed(TablesShown(active))
      BY <1>1, <3>1 DEF Fresh
    <3>4. SynchronizedHistory'
      BY <1>1, <2>2, <2>3, <3>1, <3>3 DEF SynchronizedHistory, Listed, files, Kinds
    <3> QED
      BY <3>2, <3>4
  <2> QED
    BY <1>1, <1>3, <2>3, <2>4, <2>5, <2>6, RowsKeep
<1>5. CASE ~ RowMatches(r)
  <2> DEFINE rec == [r EXCEPT !.at = "failed"]
  <2>1. worker' = [worker EXCEPT ![w] = rec] /\ UNCHANGED projection
    BY <1>5 DEF MarkSynchronized
  <2>2. rec \in Records /\ rec.at = "failed" /\ rec.kind = r.kind /\ rec.expected = r.expected
    BY <1>2 DEF Records, Points
  <2> HIDE DEF rec
  <2>3. Becomes(w, rec)
    BY <2>1, <2>2, WorkerChanges DEF ProjectionInv
  <2>4. ~ overlapped => SynchronizedPointer' /\ SynchronizedHistory'
    BY <1>1, <1>2, <2>1 DEF SynchronizedPointer, SynchronizedHistory, files
  <2> QED
    BY <1>1, <1>3, <2>1, <2>2, <2>3, <2>4, RowsKeep
<1> QED
  BY <1>4, <1>5

LEMMA MarkStaleKeeps ==
    ASSUME ProjectionInv, NEW w \in Workers, MarkStale(w)
    PROVE  ProjectionInv'
<1> DEFINE r == worker[w]
           row == [projection[r.kind] EXCEPT !.status = "stale"]
<1>1. /\ r.at = "failed" /\ NextProjection(w)
      /\ projection' = IF RowMatches(r) THEN [projection EXCEPT ![r.kind] = row] ELSE projection
      /\ UNCHANGED <<revision, active, current, supersedes, files, overlapped, faults>>
  BY DEF MarkStale
<1>2. /\ r \in Records
      /\ ~ overlapped => Fresh(r) /\ SynchronizedPointer /\ SynchronizedHistory
  BY <1>1, Running
<1>3. projection \in [Kinds -> Rows] /\ faults' \in 0..MaxFaults
  BY <1>1 DEF ProjectionInv, TypeOK, CatalogTypeOK, Rows
<1>4. r.kind \in Kinds /\ row \in Rows /\ row.status = "stale"
      /\ row.expected = projection[r.kind].expected
  BY <1>2, <1>3 DEF Records, Rows, RowStatus
<1> HIDE DEF row
<1>5. /\ projection' \in [Kinds -> Rows]
      /\ \A k \in Kinds : projection'[k] = projection[k] \/ (k = r.kind /\ projection'[k] = row)
  BY <1>1, <1>3, <1>4
<1>6. projection'["current"].expected = projection["current"].expected
  BY <1>4, <1>5 DEF Kinds
<1>7. PICK rec \in Records :
          /\ Becomes(w, rec)
          /\ rec.at \in {"idle", "reading"}
          /\ rec.at = "reading" => rec.kind = "history"
  BY <1>1, NextProjectionBecomes
<1>8. ~ overlapped => SynchronizedPointer' /\ SynchronizedHistory'
  BY <1>1, <1>2, <1>4, <1>5 DEF SynchronizedPointer, SynchronizedHistory, files, Kinds
<1> QED
  BY <1>1, <1>3, <1>5, <1>6, <1>7, <1>8, RowsKeep

(* A failure or a crash leaves files and rows as they are.                 *)
LEMMA FaultsKeep ==
    ASSUME ProjectionInv, NEW w \in Workers, Fail(w) \/ FailToMarkStale(w) \/ Crash(w)
    PROVE  ProjectionInv'
<1>1. Fault /\ worker[w].at # "idle" /\ UNCHANGED <<catalogVars, files, overlapped>>
  BY DEF Fail, FailToMarkStale, Crash
<1>2. /\ worker[w] \in Records
      /\ ~ overlapped => SynchronizedPointer /\ SynchronizedHistory
  BY <1>1, Running
<1>3. /\ faults' \in 0..MaxFaults /\ projection' \in [Kinds -> Rows]
      /\ projection'["current"].expected = projection["current"].expected
      /\ ~ overlapped => SynchronizedPointer' /\ SynchronizedHistory'
      /\ UNCHANGED <<revision, active, current, supersedes, files, overlapped>>
  BY <1>1, <1>2, FaultsTyped
     DEF catalogVars, files, SynchronizedPointer, SynchronizedHistory, ProjectionInv, TypeOK,
         CatalogTypeOK, Rows
<1>4. CASE Fail(w)
  <2> DEFINE rec == [worker[w] EXCEPT !.at = "failed"]
  <2>1. worker' = [worker EXCEPT ![w] = rec]
    BY <1>4 DEF Fail
  <2>2. /\ rec \in Records /\ rec.at = "failed" /\ rec.kind = worker[w].kind
        /\ rec.expected = worker[w].expected
    BY <1>2 DEF Records, Points
  <2> HIDE DEF rec
  <2>3. Becomes(w, rec)
    BY <2>1, <2>2, WorkerChanges DEF ProjectionInv
  <2> QED
    BY <1>1, <1>3, <2>2, <2>3, RowsKeep
<1>5. CASE FailToMarkStale(w)
  <2>1. PICK rec \in Records :
            /\ Becomes(w, rec)
            /\ rec.at \in {"idle", "reading"}
            /\ rec.at = "reading" => rec.kind = "history"
    BY <1>5, NextProjectionBecomes DEF FailToMarkStale
  <2> QED
    BY <1>1, <1>3, <2>1, RowsKeep
<1>6. CASE Crash(w)
  <2>1. Idle \in Records /\ Idle.at = "idle"
    BY DEF Idle, Records, Points, Kinds, MaybeBuild
  <2>2. Becomes(w, Idle)
    BY <1>6, <2>1, WorkerChanges DEF Crash, ProjectionInv
  <2> QED
    BY <1>1, <1>3, <2>1, <2>2, RowsKeep
<1> QED
  BY <1>4, <1>5, <1>6

-----------------------------------------------------------------------------
LEMMA ProjectionStep == ProjectionInv /\ [Next]_vars => ProjectionInv'
<1>1. ASSUME ProjectionInv, NEW w \in Workers, RefreshStep(w)  PROVE ProjectionInv'
  <2>1. ASSUME NEW t \in Tables, WriteView(w, t)  PROVE ProjectionInv'
    BY <1>1, <2>1, WriteLatestViewKeeps, WriteHistoryViewKeeps
  <2> QED
    BY <1>1, <2>1, ReadCurrentKeeps, ReadActiveKeeps, ReadHistoryExpectedKeeps,
       WritePointerKeeps, MarkSynchronizedKeeps, MarkStaleKeeps DEF RefreshStep
<1>2. ASSUME ProjectionInv, UNCHANGED vars  PROVE ProjectionInv'
  <2>1. CatalogInv' /\ Published' = Published /\ FindCurrent' = FindCurrent
    BY <1>2, CatalogUntouched DEF vars
  <2>2. TypeOK' /\ PointerTargetsExist' /\ Begun' /\ LatestWritten'
    BY <1>2, <2>1 DEF ProjectionInv, TypeOK, CatalogInv, PointerTargetsExist, Begun,
                      LatestWritten, vars, files
  <2>3. ~ overlapped' => Undisturbed'
    BY <1>2, <2>1 DEF ProjectionInv, Undisturbed, Fresh, Listed, SynchronizedPointer,
                      SynchronizedHistory, vars, files, catalogVars
  <2> QED
    BY <2>1, <2>2, <2>3 DEF ProjectionInv
<1> QED
  BY <1>1, <1>2, CommandKeeps, FaultsKeep DEF Next

LEMMA ProjectionCorrect == Spec => []ProjectionInv
  BY ProjectionInitially, ProjectionStep, PTL DEF Spec

(* Every view a reader of the pointer needs exists at every moment.        *)
THEOREM FilesAreConsistentCorrect == Spec => []FilesAreConsistent
<1>1. ProjectionInv => FilesAreConsistent
  BY DEF ProjectionInv, FilesAreConsistent
<1> QED
  BY <1>1, ProjectionCorrect, PTL

(* A synchronized row is true, whatever fails, unless refreshes overlap.   *)
THEOREM HealthIsConservativeCorrect == Spec => []HealthIsConservative
<1>1. ProjectionInv => HealthIsConservative
  BY DEF ProjectionInv, HealthIsConservative, Undisturbed
<1> QED
  BY <1>1, ProjectionCorrect, PTL

(* A change of the pointer without an overlap installs the newest          *)
(* publication, and another revision than the one it showed.               *)
THEOREM PointerNeverRegressesCorrect == Spec => PointerNeverRegresses
<1> DEFINE Forward == pointer # pointer' /\ pointer # None /\ ~overlapped =>
                         /\ PeriodOf(pointer') >= PeriodOf(pointer)
                         /\ PartitionOf[pointer'] = PartitionOf[pointer] =>
                               revision[pointer'] > revision[pointer]
<1>1. ASSUME ProjectionInv, Next, pointer # pointer'
      PROVE  \E w \in Workers : WritePointer(w)
  BY <1>1 DEF Next, Command, RefreshStep, PublishThenRefresh, PublishAgain, Reconcile,
              ReadCurrent, ReadActive, Read, ReadHistoryExpected, WriteView, MarkSynchronized,
              MarkStale, Fail, FailToMarkStale, Crash, files
<1>2. ASSUME ProjectionInv, Next  PROVE Forward
  <2> SUFFICES ASSUME pointer # pointer', pointer # None, ~overlapped
               PROVE  /\ PeriodOf(pointer') >= PeriodOf(pointer)
                      /\ PartitionOf[pointer'] = PartitionOf[pointer] =>
                            revision[pointer'] > revision[pointer]
    OBVIOUS
  <2>1. PICK w \in Workers : WritePointer(w)
    BY <1>1, <1>2
  <2>2. pointer' = FindCurrent /\ worker[w].at # "idle"
    BY <1>2, <2>1, WrittenPointer DEF WritePointer
  <2>3. /\ FindCurrent \in current /\ FindCurrent \in Published /\ pointer \in Published
        /\ CurrentIsNewest /\ RevisionChain /\ revision \in [Builds -> Nat]
    BY <1>2, <2>1, <2>2, CurrentExists
       DEF ProjectionInv, Begun, PointerTargetsExist, CatalogInv, CatalogTypeOK
  <2>4. FindCurrent \in active /\ \A c \in Published : PeriodOf(c) <= PeriodOf(FindCurrent)
    BY <2>3 DEF CurrentIsNewest
  <2>5. /\ PeriodOf(pointer) \in Nat /\ PeriodOf(FindCurrent) \in Nat
        /\ revision[pointer] \in Nat /\ revision[FindCurrent] \in Nat
    BY <2>3, PartitionAssumption, PeriodAssumption DEF PeriodOf, Published
  <2>6. PeriodOf(pointer') >= PeriodOf(pointer)
    BY <2>2, <2>3, <2>4, <2>5
  <2>7. ASSUME PartitionOf[FindCurrent] = PartitionOf[pointer]
        PROVE  revision[FindCurrent] > revision[pointer]
    <3>1. revision[pointer] <= revision[FindCurrent]
      BY <2>3, <2>4, <2>7 DEF RevisionChain
    <3>2. revision[pointer] # revision[FindCurrent]
      BY <2>2, <2>3, <2>7 DEF RevisionChain
    <3> QED
      BY <3>1, <3>2, <2>5
  <2> QED
    BY <2>2, <2>6, <2>7
<1>3. ProjectionInv /\ [Next]_vars => [Forward]_vars
  BY <1>2
<1> QED
  BY <1>3, ProjectionCorrect, PTL DEF Spec, PointerNeverRegresses

-----------------------------------------------------------------------------
(* The other half of the reconciliation, the audit, shares no variable with*)
(* the projections.                                                        *)

(* The checks a run has behind it at the stage at.                         *)
Checked(at) ==
    CASE at = "manifest" -> {"asset"}
      [] at = "details"  -> {"asset", "manifest"}
      [] at = "contract" -> {"asset", "manifest", "details"}
      [] at = "done"     -> Checks
      [] OTHER           -> {}

(* What the run c of operator r selected and found: all publications that  *)
(* are still active, a result for each of them that is no longer to do,    *)
(* and evidence for what it says of their assets.                          *)
Selected(r, c) ==
    /\ c.current \in Existing \cup {Missing}
    /\ c.all \subseteq Existing /\ c.pubs \subseteq Existing
    /\ \A p \in c.all : IsActive(p) \/ r \in WithHistory => p \in c.pubs

Judged(c) ==
    /\ \A p \in Pubs, k \in {"manifest", "details"} : <<k, p>> \in c.passed => <<k, p>> \in c.seen
    /\ c.at \in Checks =>
          /\ c.todo \subseteq c.pubs
          /\ {c.at} \X (c.pubs \ c.todo) \subseteq c.passed \cup c.failed
    /\ Checked(c.at) \X c.pubs \subseteq c.passed \cup c.failed

Documented(r, c) ==
    \A p \in Pubs :
        /\ <<"asset", p>> \in c.passed => p \in Existing /\ rows[p] \in {"recorded", "altered"}
        /\ <<r, p, "passed">> \in evidence <=> <<"asset", p>> \in c.passed
        /\ <<r, p, "failed">> \in evidence => <<"asset", p>> \in c.failed
        /\ errors = 0 /\ p \notin Legacy /\ <<"asset", p>> \in c.failed
              => <<r, p, "failed">> \in evidence

(* The manifest is not as it was recorded, or was not for some time.       *)
Remade(p) == file[<<"manifest", p>>] = "damaged" \/ p \in restored

Early == {"idle", "selecting", "backfill", "register", "asset"}

(* What passed without having been seen as recorded, and why: rows made of *)
(* a manifest that was altered then, a contract looked up in a manifest    *)
(* that is altered now.                                                    *)
Trusted(r, c) ==
    \A p \in Pubs :
        /\ <<"asset", p>> \in c.passed => <<"asset", p>> \in c.seen \/ rows[p] = "altered"
        /\ <<"manifest", p>> \in c.passed /\ file[<<"manifest", p>>] = "damaged"
              => p \in changed[r]
        /\ <<"contract", p>> \in c.passed => <<"contract", p>> \in c.seen \/ p \in changed[r]
        /\ <<"asset", p>> \in c.passed /\ <<"manifest", p>> \in c.passed /\ rows[p] = "altered"
              => p \in restored
        /\ c.at \in Early => <<"manifest", p>> \notin c.passed
        /\ c.at = "register" /\ IsFirst(p, c.todo) /\ c.entry = "altered" => Remade(p)

(* Only publications of the time before asset rows can be without, or have *)
(* wrong ones.                                                             *)
RowsStand ==
    /\ \A p \in Existing \ Legacy : rows[p] = "recorded"
    /\ \A p \in Pubs : rows[p] = "altered" => Remade(p)

AuditInv ==
    /\ AuditTypeOK
    /\ RowsStand
    /\ \A r \in Operators : /\ Selected(r, run[r]) /\ Judged(run[r])
                            /\ Documented(r, run[r]) /\ Trusted(r, run[r])

-----------------------------------------------------------------------------
Reports == [at: Stages, current: Pubs \cup {Missing},
            all: SUBSET Pubs, pubs: SUBSET Pubs,
            todo: SUBSET Pubs, entry: EntryKinds \cup {Missing},
            passed: SUBSET Files, failed: SUBSET ((Checks \cup {"rows"}) \X Pubs),
            seen: SUBSET Files]

(* The types of everything but the reports.                                *)
AuditRestTyped ==
    /\ published \in 0..MaxPubs /\ rows \in [Pubs -> EntryKinds \cup {Missing}]
    /\ file \in [Files -> Contents]
    /\ evidence \subseteq Operators \X Pubs \X {"passed", "failed"}
    /\ damages \in 0..MaxDamages /\ errors \in 0..MaxErrors
    /\ changed \in [Operators -> SUBSET Pubs] /\ restored \subseteq Pubs

LEMMA AuditTyped ==
    ASSUME AuditInv
    PROVE  /\ AuditRestTyped /\ run \in [Operators -> Reports]
           /\ \A r \in Operators : run[r] \in Reports
           /\ Existing \subseteq Pubs /\ published \in Nat /\ errors \in Nat
<1>1. AuditRestTyped
  BY DEF AuditInv, AuditTypeOK, AuditRestTyped
<1>2. run \in [Operators -> Reports]
  BY DEF AuditInv, AuditTypeOK, Reports
<1>4. published \in Nat /\ published <= MaxPubs /\ MaxPubs \in Nat
  BY <1>1, PubAssumption DEF AuditRestTyped
<1>5. 1..published \subseteq Pubs
  BY <1>4 DEF Pubs
<1>6. errors \in Nat
  BY <1>1, BoundAssumption DEF AuditRestTyped
<1> QED
  BY <1>1, <1>2, <1>4, <1>5, <1>6 DEF Existing

LEMMA AuditInitially == ASSUME AuditInit PROVE AuditInv
<1>1. published \in 0..MaxPubs /\ Legacy = 1..published
  BY DEF AuditInit
<1>2. 0 \in 0..MaxDamages /\ 0 \in 0..MaxErrors
  BY BoundAssumption
<1>3. NotStarted \in Reports
  BY DEF Reports, NotStarted, Stages
<1>4. run \in [Operators -> Reports] /\ \A r \in Operators : run[r] = NotStarted
  BY <1>3 DEF AuditInit
<1>5. AuditTypeOK
  BY <1>1, <1>2, <1>4 DEF AuditInit, AuditTypeOK, Reports, Contents
<1>6. RowsStand
  BY <1>1, MarkAssumption DEF RowsStand, Existing, AuditInit
<1>7. \A r \in Operators : Selected(r, run[r]) /\ Judged(run[r])
  BY <1>4 DEF Selected, Judged, Checked, NotStarted, Checks
<1>8. \A r \in Operators : Documented(r, run[r]) /\ Trusted(r, run[r])
  BY <1>4 DEF Documented, Trusted, NotStarted, AuditInit
<1> QED
  BY <1>5, <1>6, <1>7, <1>8 DEF AuditInv

-----------------------------------------------------------------------------
(* Publications, their rows and the histories only grow, and no damage of  *)
(* a manifest that was seen goes unnoticed.                                *)
Onward ==
    /\ Existing \subseteq Existing'
    /\ \A p \in Existing : rows[p] # Missing => rows'[p] = rows[p]
    /\ errors' = 0 => errors = 0
    /\ \A r \in Operators : changed[r] \subseteq changed'[r]
    /\ restored \subseteq restored'
    /\ \A p \in Pubs : Remade(p) => Remade(p)'
    /\ \A r \in Operators, p \in Pubs :
          file'[<<"manifest", p>>] = "damaged" /\ <<"manifest", p>> \in run[r].seen
             => file[<<"manifest", p>>] = "damaged" \/ p \in changed'[r]

(* A publication that is active now was active before.                     *)
LEMMA SelectionStands ==
    ASSUME Onward, NEW r, NEW c, Selected(r, c)
    PROVE  Selected(r, c)'
<1>1. \A p \in Existing : IsActive(p)' => IsActive(p)
  BY DEF Onward, IsActive
<1> QED
  BY <1>1 DEF Onward, Selected

LEMMA DocumentsStand ==
    ASSUME Onward, NEW r, NEW c, Documented(r, c),
           \A p \in Pubs, v \in {"passed", "failed"} :
              <<r, p, v>> \in evidence' <=> <<r, p, v>> \in evidence
    PROVE  Documented(r, c)'
<1> SUFFICES ASSUME NEW p \in Pubs
             PROVE  /\ <<"asset", p>> \in c.passed =>
                          p \in Existing' /\ rows'[p] \in {"recorded", "altered"}
                    /\ <<r, p, "passed">> \in evidence' <=> <<"asset", p>> \in c.passed
                    /\ <<r, p, "failed">> \in evidence' => <<"asset", p>> \in c.failed
                    /\ errors' = 0 /\ p \notin Legacy /\ <<"asset", p>> \in c.failed
                          => <<r, p, "failed">> \in evidence'
  BY DEF Documented, Pubs
<1>1. "recorded" # Missing /\ "altered" # Missing
  BY MarkAssumption
<1>2. <<r, p, "passed">> \in evidence' <=> <<r, p, "passed">> \in evidence
  OBVIOUS
<1>3. <<r, p, "failed">> \in evidence' <=> <<r, p, "failed">> \in evidence
  OBVIOUS
<1> QED
  BY <1>1, <1>2, <1>3 DEF Documented, Onward

LEMMA TrustStands ==
    ASSUME Onward, NEW r \in Operators, NEW c, Documented(r, c), Trusted(r, c),
           \A p \in Pubs :
              file'[<<"manifest", p>>] = "damaged" /\ <<"manifest", p>> \in c.passed
                 => file[<<"manifest", p>>] = "damaged" \/ p \in changed'[r]
    PROVE  Trusted(r, c)'
<1>1. \A p \in Pubs : <<"asset", p>> \in c.passed => rows'[p] = rows[p]
  BY MarkAssumption DEF Onward, Documented
<1>2. /\ changed[r] \subseteq changed'[r] /\ restored \subseteq restored'
      /\ \A p \in Pubs : Remade(p) => Remade(p)'
  BY DEF Onward
<1> SUFFICES ASSUME NEW p \in Pubs
             PROVE  /\ <<"asset", p>> \in c.passed =>
                          <<"asset", p>> \in c.seen \/ rows'[p] = "altered"
                    /\ <<"manifest", p>> \in c.passed /\ file'[<<"manifest", p>>] = "damaged"
                          => p \in changed'[r]
                    /\ <<"contract", p>> \in c.passed =>
                          <<"contract", p>> \in c.seen \/ p \in changed'[r]
                    /\ <<"asset", p>> \in c.passed /\ <<"manifest", p>> \in c.passed
                       /\ rows'[p] = "altered" => p \in restored'
                    /\ c.at \in Early => <<"manifest", p>> \notin c.passed
                    /\ c.at = "register" /\ IsFirst(p, c.todo) /\ c.entry = "altered"
                          => Remade(p)'
  BY DEF Trusted, Pubs, IsFirst
<1> QED
  BY <1>1, <1>2 DEF Trusted

(* A step that concerns one report at most, and leaves this one in order.  *)
LEMMA ReportStep ==
    ASSUME AuditInv, NEW r \in Operators, NEW rec \in Reports,
           run' = [run EXCEPT ![r] = rec], Onward, AuditRestTyped', RowsStand',
           \A q \in Operators \ {r} : \A p \in Pubs, v \in {"passed", "failed"} :
              <<q, p, v>> \in evidence' <=> <<q, p, v>> \in evidence,
           Selected(r, rec)', Judged(rec), Documented(r, rec)', Trusted(r, rec)'
    PROVE  AuditInv'
<1>1. run' \in [Operators -> Reports]
  BY AuditTyped
<1>2. AuditTypeOK'
  BY <1>1 DEF AuditRestTyped, Reports, AuditTypeOK
<1>3. run'[r] = rec
  BY AuditTyped
<1>4. ASSUME NEW q \in Operators
      PROVE  /\ (Selected(q, run[q]) /\ Judged(run[q]))'
             /\ (Documented(q, run[q]) /\ Trusted(q, run[q]))'
  <2>1. CASE q = r
    BY <2>1, <1>3 DEF Judged, Selected, Documented, Trusted, Pubs, IsFirst
  <2>2. CASE q # r
    <3> DEFINE c == run[q]
    <3>1. run'[q] = c
      BY <2>2, AuditTyped
    <3>2. /\ Selected(q, c) /\ Judged(c) /\ Documented(q, c) /\ Trusted(q, c)
          /\ \A p \in Pubs :
                file'[<<"manifest", p>>] = "damaged" /\ <<"manifest", p>> \in c.passed
                   => file[<<"manifest", p>>] = "damaged" \/ p \in changed'[q]
      BY DEF AuditInv, Onward, Judged
    <3> HIDE DEF c
    <3>3. PICK d : d = c
      OBVIOUS
    <3>4. Selected(q, d)' /\ Documented(q, d)' /\ Trusted(q, d)'
      BY <2>2, <3>2, <3>3, SelectionStands, DocumentsStand, TrustStands
    <3> QED
      BY <3>1, <3>2, <3>3, <3>4 DEF Selected, Judged, Documented, Trusted, Pubs, IsFirst
  <2> QED
    BY <2>1, <2>2
<1> QED
  BY <1>2, <1>4 DEF AuditInv, RowsStand

LEMMA ReportsStand ==
    ASSUME AuditInv, UNCHANGED <<run, evidence>>, Onward, AuditRestTyped',
           RowsStand'
    PROVE  AuditInv'
<1>1. AuditTypeOK'
  BY AuditTyped DEF AuditRestTyped, Reports, AuditTypeOK
<1>2. ASSUME NEW q \in Operators
      PROVE  /\ (Selected(q, run[q]) /\ Judged(run[q]))'
             /\ (Documented(q, run[q]) /\ Trusted(q, run[q]))'
  <2> DEFINE c == run[q]
  <2>1. /\ run'[q] = c
        /\ Selected(q, c) /\ Judged(c) /\ Documented(q, c) /\ Trusted(q, c)
        /\ \A p \in Pubs :
              file'[<<"manifest", p>>] = "damaged" /\ <<"manifest", p>> \in c.passed
                 => file[<<"manifest", p>>] = "damaged" \/ p \in changed'[q]
    BY DEF AuditInv, Onward, Judged
  <2> HIDE DEF c
  <2>2. PICK d : d = c
    OBVIOUS
  <2>3. Selected(q, d)' /\ Documented(q, d)' /\ Trusted(q, d)'
    BY <2>1, <2>2, SelectionStands, DocumentsStand, TrustStands
  <2> QED
    BY <2>1, <2>2, <2>3 DEF Selected, Judged, Documented, Trusted, Pubs, IsFirst
<1> QED
  BY <1>1, <1>2 DEF AuditInv, RowsStand

LEMMA PublishStands == ASSUME AuditInv, NewPublication PROVE AuditInv'
<1>1. /\ published \in Nat /\ MaxPubs \in Nat /\ published < MaxPubs /\ published' = published + 1
      /\ rows' = [rows EXCEPT ![published + 1] = "recorded"] /\ AuditRestTyped /\ RowsStand
      /\ UNCHANGED <<file, evidence, run, damages, errors, changed, restored>>
  BY AuditTyped, PubAssumption DEF NewPublication, histories, AuditInv
<1>2. Existing' = Existing \cup {published + 1} /\ published + 1 \notin Existing
  BY <1>1 DEF Existing
<1>3. \A p \in Existing : rows'[p] = rows[p]
  BY <1>1, <1>2, AuditTyped DEF AuditRestTyped
<1>4. published + 1 \in Pubs
  BY <1>1 DEF Pubs
<1>5. rows'[published + 1] = "recorded" /\ rows' \in [Pubs -> EntryKinds \cup {Missing}]
  BY <1>1, <1>4 DEF AuditRestTyped, EntryKinds
<1>6. published' \in 0..MaxPubs
  BY <1>1
<1>7. AuditRestTyped' /\ Onward
  BY <1>1, <1>2, <1>3, <1>5, <1>6 DEF AuditRestTyped, Onward, Remade
<1>8. RowsStand'
  <2>1. \A p \in Existing' \ Legacy : rows'[p] = "recorded"
    BY <1>1, <1>2, <1>3, <1>5 DEF RowsStand
  <2>2. ASSUME NEW p \in Pubs, rows'[p] = "altered" PROVE Remade(p)'
    <3>1. rows[p] = "altered"
      BY <1>1, <1>5, <2>2 DEF AuditRestTyped
    <3> QED
      BY <1>1, <3>1 DEF RowsStand, Remade
  <2> QED
    BY <2>1, <2>2 DEF RowsStand, Pubs
<1> QED
  BY <1>1, <1>7, <1>8, ReportsStand

(* Damages are noted for the runs that saw the manifest, restorations for  *)
(* all.                                                                    *)
LEMMA FileStands ==
    ASSUME AuditInv, NEW f \in Files, Damage(f) \/ Restore(f)
    PROVE  AuditInv'
<1>1. UNCHANGED <<published, rows, evidence, run, errors>> /\ AuditRestTyped /\ RowsStand
  BY AuditTyped DEF Damage, Restore, AuditInv
<1>2. damages' \in 0..MaxDamages
  BY <1>1, BoundAssumption DEF Damage, Restore, AuditRestTyped
<1>3. file' \in [Files -> Contents] /\ f[2] \in Pubs
  BY <1>1 DEF Damage, Restore, AuditRestTyped, Contents, Files
<1>4. /\ changed' \in [Operators -> SUBSET Pubs] /\ restored' \subseteq Pubs
      /\ \A r \in Operators : changed[r] \subseteq changed'[r]
      /\ restored \subseteq restored'
  BY <1>1, <1>3 DEF Damage, Restore, AuditRestTyped
<1>5. ASSUME NEW p \in Pubs, Remade(p) PROVE Remade(p)'
  BY <1>1, <1>4, <1>5 DEF Damage, Restore, AuditRestTyped, Remade, Files, Checks
<1>6. ASSUME NEW r \in Operators, NEW p \in Pubs, file'[<<"manifest", p>>] = "damaged",
             <<"manifest", p>> \in run[r].seen
      PROVE  file[<<"manifest", p>>] = "damaged" \/ p \in changed'[r]
  BY <1>1, <1>6 DEF Damage, Restore, AuditRestTyped, Files, Checks
<1>7. AuditRestTyped' /\ Onward
  BY <1>1, <1>2, <1>3, <1>4, <1>5, <1>6 DEF AuditRestTyped, Onward, Existing
<1>8. RowsStand'
  BY <1>1, <1>5 DEF RowsStand, Existing, Pubs
<1> QED
  BY <1>1, <1>7, <1>8, ReportsStand

-----------------------------------------------------------------------------
(* A step of a run that leaves the rest as it is.                          *)
LEMMA Quiet ==
    ASSUME AuditInv, UNCHANGED <<published, rows, file, evidence, damages, errors, histories>>
    PROVE  AuditRestTyped' /\ Onward /\ RowsStand'
<1>1. AuditRestTyped /\ RowsStand /\ UNCHANGED <<changed, restored>>
  BY DEF AuditInv, AuditTypeOK, AuditRestTyped, histories
<1> QED
  BY <1>1 DEF AuditRestTyped, Onward, RowsStand, Existing, Remade, Pubs

LEMMA BeginStands ==
    ASSUME AuditInv, NEW r \in Operators, Begin(r)
    PROVE  AuditInv'
<1>1. PICK found \in Existing \cup {Missing} :
         run' = [run EXCEPT ![r] = [run[r] EXCEPT !.at = "selecting", !.current = found]]
  BY DEF Begin
<1>2. PICK rec : rec = [run[r] EXCEPT !.at = "selecting", !.current = found]
  OBVIOUS
<1>3. /\ Selected(r, run[r]) /\ Judged(run[r]) /\ Documented(r, run[r])
      /\ Trusted(r, run[r]) /\ run[r] \in Reports /\ run[r].at = "idle"
  BY AuditTyped DEF AuditInv, Begin
<1>4. rec \in Reports
  BY <1>2, <1>3, AuditTyped DEF Reports, Stages
<1>5. Judged(rec) /\ Documented(r, rec) /\ Trusted(r, rec)
  BY <1>2, <1>3 DEF Judged, Checked, Documented, Trusted, Early, Checks, Reports
<1>6. Selected(r, rec)
  BY <1>1, <1>2, <1>3 DEF Selected, Reports
<1>7. AuditRestTyped' /\ Onward /\ RowsStand' /\ UNCHANGED <<evidence, file>>
  BY Quiet DEF Begin
<1>8. Selected(r, rec)' /\ Documented(r, rec)' /\ Trusted(r, rec)'
  BY <1>5, <1>6, <1>7, SelectionStands, DocumentsStand, TrustStands
<1> QED
  BY <1>1, <1>2, <1>4, <1>5, <1>7, <1>8, ReportStep

(* A run that only moves on: what it selected and found stays.             *)
LEMMA ReportMoves ==
    ASSUME AuditInv, NEW r \in Operators, NEW rec \in Reports,
           run' = [run EXCEPT ![r] = rec], Onward, AuditRestTyped', RowsStand',
           UNCHANGED <<evidence, file>>, Judged(rec), Selected(r, rec), Documented(r, rec),
           Trusted(r, rec)
    PROVE  AuditInv'
<1>1. Selected(r, rec)' /\ Documented(r, rec)' /\ Trusted(r, rec)'
  BY SelectionStands, DocumentsStand, TrustStands
<1> QED
  BY <1>1, ReportStep

LEMMA SelectStands ==
    ASSUME AuditInv, NEW r \in Operators, Select(r)
    PROVE  AuditInv'
<1>1. PICK rec : rec = [run[r] EXCEPT !.at = IF r \in Backfilling THEN "backfill" ELSE "asset",
                   !.all = Existing, !.pubs = IntegrityPubs(r),
                   !.todo = IF r \in Backfilling THEN Active ELSE IntegrityPubs(r)]
  OBVIOUS
<1>2. /\ run[r] \in Reports /\ Selected(r, run[r]) /\ Judged(run[r])
      /\ Documented(r, run[r]) /\ Trusted(r, run[r])
  BY AuditTyped DEF AuditInv
<1>3. run' = [run EXCEPT ![r] = rec] /\ run[r].at = "selecting"
  BY <1>1 DEF Select
<1>4. /\ Existing \subseteq Pubs /\ Active \subseteq Existing
      /\ IntegrityPubs(r) \subseteq Existing
  BY <1>2, AuditTyped DEF Active, IntegrityPubs, Selected
<1>5. /\ rec.at \in {"backfill", "asset"} /\ rec.all = Existing
      /\ rec.pubs = IntegrityPubs(r)
      /\ rec.at = "asset" => rec.todo = rec.pubs
      /\ rec.current = run[r].current /\ rec.seen = run[r].seen /\ rec.passed = run[r].passed
      /\ rec.failed = run[r].failed
  BY <1>1, <1>2 DEF Reports
<1>6. rec \in Reports
  BY <1>1, <1>2, <1>4 DEF Reports, Stages
<1>7. Judged(rec) /\ Documented(r, rec) /\ Trusted(r, rec)
  BY <1>2, <1>3, <1>5 DEF Judged, Checked, Documented, Trusted, Early, Checks
<1>8. Selected(r, rec)
  BY <1>2, <1>4, <1>5 DEF Selected, IntegrityPubs, Active
<1>9. AuditRestTyped' /\ Onward /\ RowsStand' /\ UNCHANGED <<evidence, file>>
  BY Quiet DEF Select
<1> QED
  BY <1>3, <1>6, <1>7, <1>8, <1>9, ReportMoves

LEMMA AdvanceStands ==
    ASSUME AuditInv, NEW r \in Operators, Advance(r)
    PROVE  AuditInv'
<1>1. PICK rec : rec = [run[r] EXCEPT !.at = After(run[r].at),
                   !.todo = IF After(run[r].at) = "done" THEN {} ELSE run[r].pubs]
  OBVIOUS
<1>2. /\ run[r] \in Reports /\ Selected(r, run[r]) /\ Judged(run[r])
      /\ Documented(r, run[r]) /\ Trusted(r, run[r])
  BY AuditTyped DEF AuditInv
<1>3. /\ run' = [run EXCEPT ![r] = rec] /\ run[r].todo = {}
      /\ run[r].at \in {"backfill", "asset", "manifest", "details", "contract"}
  BY <1>1 DEF Advance, Checks
<1>4. \/ run[r].at = "backfill" /\ rec.at = "asset"
      \/ run[r].at = "asset" /\ rec.at = "manifest"
      \/ run[r].at = "manifest" /\ rec.at = "details"
      \/ run[r].at = "details" /\ rec.at = "contract"
      \/ run[r].at = "contract" /\ rec.at = "done"
  BY <1>1, <1>2, <1>3 DEF After, Reports
<1>5. /\ rec.all = run[r].all /\ rec.pubs = run[r].pubs
      /\ rec.todo \in {{}, rec.pubs}
      /\ rec.at # "done" => rec.todo = rec.pubs
      /\ rec.current = run[r].current /\ rec.seen = run[r].seen /\ rec.passed = run[r].passed
      /\ rec.failed = run[r].failed
  BY <1>1, <1>2 DEF Reports
<1>6. rec \in Reports
  BY <1>1, <1>2, <1>4, <1>5 DEF Reports, Stages
<1>7. Checked(rec.at) \subseteq Checked(run[r].at) \cup ({run[r].at} \cap Checks)
  BY <1>4 DEF Checked, Checks
<1>8. Judged(rec)
  <2>1. ASSUME NEW k \in Checked(rec.at), NEW p \in rec.pubs
        PROVE  <<k, p>> \in rec.passed \cup rec.failed
    BY <1>2, <1>3, <1>5, <1>7, <2>1 DEF Judged
  <2> QED
    BY <1>2, <1>4, <1>5, <2>1 DEF Judged, Checks
<1>9. Documented(r, rec) /\ Selected(r, rec) /\ Trusted(r, rec)
  BY <1>2, <1>4, <1>5 DEF Documented, Selected, Trusted, Early
<1>10. AuditRestTyped' /\ Onward /\ RowsStand' /\ UNCHANGED <<evidence, file>>
  BY Quiet DEF Advance
<1> QED
  BY <1>3, <1>6, <1>8, <1>9, <1>10, ReportMoves

(* Backfilling rows, a run finds nothing about files yet.                  *)
LEMMA Backfilled ==
    ASSUME AuditInv, NEW r \in Operators, NEW p \in Pubs, NEW rec,
           run[r].at \in {"backfill", "register"}, rec.at \in {"backfill", "register"},
           rec.current = run[r].current, rec.all = run[r].all, rec.pubs = run[r].pubs,
           rec.passed = run[r].passed, rec.seen = run[r].seen,
           rec.failed \in {run[r].failed, run[r].failed \cup {<<"rows", p>>}},
           rec.at = "register" /\ rec.entry = "altered" =>
              \A q \in Pubs : IsFirst(q, rec.todo) => Remade(q)
    PROVE  Selected(r, rec) /\ Judged(rec) /\ Documented(r, rec) /\ Trusted(r, rec)
<1>1. Selected(r, run[r]) /\ Judged(run[r]) /\ Documented(r, run[r]) /\ Trusted(r, run[r])
  BY DEF AuditInv
<1>2. Selected(r, rec)
  BY <1>1 DEF Selected
<1>3. Judged(rec)
  BY <1>1 DEF Judged, Checked, Checks
<1>4. \A q \in Pubs : <<"asset", q>> \in rec.failed <=> <<"asset", q>> \in run[r].failed
  OBVIOUS
<1>5. Documented(r, rec)
  BY <1>1, <1>4 DEF Documented
<1>6. Trusted(r, rec)
  BY <1>1 DEF Trusted, Early
<1> QED
  BY <1>2, <1>3, <1>5, <1>6

LEMMA RowsFailure ==
    ASSUME NEW c \in Reports, NEW p \in Pubs
    PROVE  c.failed \cup {<<"rows", p>>} \in SUBSET ((Checks \cup {"rows"}) \X Pubs)
BY DEF Reports

LEMMA ReadEntryStands ==
    ASSUME AuditInv, NEW r \in Operators, NEW p \in Pubs,
           ReadEntry(r, p)
    PROVE  AuditInv'
<1>1. /\ AuditRestTyped' /\ Onward /\ RowsStand' /\ UNCHANGED <<evidence, file>>
      /\ AuditRestTyped /\ run[r] \in Reports /\ run[r].at = "backfill" /\ IsFirst(p, run[r].todo)
  BY Quiet, AuditTyped DEF ReadEntry
<1>2. ASSUME NEW rec, run' = [run EXCEPT ![r] = rec], rec \in Reports,
             rec.at \in {"backfill", "register"},
             rec.current = run[r].current, rec.all = run[r].all, rec.pubs = run[r].pubs,
             rec.passed = run[r].passed, rec.seen = run[r].seen,
             rec.failed \in {run[r].failed, run[r].failed \cup {<<"rows", p>>}},
             rec.at = "register" /\ rec.entry = "altered" =>
                \A q \in Pubs : IsFirst(q, rec.todo) => Remade(q)
      PROVE  AuditInv'
  <2>1. Selected(r, rec) /\ Judged(rec) /\ Documented(r, rec) /\ Trusted(r, rec)
    BY <1>1, <1>2, Backfilled
  <2> QED
    BY <1>1, <1>2, <2>1, ReportMoves
<1>3. CASE rows[p] # Missing
  <2>1. PICK rec : rec = [run[r] EXCEPT !.todo = run[r].todo \ {p}]
    OBVIOUS
  <2>2. run' = [run EXCEPT ![r] = rec]
    BY <1>3, <2>1 DEF ReadEntry
  <2> QED
    BY <1>1, <1>2, <2>1, <2>2 DEF Reports
<1>4. CASE rows[p] = Missing
  <2>1. PICK entry \in ManifestEntries(p) : run' = [run EXCEPT ![r] =
           IF entry = Missing
           THEN [run[r] EXCEPT !.todo = run[r].todo \ {p},
                               !.failed = run[r].failed \cup {<<"rows", p>>}]
           ELSE [run[r] EXCEPT !.at = "register", !.entry = entry]]
    BY <1>4 DEF ReadEntry
  <2>2. CASE entry = Missing
    <3>1. PICK rec : rec = [run[r] EXCEPT !.todo = run[r].todo \ {p},
                                          !.failed = run[r].failed \cup {<<"rows", p>>}]
      OBVIOUS
    <3>2. run' = [run EXCEPT ![r] = rec]
      BY <2>1, <2>2, <3>1
    <3>3. rec \in Reports
      BY <1>1, <3>1, RowsFailure DEF Reports
    <3> QED
      BY <1>1, <1>2, <3>1, <3>2, <3>3 DEF Reports
  <2>3. CASE entry # Missing
    <3>1. PICK rec : rec = [run[r] EXCEPT !.at = "register", !.entry = entry]
      OBVIOUS
    <3>2. entry \in EntryKinds
      BY <2>1, <2>3 DEF ManifestEntries, EntryKinds
    <3>3. run' = [run EXCEPT ![r] = rec] /\ rec \in Reports
      BY <1>1, <2>1, <2>3, <3>1, <3>2 DEF Reports, Stages
    <3>4. /\ rec.at = "register" /\ rec.todo = run[r].todo /\ rec.entry = entry
          /\ rec.current = run[r].current /\ rec.all = run[r].all /\ rec.pubs = run[r].pubs
          /\ rec.passed = run[r].passed /\ rec.seen = run[r].seen
          /\ rec.failed = run[r].failed
      BY <1>1, <3>1 DEF Reports
    <3>5. ASSUME entry = "altered", NEW q \in Pubs, IsFirst(q, run[r].todo) PROVE Remade(q)
      <4>1. q = p
        BY <1>1, <3>5 DEF IsFirst, Pubs
      <4>2. file[<<"manifest", p>>] \in Contents
        BY <1>1 DEF AuditRestTyped, Files, Checks
      <4> QED
        BY <2>1, <3>5, <4>1, <4>2 DEF ManifestEntries, Contents, Remade
    <3> QED
      BY <1>2, <3>3, <3>4, <3>5
  <2> QED
    BY <2>2, <2>3
<1> QED
  BY <1>3, <1>4

LEMMA RegisterStands ==
    ASSUME AuditInv, NEW r \in Operators, NEW p \in Pubs,
           Register(r, p)
    PROVE  AuditInv'
<1> DEFINE done == [run[r] EXCEPT !.at = "backfill", !.todo = run[r].todo \ {p}, !.entry = Missing]
           refused == [run[r] EXCEPT !.at = "backfill", !.todo = run[r].todo \ {p},
                          !.entry = Missing, !.failed = run[r].failed \cup {<<"rows", p>>}]
<1>1. /\ AuditRestTyped /\ RowsStand /\ run[r] \in Reports /\ run[r].at = "register"
      /\ UNCHANGED <<published, file, evidence, damages, errors, changed, restored>>
      /\ rows' = [rows EXCEPT ![p] = IF rows[p] = Missing THEN run[r].entry ELSE rows[p]]
      /\ IsFirst(p, run[r].todo) /\ Trusted(r, run[r])
  BY AuditTyped DEF Register, histories, AuditInv
<1>2. \A q \in Pubs : rows[q] # Missing => rows'[q] = rows[q]
  BY <1>1 DEF AuditRestTyped
<1>3. rows' \in [Pubs -> EntryKinds \cup {Missing}]
  BY <1>1 DEF AuditRestTyped, Reports
<1>4. Existing' = Existing /\ Existing \subseteq Pubs
  BY <1>1, AuditTyped DEF Existing
<1>5. \A q \in Pubs : Remade(q)' <=> Remade(q)
  BY <1>1 DEF Remade
<1>6. Onward /\ AuditRestTyped'
  BY <1>1, <1>2, <1>3, <1>4, <1>5 DEF Onward, AuditRestTyped
<1>7. RowsStand'
  <2>1. \A q \in Existing \ Legacy : rows'[q] = "recorded"
    BY <1>1, <1>2, <1>4, MarkAssumption DEF RowsStand
  <2>2. ASSUME NEW q \in Pubs, rows'[q] = "altered" PROVE Remade(q)
    <3>1. CASE rows[q] = "altered"
      BY <1>1, <3>1 DEF RowsStand
    <3>2. CASE q = p /\ run[r].entry = "altered"
      BY <1>1, <3>2 DEF Trusted
    <3> QED
      BY <1>1, <2>2, <3>1, <3>2 DEF AuditRestTyped
  <2> QED
    BY <1>4, <1>5, <2>1, <2>2 DEF RowsStand, Pubs
<1>8. PICK rec \in {done, refused} : run' = [run EXCEPT ![r] = rec]
  BY <1>1 DEF Register, Reports
<1>9. /\ rec.at = "backfill" /\ rec.current = run[r].current /\ rec.all = run[r].all
      /\ rec.pubs = run[r].pubs /\ rec.passed = run[r].passed /\ rec.seen = run[r].seen
      /\ rec.failed \in {run[r].failed, run[r].failed \cup {<<"rows", p>>}}
  BY <1>1, <1>8 DEF Reports
<1>10. rec \in Reports
  <2>1. done \in Reports
    BY <1>1 DEF Reports, Stages
  <2>2. run[r].failed \cup {<<"rows", p>>} \in SUBSET ((Checks \cup {"rows"}) \X Pubs)
    BY <1>1, RowsFailure
  <2>3. refused \in Reports
    BY <1>1, <2>2 DEF Reports, Stages
  <2> QED
    BY <1>8, <2>1, <2>3
<1> HIDE DEF done, refused
<1>11. Selected(r, rec) /\ Judged(rec) /\ Documented(r, rec) /\ Trusted(r, rec)
  BY <1>1, <1>9, Backfilled
<1> QED
  BY <1>1, <1>6, <1>7, <1>8, <1>10, <1>11, ReportMoves

-----------------------------------------------------------------------------
(* What entitles a check to pass.                                          *)
Entitled(r, p, entry) ==
    /\ run[r].at = "asset" => entry = rows[p] /\ rows[p] \in {"recorded", "altered"}
    /\ run[r].at = "manifest" => entry = "recorded" /\ file[<<"manifest", p>>] # "damaged"
    /\ run[r].at = "details" => entry = "recorded"
    /\ run[r].at = "contract" =>
          \/ entry = "recorded"
          \/ <<"manifest", p>> \in run[r].passed /\ file[<<"manifest", p>>] = "damaged"

LEMMA ResultTrusted ==
    ASSUME AuditInv, NEW r \in Operators, NEW p \in Pubs, NEW entry, run[r].at \in Checks,
           NEW rec, rec.at = run[r].at,
           \/ /\ rec.passed = run[r].passed \cup {<<run[r].at, p>>} /\ Entitled(r, p, entry)
              /\ rec.seen = IF entry = "recorded" THEN run[r].seen \cup {<<run[r].at, p>>}
                            ELSE run[r].seen
           \/ rec.passed = run[r].passed /\ rec.seen = run[r].seen
    PROVE  Trusted(r, rec)
<1> DEFINE at == run[r].at
<1>1. Trusted(r, run[r]) /\ RowsStand
  BY DEF AuditInv
<1>2. CASE rec.passed = run[r].passed /\ rec.seen = run[r].seen
  BY <1>1, <1>2 DEF Trusted, Checks
<1>3. CASE /\ rec.passed = run[r].passed \cup {<<at, p>>} /\ Entitled(r, p, entry)
           /\ rec.seen = IF entry = "recorded" THEN run[r].seen \cup {<<at, p>>} ELSE run[r].seen
  <2>1. ASSUME NEW q \in Pubs
        PROVE  /\ <<"asset", q>> \in rec.passed =>
                     <<"asset", q>> \in rec.seen \/ rows[q] = "altered"
               /\ <<"manifest", q>> \in rec.passed /\ file[<<"manifest", q>>] = "damaged"
                     => q \in changed[r]
               /\ <<"contract", q>> \in rec.passed =>
                     <<"contract", q>> \in rec.seen \/ q \in changed[r]
               /\ <<"asset", q>> \in rec.passed /\ <<"manifest", q>> \in rec.passed
                  /\ rows[q] = "altered" => q \in restored
               /\ at \in Early => <<"manifest", q>> \notin rec.passed
               /\ at # "register"
    <3>1. /\ <<"asset", q>> \in run[r].passed =>
                <<"asset", q>> \in run[r].seen \/ rows[q] = "altered"
          /\ <<"manifest", q>> \in run[r].passed /\ file[<<"manifest", q>>] = "damaged"
                => q \in changed[r]
          /\ <<"contract", q>> \in run[r].passed =>
                <<"contract", q>> \in run[r].seen \/ q \in changed[r]
          /\ <<"asset", q>> \in run[r].passed /\ <<"manifest", q>> \in run[r].passed
             /\ rows[q] = "altered" => q \in restored
          /\ at \in Early => <<"manifest", q>> \notin run[r].passed
      BY <1>1 DEF Trusted
    <3>2. rows[q] = "altered" /\ file[<<"manifest", q>>] # "damaged" => q \in restored
      BY <1>1 DEF RowsStand, Remade
    <3>3. at # "register"
      BY DEF Checks
    <3>4. CASE at = "asset"
      BY <1>3, <3>1, <3>3, <3>4 DEF Entitled, Early
    <3>5. CASE at = "manifest"
      BY <1>3, <3>1, <3>2, <3>3, <3>5 DEF Entitled, Early
    <3>6. CASE at = "details"
      BY <1>3, <3>1, <3>3, <3>6 DEF Entitled, Early
    <3>7. CASE at = "contract"
      BY <1>3, <3>1, <3>3, <3>7 DEF Entitled, Early
    <3> QED
      BY <3>4, <3>5, <3>6, <3>7 DEF Checks
  <2> QED
    BY <2>1 DEF Trusted
<1> QED
  BY <1>2, <1>3

(* The result for a publication, with the evidence its check leaves.       *)
LEMMA ResultStands ==
    ASSUME AuditInv, NEW r \in Operators, NEW p \in Pubs, NEW entry,
           run[r].at \in Checks, p \in run[r].todo,
           NEW rec \in {Passed(r, p, entry), Failed(r, p)}, run' = [run EXCEPT ![r] = rec],
           rec = Failed(r, p) \/ Entitled(r, p, entry),
           UNCHANGED <<published, rows, file, damages, histories>>, errors' \in 0..MaxErrors,
           errors' = 0 => errors = 0,
           \/ run[r].at # "asset" /\ UNCHANGED evidence
           \/ /\ run[r].at = "asset" /\ rec = Passed(r, p, entry) /\ Entitled(r, p, entry)
              /\ evidence' = evidence \cup {<<r, p, "passed">>}
           \/ /\ run[r].at = "asset" /\ rec = Failed(r, p)
              /\ \/ evidence' = evidence \cup {<<r, p, "failed">>}
                 \/ UNCHANGED evidence /\ (errors' # 0 \/ rows[p] = Missing)
    PROVE  AuditInv'
<1> DEFINE at == run[r].at
<1>1. /\ run[r] \in Reports /\ AuditRestTyped /\ Existing \subseteq Pubs
      /\ Selected(r, run[r]) /\ Judged(run[r]) /\ Documented(r, run[r])
      /\ UNCHANGED <<changed, restored>>
  BY AuditTyped DEF AuditInv, histories
<1>2. /\ rec.at = at /\ rec.current = run[r].current /\ rec.all = run[r].all
      /\ rec.pubs = run[r].pubs /\ rec.todo = run[r].todo \ {p}
      /\ \/ /\ rec.passed = run[r].passed \cup {<<at, p>>} /\ Entitled(r, p, entry)
            /\ rec.seen = IF entry = "recorded" THEN run[r].seen \cup {<<at, p>>} ELSE run[r].seen
            /\ rec.failed = run[r].failed
         \/ /\ rec.passed = run[r].passed /\ rec.seen = run[r].seen
            /\ rec.failed = run[r].failed \cup {<<at, p>>}
  BY <1>1 DEF Passed, Failed, Reports
<1>3. rec \in Reports
  <2>1. /\ run[r].passed \cup {<<at, p>>} \in SUBSET Files
        /\ run[r].seen \cup {<<at, p>>} \in SUBSET Files
        /\ run[r].failed \cup {<<at, p>>} \in SUBSET ((Checks \cup {"rows"}) \X Pubs)
    BY <1>1 DEF Reports, Files
  <2>2. Passed(r, p, entry) \in Reports
    BY <1>1, <2>1 DEF Passed, Reports
  <2>3. Failed(r, p) \in Reports
    BY <1>1, <2>1 DEF Failed, Reports
  <2> QED
    BY <2>2, <2>3
<1>4. AuditRestTyped'
  BY <1>1 DEF AuditRestTyped
<1>5. Onward /\ RowsStand'
  BY <1>1 DEF Onward, RowsStand, AuditInv, Existing, Remade, Pubs
<1>6. Judged(rec)
  <2>1. run[r].passed \cup run[r].failed \cup {<<at, p>>} = rec.passed \cup rec.failed
    BY <1>2
  <2>2. ASSUME NEW x \in rec.pubs \ rec.todo PROVE <<at, x>> \in rec.passed \cup rec.failed
    BY <1>1, <1>2, <2>1 DEF Judged
  <2>3. Checked(rec.at) \X rec.pubs \subseteq rec.passed \cup rec.failed
    BY <1>1, <1>2, <2>1 DEF Judged
  <2>4. /\ \A x \in Pubs, k \in {"manifest", "details"} :
           <<k, x>> \in rec.passed => <<k, x>> \in rec.seen
        /\ rec.todo \subseteq rec.pubs
    BY <1>1, <1>2 DEF Judged, Entitled
  <2> QED
    BY <1>2, <2>2, <2>3, <2>4 DEF Judged
<1>7. Selected(r, rec)'
  BY <1>1, <1>2, <1>5, SelectionStands DEF Selected
<1>8. p \in Existing
  BY <1>1 DEF Judged, Selected
<1>9. \A q \in Operators \ {r} : \A x \in Pubs, v \in {"passed", "failed"} :
         <<q, x, v>> \in evidence' <=> <<q, x, v>> \in evidence
  OBVIOUS
<1>10. Documented(r, rec)'
  <2> SUFFICES ASSUME NEW q \in Pubs
               PROVE  /\ <<"asset", q>> \in rec.passed =>
                            q \in Existing /\ rows[q] \in {"recorded", "altered"}
                      /\ <<r, q, "passed">> \in evidence' <=> <<"asset", q>> \in rec.passed
                      /\ <<r, q, "failed">> \in evidence' => <<"asset", q>> \in rec.failed
                      /\ errors' = 0 /\ q \notin Legacy /\ <<"asset", q>> \in rec.failed
                            => <<r, q, "failed">> \in evidence'
    BY DEF Documented, Existing, Pubs
  <2>0. /\ <<"asset", q>> \in run[r].passed =>
              q \in Existing /\ rows[q] \in {"recorded", "altered"}
        /\ <<r, q, "passed">> \in evidence <=> <<"asset", q>> \in run[r].passed
        /\ <<r, q, "failed">> \in evidence => <<"asset", q>> \in run[r].failed
        /\ errors = 0 /\ q \notin Legacy /\ <<"asset", q>> \in run[r].failed
              => <<r, q, "failed">> \in evidence
    BY <1>1 DEF Documented
  <2>1. CASE at # "asset"
    <3>1. /\ <<"asset", q>> \in rec.passed <=> <<"asset", q>> \in run[r].passed
          /\ <<"asset", q>> \in rec.failed <=> <<"asset", q>> \in run[r].failed
      BY <1>2, <2>1
    <3> QED
      BY <2>0, <2>1, <3>1
  <2>2. CASE at = "asset" /\ q # p
    <3>1. /\ <<"asset", q>> \in rec.passed <=> <<"asset", q>> \in run[r].passed
          /\ <<"asset", q>> \in rec.failed <=> <<"asset", q>> \in run[r].failed
      BY <1>2, <2>2
    <3>2. /\ <<r, q, "passed">> \in evidence' <=> <<r, q, "passed">> \in evidence
          /\ <<r, q, "failed">> \in evidence' <=> <<r, q, "failed">> \in evidence
      BY <2>2
    <3> QED
      BY <2>0, <3>1, <3>2
  <2>3. CASE /\ at = "asset" /\ q = p /\ rec = Passed(r, p, entry) /\ Entitled(r, p, entry)
             /\ evidence' = evidence \cup {<<r, p, "passed">>}
    <3>1. rec.passed = run[r].passed \cup {<<"asset", p>>} /\ rec.failed = run[r].failed
      BY <1>1, <2>3 DEF Passed, Reports
    <3>2. /\ <<r, p, "passed">> \in evidence'
          /\ <<r, p, "failed">> \in evidence' <=> <<r, p, "failed">> \in evidence
      BY <2>3
    <3> QED
      BY <2>0, <2>3, <3>1, <3>2, <1>8 DEF Entitled
  <2>4. CASE /\ at = "asset" /\ q = p /\ rec = Failed(r, p)
             /\ evidence' = evidence \cup {<<r, p, "failed">>}
    <3>1. rec.passed = run[r].passed /\ rec.failed = run[r].failed \cup {<<"asset", p>>}
      BY <1>1, <2>4 DEF Failed, Reports
    <3>2. /\ <<r, p, "failed">> \in evidence'
          /\ <<r, p, "passed">> \in evidence' <=> <<r, p, "passed">> \in evidence
      BY <2>4
    <3> QED
      BY <2>0, <2>4, <3>1, <3>2
  <2>5. CASE /\ at = "asset" /\ q = p /\ rec = Failed(r, p)
             /\ UNCHANGED evidence /\ (errors' # 0 \/ rows[p] = Missing)
    <3>1. rec.passed = run[r].passed /\ rec.failed = run[r].failed \cup {<<"asset", p>>}
      BY <1>1, <2>5 DEF Failed, Reports
    <3>2. rows[p] = Missing => p \in Legacy
      BY <1>8, MarkAssumption DEF AuditInv, RowsStand
    <3> QED
      BY <2>0, <2>5, <3>1, <3>2
  <2> QED
    BY <2>1, <2>2, <2>3, <2>4, <2>5
<1>11. Trusted(r, rec)
  BY <1>2, ResultTrusted
<1>12. Trusted(r, rec)'
  BY <1>1, <1>11 DEF Trusted, Pubs, IsFirst, Remade
<1> QED
  BY <1>3, <1>4, <1>5, <1>6, <1>7, <1>9, <1>10, <1>12, ReportStep

LEMMA VerifyStands ==
    ASSUME AuditInv, NEW r \in Operators, NEW p \in Pubs,
           \/ VerifyManifest(r, p) \/ VerifyDetails(r, p) \/ VerifyContract(r, p)
    PROVE  AuditInv'
<1>1. /\ run[r].at \in Checks \ {"asset"} /\ p \in run[r].todo
      /\ UNCHANGED <<published, rows, file, evidence, damages, errors, histories>>
  BY DEF VerifyManifest, VerifyDetails, VerifyContract, IsFirst, Checks
<1>2. \E entry : \/ run' = [run EXCEPT ![r] = Failed(r, p)]
                 \/ run' = [run EXCEPT ![r] = Passed(r, p, entry)] /\ Entitled(r, p, entry)
  <2>1. CASE VerifyManifest(r, p)
    <3>1. PICK entry : entry = "recorded"
      OBVIOUS
    <3> QED
      BY <2>1, <3>1 DEF VerifyManifest, Entitled
  <2>2. CASE VerifyDetails(r, p)
    <3>1. PICK entry : entry = "recorded"
      OBVIOUS
    <3> QED
      BY <2>2, <3>1 DEF VerifyDetails, Entitled
  <2>3. CASE VerifyContract(r, p)
    <3>1. PICK entry \in ManifestEntries(p), matches \in BOOLEAN :
             /\ run' = [run EXCEPT ![r] = IF <<"manifest", p>> \in run[r].passed /\ matches
                                          THEN Passed(r, p, entry) ELSE Failed(r, p)]
      BY <2>3 DEF VerifyContract, Verdicts
    <3>2. file[<<"manifest", p>>] \in Contents
      BY AuditTyped DEF AuditRestTyped, Files, Checks
    <3>3. entry = "recorded" \/ file[<<"manifest", p>>] = "damaged"
      BY <3>2 DEF ManifestEntries, Contents
    <3>4. run[r].at = "contract"
      BY <2>3 DEF VerifyContract
    <3> QED
      BY <3>1, <3>3, <3>4 DEF Entitled
  <2> QED
    BY <2>1, <2>2, <2>3
<1>3. errors' \in 0..MaxErrors
  BY <1>1, AuditTyped DEF AuditRestTyped
<1>4. PICK entry : \/ run' = [run EXCEPT ![r] = Failed(r, p)]
                   \/ run' = [run EXCEPT ![r] = Passed(r, p, entry)] /\ Entitled(r, p, entry)
  BY <1>2
<1> QED
  BY <1>1, <1>3, <1>4, ResultStands

LEMMA VerifyAssetsStands ==
    ASSUME AuditInv, NEW r \in Operators, NEW p \in Pubs,
           VerifyAssets(r, p)
    PROVE  AuditInv'
<1>1. /\ run[r].at = "asset" /\ run[r].at \in Checks /\ p \in run[r].todo
      /\ UNCHANGED <<published, rows, file, damages, errors, histories>>
  BY DEF VerifyAssets, IsFirst, Checks
<1>2. errors' \in 0..MaxErrors
  BY <1>1, AuditTyped DEF AuditRestTyped
<1>3. CASE rows[p] = Missing
  <2>1. run' = [run EXCEPT ![r] = Failed(r, p)] /\ UNCHANGED evidence
    BY <1>3 DEF VerifyAssets
  <2> QED
    BY <1>1, <1>2, <1>3, <2>1, ResultStands
<1>4. CASE rows[p] # Missing
  <2>1. PICK matches \in Verdicts(rows[p], <<"asset", p>>) :
           /\ run' = [run EXCEPT ![r] = IF matches THEN Passed(r, p, rows[p]) ELSE Failed(r, p)]
           /\ evidence' = evidence \cup {<<r, p, IF matches THEN "passed" ELSE "failed">>}
    BY <1>4 DEF VerifyAssets, Check
  <2>2. CASE matches
    <3>1. rows[p] \in {"recorded", "altered"}
      BY <2>1, <2>2 DEF Verdicts
    <3>2. Entitled(r, p, rows[p])
      BY <1>1, <3>1 DEF Entitled
    <3> QED
      BY <1>1, <1>2, <2>1, <2>2, <3>2, ResultStands
  <2>3. CASE ~ matches
    BY <1>1, <1>2, <2>1, <2>3, ResultStands
  <2> QED
    BY <2>2, <2>3
<1> QED
  BY <1>3, <1>4

LEMMA FaultsCounted ==
    ASSUME AuditInv, errors < MaxErrors, errors' = errors + 1
    PROVE  errors' \in 0..MaxErrors /\ errors' # 0
<1>1. errors \in Nat /\ MaxErrors \in Nat
  BY AuditTyped, BoundAssumption
<1> QED
  BY <1>1

LEMMA LoseEvidenceStands ==
    ASSUME AuditInv, NEW r \in Operators, NEW p \in Pubs,
           LoseEvidence(r, p)
    PROVE  AuditInv'
<1>1. /\ run[r].at = "asset" /\ run[r].at \in Checks /\ p \in run[r].todo
      /\ UNCHANGED <<published, rows, file, evidence, damages, histories>>
      /\ run' = [run EXCEPT ![r] = Failed(r, p)]
  BY DEF LoseEvidence, IsFirst, Checks
<1>2. errors' \in 0..MaxErrors /\ errors' # 0
  BY FaultsCounted DEF LoseEvidence
<1> QED
  BY <1>1, <1>2, ResultStands

(* A fault stops a run, or fails all that is left of its details.          *)
LEMMA LoseDetailsStands ==
    ASSUME AuditInv, NEW r \in Operators, LoseDetails(r)
    PROVE  AuditInv'
<1> DEFINE lost == {<<"details", p>> : p \in run[r].pubs}
<1>1. PICK rec : rec = [run[r] EXCEPT !.todo = {}, !.failed = run[r].failed \cup lost]
  OBVIOUS
<1>2. /\ run[r] \in Reports /\ AuditRestTyped /\ run[r].at = "details"
      /\ UNCHANGED <<published, rows, file, evidence, damages, changed, restored>>
      /\ run' = [run EXCEPT ![r] = rec]
  BY <1>1, AuditTyped DEF LoseDetails, histories
<1>3. Selected(r, run[r]) /\ Judged(run[r]) /\ Documented(r, run[r]) /\ Trusted(r, run[r])
  BY DEF AuditInv
<1>4. run[r].failed \cup lost \in SUBSET ((Checks \cup {"rows"}) \X Pubs)
  BY <1>2 DEF Reports, Checks
<1>5. rec \in Reports
  BY <1>1, <1>2, <1>4 DEF Reports
<1>6. /\ rec.at = "details" /\ rec.current = run[r].current /\ rec.all = run[r].all
      /\ rec.pubs = run[r].pubs /\ rec.todo = {} /\ rec.passed = run[r].passed
      /\ rec.seen = run[r].seen /\ rec.failed = run[r].failed \cup lost
  BY <1>1, <1>2 DEF Reports
<1> HIDE DEF lost
<1>7. \A p \in rec.pubs : <<"details", p>> \in rec.failed
  BY <1>6 DEF lost
<1>8. Judged(rec)
  BY <1>2, <1>3, <1>6, <1>7 DEF Judged
<1>9. \A p \in Pubs : <<"asset", p>> \in rec.failed <=> <<"asset", p>> \in run[r].failed
  BY <1>6 DEF lost
<1>10. Documented(r, rec) /\ Selected(r, rec) /\ Trusted(r, rec)
  BY <1>3, <1>6, <1>9 DEF Documented, Selected, Trusted, Early
<1>11. errors' \in 0..MaxErrors /\ errors' # 0
  BY FaultsCounted DEF LoseDetails
<1>12. AuditRestTyped' /\ Onward /\ RowsStand'
  BY <1>2, <1>11 DEF AuditRestTyped, Onward, RowsStand, AuditInv, Existing, Remade, Pubs
<1> QED
  BY <1>2, <1>5, <1>8, <1>10, <1>12, ReportMoves

LEMMA AbortStands ==
    ASSUME AuditInv, NEW r \in Operators, Abort(r)
    PROVE  AuditInv'
<1>1. PICK rec : rec = [run[r] EXCEPT !.at = "aborted"]
  OBVIOUS
<1>2. /\ run[r] \in Reports /\ AuditRestTyped /\ run' = [run EXCEPT ![r] = rec]
      /\ UNCHANGED <<published, rows, file, evidence, damages, changed, restored>>
  BY <1>1, AuditTyped DEF Abort, histories
<1>3. Selected(r, run[r]) /\ Judged(run[r]) /\ Documented(r, run[r]) /\ Trusted(r, run[r])
  BY DEF AuditInv
<1>4. rec \in Reports
  BY <1>1, <1>2 DEF Reports, Stages
<1>5. /\ rec.at = "aborted" /\ rec.current = run[r].current /\ rec.all = run[r].all
      /\ rec.pubs = run[r].pubs /\ rec.passed = run[r].passed
      /\ rec.seen = run[r].seen /\ rec.failed = run[r].failed
  BY <1>1, <1>2 DEF Reports
<1>6. Judged(rec) /\ Documented(r, rec) /\ Selected(r, rec) /\ Trusted(r, rec)
  BY <1>3, <1>5 DEF Judged, Checked, Documented, Selected, Trusted, Early, Checks
<1>7. errors' \in 0..MaxErrors /\ errors' # 0
  BY FaultsCounted DEF Abort
<1>8. AuditRestTyped' /\ Onward /\ RowsStand'
  BY <1>2, <1>7 DEF AuditRestTyped, Onward, RowsStand, AuditInv, Existing, Remade, Pubs
<1> QED
  BY <1>2, <1>4, <1>6, <1>8, ReportMoves

-----------------------------------------------------------------------------
LEMMA AuditStep == ASSUME AuditInv, [AuditNext]_auditVars PROVE AuditInv'
<1>1. ASSUME NEW r \in Operators, Step(r) PROVE AuditInv'
  BY <1>1, SelectStands, AdvanceStands, ReadEntryStands, RegisterStands, VerifyAssetsStands,
     VerifyStands DEF Step
<1>2. ASSUME NEW r \in Operators, \E p \in Pubs : LoseEvidence(r, p) PROVE AuditInv'
  BY <1>2, LoseEvidenceStands
<1>3. CASE UNCHANGED auditVars
  <2>1. UNCHANGED <<published, rows, file, evidence, run, damages, errors, histories>>
    BY <1>3 DEF auditVars, histories
  <2> QED
    BY <2>1, Quiet, ReportsStand
<1> QED
  BY <1>1, <1>2, <1>3, PublishStands, FileStands, BeginStands, LoseDetailsStands, AbortStands,
     BoundAssumption DEF AuditNext

(* A run that reports no failure saw every file of every publication that  *)
(* is still active as it was recorded, and the rows it went by are right,  *)
(* but for what a manifest says that was altered when it was read.         *)
THEOREM CleanReportIsTrueCorrect == AuditSpec => []CleanReportIsTrue
<1>1. ASSUME AuditInv PROVE CleanReportIsTrue
  <2>1. ASSUME NEW r \in Operators, Clean(r), NEW p \in run[r].pubs
        PROVE  /\ p \in Pubs /\ \A k \in Checks : <<k, p>> \in run[r].passed
               /\ <<"manifest", p>> \in run[r].seen /\ <<"details", p>> \in run[r].seen
               /\ <<"asset", p>> \in run[r].seen \/ rows[p] = "altered"
               /\ <<"contract", p>> \in run[r].seen \/ p \in changed[r]
               /\ rows[p] \in {"recorded", "altered"}
               /\ rows[p] = "altered" => p \in restored /\ p \in Legacy
    <3>1. p \in Existing /\ p \in Pubs
      BY <1>1, AuditTyped DEF AuditInv, Selected
    <3>2. \A k \in Checks : <<k, p>> \in run[r].passed
      BY <1>1, <2>1 DEF Clean, AuditInv, Judged, Checked
    <3>3. <<"manifest", p>> \in run[r].seen /\ <<"details", p>> \in run[r].seen
      BY <1>1, <3>1, <3>2 DEF AuditInv, Judged, Checks
    <3>4. /\ <<"asset", p>> \in run[r].seen \/ rows[p] = "altered"
          /\ <<"contract", p>> \in run[r].seen \/ p \in changed[r]
          /\ rows[p] = "altered" => p \in restored
      BY <1>1, <3>1, <3>2 DEF AuditInv, Trusted, Checks
    <3>5. rows[p] \in {"recorded", "altered"}
      BY <1>1, <3>1, <3>2 DEF AuditInv, Documented, Checks
    <3>6. rows[p] = "altered" => p \in Legacy
      BY <1>1, <3>1 DEF AuditInv, RowsStand
    <3> QED
      BY <3>1, <3>2, <3>3, <3>4, <3>5, <3>6
  <2>2. CleanRunSawItsFiles
    <3> SUFFICES ASSUME NEW r \in Operators, Clean(r), NEW p \in run[r].all,
                        IsActive(p) \/ r \in WithHistory
                 PROVE  /\ {<<"manifest", p>>, <<"details", p>>} \subseteq run[r].seen
                        /\ <<"asset", p>> \in run[r].seen \/ rows[p] = "altered"
                        /\ <<"contract", p>> \in run[r].seen \/ p \in changed[r]
      BY DEF CleanRunSawItsFiles
    <3>1. p \in run[r].pubs
      BY <1>1 DEF AuditInv, Selected
    <3> QED
      BY <2>1, <3>1
  <2>3. WrongRowsNeedARestoredManifest
    BY <2>1 DEF WrongRowsNeedARestoredManifest
  <2> QED
    BY <2>2, <2>3 DEF CleanReportIsTrue
<1>2. AuditInit => AuditInv
  BY AuditInitially
<1>3. AuditInv /\ [AuditNext]_auditVars => AuditInv'
  BY AuditStep
<1> QED
  BY <1>1, <1>2, <1>3, PTL DEF AuditSpec

(* A run that ends has a result for each file of what it selected, and the *)
(* evidence in the database says of the assets what the report says.       *)
THEOREM ReportIsKeptCorrect == AuditSpec => []ReportIsKept
<1>1. ASSUME AuditInv PROVE ReportIsKept
  <2>1. ReportIsComplete
    BY <1>1 DEF AuditInv, Judged, Checked, ReportIsComplete
  <2>2. EvidenceMatchesReport
    BY <1>1 DEF AuditInv, Documented, EvidenceMatchesReport
  <2> QED
    BY <1>1, <2>1, <2>2 DEF AuditInv, ReportIsKept
<1>2. AuditInit => AuditInv
  BY AuditInitially
<1>3. AuditInv /\ [AuditNext]_auditVars => AuditInv'
  BY AuditStep
<1> QED
  BY <1>1, <1>2, <1>3, PTL DEF AuditSpec
=============================================================================
