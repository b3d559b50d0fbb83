---------------------- MODULE EngineGovernance_proofs ----------------------
(***************************************************************************)
(* Proofs about EngineGovernance for any number of releases, operators and *)
(* runs.  IInv adds to the invariants what makes them inductive: a         *)
(* transaction past its first statement holds the advisory lock, so what   *)
(* it will retire covers all approved releases until it commits; and a run *)
(* that has passed the gate in production has an approved release.         *)
(*                                                                         *)
(* The second half is about PipelineRun, the run that passes that gate, for*)
(* any configured actions and any number of failing calls.  RunInv places  *)
(* the run in the script of its current action (or past all hope of it),   *)
(* and relates the open steps to the receipts written for them.            *)
(***************************************************************************)
EXTENDS EngineGovernance, PipelineRun, SequenceTheorems, TLAPS

HolderOnly ==
    \A o \in Operators : op[o].at \in {"locked", "row_locked", "retired"} => lock = o

OwnRelease == \A o \in Operators : op[o].at # "idle" => op[o].release \in Releases

GateHolds ==
    \A r \in Runs :
        /\ run[r].at # "idle" /\ run[r].environment = "production" =>
              run[r].policy = "require_approved"
        /\ run[r].at = "processing" /\ run[r].policy = "require_approved" =>
              run[r].release \in approvals
        /\ run[r].at # "idle" => run[r].release \in Releases

IInv == TypeOK /\ HolderOnly /\ OwnRelease /\ ApprovalIsNeverRefused /\ OneReviewedEngine
        /\ GateHolds /\ ProductionIsReviewed

(* The policies a run is composed with: production never allows candidates.*)
LEMMA PolicyResolved ==
    ASSUME NEW environment \in Environments, NEW configured \in Policies \cup {"none"},
           ResolvePolicy(environment, configured) \in Policies, environment = "production"
    PROVE  ResolvePolicy(environment, configured) = "require_approved"
BY DEF ResolvePolicy, Environments, Policies

LEMMA Initially == Init => IInv
BY NoneAssumption DEF Init, IInv, TypeOK, HolderOnly, OwnRelease, ApprovalIsNeverRefused,
   OneReviewedEngine, GateHolds, ProductionIsReviewed, NoApproval, NoRun, Approved,
   Statuses, Environments, Policies

(* The invariants about releases look at no more than this.                *)
LEMMA ReleasesOnly ==
    ASSUME IInv, UNCHANGED <<releases, lock, op>>
    PROVE  HolderOnly' /\ OwnRelease' /\ ApprovalIsNeverRefused' /\ OneReviewedEngine'
BY DEF IInv, HolderOnly, OwnRelease, ApprovalIsNeverRefused, OneReviewedEngine, Approved, releases

LEMMA RunsOnly ==
    ASSUME IInv, UNCHANGED <<run, builds>>, approvals \subseteq approvals'
    PROVE  GateHolds' /\ ProductionIsReviewed'
BY DEF IInv, GateHolds, ProductionIsReviewed

LEMMA ApprovalPreserves ==
    ASSUME IInv, NEW o \in Operators,
           (\E e \in Releases : BeginApproval(o, e)) \/ ApprovalStep(o) \/ Crash(o)
    PROVE  IInv'
<1> USE DEF IInv, Statuses
<1>1. ASSUME NEW e \in Releases, BeginApproval(o, e) PROVE IInv'
  <2>1. TypeOK' BY <1>1 DEF BeginApproval, TypeOK, NoApproval, releases
  <2>2. HolderOnly' /\ OwnRelease'
    BY <1>1 DEF BeginApproval, HolderOnly, OwnRelease, NoApproval, TypeOK
  <2>3. ApprovalIsNeverRefused' /\ OneReviewedEngine'
    BY <1>1 DEF BeginApproval, NoApproval, TypeOK, ApprovalIsNeverRefused, OneReviewedEngine,
       Approved, releases
  <2> QED BY <1>1, <2>1, <2>2, <2>3, RunsOnly DEF BeginApproval, releases
<1>2. CASE LockApproval(o)
  <2>1. TypeOK' BY <1>2 DEF LockApproval, TypeOK, releases
  <2>2. HolderOnly' /\ OwnRelease'
    BY <1>2, NoneAssumption DEF LockApproval, HolderOnly, OwnRelease, TypeOK
  <2>3. ApprovalIsNeverRefused' /\ OneReviewedEngine'
    BY <1>2 DEF LockApproval, TypeOK, ApprovalIsNeverRefused, OneReviewedEngine, Approved,
       releases
  <2> QED BY <1>2, <2>1, <2>2, <2>3, RunsOnly DEF LockApproval, releases
<1>3. CASE LockRow(o)
  <2>1. TypeOK' BY <1>3 DEF LockRow, TypeOK, releases
  <2>2. HolderOnly' /\ OwnRelease'
    BY <1>3 DEF LockRow, HolderOnly, OwnRelease, TypeOK
  <2>3. ApprovalIsNeverRefused' /\ OneReviewedEngine'
    BY <1>3 DEF LockRow, TypeOK, ApprovalIsNeverRefused, OneReviewedEngine, Approved, releases
  <2> QED BY <1>3, <2>1, <2>2, <2>3, RunsOnly DEF LockRow, releases
<1>4. ASSUME EndTransaction(o), UNCHANGED <<releases, run, builds>>, faults' \in Nat
      PROVE  IInv'
  <2>1. TypeOK' BY <1>4 DEF EndTransaction, TypeOK, NoApproval, releases
  <2>2. HolderOnly' /\ OwnRelease'
    BY <1>4 DEF EndTransaction, HolderOnly, OwnRelease, TypeOK, NoApproval
  <2>3. ApprovalIsNeverRefused' /\ OneReviewedEngine'
    BY <1>4 DEF EndTransaction, NoApproval, TypeOK, ApprovalIsNeverRefused,
       OneReviewedEngine, Approved, releases
  <2> QED BY <1>4, <2>1, <2>2, <2>3, RunsOnly DEF releases
<1>5. CASE RefuseUnknown(o)
  BY <1>4, <1>5 DEF RefuseUnknown, TypeOK
<1>6. CASE Crash(o)
  BY <1>4, <1>6, FaultAssumption DEF Crash, TypeOK
<1>7. CASE RetireOthers(o)
  <2>1. TypeOK'
    <3> DEFINE others == Approved \ {op[o].release}
    <3>1. others \in SUBSET Releases BY DEF Approved
    <3>2. op' = [op EXCEPT ![o].at = "retired", ![o].retiring = others]
      BY <1>7 DEF RetireOthers
    <3> HIDE DEF others
    <3>3. op' \in [Operators -> [at: {"idle", "waiting", "locked", "row_locked", "retired"},
                               release: Releases \cup {None}, retiring: SUBSET Releases]]
      <4>1. op[o] \in [at: {"idle", "waiting", "locked", "row_locked", "retired"},
                       release: Releases \cup {None}, retiring: SUBSET Releases]
        BY DEF TypeOK
      <4>2. [op[o] EXCEPT !.at = "retired", !.retiring = others] \in
               [at: {"idle", "waiting", "locked", "row_locked", "retired"},
                release: Releases \cup {None}, retiring: SUBSET Releases]
        BY <3>1, <4>1
      <4> QED BY <3>2, <4>2 DEF TypeOK
    <3> QED BY <1>7, <3>3 DEF RetireOthers, TypeOK, releases
  <2>2. HolderOnly' /\ OwnRelease'
    BY <1>7 DEF RetireOthers, HolderOnly, OwnRelease, TypeOK
  <2>3. OneReviewedEngine' BY <1>7 DEF RetireOthers, OneReviewedEngine, Approved, releases
  <2>4. ApprovalIsNeverRefused'
    BY <1>7 DEF RetireOthers, TypeOK, ApprovalIsNeverRefused, Approved, releases
  <2> QED BY <1>7, <2>1, <2>2, <2>3, <2>4, RunsOnly DEF RetireOthers, releases
<1>8. CASE CommitApproval(o)
  <2> DEFINE e == op[o].release
  <2>0. op[o].at = "retired" /\ e \in Releases /\ lock = o
    BY <1>8 DEF CommitApproval, OwnRelease, HolderOnly
  <2>1. TypeOK'
    <3>1. status' \in [Releases -> Statuses \cup {"absent"}]
      BY <1>8 DEF CommitApproval, TypeOK
    <3>2. rejections' \in SUBSET Releases BY <1>8 DEF CommitApproval, TypeOK
    <3> QED BY <1>8, <2>0, <3>1, <3>2 DEF CommitApproval, EndTransaction, TypeOK, NoApproval
  <2>2. \A p \in Operators : p # o => op'[p].at \notin {"locked", "row_locked", "retired"}
    BY <1>8, <2>0 DEF CommitApproval, EndTransaction, HolderOnly, OwnRelease, TypeOK
  <2>3. op'[o].at = "idle" BY <1>8 DEF CommitApproval, EndTransaction, TypeOK, NoApproval
  <2>4. HolderOnly' /\ ApprovalIsNeverRefused'
    BY <2>2, <2>3 DEF HolderOnly, ApprovalIsNeverRefused
  <2>9. OwnRelease'
    <3>1. \A p \in Operators : p # o => op'[p] = op[p]
      BY <1>8 DEF CommitApproval, EndTransaction, TypeOK
    <3> QED BY <2>3, <3>1 DEF OwnRelease
  <2>5. Approved' \subseteq {e}
    BY <1>8 DEF CommitApproval, Approved, TypeOK
  <2>6. OneReviewedEngine'
    BY <1>8, <2>5 DEF CommitApproval, OneReviewedEngine, Approved, TypeOK
  <2> QED BY <1>8, <2>1, <2>4, <2>6, <2>9, RunsOnly DEF CommitApproval
<1> QED BY <1>1, <1>2, <1>3, <1>5, <1>6, <1>7, <1>8 DEF ApprovalStep

LEMMA RejectPreserves ==
    ASSUME IInv, NEW e \in Releases, Reject(e)
    PROVE  IInv'
<1> USE DEF IInv, Reject
<1>1. TypeOK' BY DEF TypeOK, Statuses
<1>2. Approved' = Approved BY DEF Approved, TypeOK
<1>3. HolderOnly' /\ OwnRelease' /\ ApprovalIsNeverRefused'
  BY <1>2 DEF HolderOnly, OwnRelease, ApprovalIsNeverRefused
<1>4. OneReviewedEngine' BY <1>2 DEF OneReviewedEngine, Approved, TypeOK
<1> QED BY <1>1, <1>3, <1>4, RunsOnly

LEMMA RunPreserves ==
    ASSUME IInv, NEW r \in Runs, RunStep(r)
    PROVE  IInv'
<1> USE DEF IInv
<1>1. ASSUME NEW e \in Releases, NEW environment \in Environments,
             NEW configured \in Policies \cup {"none"},
             Compose(r, e, environment, configured)
      PROVE  IInv'
  <2> DEFINE policy == ResolvePolicy(environment, configured)
  <2>1. policy \in Policies BY <1>1 DEF Compose
  <2>2. TypeOK' BY <1>1, <2>1 DEF Compose, Register, TypeOK, Statuses
  <2>3. Approved' = Approved /\ rejections' = rejections /\ approvals' = approvals
    BY <1>1 DEF Compose, Register, Approved, TypeOK
  <2>4. HolderOnly' /\ OwnRelease' /\ ApprovalIsNeverRefused'
    BY <1>1, <2>3 DEF Compose, HolderOnly, OwnRelease, ApprovalIsNeverRefused
  <2>5. OneReviewedEngine'
    BY <1>1, <2>3 DEF Compose, Register, OneReviewedEngine, TypeOK
  <2>6. GateHolds'
    <3>1. environment = "production" => policy = "require_approved"
      BY <2>1, PolicyResolved
    <3> QED BY <1>1, <2>3, <3>1 DEF Compose, GateHolds, TypeOK
  <2>7. ProductionIsReviewed' BY <1>1, <2>3 DEF Compose, ProductionIsReviewed
  <2> QED BY <2>2, <2>4, <2>5, <2>6, <2>7
<1>2. CASE EvaluateGate(r)
  <2>1. TypeOK' BY <1>2 DEF EvaluateGate, TypeOK, NoRun, Environments, Policies, releases
  <2>2. GateHolds'
    BY <1>2 DEF EvaluateGate, GateHolds, Allows, TypeOK, NoRun, OneReviewedEngine, releases,
       Policies
  <2>3. ProductionIsReviewed' BY <1>2 DEF EvaluateGate, ProductionIsReviewed, releases
  <2> QED BY <1>2, <2>1, <2>2, <2>3, ReleasesOnly DEF EvaluateGate
<1>3. CASE Build(r)
  <2>1. TypeOK' BY <1>3 DEF Build, TypeOK, GateHolds, releases
  <2>2. GateHolds' BY <1>3 DEF Build, GateHolds, releases
  <2>3. ProductionIsReviewed' BY <1>3 DEF Build, ProductionIsReviewed, GateHolds, releases
  <2> QED BY <1>3, <2>1, <2>2, <2>3, ReleasesOnly DEF Build
<1>4. CASE EndRun(r)
  <2>1. TypeOK' BY <1>4 DEF EndRun, TypeOK, NoRun, Environments, Policies, releases
  <2>2. GateHolds' BY <1>4 DEF EndRun, GateHolds, TypeOK, NoRun, releases
  <2>3. ProductionIsReviewed' BY <1>4 DEF EndRun, ProductionIsReviewed, releases
  <2> QED BY <1>4, <2>1, <2>2, <2>3, ReleasesOnly DEF EndRun
<1> QED BY <1>1, <1>2, <1>3, <1>4 DEF RunStep

LEMMA StutterPreserves == IInv /\ UNCHANGED vars => IInv'
BY DEF IInv, vars, releases, TypeOK, HolderOnly, OwnRelease, ApprovalIsNeverRefused,
   OneReviewedEngine, GateHolds, ProductionIsReviewed, Approved

(* The inductive invariant holds in every reachable state.                 *)
LEMMA Invariance == Spec => []IInv
<1>1. IInv /\ [Next]_vars => IInv'
  BY ApprovalPreserves, RejectPreserves, RunPreserves, StutterPreserves DEF Next
<1> QED BY Initially, <1>1, PTL DEF Spec

(* All variables keep their types.                                         *)
LEMMA TypeCorrect == Spec => []TypeOK
<1>1. IInv => TypeOK BY DEF IInv
<1> QED BY Invariance, <1>1, PTL

(* There is never more than one approved engine, and its review is         *)
(* complete, for any number of operators and releases.                     *)
LEMMA OneReviewedEngineCorrect == Spec => []OneReviewedEngine
<1>1. IInv => OneReviewedEngine BY DEF IInv
<1> QED BY Invariance, <1>1, PTL

(* The rows of engine releases and their reviews are consistent.           *)
THEOREM GovernanceIsConsistentCorrect == Spec => []GovernanceIsConsistent
<1>1. TypeOK /\ OneReviewedEngine => GovernanceIsConsistent BY DEF GovernanceIsConsistent
<1> QED BY TypeCorrect, OneReviewedEngineCorrect, <1>1, PTL

(* No approval is ever refused by the unique index on approved rows.       *)
THEOREM ApprovalIsNeverRefusedCorrect == Spec => []ApprovalIsNeverRefused
<1>1. IInv => ApprovalIsNeverRefused BY DEF IInv
<1> QED BY Invariance, <1>1, PTL

(* Every build in production was made by a release that was approved.      *)
THEOREM ProductionIsReviewedCorrect == Spec => []ProductionIsReviewed
<1>1. IInv => ProductionIsReviewed BY DEF IInv
<1> QED BY Invariance, <1>1, PTL

(* No step leaves production without an approved engine once it has one.   *)
THEOREM ApprovalIsContinuousCorrect == Spec => ApprovalIsContinuous
<1>1. IInv /\ [Next]_vars => [Approved # {} => Approved' # {}]_vars
  <2> SUFFICES ASSUME IInv, Next, Approved # {} PROVE Approved' # {}
    BY DEF vars
  <2>1. ASSUME NEW o \in Operators, CommitApproval(o) PROVE Approved' # {}
    <3>1. op[o].release \in Releases
      BY <2>1 DEF CommitApproval, IInv, OwnRelease
    <3>2. status'[op[o].release] = "approved" BY <2>1, <3>1 DEF CommitApproval
    <3> QED BY <3>1, <3>2 DEF Approved
  <2>2. ASSUME NEW e \in Releases, Reject(e) PROVE Approved' # {}
    BY <2>2 DEF Reject, Approved, IInv, TypeOK
  <2>3. ASSUME NEW e \in Releases, Register(e) PROVE Approved' # {}
    BY <2>3 DEF Register, Approved, IInv, TypeOK
  <2>4. ASSUME status' = status PROVE Approved' # {}
    BY <2>4 DEF Approved
  <2> QED BY <2>1, <2>2, <2>3, <2>4 DEF Next, ApprovalStep, RunStep, BeginApproval,
        LockApproval, LockRow, RefuseUnknown, RetireOthers, Crash, Compose, EvaluateGate,
        Build, EndRun, releases
<1> QED BY Invariance, <1>1, PTL DEF Spec, ApprovalIsContinuous

-----------------------------------------------------------------------------
(* What the variables hold.                                                *)
Entries == [step: StepNames, of: Nat, status: {"started", "success", "failed", "interrupted"}]
RunRows == [status: {Nothing, "running", "success", "failed"}, error: Errors \cup {Nothing}]

RunTyped ==
    /\ pipeline \in Seq(STRING) /\ forced \in BOOLEAN
    /\ outcomes \in Seq(STRING \X {"completed", "skipped"})
    /\ open \in Seq(Nat) /\ log \in Seq(Entries) /\ row \in RunRows
    /\ RunTypeOK

(* The script a run is in, the depth of its scopes after k operations, and *)
(* the step that is innermost then.                                        *)
Current == IF pc = "act" /\ begun > 0 THEN pipeline[begun] ELSE "acquisition"
CurrentScript == Script(Current)

Depth(a, k) ==
    IF a = "silver.process"
    THEN IF k \in {2, 4, 5, 7} THEN 2 ELSE IF k \in {1, 3, 6, 8} THEN 1 ELSE 0
    ELSE IF k = 1 THEN 1 ELSE 0

Innermost(a, k) ==
    CASE a = "acquisition" -> "http_file_extraction"
      [] a = "bronze.ingest" -> "ingest_and_stage"
      [] a = "documentation.bind" -> "bind_documentation_assets"
      [] OTHER -> CASE k = 2 -> "build_table"
                    [] k \in {4, 5} -> "finalize_silver_build"
                    [] k = 7 -> "cleanup_silver_staging"
                    [] OTHER -> "process_silver_queue"

StepOf(d) == log[open[d]].step

(* The open steps are those of the script after k operations.              *)
Scoped(k) ==
    /\ todo = SubSeq(CurrentScript, k + 1, Len(CurrentScript))
    /\ Len(open) = Depth(Current, k)
    /\ Len(open) > 0 => StepOf(Len(open)) = Innermost(Current, k)
    /\ Len(open) = 2 => StepOf(1) = "process_silver_queue"

Following == \E k \in 0..Len(CurrentScript) : Scoped(k)

(* An exception has left a step that does not turn it into a warning, and  *)
(* meets none that does.                                                   *)
Hopeless == error # Nothing /\ \A d \in 1..Len(open) : ~MayWarn(StepOf(d))
Abandoned == Hopeless /\ todo = <<>> /\ Len(open) <= 1

Placed ==
    /\ Working => Following \/ Abandoned
    /\ ~Working /\ pc # "crashed" => open = <<>>
    /\ pc \in {"new", "opened"} => log = <<>>
    /\ pc \in {"new", "opened", "resolve"} => todo = <<>> /\ open = <<>> /\ begun = 0
    /\ pc \in {"new", "opened", "finish"} => error = Nothing
    /\ pc = "acquire" => begun = 0
    /\ pc = "act" => landed \/ forced
    /\ pc = "act" /\ begun = Len(outcomes) => todo = <<>> /\ open = <<>>

(* The open steps are the indexes of unfinished receipts in their order.   *)
Opened ==
    /\ \A d \in 1..Len(open) :
          open[d] \in 1..Len(log) /\ log[open[d]].of = 0 /\ Closing(open[d]) = {}
    /\ \A d, e \in 1..Len(open) : d < e => open[d] < open[e]

IsOpen(i) == \E d \in 1..Len(open) : open[d] = i

(* Every step that has ended, but for those that may warn, succeeded.      *)
Flawless ==
    \A i \in Begins : ~IsOpen(i) /\ ~MayWarn(log[i].step) =>
        \E j \in Closing(i) : log[j].status = "success"

Whole ==
    /\ Working => Flawless \/ Hopeless
    /\ pc \in {"finish", "returned"} \/ row.status = "success" => Flawless

(* With every call answered, a step that has ended is closed once, after   *)
(* the steps within it.                                                    *)
Closed(i) ==
    \E j \in Closing(i) :
        /\ Closing(i) = {j}
        /\ \A inner \in Begins \cap (i + 1)..(j - 1) : \E k \in Closing(inner) :
              /\ k < j
              /\ log[k].status # "success" /\ log[j].status = "success" =>
                    MayWarn(log[inner].step)

Receipted == failures = 0 => \A i \in Begins : IsOpen(i) \/ Closed(i)

(* The outcomes are those of the configured actions, a binding after the   *)
(* ingestion that made its batch.                                          *)
InOrder ==
    /\ \A i \in 1..Len(outcomes) : outcomes[i][1] = "documentation.bind" =>
          \E j \in 1..(i - 1) : outcomes[j] = <<"bronze.ingest", "completed">>
    /\ pc = "act" /\ error = Nothing /\ begun > Len(outcomes) => HasBatch(pipeline[begun])
    /\ pc = "finish" \/ row.status = "success" =>
          Len(outcomes) = IF landed \/ forced THEN Len(pipeline) ELSE 0

(* The row says what became of the run, and why.                           *)
Recorded ==
    /\ error = cause
    /\ pc = "raised" => error # Nothing
    /\ pc \in {"new", "opened"} => row.status = Nothing
    /\ row.status = "failed" => pc = "raised" /\ row.error = error
    /\ row.status = "success" => pc \in {"returned", "raised"}
    /\ row.status = "running" /\ failures = 0 => pc \notin {"returned", "raised"}
    /\ pc = "returned" => row.status = "success"

(* Once the decision is committed, an exception of the finalization is     *)
(* still in the scope that turns it into a warning.                        *)
Outlived ==
    error # Nothing /\ decided /\ error.step = "finalize_silver_build" /\ error.kind = "Exception"
        /\ pc # "crashed"
    => Working /\ open # <<>> /\ StepOf(Len(open)) = "finalize_silver_build"

RunInv ==
    /\ RunTyped /\ Placed /\ Opened /\ Whole /\ Receipted /\ InOrder /\ Recorded /\ Outlived

-----------------------------------------------------------------------------
(* What is left of a script when its next operation is done, and what      *)
(* follows the step that ends with its m-th operation.                     *)
LEMMA RestOfScript ==
    ASSUME NEW S, NEW s \in Seq(S), NEW k \in 0..Len(s), k < Len(s)
    PROVE  LET rest == SubSeq(s, k + 1, Len(s))
           IN  rest # <<>> /\ Head(rest) = s[k + 1] /\ Tail(rest) = SubSeq(s, k + 2, Len(s))
<1>1. k + 1 \in 1..Len(s) /\ Len(s) \in (k + 1)..Len(s) /\ k + 1 + 1 = k + 2
  BY LenProperties
<1>2. /\ Head(SubSeq(s, k + 1, Len(s))) = s[k + 1]
      /\ Tail(SubSeq(s, k + 1, Len(s))) = SubSeq(s, k + 2, Len(s))
  BY <1>1, HeadTailOfSubSeq
<1>3. SubSeq(s, k + 1, Len(s)) # <<>>
  <2>1. Len(SubSeq(s, k + 1, Len(s))) = Len(s) - k /\ Len(s) - k # 0
    BY LenProperties
  <2> QED
    BY <2>1, EmptySeq
<1>4. k + 1 + 1 = k + 2
  OBVIOUS
<1> QED
  BY <1>2, <1>3, <1>4

(* The next end of a step in what is left of a script is found.            *)
LEMMA AfterStep ==
    ASSUME NEW S, NEW s \in Seq(S), NEW k \in 0..Len(s), NEW m \in (k + 1)..Len(s),
           s[m] = Leave, \A j \in (k + 1)..(m - 1) : s[j] # Leave
    PROVE  AfterLeave(SubSeq(s, k + 1, Len(s))) = SubSeq(s, m + 1, Len(s))
<1> DEFINE n == Len(s)
           ops == SubSeq(s, k + 1, n)
           First(i) == ops[i] = Leave /\ \A j \in 1..(i - 1) : ops[j] # Leave
           leave == CHOOSE i \in 1..Len(ops) : First(i)
<1>1. n \in Nat /\ k \in Nat /\ m \in Nat /\ k < m /\ m <= n
  BY LenProperties
<1>2. Len(ops) = n - k /\ \A i \in 1..(n - k) : ops[i] = s[k + i]
  BY <1>1, LenProperties
<1>3. m - k \in 1..Len(ops) /\ First(m - k)
  BY <1>1, <1>2
<1>4. \A i \in 1..Len(ops) : First(i) => i = m - k
  <2> SUFFICES ASSUME NEW i \in 1..Len(ops), First(i), i # m - k PROVE FALSE
    OBVIOUS
  <2>1. CASE i < m - k
    BY <1>1, <1>2, <2>1
  <2>2. CASE i > m - k
    <3>1. m - k \in 1..(i - 1)
      BY <1>1, <2>2
    <3> QED
      BY <1>3, <3>1
  <2> QED
    BY <1>1, <1>2, <2>1, <2>2
<1>5. leave = m - k
  BY <1>3, <1>4
<1>6. AfterLeave(ops) = SubSeq(ops, leave + 1, Len(ops))
  BY DEF AfterLeave
<1>7. SubSeq(ops, m - k + 1, n - k) = SubSeq(s, m + 1, n)
  <2>1. CASE m = n
    BY <1>1, <2>1, SubSeqEmpty
  <2>2. CASE m < n
    <3>1. /\ ops \in Seq(S) /\ k + 1 \in 1..Len(s) /\ n \in 1..Len(s)
          /\ m - k + 1 \in 1..(n - (k + 1) + 1) /\ n - k \in 1..(n - (k + 1) + 1)
      BY <1>1, <2>2
    <3>2. SubSeq(SubSeq(s, k + 1, n), m - k + 1, n - k)
              = SubSeq(s, k + 1 + (m - k + 1) - 1, k + 1 + (n - k) - 1)
      BY <3>1, SubSeqOfSubSeq
    <3>3. k + 1 + (m - k + 1) - 1 = m + 1 /\ k + 1 + (n - k) - 1 = n
      BY <1>1
    <3> QED
      BY <3>2, <3>3
  <2> QED
    BY <1>1, <2>1, <2>2
<1> HIDE DEF leave, ops
<1> QED
  BY <1>2, <1>5, <1>6, <1>7 DEF ops

Ops == [op: {"enter", "leave", "decide"}, step: StepNames \cup {Nothing}]
Simple == {"acquisition", "bronze.ingest", "documentation.bind"}

(* The script of an action other than Silver has one step, or none.        *)
LEMMA SimpleScript ==
    ASSUME NEW a, a # "silver.process"
    PROVE  /\ Script(a) \in Seq(Ops)
           /\ a \in Simple => Len(Script(a)) = 2 /\ Script(a)[1] = Enter(Innermost(a, 1))
                              /\ Script(a)[2] = Leave
           /\ a \notin Simple => Script(a) = <<>>
<1>1. ASSUME NEW x \in Ops, Script(a) = <<x, Leave>>
      PROVE  Script(a) \in Seq(Ops) /\ Len(Script(a)) = 2
             /\ Script(a)[1] = x /\ Script(a)[2] = Leave
  <2>1. Leave \in Ops
    BY DEF Ops, Leave
  <2>2. <<x, Leave>> \in Seq(Ops) /\ Len(<<x, Leave>>) = 2
        /\ <<x, Leave>>[1] = x /\ <<x, Leave>>[2] = Leave
    BY <2>1
  <2> QED
    BY <1>1, <2>2
<1>2. ASSUME a \in Simple
      PROVE  Enter(Innermost(a, 1)) \in Ops /\ Script(a) = <<Enter(Innermost(a, 1)), Leave>>
  <2>1. CASE a = "acquisition"
    <3>1. Innermost(a, 1) = "http_file_extraction"
      BY <2>1 DEF Innermost
    <3>2. Script(a) = <<Enter("http_file_extraction"), Leave>>
      BY <2>1 DEF Script
    <3>3. Enter("http_file_extraction") \in Ops
      BY DEF Ops, Enter, StepNames
    <3> QED
      BY <3>1, <3>2, <3>3
  <2>2. CASE a = "bronze.ingest"
    <3>1. Innermost(a, 1) = "ingest_and_stage"
      BY <2>2 DEF Innermost
    <3>2. Script(a) = <<Enter("ingest_and_stage"), Leave>>
      BY <2>2 DEF Script
    <3>3. Enter("ingest_and_stage") \in Ops
      BY DEF Ops, Enter, StepNames
    <3> QED
      BY <3>1, <3>2, <3>3
  <2>3. CASE a = "documentation.bind"
    <3>1. Innermost(a, 1) = "bind_documentation_assets"
      BY <2>3 DEF Innermost
    <3>2. Script(a) = <<Enter("bind_documentation_assets"), Leave>>
      BY <2>3 DEF Script
    <3>3. Enter("bind_documentation_assets") \in Ops
      BY DEF Ops, Enter, StepNames
    <3> QED
      BY <3>1, <3>2, <3>3
  <2> QED
    BY <1>2, <2>1, <2>2, <2>3 DEF Simple
<1>3. CASE a \in Simple
  BY <1>1, <1>2, <1>3
<1>4. CASE a \notin Simple
  BY <1>4, EmptySeq DEF Script, Simple
<1> QED
  BY <1>3, <1>4

(* Silver opens four steps, three of them within the first.                *)
LEMMA SilverScript ==
    LET s == Script("silver.process")
    IN  /\ s \in Seq(Ops) /\ Len(s) = 9
        /\ s[1] = Enter("process_silver_queue")
        /\ s[2] = Enter("build_table") /\ s[3] = Leave
        /\ s[4] = Enter("finalize_silver_build") /\ s[5] = Decide /\ s[6] = Leave
        /\ s[7] = Enter("cleanup_silver_staging") /\ s[8] = Leave /\ s[9] = Leave
<1> DEFINE s == <<Enter("process_silver_queue"), Enter("build_table"), Leave,
                  Enter("finalize_silver_build"), Decide, Leave,
                  Enter("cleanup_silver_staging"), Leave, Leave>>
<1>1. Script("silver.process") = s
  BY DEF Script
<1>2. /\ Enter("process_silver_queue") \in Ops /\ Enter("build_table") \in Ops /\ Leave \in Ops
      /\ Enter("finalize_silver_build") \in Ops /\ Decide \in Ops
      /\ Enter("cleanup_silver_staging") \in Ops
  BY DEF Ops, Enter, Leave, Decide, StepNames
<1>3. s \in Seq(Ops) /\ Len(s) = 9
  BY <1>2
<1>4. /\ s[1] = Enter("process_silver_queue")
      /\ s[2] = Enter("build_table") /\ s[3] = Leave
      /\ s[4] = Enter("finalize_silver_build") /\ s[5] = Decide /\ s[6] = Leave
      /\ s[7] = Enter("cleanup_silver_staging") /\ s[8] = Leave /\ s[9] = Leave
  OBVIOUS
<1> HIDE DEF s
<1> QED
  BY <1>1, <1>3, <1>4

(* A step leaves the scopes as deep as its script says; what may warn is   *)
(* the innermost of two, and the end of each such step is the next in its  *)
(* script.                                                                 *)
LEMMA ScriptTyped ==
    ASSUME NEW a
    PROVE  Script(a) \in Seq(Ops) /\ Len(Script(a)) \in Nat
           /\ Depth(a, 0) = 0 /\ Depth(a, Len(Script(a))) = 0
<1>1. CASE a = "silver.process"
  BY <1>1, SilverScript, LenProperties DEF Depth
<1>2. CASE a # "silver.process"
  <2>1. Len(Script(a)) \in {0, 2}
    BY <1>2, SimpleScript, EmptySeq
  <2> QED
    BY <1>2, <2>1, SimpleScript DEF Depth
<1> QED
  BY <1>1, <1>2

(* Every script nests its steps at most two deep.                          *)
LEMMA ScriptScopes ==
    ASSUME NEW a, NEW k \in 0..Len(Script(a))
    PROVE  /\ Depth(a, k) \in 0..2
           /\ Depth(a, k) > 0 => Innermost(a, k) \in StepNames
           /\ Depth(a, k) = 1 => ~MayWarn(Innermost(a, k))
<1>1. CASE a = "silver.process"
  <2>1. k \in 0..9
    BY <1>1, SilverScript
  <2>2. CASE Depth(a, k) = 2
    <3>1. k \in {2, 4, 5, 7}
      BY <1>1, <2>1, <2>2 DEF Depth
    <3>2. Innermost(a, k) \in {"build_table", "finalize_silver_build", "cleanup_silver_staging"}
      BY <1>1, <3>1 DEF Innermost
    <3> QED
      BY <2>2, <3>2 DEF StepNames
  <2>3. CASE Depth(a, k) # 2
    <3>1. Depth(a, k) \in 0..1 /\ k \notin {2, 4, 5, 7}
      BY <1>1, <2>1, <2>3 DEF Depth
    <3>2. Innermost(a, k) = "process_silver_queue"
      BY <1>1, <3>1 DEF Innermost
    <3> QED
      BY <3>1, <3>2 DEF StepNames, MayWarn
  <2> QED
    BY <2>2, <2>3
<1>2. CASE a # "silver.process"
  <2>1. k \in 0..2 /\ (k = 0 \/ a \in Simple)
    BY <1>2, SimpleScript, EmptySeq
  <2>2. CASE k = 1
    <3>1. Depth(a, k) = 1 /\ Depth(a, k + 1) = 0 /\ Len(Script(a)) = 2
      BY <1>2, <2>1, <2>2, SimpleScript DEF Depth
    <3>2. Innermost(a, k) \in {"http_file_extraction", "ingest_and_stage",
                               "bind_documentation_assets"}
      BY <2>1, <2>2 DEF Innermost, Simple
    <3> QED
      BY <2>2, <3>1, <3>2 DEF StepNames, MayWarn
  <2>3. CASE k # 1
    BY <1>2, <2>1, <2>3 DEF Depth
  <2> QED
    BY <2>2, <2>3
<1> QED
  BY <1>1, <1>2

(* What each operation of a script does to the depth of its scopes.        *)
LEMMA ScriptSteps ==
    ASSUME NEW a, NEW k \in 0..Len(Script(a)), k < Len(Script(a))
    PROVE  LET next == Script(a)[k + 1]
           IN  /\ next \in Ops
               /\ next.op = "enter" =>
                     /\ next.step \in StepNames /\ next.step = Innermost(a, k + 1)
                     /\ Depth(a, k + 1) = Depth(a, k) + 1
                     /\ Depth(a, k) = 1 => Innermost(a, k) = "process_silver_queue"
               /\ next.op = "decide" =>
                     /\ Depth(a, k + 1) = Depth(a, k) /\ Innermost(a, k + 1) = Innermost(a, k)
               /\ next.op = "leave" =>
                     /\ Depth(a, k) = Depth(a, k + 1) + 1
                     /\ Depth(a, k + 1) = 1 => Innermost(a, k + 1) = "process_silver_queue"
<1>1. CASE a = "silver.process"
  <2>1. k \in 0..8
    <3>1. Len(Script(a)) = 9
      BY <1>1, SilverScript
    <3> QED
      BY <3>1
  <2>2. \A s : /\ Enter(s).op = "enter" /\ Enter(s).step = s
               /\ Leave.op = "leave" /\ Decide.op = "decide"
    BY DEF Enter, Leave, Decide
  <2>3. Script(a)[k + 1] \in Ops
    BY ScriptTyped, LenProperties
  <2>4. CASE k = 0
    <3>1. Innermost(a, 1) = "process_silver_queue" BY <1>1 DEF Innermost
    <3> QED BY <1>1, <2>2, <2>3, <2>4, <3>1, SilverScript DEF Depth, StepNames
  <2>5. CASE k = 1
    <3>1. Innermost(a, 1) = "process_silver_queue" /\ Innermost(a, 2) = "build_table"
      BY <1>1 DEF Innermost
    <3> QED BY <1>1, <2>2, <2>3, <2>5, <3>1, SilverScript DEF Depth, StepNames
  <2>6. CASE k = 2
    <3>1. Innermost(a, 3) = "process_silver_queue" BY <1>1 DEF Innermost
    <3> QED BY <1>1, <2>2, <2>3, <2>6, <3>1, SilverScript DEF Depth, StepNames
  <2>7. CASE k = 3
    <3>1. Innermost(a, 3) = "process_silver_queue" /\ Innermost(a, 4) = "finalize_silver_build"
      BY <1>1 DEF Innermost
    <3> QED BY <1>1, <2>2, <2>3, <2>7, <3>1, SilverScript DEF Depth, StepNames
  <2>8. CASE k = 4
    <3>1. Innermost(a, 4) = "finalize_silver_build" /\ Innermost(a, 5) = "finalize_silver_build"
      BY <1>1 DEF Innermost
    <3> QED BY <1>1, <2>2, <2>3, <2>8, <3>1, SilverScript DEF Depth, StepNames
  <2>9. CASE k = 5
    <3>1. Innermost(a, 6) = "process_silver_queue" BY <1>1 DEF Innermost
    <3> QED BY <1>1, <2>2, <2>3, <2>9, <3>1, SilverScript DEF Depth, StepNames
  <2>10. CASE k = 6
    <3>1. Innermost(a, 6) = "process_silver_queue" /\ Innermost(a, 7) = "cleanup_silver_staging"
      BY <1>1 DEF Innermost
    <3> QED BY <1>1, <2>2, <2>3, <2>10, <3>1, SilverScript DEF Depth, StepNames
  <2>11. CASE k = 7
    <3>1. Innermost(a, 8) = "process_silver_queue" BY <1>1 DEF Innermost
    <3> QED BY <1>1, <2>2, <2>3, <2>11, <3>1, SilverScript DEF Depth, StepNames
  <2>12. CASE k = 8
    BY <1>1, <2>2, <2>3, <2>12, SilverScript DEF Depth
  <2> QED
    BY <2>1, <2>4, <2>5, <2>6, <2>7, <2>8, <2>9, <2>10, <2>11, <2>12
<1>2. CASE a # "silver.process"
  <2>1. k \in 0..1 /\ a \in Simple /\ Script(a)[1] = Enter(Innermost(a, 1)) /\ Script(a)[2] = Leave
    <3>1. Script(a) # <<>>
      BY ScriptTyped, EmptySeq
    <3>2. a \in Simple /\ Len(Script(a)) = 2
      BY <1>2, <3>1, SimpleScript
    <3> QED
      BY <1>2, <3>2, SimpleScript
  <2>2. Enter(Innermost(a, 1)).op = "enter" /\ Enter(Innermost(a, 1)).step = Innermost(a, 1)
        /\ Leave.op = "leave"
    BY DEF Enter, Leave
  <2>3. Script(a)[k + 1] \in Ops
    BY ScriptTyped, LenProperties
  <2>4. Innermost(a, 1) \in StepNames
    BY <1>2, <2>1, ScriptScopes, SimpleScript DEF Depth
  <2>5. CASE k = 0
    BY <1>2, <2>1, <2>2, <2>3, <2>4, <2>5 DEF Depth
  <2>6. CASE k = 1
    BY <1>2, <2>1, <2>2, <2>3, <2>4, <2>6 DEF Depth
  <2> QED
    BY <2>1, <2>5, <2>6
<1> QED
  BY <1>1, <1>2

(* A step that may warn ends within the queue that Silver processes.       *)
LEMMA ScriptWarnings ==
    ASSUME NEW a, NEW k \in 0..Len(Script(a)), NEW s, MayWarn(s),
           \/ Depth(a, k) > 0 /\ Innermost(a, k) = s
           \/ k < Len(Script(a)) /\ Script(a)[k + 1] = Enter(s)
    PROVE  /\ a = "silver.process"
           /\ k < Len(Script(a)) /\ Script(a)[k + 1] = Enter(s) => Depth(a, k) = 1
           /\ \E m \in (k + 1)..Len(Script(a)) :
                 /\ Script(a)[m] = Leave /\ \A j \in (k + 1)..(m - 1) : Script(a)[j] # Leave
                 /\ Depth(a, m) = 1 /\ Innermost(a, m) = "process_silver_queue"
<1>1. a = "silver.process"
  <2> SUFFICES ASSUME a # "silver.process" PROVE FALSE
    OBVIOUS
  <2>1. \A t : Enter(t).step = t
    BY DEF Enter
  <2>2. CASE Depth(a, k) > 0 /\ Innermost(a, k) = s
    <3>1. Depth(a, k) = 1
      BY <2>2 DEF Depth
    <3> QED
      BY <2>2, <3>1, ScriptScopes
  <2>3. CASE k < Len(Script(a)) /\ Script(a)[k + 1] = Enter(s)
    <3>1. Enter(s).op = "enter" /\ Enter(s).step = s
      BY DEF Enter
    <3>2. s = Innermost(a, k + 1) /\ Depth(a, k + 1) = Depth(a, k) + 1 /\ Depth(a, k) \in 0..2
      BY <2>3, <3>1, ScriptSteps, ScriptScopes
    <3>3. Depth(a, k + 1) = 1 /\ k + 1 \in 0..Len(Script(a))
      BY <2>3, <3>2 DEF Depth
    <3> QED
      BY <3>2, <3>3, ScriptScopes
  <2> QED
    BY <2>2, <2>3
<1>2. Len(Script(a)) = 9 /\ k \in 0..9
  <2>1. Len(Script(a)) = 9
    BY <1>1, SilverScript
  <2> QED
    BY <2>1
<1>3. (\A t : Enter(t) # Leave /\ Enter(t).step = t /\ Enter(t) # Decide) /\ Decide # Leave
  BY DEF Enter, Leave, Decide
<1>4. ASSUME k < Len(Script(a)), Script(a)[k + 1] = Enter(s) PROVE k \in {3, 6}
  <2>1. k \in {0, 1, 2, 3, 4, 5, 6, 7, 8}
    BY <1>2, <1>4
  <2>2. /\ k = 0 => s = "process_silver_queue"
        /\ k = 1 => s = "build_table"
        /\ k \notin {2, 4, 5, 7, 8}
    BY <1>1, <1>3, <1>4, SilverScript
  <2> QED
    BY <2>1, <2>2 DEF MayWarn
<1>5. ASSUME Depth(a, k) > 0, Innermost(a, k) = s PROVE k \in {4, 5, 7}
  <2>1. Depth(a, k) # 1
    BY <1>5, ScriptScopes
  <2>2. k \in {2, 4, 5, 7}
    BY <1>1, <1>2, <1>5, <2>1 DEF Depth
  <2>3. k # 2
    BY <1>1, <1>5 DEF Innermost, MayWarn
  <2> QED
    BY <2>2, <2>3
<1>6. k \in {3, 4, 5, 6, 7}
  BY <1>4, <1>5
<1>7. /\ Depth(a, 3) = 1 /\ Depth(a, 6) = 1 /\ Depth(a, 8) = 1
  BY <1>1 DEF Depth
<1>8. Innermost(a, 6) = "process_silver_queue" /\ Innermost(a, 8) = "process_silver_queue"
  BY <1>1 DEF Innermost
<1>9. /\ Script(a)[4] # Leave /\ Script(a)[5] # Leave /\ Script(a)[6] = Leave
      /\ Script(a)[7] # Leave /\ Script(a)[8] = Leave
  BY <1>1, <1>3, SilverScript
<1>10. CASE k \in {3, 4, 5}
  <2>1. 6 \in (k + 1)..Len(Script(a)) /\ \A j \in (k + 1)..(6 - 1) : j \in {4, 5}
    BY <1>2, <1>10
  <2> QED
    BY <1>1, <1>4, <1>7, <1>8, <1>9, <2>1
<1>11. CASE k \in {6, 7}
  <2>1. 8 \in (k + 1)..Len(Script(a)) /\ \A j \in (k + 1)..(8 - 1) : j = 7
    BY <1>2, <1>11
  <2> QED
    BY <1>1, <1>4, <1>7, <1>8, <1>9, <2>1
<1> QED
  BY <1>6, <1>10, <1>11

-----------------------------------------------------------------------------
(* One more receipt in the log.                                            *)
LEMMA Extended ==
    ASSUME RunTyped, NEW entry \in Entries, log' = Append(log, entry)
    PROVE  /\ log' \in Seq(Entries) /\ Len(log) \in Nat /\ Len(log') = Len(log) + 1
           /\ \A i \in 1..Len(log) : log'[i] = log[i] /\ log[i] \in Entries
           /\ log'[Len(log) + 1] = entry
           /\ \A i : Closing(i) \subseteq 1..Len(log)
           /\ \A i : entry.of # i => Closing(i)' = Closing(i)
           /\ \A i : entry.of = i => Closing(i)' = Closing(i) \cup {Len(log) + 1}
           /\ entry.of # 0 => Begins' = Begins
           /\ entry.of = 0 => Begins' = Begins \cup {Len(log) + 1}
           /\ entry.of <= Len(log) => \A i \in 1..Len(log') : log'[i].of < i
<1>1. log \in Seq(Entries)
  BY DEF RunTyped
<1>2. /\ log' \in Seq(Entries) /\ Len(log) \in Nat /\ Len(log') = Len(log) + 1
      /\ \A i \in 1..Len(log) : log'[i] = log[i] /\ log[i] \in Entries
      /\ log'[Len(log) + 1] = entry
  BY <1>1, LenProperties
<1>3. 1..Len(log') = 1..Len(log) \cup {Len(log) + 1}
  BY <1>2
<1>4. \A i : /\ Closing(i) \subseteq 1..Len(log)
             /\ entry.of # i => Closing(i)' = Closing(i)
             /\ entry.of = i => Closing(i)' = Closing(i) \cup {Len(log) + 1}
  BY <1>2, <1>3 DEF Closing
<1>5. /\ entry.of # 0 => Begins' = Begins
      /\ entry.of = 0 => Begins' = Begins \cup {Len(log) + 1}
  BY <1>2, <1>3 DEF Begins
<1>6. entry.of <= Len(log) => \A i \in 1..Len(log') : log'[i].of < i
  <2>1. entry.of \in Nat
    BY DEF Entries
  <2>2. \A i \in 1..Len(log) : log[i].of < i
    BY DEF RunTyped, RunTypeOK
  <2> QED
    BY <1>2, <1>3, <2>1, <2>2
<1> QED
  BY <1>2, <1>4, <1>5, <1>6

(* A step that is closed stays so, unless it is closed again.              *)
LEMMA ClosedKeeps ==
    ASSUME RunTyped, NEW entry \in Entries, log' = Append(log, entry),
           NEW i \in Begins, entry.of # i, Closed(i)
    PROVE  Closed(i)'
<1>1. PICK j \in Closing(i) :
          /\ Closing(i) = {j}
          /\ \A inner \in Begins \cap (i + 1)..(j - 1) : \E k \in Closing(inner) :
                /\ k < j
                /\ log[k].status # "success" /\ log[j].status = "success" =>
                      MayWarn(log[inner].step)
  BY DEF Closed
<1>2. j \in Closing(i)' /\ Closing(i)' = {j} /\ j \in 1..Len(log) /\ log'[j] = log[j]
  BY <1>1, Extended
<1>3. ASSUME NEW inner \in Begins' \cap (i + 1)..(j - 1)
      PROVE  \E k \in Closing(inner)' :
                /\ k < j
                /\ log'[k].status # "success" /\ log'[j].status = "success" =>
                      MayWarn(log'[inner].step)
  <2>1. i \in 1..Len(log) /\ Len(log) \in Nat
    BY Extended DEF Begins
  <2>2. inner \in Begins \cap (i + 1)..(j - 1) /\ inner \in 1..Len(log)
    <3>1. inner # Len(log) + 1
      BY <1>2, <2>1
    <3>2. inner \in Begins
      BY <3>1, Extended
    <3> QED
      BY <3>2 DEF Begins
  <2>3. PICK k \in Closing(inner) :
            /\ k < j
            /\ log[k].status # "success" /\ log[j].status = "success" =>
                  MayWarn(log[inner].step)
    BY <1>1, <2>2
  <2>4. k \in Closing(inner)' /\ log'[k] = log[k] /\ log'[inner] = log[inner]
    BY <2>2, <2>3, Extended
  <2> QED
    BY <1>2, <2>3, <2>4
<1> QED
  BY <1>2, <1>3 DEF Closed

(* A step is entered: a receipt more, and a scope more that waits for      *)
(* its end.                                                                *)
LEMMA Pushed ==
    ASSUME RunTyped, Opened, NEW s \in StepNames, log' = Append(log, Started(s)),
           open' = Append(open, Len(log) + 1)
    PROVE  /\ log' \in Seq(Entries) /\ \A i \in 1..Len(log') : log'[i].of < i
           /\ open' \in Seq(Nat) /\ Len(open) \in Nat /\ Len(open') = Len(open) + 1
           /\ \A d \in 1..Len(open) : StepOf(d)' = StepOf(d)
           /\ \A d : d = Len(open) + 1 => StepOf(d)' = s
           /\ Opened'
           /\ Flawless => Flawless'
           /\ (\A i \in Begins : IsOpen(i) \/ Closed(i))
                  => \A i \in Begins' : IsOpen(i)' \/ Closed(i)'
<1>1. Started(s) \in Entries /\ Started(s).of = 0 /\ Started(s).step = s
  BY DEF Started, Entries
<1>0. PICK n : n = Len(log) + 1
  OBVIOUS
<1>2. /\ Len(log) \in Nat /\ Len(log') = n /\ log'[n] = Started(s)
      /\ \A i \in 1..Len(log) : log'[i] = log[i]
      /\ \A i : i # 0 => Closing(i)' = Closing(i)
      /\ \A i : Closing(i) \subseteq 1..Len(log)
      /\ Begins' = Begins \cup {n}
      /\ log' \in Seq(Entries) /\ \A i \in 1..Len(log') : log'[i].of < i
  BY <1>0, <1>1, Extended
<1>3. /\ open' \in Seq(Nat) /\ Len(open) \in Nat /\ Len(open') = Len(open) + 1
      /\ \A d \in 1..Len(open) : open'[d] = open[d]
      /\ open'[Len(open) + 1] = n
  BY <1>0, <1>2, LenProperties DEF RunTyped
<1>4. \A d \in 1..Len(open) : StepOf(d)' = StepOf(d)
  BY <1>2, <1>3 DEF StepOf, Opened
<1>5. \A d : d = Len(open) + 1 => StepOf(d)' = s
  BY <1>1, <1>2, <1>3 DEF StepOf
<1>6. Closing(n)' = {}
  <2>1. Closing(n) = {}
    <3> SUFFICES ASSUME NEW j \in 1..Len(log), log[j].of = n PROVE FALSE
      BY DEF Closing
    <3>1. log[j].of < j
      BY DEF RunTyped, RunTypeOK
    <3>2. log[j].of \in Nat
      BY <1>1, Extended DEF Entries
    <3> QED
      BY <1>0, <1>2, <3>1, <3>2
  <2> QED
    BY <1>2, <2>1
<1>7. Opened'
  <2>1. \A d \in 1..Len(open') : d \in 1..Len(open) \/ d = Len(open) + 1
    BY <1>3
  <2>2. ASSUME NEW d \in 1..Len(open')
        PROVE  /\ open'[d] \in 1..Len(log') /\ log'[open'[d]].of = 0
               /\ \A i : i = open'[d] => Closing(i)' = {}
    <3>1. CASE d \in 1..Len(open)
      <4>1. open'[d] = open[d] /\ open[d] \in 1..Len(log) /\ log[open[d]].of = 0
            /\ Closing(open[d]) = {}
        BY <1>3, <3>1 DEF Opened
      <4>2. \A i : i = open'[d] => Closing(i)' = {}
        BY <1>2, <4>1
      <4> QED
        BY <1>0, <1>2, <4>1, <4>2
    <3>2. CASE d = Len(open) + 1
      BY <1>0, <1>1, <1>2, <1>3, <1>6, <3>2
    <3> QED
      BY <2>1, <3>1, <3>2
  <2>3. ASSUME NEW d \in 1..Len(open'), NEW e \in 1..Len(open'), d < e
        PROVE  open'[d] < open'[e]
    BY <1>0, <1>2, <1>3, <2>1, <2>3 DEF Opened
  <2> QED
    BY <2>2, <2>3 DEF Opened, Closing
<1>8. IsOpen(n)' /\ \A i : IsOpen(i) => IsOpen(i)'
  BY <1>3 DEF IsOpen
<1>9. Begins \subseteq 1..Len(log)
  BY DEF Begins
<1>10. Flawless => Flawless'
  <2> SUFFICES ASSUME Flawless, NEW i \in Begins', ~IsOpen(i)', ~MayWarn(log'[i].step)
               PROVE  \E j \in Closing(i)' : log'[j].status = "success"
    BY DEF Flawless
  <2>1. i \in Begins /\ ~IsOpen(i) /\ log'[i] = log[i] /\ Closing(i)' = Closing(i)
    BY <1>2, <1>8, <1>9
  <2> QED
    BY <1>2, <2>1 DEF Flawless
<1>11. ASSUME \A i \in Begins : IsOpen(i) \/ Closed(i), NEW i \in Begins'
       PROVE  IsOpen(i)' \/ Closed(i)'
  BY <1>1, <1>2, <1>8, <1>9, <1>11, ClosedKeeps
<1> QED
  BY <1>2, <1>3, <1>4, <1>5, <1>7, <1>10, <1>11

(* A step that could not be entered leaves a receipt at most.              *)
LEMMA PushLost ==
    ASSUME RunTyped, Opened, NEW s \in StepNames, open' = open,
           log' = Append(log, Started(s)) \/ log' = log
    PROVE  /\ log' \in Seq(Entries) /\ \A i \in 1..Len(log') : log'[i].of < i
           /\ \A d \in 1..Len(open) : StepOf(d)' = StepOf(d)
           /\ Opened'
           /\ Flawless /\ MayWarn(s) => Flawless'
<1>1. Started(s) \in Entries /\ Started(s).of = 0 /\ Started(s).step = s
  BY DEF Started, Entries
<1>2. CASE log' = log
  <2>1. log' \in Seq(Entries) /\ \A i \in 1..Len(log') : log'[i].of < i
    BY <1>2 DEF RunTyped, RunTypeOK
  <2>2. \A d \in 1..Len(open) : StepOf(d)' = StepOf(d)
    BY <1>2 DEF StepOf
  <2>3. Opened'
    BY <1>2 DEF Opened, Closing
  <2>4. Flawless => Flawless'
    BY <1>2 DEF Flawless, Closing, Begins, IsOpen
  <2> QED
    BY <2>1, <2>2, <2>3, <2>4
<1>3. CASE log' = Append(log, Started(s))
  <2>1. /\ log' \in Seq(Entries) /\ Len(log) \in Nat /\ Len(log') = Len(log) + 1
        /\ log'[Len(log) + 1] = Started(s)
        /\ \A i \in 1..Len(log) : log'[i] = log[i]
        /\ \A i : i # 0 => Closing(i)' = Closing(i)
        /\ \A i : Closing(i) \subseteq 1..Len(log)
        /\ Begins' = Begins \cup {Len(log) + 1}
        /\ \A i \in 1..Len(log') : log'[i].of < i
    BY <1>1, <1>3, Extended
  <2>2. Begins \subseteq 1..Len(log)
    BY DEF Begins
  <2>3. \A d \in 1..Len(open) : StepOf(d)' = StepOf(d)
    BY <2>1 DEF StepOf, Opened
  <2>4. ASSUME NEW d \in 1..Len(open')
        PROVE  /\ open'[d] \in 1..Len(log') /\ log'[open'[d]].of = 0
               /\ \A i : i = open'[d] => Closing(i)' = {}
    <3>1. open'[d] = open[d] /\ open[d] \in 1..Len(log) /\ log[open[d]].of = 0
          /\ Closing(open[d]) = {}
      BY DEF Opened
    <3>2. \A i : i = open'[d] => Closing(i)' = {}
      BY <2>1, <3>1
    <3> QED
      BY <2>1, <3>1, <3>2
  <2>5. Opened'
    BY <2>4 DEF Opened, Closing
  <2>6. ASSUME Flawless, MayWarn(s), NEW i \in Begins', ~IsOpen(i)', ~MayWarn(log'[i].step)
        PROVE  \E j \in Closing(i)' : log'[j].status = "success"
    <3>1. i # Len(log) + 1
      BY <1>1, <2>1, <2>6
    <3>2. i \in Begins /\ ~IsOpen(i) /\ log'[i] = log[i] /\ Closing(i)' = Closing(i)
      BY <2>1, <2>2, <2>6, <3>1 DEF IsOpen
    <3> QED
      BY <2>1, <2>6, <3>2 DEF Flawless
  <2>7. Flawless /\ MayWarn(s) => Flawless'
    BY <2>6 DEF Flawless
  <2> QED
    BY <2>1, <2>3, <2>5, <2>7
<1> QED
  BY <1>2, <1>3

(* The innermost step is left, with a receipt or without.                  *)
LEMMA Popped ==
    ASSUME RunTyped, Opened, open # <<>>, NEW i, i = open[Len(open)],
           NEW verdict \in {"success", "failed", "interrupted"},
           open' = SubSeq(open, 1, Len(open) - 1),
           log' = Append(log, Finished(i, verdict)) \/ log' = log
    PROVE  /\ log' \in Seq(Entries) /\ \A j \in 1..Len(log') : log'[j].of < j
           /\ open' \in Seq(Nat) /\ Len(open) \in Nat \ {0} /\ Len(open') = Len(open) - 1
           /\ \A d \in 1..Len(open') : StepOf(d)' = StepOf(d)
           /\ Opened'
           /\ Flawless /\ MayWarn(log[i].step) => Flawless'
           /\ Flawless /\ log' = Append(log, Finished(i, "success")) => Flawless'
           /\ /\ log' # log
              /\ verdict = "success" => Flawless
              /\ \A b \in Begins : IsOpen(b) \/ Closed(b)
              => \A b \in Begins' : IsOpen(b)' \/ Closed(b)'
<1>1. Len(open) \in Nat \ {0} /\ i \in 1..Len(log) /\ i \in Nat \ {0} /\ Len(log) \in Nat
      /\ Closing(i) = {} /\ log[i] \in Entries
  <2>1. Len(open) \in Nat \ {0}
    BY EmptySeq DEF RunTyped
  <2>2. Len(log) \in Nat
    BY LenProperties DEF RunTyped
  <2>3. i \in 1..Len(log) /\ Closing(i) = {}
    <3>1. Len(open) \in 1..Len(open)
      BY <2>1
    <3> QED
      BY <3>1 DEF Opened
  <2>4. log[i] \in Entries
    BY <2>3, ElementOfSeq DEF RunTyped
  <2> QED
    BY <2>1, <2>2, <2>3, <2>4
<1>2. Finished(i, verdict) \in Entries /\ Finished(i, verdict).of = i
      /\ Finished(i, verdict).status = verdict
  BY <1>1 DEF Finished, Entries
<1>3. /\ open' \in Seq(Nat) /\ Len(open') = Len(open) - 1
      /\ \A d \in 1..Len(open') : open'[d] = open[d] /\ d \in 1..Len(open)
  <2>1. open \in Seq(Nat) /\ 1 \in Int /\ Len(open) - 1 \in Int
    BY <1>1 DEF RunTyped
  <2>2. \A d \in 1..(Len(open) - 1) : open[d] \in Nat
    BY <1>1, <2>1, ElementOfSeq
  <2>3. /\ open' \in Seq(Nat)
        /\ Len(open') = IF 1 <= Len(open) - 1 THEN (Len(open) - 1) - 1 + 1 ELSE 0
        /\ \A d \in 1..((Len(open) - 1) - 1 + 1) : open'[d] = open[1 + d - 1]
    BY <2>1, <2>2, SubSeqProperties
  <2>4. Len(open') = Len(open) - 1
    <3>1. CASE Len(open) = 1
      BY <2>3, <3>1
    <3>2. CASE Len(open) > 1
      BY <1>1, <2>3, <3>2
    <3>3. Len(open) = 1 \/ Len(open) > 1
      <4>1. \A n \in Nat \ {0} : n = 1 \/ n > 1
        OBVIOUS
      <4> QED
        BY <1>1, <4>1
    <3> QED
      BY <3>1, <3>2, <3>3
  <2> QED
    BY <1>1, <2>3, <2>4
<1>4. /\ \A d \in 1..Len(open') : open'[d] < i
      /\ \A b : IsOpen(b) => IsOpen(b)' \/ b = i
      /\ \A b : IsOpen(b) => b <= i
  <2>1. \A d \in 1..Len(open') : open'[d] < i
    BY <1>1, <1>3 DEF Opened
  <2>2. ASSUME NEW b, IsOpen(b) PROVE (IsOpen(b)' \/ b = i) /\ b <= i
    <3>1. PICK d \in 1..Len(open) : open[d] = b
      BY <2>2 DEF IsOpen
    <3>2. CASE d = Len(open)
      BY <1>1, <3>1, <3>2
    <3>3. CASE d # Len(open)
      <4>1. d \in 1..Len(open') /\ open'[d] = b
        BY <1>1, <1>3, <3>1, <3>3
      <4> QED
        BY <1>1, <2>1, <4>1 DEF IsOpen, Opened
    <3> QED
      BY <3>2, <3>3
  <2> QED
    BY <2>1, <2>2
<1>5. CASE log' = log
  <2>1. Opened'
    BY <1>3, <1>5 DEF Opened, Closing
  <2>2. Flawless /\ MayWarn(log[i].step) => Flawless'
    BY <1>4, <1>5 DEF Flawless, Closing, Begins
  <2>3. log' # Append(log, Finished(i, "success"))
    <3>1. Len(Append(log, Finished(i, "success"))) = Len(log) + 1
      BY <1>1 DEF RunTyped
    <3> QED
      BY <1>1, <1>5, <3>1
  <2>4. \A d \in 1..Len(open') : StepOf(d)' = StepOf(d)
    BY <1>3, <1>5 DEF StepOf
  <2> QED
    BY <1>1, <1>3, <1>5, <2>1, <2>2, <2>3, <2>4 DEF RunTyped, RunTypeOK
<1>6. CASE log' = Append(log, Finished(i, verdict))
  <2>1. /\ log' \in Seq(Entries) /\ Len(log') = Len(log) + 1
        /\ log'[Len(log) + 1] = Finished(i, verdict)
        /\ \A j \in 1..Len(log) : log'[j] = log[j]
        /\ \A j : j # i => Closing(j)' = Closing(j)
        /\ Closing(i)' = {Len(log) + 1}
        /\ \A j : Closing(j) \subseteq 1..Len(log)
        /\ Begins' = Begins
        /\ \A j \in 1..Len(log') : log'[j].of < j
    BY <1>1, <1>2, <1>6, Extended
  <2>2. Begins \subseteq 1..Len(log)
    BY DEF Begins
  <2>3. \A d \in 1..Len(open') : StepOf(d)' = StepOf(d)
    BY <1>3, <2>1 DEF StepOf, Opened
  <2>4. ASSUME NEW d \in 1..Len(open')
        PROVE  /\ open'[d] \in 1..Len(log') /\ log'[open'[d]].of = 0
               /\ \A j : j = open'[d] => Closing(j)' = {}
    <3>1. open'[d] = open[d] /\ open[d] \in 1..Len(log) /\ log[open[d]].of = 0
          /\ Closing(open[d]) = {} /\ open[d] < i
      BY <1>3, <1>4 DEF Opened
    <3>2. \A j : j = open'[d] => Closing(j)' = {}
      <4>1. \A j : j = open'[d] => j # i /\ Closing(j) = {}
        BY <1>1, <3>1
      <4>2. \A j : j # i => Closing(j)' = Closing(j)
        BY <2>1
      <4> QED
        BY <4>1, <4>2
    <3> QED
      BY <1>1, <2>1, <3>1, <3>2
  <2>5. Opened'
    <3>1. \A d, e \in 1..Len(open') : d < e => open'[d] < open'[e]
      BY <1>3 DEF Opened
    <3> QED
      BY <2>4, <3>1 DEF Opened, Closing
  <2>6. ASSUME Flawless, MayWarn(log[i].step) \/ verdict = "success",
               NEW b \in Begins', ~IsOpen(b)', ~MayWarn(log'[b].step)
        PROVE  \E j \in Closing(b)' : log'[j].status = "success"
    <3>1. CASE b = i
      BY <1>1, <1>2, <2>1, <2>6, <3>1
    <3>2. CASE b # i
      <4>1. b \in Begins /\ ~IsOpen(b) /\ log'[b] = log[b] /\ Closing(b)' = Closing(b)
        BY <1>4, <2>1, <2>2, <2>6, <3>2
      <4> QED
        BY <2>1, <2>6, <4>1 DEF Flawless
    <3> QED
      BY <3>1, <3>2
  <2>7. Flawless /\ (MayWarn(log[i].step) \/ verdict = "success") => Flawless'
    BY <2>6 DEF Flawless
  <2>8. log' = Append(log, Finished(i, "success")) => verdict = "success"
    <3> SUFFICES ASSUME log' = Append(log, Finished(i, "success")) PROVE verdict = "success"
      OBVIOUS
    <3>1. log'[Len(log) + 1] = Finished(i, "success")
      BY <1>1 DEF RunTyped
    <3> QED
      BY <2>1, <3>1 DEF Finished
  <2>9. ASSUME verdict = "success" => Flawless, \A b \in Begins : IsOpen(b) \/ Closed(b)
        PROVE  \A b \in Begins' : IsOpen(b)' \/ Closed(b)'
    <3> SUFFICES ASSUME NEW b \in Begins, b = i \/ Closed(b) PROVE IsOpen(b)' \/ Closed(b)'
      BY <1>4, <2>1, <2>9
    <3>1. CASE b # i
      BY <1>2, <1>6, <3>1, ClosedKeeps
    <3>2. CASE b = i
      <4>1. PICK n : n = Len(log) + 1
        OBVIOUS
      <4>2. ASSUME NEW inner \in Begins' \cap (i + 1)..(n - 1)
            PROVE  \E k \in Closing(inner)' :
                      /\ k < n
                      /\ log'[k].status # "success" /\ log'[n].status = "success" =>
                            MayWarn(log'[inner].step)
        <5>1. inner \in Begins /\ inner \in 1..Len(log) /\ ~IsOpen(inner) /\ inner # i
          BY <1>1, <1>4, <2>1, <2>2
        <5>2. Closed(inner)
          BY <2>9, <5>1
        <5>3. PICK k \in Closing(inner) : Closing(inner) = {k}
          BY <5>2 DEF Closed
        <5>4. k \in Closing(inner)' /\ k \in 1..Len(log) /\ log'[k] = log[k]
              /\ log'[inner] = log[inner] /\ k < n
          <6>1. Closing(inner)' = Closing(inner) /\ Closing(inner) \subseteq 1..Len(log)
            BY <2>1, <5>1
          <6>2. k \in Closing(inner)' /\ k \in 1..Len(log)
            BY <5>3, <6>1
          <6> QED
            BY <1>1, <2>1, <4>1, <5>1, <6>2
        <5>5. ASSUME log[k].status # "success", log'[n].status = "success"
              PROVE  MayWarn(log[inner].step)
          <6>1. Flawless
            BY <1>2, <2>1, <2>9, <4>1, <5>5
          <6> QED
            BY <5>1, <5>3, <5>5, <6>1 DEF Flawless
        <5> QED
          BY <5>4, <5>5
      <4>3. n \in Closing(i)' /\ Closing(i)' = {n}
        BY <2>1, <4>1
      <4> QED
        BY <3>2, <4>2, <4>3 DEF Closed
    <3> QED
      BY <3>1, <3>2
  <2> QED
    BY <1>1, <1>3, <2>1, <2>3, <2>5, <2>7, <2>8, <2>9
<1> QED
  BY <1>5, <1>6

-----------------------------------------------------------------------------
(* Any exception is typed, and never taken for none.                       *)
LEMMA ErrorTyped ==
    ASSUME NEW kind \in Kinds, NEW s \in StepNames \cup {Nothing}
    PROVE  /\ Error(kind, s) \in Errors /\ Error(kind, s) # Nothing
           /\ Error(kind, s).kind = kind /\ Error(kind, s).step = s
BY NothingAssumption DEF Error, Errors

(* The types of what the steps of a run leave alone, and of what they do   *)
(* not.                                                                    *)
LEMMA TypesKeep ==
    ASSUME RunTyped, UNCHANGED <<request, begun, outcomes>>,
           log' \in Seq(Entries), \A i \in 1..Len(log') : log'[i].of < i,
           open' \in Seq(Nat), Opened',
           pc' \in {"new", "opened", "resolve", "acquire", "act", "finish"} \cup Ended,
           landed' \in BOOLEAN, decided' \in BOOLEAN, failures' \in 0..MaxFailures,
           row' \in RunRows, error' \in Errors \cup {Nothing}, cause' \in Errors \cup {Nothing}
    PROVE  RunTyped'
<1>1. \A i \in 1..Len(open') : open'[i] \in 1..Len(log')
  BY DEF Opened
<1>2. /\ begun' \in {Len(outcomes'), Len(outcomes') + 1} /\ begun' <= Len(pipeline')
      /\ \A i \in 1..Len(outcomes') :
            outcomes'[i] \in {pipeline'[i]} \X {"completed", "skipped"}
  BY DEF RunTyped, RunTypeOK, request
<1>3. row'.status \in {Nothing, "running", "success", "failed"}
      /\ {error', cause', row'.error} \subseteq Errors \cup {Nothing}
  BY DEF RunRows
<1>4. RunTypeOK'
  BY <1>1, <1>2, <1>3 DEF RunTypeOK
<1>5. pipeline' \in Seq(STRING) /\ forced' \in BOOLEAN
      /\ outcomes' \in Seq(STRING \X {"completed", "skipped"})
  BY DEF RunTyped, request
<1> QED
  BY <1>4, <1>5 DEF RunTyped

(* What the types say, in the form the steps cite.                         *)
LEMMA RunTypes ==
    ASSUME RunTyped
    PROVE  /\ pc \in {"new", "opened", "resolve", "acquire", "act", "finish"} \cup Ended
           /\ Len(pipeline) \in Nat /\ Len(outcomes) \in Nat /\ begun \in Nat
           /\ begun \in {Len(outcomes), Len(outcomes) + 1} /\ begun <= Len(pipeline)
           /\ landed \in BOOLEAN /\ decided \in BOOLEAN
           /\ failures \in 0..MaxFailures /\ failures \in Nat /\ MaxFailures \in Nat
           /\ row \in RunRows /\ error \in Errors \cup {Nothing} /\ cause \in Errors \cup {Nothing}
           /\ log \in Seq(Entries) /\ open \in Seq(Nat)
           /\ Len(log) \in Nat /\ Len(open) \in Nat /\ (Len(open) = 0 <=> open = <<>>)
           /\ \A i \in 1..Len(log) : log[i].of < i /\ log[i] \in Entries
<1>1. Len(pipeline) \in Nat /\ Len(outcomes) \in Nat /\ Len(log) \in Nat /\ Len(open) \in Nat
  BY LenProperties DEF RunTyped
<1>2. Len(open) = 0 <=> open = <<>>
  BY EmptySeq DEF RunTyped
<1>3. \A i \in 1..Len(log) : log[i] \in Entries
  BY ElementOfSeq DEF RunTyped
<1>4. failures \in Nat /\ MaxFailures \in Nat
  BY BoundAssumption DEF RunTyped, RunTypeOK
<1> QED
  BY <1>1, <1>2, <1>3, <1>4 DEF RunTyped, RunTypeOK

(* The steps that touch neither scopes nor receipts.                       *)
LEMMA ScopesKeep ==
    ASSUME UNCHANGED <<open, log>>
    PROVE  /\ Opened => Opened'
           /\ Flawless => Flawless'
           /\ \A d : StepOf(d)' = StepOf(d)
           /\ (\A i \in Begins : IsOpen(i) \/ Closed(i)) =>
                 \A i \in Begins' : IsOpen(i)' \/ Closed(i)'
<1>1. Opened => Opened'
  BY DEF Opened, Closing
<1>2. Flawless => Flawless'
  BY DEF Flawless, Closing, Begins, IsOpen
<1>3. \A d : StepOf(d)' = StepOf(d)
  BY DEF StepOf
<1>4. (\A i \in Begins : IsOpen(i) \/ Closed(i)) => \A i \in Begins' : IsOpen(i)' \/ Closed(i)'
  BY DEF Closed, Closing, Begins, IsOpen
<1> QED
  BY <1>1, <1>2, <1>3, <1>4

(* Where a run is in its script, before and after a step.                  *)
LEMMA FollowingNext ==
    ASSUME NEW a, a = Current', NEW k \in 0..Len(Script(a)),
           todo' = SubSeq(Script(a), k + 1, Len(Script(a))), Len(open') = Depth(a, k),
           Len(open') > 0 => \A d : d = Len(open') => StepOf(d)' = Innermost(a, k),
           Len(open') = 2 => StepOf(1)' = "process_silver_queue"
    PROVE  Following'
<1>1. CurrentScript' = Script(a)
  BY DEF CurrentScript
<1>2. Depth(Current, k)' = Depth(a, k) /\ Innermost(Current, k)' = Innermost(a, k)
  OBVIOUS
<1>3. Len(open') > 0 => log'[open'[Len(open')]].step = Innermost(a, k)
  BY DEF StepOf
<1>4. Len(open') = 2 => log'[open'[1]].step = "process_silver_queue"
  BY DEF StepOf
<1>5. Scoped(k)'
  BY <1>1, <1>2, <1>3, <1>4 DEF Scoped, StepOf
<1> QED
  BY <1>1, <1>5 DEF Following

(* What a run in its script may rely on.                                   *)
LEMMA FollowingHere ==
    ASSUME RunTyped, Following, NEW a, a = Current
    PROVE  \E k \in 0..Len(Script(a)) :
              /\ todo = SubSeq(Script(a), k + 1, Len(Script(a)))
              /\ Len(open) = Depth(a, k) /\ Len(open) \in 0..2
              /\ todo = <<>> => Len(open) = 0
              /\ todo # <<>> => /\ k < Len(Script(a)) /\ Head(todo) = Script(a)[k + 1]
                               /\ Tail(todo) = SubSeq(Script(a), k + 2, Len(Script(a)))
              /\ Len(open) > 0 => /\ StepOf(Len(open)) = Innermost(a, k)
                                 /\ StepOf(Len(open)) \in StepNames
                                 /\ todo # <<>>
              /\ Len(open) = 1 => ~MayWarn(StepOf(1))
              /\ Len(open) = 2 => StepOf(1) = "process_silver_queue"
<1>1. PICK k \in 0..Len(Script(a)) : Scoped(k)
  BY DEF Following, CurrentScript
<1>2. Script(a) \in Seq(Ops) /\ Len(Script(a)) \in Nat /\ Depth(a, Len(Script(a))) = 0
  BY ScriptTyped
<1>3. /\ todo = SubSeq(Script(a), k + 1, Len(Script(a)))
      /\ Len(open) = Depth(a, k) /\ Len(open) \in 0..2
      /\ Len(open) > 0 => StepOf(Len(open)) = Innermost(a, k)
      /\ Len(open) = 2 => StepOf(1) = "process_silver_queue"
  BY <1>1, ScriptScopes DEF Scoped, CurrentScript
<1>4. CASE k = Len(Script(a))
  <2>1. todo = <<>>
    BY <1>2, <1>3, <1>4, SubSeqEmpty
  <2> QED
    BY <1>2, <1>3, <1>4, <2>1
<1>5. CASE k < Len(Script(a))
  <2>1. /\ todo # <<>> /\ Head(todo) = Script(a)[k + 1]
        /\ Tail(todo) = SubSeq(Script(a), k + 2, Len(Script(a)))
    BY <1>2, <1>3, <1>5, RestOfScript
  <2>2. /\ Len(open) > 0 => StepOf(Len(open)) \in StepNames
        /\ Len(open) = 1 => ~MayWarn(StepOf(1))
    BY <1>3, ScriptScopes
  <2> QED
    BY <1>3, <1>5, <2>1, <2>2
<1>6. k = Len(Script(a)) \/ k < Len(Script(a))
  BY <1>2
<1> QED
  BY <1>4, <1>5, <1>6

(* Between two actions nothing is open and nothing is to do.               *)
LEMMA Between ==
    ASSUME todo' = <<>>, open' = <<>>
    PROVE  Following'
<1>1. PICK a : a = Current'
  OBVIOUS
<1>2. PICK k : k = Len(Script(a))
  OBVIOUS
<1>3. k \in Nat /\ k \in 0..Len(Script(a)) /\ Depth(a, k) = 0
  BY <1>2, ScriptTyped
<1>4. SubSeq(Script(a), k + 1, Len(Script(a))) = <<>>
  BY <1>2, <1>3, SubSeqEmpty
<1>5. Len(open') = 0
  BY EmptySeq
<1>6. Len(open') = Depth(a, k) /\ ~(Len(open') > 0) /\ Len(open') # 2
  BY <1>3, <1>5
<1>7. todo' = SubSeq(Script(a), k + 1, Len(Script(a)))
  BY <1>4
<1>8. k \in 0..Len(Script(a))
  BY <1>3
<1> QED
  BY <1>1, <1>6, <1>7, <1>8, FollowingNext

(* An action begins with its whole script.                                 *)
LEMMA Beginning ==
    ASSUME NEW a, a = Current', todo' = Script(a), open' = <<>>
    PROVE  Following'
<1>1. 0 \in 0..Len(Script(a)) /\ Depth(a, 0) = 0 /\ Script(a) \in Seq(Ops)
  BY ScriptTyped
<1>2. SubSeq(Script(a), 0 + 1, Len(Script(a))) = Script(a)
  BY <1>1, SubSeqFull
<1>3. Len(open') = 0
  BY EmptySeq
<1>4. Len(open') = Depth(a, 0) /\ ~(Len(open') > 0) /\ Len(open') # 2
  BY <1>1, <1>3
<1>5. todo' = SubSeq(Script(a), 0 + 1, Len(Script(a)))
  BY <1>2
<1> QED
  BY <1>1, <1>4, <1>5, FollowingNext

-----------------------------------------------------------------------------
(* A run begins with nothing open, nothing recorded and nothing failed.    *)
LEMMA RunInitially == RunInit => RunInv
<1> SUFFICES ASSUME RunInit PROVE RunInv
  OBVIOUS
<1>1. /\ pipeline \in Seq(STRING) /\ forced \in BOOLEAN /\ Len(pipeline) \in Nat
      /\ pc = "new" /\ todo = <<>> /\ begun = 0 /\ outcomes = <<>> /\ open = <<>> /\ log = <<>>
      /\ landed = FALSE /\ decided = FALSE /\ error = Nothing /\ cause = Nothing
      /\ row = [status |-> Nothing, error |-> Nothing] /\ failures = 0
  BY PipelineAssumption, LenProperties DEF RunInit
<1>2. /\ Len(outcomes) = 0 /\ Len(open) = 0 /\ Len(log) = 0
      /\ outcomes \in Seq(STRING \X {"completed", "skipped"}) /\ open \in Seq(Nat)
      /\ log \in Seq(Entries)
  BY <1>1, EmptySeq
<1>3. 1..0 = {}
  OBVIOUS
<1>4. RunTyped
  <2>1. row \in RunRows /\ row.status = Nothing /\ row.error = Nothing
    BY <1>1 DEF RunRows
  <2>2. failures \in 0..MaxFailures
    BY <1>1, BoundAssumption
  <2>3. begun \in {Len(outcomes), Len(outcomes) + 1} /\ begun <= Len(pipeline)
    BY <1>1, <1>2
  <2>4. {error, cause, row.error} \subseteq Errors \cup {Nothing}
    BY <1>1, <2>1
  <2>5. /\ \A i \in 1..Len(outcomes) : outcomes[i] \in {pipeline[i]} \X {"completed", "skipped"}
        /\ \A i \in 1..Len(open) : open[i] \in 1..Len(log)
        /\ \A i \in 1..Len(log) : log[i].of < i
    BY <1>2, <1>3
  <2>6. RunTypeOK
    BY <1>1, <2>1, <2>2, <2>3, <2>4, <2>5 DEF RunTypeOK
  <2> QED
    BY <1>1, <1>2, <2>1, <2>6 DEF RunTyped
<1>5. Begins = {} /\ row.status = Nothing /\ Nothing \notin {"running", "success", "failed"}
  BY <1>1, <1>2, <1>3, NothingAssumption DEF Begins
<1>6. Placed /\ Opened /\ Whole /\ Receipted
  BY <1>1, <1>2, <1>3, <1>5 DEF Placed, Opened, Whole, Receipted, Flawless, Working
<1>7. InOrder /\ Recorded /\ Outlived
  BY <1>1, <1>2, <1>3, <1>5 DEF InOrder, Recorded, Outlived
<1> QED
  BY <1>4, <1>6, <1>7 DEF RunInv

(* A step that leaves scopes and receipts alone: what remains to be shown. *)
LEMMA QuietStep ==
    ASSUME RunInv, UNCHANGED <<open, log>>,
           failures' \in {failures, failures + 1},
           Working' => Working \/ Flawless,
           Working' /\ error # Nothing => error' # Nothing,
           pc' \in {"finish", "returned"} \/ row'.status = "success" => Flawless
    PROVE  Opened' /\ Whole' /\ Receipted'
<1>1. Opened' /\ (Flawless => Flawless')
  BY ScopesKeep DEF RunInv
<1>2. Receipted'
  <2>1. failures' = 0 => failures = 0
    BY RunTypes DEF RunInv
  <2> QED
    BY <2>1, ScopesKeep DEF RunInv, Receipted
<1>3. Working' => Flawless' \/ Hopeless'
  <2> SUFFICES ASSUME Working', ~Flawless PROVE Hopeless'
    BY <1>1
  <2>1. Hopeless
    BY DEF RunInv, Whole
  <2>2. error' # Nothing
    BY <2>1 DEF Hopeless
  <2> QED
    BY <2>1, <2>2 DEF Hopeless, StepOf
<1> QED
  BY <1>1, <1>2, <1>3 DEF Whole

(* Without an exception in flight a run is in its script, its past         *)
(* flawless.                                                               *)
LEMMA Sound ==
    ASSUME RunInv, Working, error = Nothing
    PROVE  /\ Following /\ Flawless
           /\ todo = <<>> => open = <<>>
<1>1. Following /\ Flawless
  BY DEF RunInv, Placed, Whole, Abandoned, Hopeless
<1>2. ASSUME todo = <<>> PROVE open = <<>>
  BY <1>1, <1>2, FollowingHere, RunTypes DEF RunInv
<1> QED
  BY <1>1, <1>2

(* Up to the first action: a failure here leaves no step open.             *)
LEMMA OpenKeeps == ASSUME RunInv, Open PROVE RunInv'
<1>1. /\ pc = "new" /\ open = <<>> /\ log = <<>> /\ todo = <<>> /\ begun = 0 /\ error = Nothing
      /\ row.status = Nothing /\ UNCHANGED <<request, todo, begun, outcomes, landed, decided,
                                             open, log, row, failures>>
      /\ Nothing \notin {"running", "success", "failed"}
  BY NothingAssumption DEF Open, RunInv, Placed, Recorded
<1>2. \/ pc' = "opened" /\ UNCHANGED <<error, cause>>
      \/ pc' = "raised" /\ error' \in Errors /\ error' # Nothing /\ cause' = error'
         /\ error'.step = Nothing
  BY ErrorTyped DEF Open, Raise, Kinds
<1>3. Opened' /\ Whole' /\ Receipted'
  BY <1>1, <1>2, QuietStep DEF Working
<1>4. RunTyped'
  BY <1>1, <1>2, <1>3, RunTypes, TypesKeep DEF RunInv, Ended
<1>5. Placed'
  BY <1>1, <1>2 DEF Placed, Working
<1>6. InOrder' /\ Recorded'
  BY <1>1, <1>2 DEF RunInv, InOrder, Recorded, request
<1>7. Outlived'
  BY <1>1, <1>2, NothingAssumption DEF Outlived, StepNames
<1> QED
  BY <1>3, <1>4, <1>5, <1>6, <1>7 DEF RunInv

LEMMA StartKeeps == ASSUME RunInv, Start PROVE RunInv'
<1>1. /\ pc = "opened" /\ open = <<>> /\ log = <<>> /\ todo = <<>> /\ begun = 0 /\ error = Nothing
      /\ row.status = Nothing /\ UNCHANGED <<request, todo, begun, outcomes, landed, decided,
                                             open, log>>
      /\ Nothing \notin {"running", "success", "failed"}
  BY NothingAssumption DEF Start, RunInv, Placed, Recorded
<1>2. row' \in RunRows /\ row'.status \in {Nothing, "running"} /\ failures' \in 0..MaxFailures
      /\ failures' \in {failures, failures + 1}
  BY <1>1, RunTypes DEF Start, Failing, RunningRow, RunRows, RunInv
<1>3. \/ pc' = "resolve" /\ UNCHANGED <<error, cause>>
      \/ pc' = "raised" /\ error' \in Errors /\ error' # Nothing /\ cause' = error'
         /\ error'.step = Nothing /\ failures' # 0
  BY ErrorTyped, RunTypes DEF Start, Raise, Kinds, Failing, RunInv
<1>4. Begins = {} /\ Flawless
  <2>1. Begins = {}
    BY <1>1, EmptySeq DEF Begins
  <2> QED
    BY <2>1 DEF Flawless
<1>5. Opened' /\ Whole' /\ Receipted'
  BY <1>1, <1>2, <1>3, <1>4, QuietStep DEF Working
<1>6. RunTyped'
  BY <1>1, <1>2, <1>3, <1>5, RunTypes, TypesKeep DEF RunInv, Ended
<1>7. Placed'
  BY <1>1, <1>3, Between DEF Placed, Working
<1>8. InOrder' /\ Recorded'
  BY <1>1, <1>2, <1>3 DEF RunInv, InOrder, Recorded, request
<1>9. Outlived'
  BY <1>1, <1>3, NothingAssumption DEF Outlived, StepNames
<1> QED
  BY <1>5, <1>6, <1>7, <1>8, <1>9 DEF RunInv

LEMMA ResolveKeeps == ASSUME RunInv, Resolve PROVE RunInv'
<1>1. /\ pc = "resolve" /\ open = <<>> /\ todo = <<>> /\ begun = 0 /\ error = Nothing
      /\ UNCHANGED <<request, begun, outcomes, landed, decided, open, log, row, failures>>
      /\ Flawless
  BY Sound DEF Resolve, RunInv, Placed, Working
<1>2. \/ pc' = "acquire" /\ todo' = Script("acquisition") /\ UNCHANGED <<error, cause>>
      \/ /\ pc' = "resolve" /\ todo' = <<>> /\ error' \in Errors /\ error' # Nothing
         /\ cause' = error' /\ error'.step = Nothing
  BY <1>1, ErrorTyped DEF Resolve, Raise, Kinds
<1>3. Opened' /\ Whole' /\ Receipted'
  BY <1>1, <1>2, QuietStep DEF Working
<1>4. RunTyped'
  BY <1>1, <1>2, <1>3, RunTypes, TypesKeep DEF RunInv, Ended
<1>5. Following'
  <2>1. CASE pc' = "acquire"
    <3>1. "acquisition" = Current'
      BY <2>1 DEF Current
    <3> QED
      BY <1>1, <1>2, <2>1, <3>1, Beginning
  <2>2. CASE pc' = "resolve"
    BY <1>1, <1>2, <2>2, Between
  <2> QED
    BY <1>2, <2>1, <2>2
<1>6. Placed'
  BY <1>1, <1>2, <1>5 DEF Placed
<1>7. InOrder' /\ Recorded'
  BY <1>1, <1>2 DEF RunInv, InOrder, Recorded, request
<1>8. Outlived'
  BY <1>1, <1>2, NothingAssumption DEF Outlived, StepNames
<1> QED
  BY <1>3, <1>4, <1>6, <1>7, <1>8 DEF RunInv

LEMMA AcquiredKeeps == ASSUME RunInv, Acquired PROVE RunInv'
<1>1. /\ pc = "acquire" /\ open = <<>> /\ todo = <<>> /\ begun = 0 /\ error = Nothing
      /\ UNCHANGED <<request, todo, begun, outcomes, decided, open, log, row, error, cause,
                     failures>>
      /\ Flawless
  BY Sound DEF Acquired, RunInv, Placed, Working
<1>2. landed' \in BOOLEAN /\ pc' = IF landed' \/ forced THEN "act" ELSE "finish"
  BY DEF Acquired
<1>3. Opened' /\ Whole' /\ Receipted'
  BY <1>1, <1>2, QuietStep
<1>4. RunTyped'
  BY <1>1, <1>2, <1>3, RunTypes, TypesKeep DEF RunInv, Ended
<1>5. Placed'
  BY <1>1, <1>2, Between DEF Placed, Working, request
<1>6. Len(outcomes) = 0
  BY <1>1, RunTypes DEF RunInv
<1>7. InOrder'
  <2>1. row.status # "success" /\ ~(begun > Len(outcomes)) /\ outcomes' = outcomes
    BY <1>1, <1>6 DEF RunInv, Recorded
  <2>2. \A i \in 1..Len(outcomes') : outcomes'[i][1] = "documentation.bind" =>
            \E j \in 1..(i - 1) : outcomes'[j] = <<"bronze.ingest", "completed">>
    BY <2>1 DEF RunInv, InOrder
  <2>3. pc' = "finish" => ~(landed' \/ forced')
    BY <1>2, <1>1 DEF request
  <2> QED
    BY <1>1, <1>6, <2>1, <2>2, <2>3 DEF InOrder
<1>8. Recorded' /\ Outlived'
  BY <1>1, <1>2 DEF RunInv, Recorded, Outlived
<1> QED
  BY <1>3, <1>4, <1>5, <1>7, <1>8 DEF RunInv

(* One more outcome, of the action that was begun.                         *)
LEMMA OutcomeAdded ==
    ASSUME RunInv, NEW a, NEW verdict \in {"completed", "skipped"}, UNCHANGED request,
           outcomes' = Append(outcomes, <<a, verdict>>), Len(outcomes) < Len(pipeline),
           a = pipeline[Len(outcomes) + 1],
           a = "documentation.bind" => HasBatch(a)
    PROVE  /\ outcomes' \in Seq(STRING \X {"completed", "skipped"})
           /\ Len(outcomes') = Len(outcomes) + 1
           /\ \A i \in 1..Len(outcomes') :
                 outcomes'[i] \in {pipeline'[i]} \X {"completed", "skipped"}
           /\ \A i \in 1..Len(outcomes') : outcomes'[i][1] = "documentation.bind" =>
                 \E j \in 1..(i - 1) : outcomes'[j] = <<"bronze.ingest", "completed">>
<1>1. /\ Len(outcomes) \in Nat /\ Len(pipeline) \in Nat /\ pipeline \in Seq(STRING)
      /\ outcomes \in Seq(STRING \X {"completed", "skipped"}) /\ pipeline' = pipeline
  BY RunTypes DEF RunInv, RunTyped, request
<1>2. PICK n : n = Len(outcomes) + 1
  OBVIOUS
<1>3. a \in STRING
  BY <1>1, ElementOfSeq
<1>4. <<a, verdict>> \in STRING \X {"completed", "skipped"}
  BY <1>3
<1>5. /\ outcomes' \in Seq(STRING \X {"completed", "skipped"}) /\ Len(outcomes') = n
      /\ outcomes'[n] = <<a, verdict>> /\ \A i \in 1..(n - 1) : outcomes'[i] = outcomes[i]
  BY <1>1, <1>2, <1>4
<1>6. \A i \in 1..n : i = n \/ i \in 1..Len(outcomes)
  BY <1>1, <1>2
<1>7. ASSUME NEW i \in 1..n
      PROVE  outcomes'[i] \in {pipeline[i]} \X {"completed", "skipped"}
  <2>1. CASE i = n
    BY <1>2, <1>5, <2>1
  <2>2. CASE i \in 1..Len(outcomes)
    BY <1>1, <1>2, <1>5, <2>2 DEF RunInv, RunTyped, RunTypeOK
  <2> QED
    BY <1>6, <2>1, <2>2
<1>8. ASSUME NEW i \in 1..n, outcomes'[i][1] = "documentation.bind"
      PROVE  \E j \in 1..(i - 1) : outcomes'[j] = <<"bronze.ingest", "completed">>
  <2>1. CASE i = n
    <3>1. a = "documentation.bind"
      BY <1>5, <1>8, <2>1
    <3>2. PICK j \in 1..Len(outcomes) : outcomes[j] = <<"bronze.ingest", "completed">>
      BY <3>1 DEF HasBatch
    <3> QED
      BY <1>1, <1>2, <1>5, <2>1, <3>2
  <2>2. CASE i \in 1..Len(outcomes)
    <3>1. outcomes'[i] = outcomes[i]
      BY <1>1, <1>2, <1>5, <2>2
    <3>2. PICK j \in 1..(i - 1) : outcomes[j] = <<"bronze.ingest", "completed">>
      BY <1>8, <2>2, <3>1 DEF RunInv, InOrder
    <3>3. outcomes'[j] = outcomes[j]
      BY <1>1, <1>2, <1>5, <2>2
    <3> QED
      BY <3>2, <3>3
  <2> QED
    BY <1>6, <2>1, <2>2
<1> QED
  BY <1>1, <1>2, <1>5, <1>7, <1>8

(* The types after such a step.                                            *)
LEMMA OutcomesTyped ==
    ASSUME RunTyped, UNCHANGED <<request, open, log, row, failures>>,
           outcomes' \in Seq(STRING \X {"completed", "skipped"}),
           begun' \in {Len(outcomes'), Len(outcomes') + 1}, begun' <= Len(pipeline),
           \A i \in 1..Len(outcomes') :
                outcomes'[i] \in {pipeline'[i]} \X {"completed", "skipped"},
           pc' = pc, landed' = landed, decided' \in BOOLEAN,
           error' \in Errors \cup {Nothing}, cause' \in Errors \cup {Nothing}
    PROVE  RunTyped'
<1>1. {error', cause', row'.error} \subseteq Errors \cup {Nothing}
  BY DEF RunTyped, RunTypeOK
<1>2. begun' \in {Len(outcomes'), Len(outcomes') + 1} /\ begun' <= Len(pipeline')
  BY DEF request
<1>3. /\ \A i \in 1..Len(open') : open'[i] \in 1..Len(log')
      /\ \A i \in 1..Len(log') : log'[i].of < i
  BY DEF RunTyped, RunTypeOK
<1>4. RunTypeOK'
  BY <1>1, <1>2, <1>3 DEF RunTyped, RunTypeOK
<1> QED
  BY <1>4 DEF RunTyped, request

(* An action begins with its whole script, raises, or is skipped.          *)
LEMMA BeginActionKeeps == ASSUME RunInv, BeginAction PROVE RunInv'
<1>1. /\ pc = "act" /\ error = Nothing /\ begun = Len(outcomes) /\ begun < Len(pipeline)
      /\ open = <<>> /\ todo = <<>> /\ begun' = begun + 1 /\ decided' = FALSE
      /\ UNCHANGED <<request, pc, landed, open, log, row, failures>>
      /\ Flawless /\ (landed \/ forced)
  BY Sound DEF BeginAction, RunInv, Placed, Working
<1>2. Len(outcomes) \in Nat /\ Len(pipeline) \in Nat /\ begun \in Nat
  BY RunTypes DEF RunInv
<1>3. PICK a : a = pipeline[begun + 1]
  OBVIOUS
<1>4. a = Current' /\ pipeline'[begun'] = a
  BY <1>1, <1>2, <1>3 DEF Current, request
<1>0. \A i \in 1..Len(outcomes) :
          outcomes[i] \in {pipeline[i]} \X {"completed", "skipped"}
  BY DEF RunInv, RunTyped, RunTypeOK
<1>5. \/ /\ Raise(Error("Exception", Nothing)) /\ UNCHANGED <<todo, outcomes>>
      \/ /\ HasBatch(a) /\ todo' = Script(a) /\ UNCHANGED <<outcomes, error, cause>>
      \/ /\ a = "silver.process" /\ outcomes' = Append(outcomes, <<a, "skipped">>)
         /\ UNCHANGED <<todo, error, cause>>
  BY <1>3 DEF BeginAction, MaySkip
<1>6. Opened' /\ Whole' /\ Receipted'
  <2>1. row.status # "success"
    BY <1>1 DEF RunInv, Recorded
  <2> QED
    BY <1>1, <2>1, QuietStep DEF Working
<1>7. CASE Raise(Error("Exception", Nothing)) /\ UNCHANGED <<todo, outcomes>>
  <2>1. error' \in Errors /\ error' # Nothing /\ cause' = error' /\ error'.step = Nothing
    BY <1>7, ErrorTyped DEF Raise, Kinds
  <2>2. RunTyped'
    <3>1. /\ begun' \in {Len(outcomes'), Len(outcomes') + 1} /\ begun' <= Len(pipeline)
          /\ outcomes' \in Seq(STRING \X {"completed", "skipped"})
          /\ \A i \in 1..Len(outcomes') :
                outcomes'[i] \in {pipeline'[i]} \X {"completed", "skipped"}
      BY <1>0, <1>1, <1>2, <1>7 DEF RunInv, RunTyped, request
    <3> QED
      BY <1>1, <2>1, <3>1, OutcomesTyped DEF RunInv
  <2>3. Placed'
    BY <1>1, <1>2, <1>7, Between DEF Placed, Working, request
  <2>4. InOrder' /\ Recorded' /\ Outlived'
    BY <1>1, <1>7, <2>1 DEF RunInv, InOrder, Recorded, Outlived, request
  <2> QED
    BY <1>6, <2>2, <2>3, <2>4 DEF RunInv
<1>8. CASE HasBatch(a) /\ todo' = Script(a) /\ UNCHANGED <<outcomes, error, cause>>
  <2>1. RunTyped'
    <3>1. /\ begun' \in {Len(outcomes'), Len(outcomes') + 1} /\ begun' <= Len(pipeline)
          /\ outcomes' \in Seq(STRING \X {"completed", "skipped"})
          /\ \A i \in 1..Len(outcomes') :
                outcomes'[i] \in {pipeline'[i]} \X {"completed", "skipped"}
      BY <1>0, <1>1, <1>2, <1>8 DEF RunInv, RunTyped, request
    <3>2. error' \in Errors \cup {Nothing} /\ cause' \in Errors \cup {Nothing}
      BY <1>8, RunTypes DEF RunInv
    <3> QED
      BY <1>1, <3>1, <3>2, OutcomesTyped DEF RunInv
  <2>2. Placed'
    BY <1>1, <1>2, <1>4, <1>8, Beginning DEF Placed, Working, request
  <2>3. HasBatch(a)' /\ HasBatch(pipeline[begun])' /\ row.status # "success"
    BY <1>1, <1>4, <1>8 DEF HasBatch, RunInv, Recorded
  <2>4. InOrder'
    BY <1>1, <1>8, <2>3 DEF RunInv, InOrder
  <2>5. Recorded' /\ Outlived'
    BY <1>1, <1>8 DEF RunInv, Recorded, Outlived
  <2> QED
    BY <1>6, <2>1, <2>2, <2>4, <2>5 DEF RunInv
<1>9. CASE /\ a = "silver.process" /\ outcomes' = Append(outcomes, <<a, "skipped">>)
           /\ UNCHANGED <<todo, error, cause>>
  <2>1. /\ outcomes' \in Seq(STRING \X {"completed", "skipped"})
        /\ Len(outcomes') = Len(outcomes) + 1
        /\ \A i \in 1..Len(outcomes') :
              outcomes'[i] \in {pipeline'[i]} \X {"completed", "skipped"}
        /\ \A i \in 1..Len(outcomes') : outcomes'[i][1] = "documentation.bind" =>
              \E j \in 1..(i - 1) : outcomes'[j] = <<"bronze.ingest", "completed">>
    BY <1>1, <1>3, <1>9, OutcomeAdded
  <2>2. RunTyped'
    <3>1. begun' \in {Len(outcomes'), Len(outcomes') + 1} /\ begun' <= Len(pipeline)
      BY <1>1, <1>2, <2>1
    <3>2. error' \in Errors \cup {Nothing} /\ cause' \in Errors \cup {Nothing}
      BY <1>9, RunTypes DEF RunInv
    <3> QED
      BY <1>1, <2>1, <3>1, <3>2, OutcomesTyped DEF RunInv
  <2>3. Placed'
    BY <1>1, <1>2, <1>9, <2>1, Between DEF Placed, Working, request
  <2>4. InOrder'
    <3>1. ~(begun' > Len(outcomes'))
      BY <1>1, <1>2, <2>1
    <3>2. row.status # "success"
      BY <1>1 DEF RunInv, Recorded
    <3> QED
      BY <1>1, <2>1, <3>1, <3>2 DEF InOrder
  <2>5. Recorded' /\ Outlived'
    BY <1>1, <1>9 DEF RunInv, Recorded, Outlived
  <2> QED
    BY <1>6, <2>2, <2>3, <2>4, <2>5 DEF RunInv
<1> QED
  BY <1>5, <1>7, <1>8, <1>9

(* The actions end in their order.                                         *)
LEMMA EndActionKeeps == ASSUME RunInv, EndAction PROVE RunInv'
<1>1. /\ pc = "act" /\ error = Nothing /\ todo = <<>> /\ open = <<>> /\ begun > Len(outcomes)
      /\ UNCHANGED <<request, pc, todo, begun, landed, decided, open, log, row, error, cause,
                     failures>>
      /\ Flawless /\ (landed \/ forced)
  BY Sound DEF EndAction, RunInv, Placed, Working
<1>2. /\ Len(outcomes) \in Nat /\ Len(pipeline) \in Nat /\ begun = Len(outcomes) + 1
      /\ begun <= Len(pipeline) /\ Len(outcomes) < Len(pipeline)
  BY <1>1, RunTypes DEF RunInv
<1>3. PICK a : a = pipeline[begun]
  OBVIOUS
<1>4. HasBatch(a)
  BY <1>1, <1>3 DEF RunInv, InOrder
<1>5. a = pipeline[Len(outcomes) + 1] /\ outcomes' = Append(outcomes, <<a, "completed">>)
  BY <1>2, <1>3 DEF EndAction
<1>6. /\ outcomes' \in Seq(STRING \X {"completed", "skipped"})
      /\ Len(outcomes') = Len(outcomes) + 1
      /\ \A i \in 1..Len(outcomes') :
            outcomes'[i] \in {pipeline'[i]} \X {"completed", "skipped"}
      /\ \A i \in 1..Len(outcomes') : outcomes'[i][1] = "documentation.bind" =>
            \E j \in 1..(i - 1) : outcomes'[j] = <<"bronze.ingest", "completed">>
  BY <1>1, <1>2, <1>4, <1>5, OutcomeAdded
<1>7. row.status # "success"
  BY <1>1 DEF RunInv, Recorded
<1>8. Opened' /\ Whole' /\ Receipted'
  BY <1>1, <1>7, QuietStep DEF Working
<1>9. RunTyped'
  <2>1. begun' \in {Len(outcomes'), Len(outcomes') + 1} /\ begun' <= Len(pipeline)
    BY <1>1, <1>2, <1>6
  <2>2. /\ error' \in Errors \cup {Nothing} /\ cause' \in Errors \cup {Nothing}
        /\ decided' \in BOOLEAN
    BY <1>1, RunTypes DEF RunInv
  <2> QED
    BY <1>1, <1>6, <2>1, <2>2, OutcomesTyped DEF RunInv
<1>10. Placed'
  BY <1>1, Between DEF Placed, Working, request
<1>11. InOrder'
  <2>1. ~(begun' > Len(outcomes'))
    BY <1>1, <1>2, <1>6
  <2> QED
    BY <1>1, <1>6, <1>7, <2>1 DEF InOrder
<1>12. Recorded' /\ Outlived'
  BY <1>1 DEF RunInv, Recorded, Outlived
<1> QED
  BY <1>8, <1>9, <1>10, <1>11, <1>12 DEF RunInv

LEMMA ActionsDoneKeeps == ASSUME RunInv, ActionsDone PROVE RunInv'
<1>1. /\ pc = "act" /\ error = Nothing /\ Len(outcomes) = Len(pipeline) /\ pc' = "finish"
      /\ UNCHANGED <<request, todo, begun, outcomes, landed, decided, open, log, row, error,
                     cause, failures>>
      /\ Flawless
  BY Sound DEF ActionsDone, Working
<1>2. open = <<>> /\ todo = <<>> /\ (landed \/ forced)
  <2>1. begun = Len(outcomes)
    BY <1>1, RunTypes DEF RunInv
  <2> QED
    BY <1>1, <2>1 DEF RunInv, Placed
<1>3. Opened' /\ Whole' /\ Receipted'
  BY <1>1, QuietStep DEF Working
<1>4. RunTyped'
  BY <1>1, <1>3, RunTypes, TypesKeep DEF RunInv, Ended
<1>5. Placed'
  BY <1>1, <1>2 DEF Placed, Working
<1>6. InOrder'
  BY <1>1, <1>2 DEF RunInv, InOrder, request
<1>7. Recorded' /\ Outlived'
  BY <1>1 DEF RunInv, Recorded, Outlived
<1> QED
  BY <1>3, <1>4, <1>5, <1>6, <1>7 DEF RunInv

-----------------------------------------------------------------------------
(* A step within an action, or the failure of one: what remains to be      *)
(* shown.                                                                  *)
LEMMA WithinKeeps ==
    ASSUME RunInv, Working, UNCHANGED <<request, pc, begun, outcomes, landed, row>>,
           decided' \in BOOLEAN, log' \in Seq(Entries), \A i \in 1..Len(log') : log'[i].of < i,
           open' \in Seq(Nat), Opened', failures' \in 0..MaxFailures,
           error' \in Errors \cup {Nothing}, cause' = error',
           Following' \/ Abandoned', Flawless' \/ Hopeless', Receipted', Outlived',
           todo = <<>> => todo' = <<>>, todo = <<>> /\ open = <<>> => open' = <<>>,
           error' = Nothing /\ error # Nothing => Current = "silver.process"
    PROVE  RunInv'
<1>1. Working' /\ pc' = pc /\ begun' = begun /\ outcomes' = outcomes /\ landed' = landed
      /\ row' = row /\ pipeline' = pipeline /\ forced' = forced
  BY DEF Working, request
<1>2. RunTyped'
  BY RunTypes, TypesKeep DEF RunInv
<1>3. row.status \notin {"failed", "success"} /\ pc \in {"resolve", "acquire", "act"}
  BY DEF RunInv, Recorded, Working
<1>4. Placed'
  BY <1>1, <1>3 DEF RunInv, Placed
<1>5. InOrder'
  <2>1. ASSUME pc = "act", error' = Nothing, begun > Len(outcomes)
        PROVE  HasBatch(pipeline[begun])
    <3>1. CASE error = Nothing
      BY <2>1, <3>1 DEF RunInv, InOrder
    <3>2. CASE error # Nothing
      <4>1. begun > 0
        BY <2>1, RunTypes DEF RunInv
      <4>2. pipeline[begun] = "silver.process"
        BY <2>1, <3>2, <4>1 DEF Current
      <4> QED
        BY <4>2 DEF HasBatch
    <3> QED
      BY <3>1, <3>2
  <2>2. HasBatch(pipeline[begun])' <=> HasBatch(pipeline[begun])
    BY <1>1 DEF HasBatch
  <2> QED
    BY <1>1, <1>3, <2>1, <2>2 DEF RunInv, InOrder
<1>6. Recorded'
  BY <1>1, <1>3 DEF RunInv, Recorded
<1> QED
  BY <1>1, <1>2, <1>3, <1>4, <1>5, <1>6 DEF RunInv, Whole

(* The script stays the same.                                              *)
LEMMA SameScript ==
    ASSUME UNCHANGED <<request, pc, begun>>
    PROVE  Current' = Current
BY DEF Current, request

(* What encloses the innermost step does not turn exceptions to warnings.  *)
LEMMA Below ==
    ASSUME RunInv, Working, open # <<>>, Len(open') = Len(open) - 1,
           \A d \in 1..Len(open') : StepOf(d)' = StepOf(d)
    PROVE  /\ Len(open') \in {0, 1}
           /\ \A d \in 1..Len(open') : ~MayWarn(StepOf(d))'
           /\ Following /\ Len(open') = 1 => StepOf(1)' = "process_silver_queue"
<1>1. Len(open) \in Nat \ {0}
  BY RunTypes DEF RunInv
<1>2. CASE Abandoned
  <2>1. Len(open) = 1
    BY <1>1, <1>2 DEF Abandoned
  <2> QED
    BY <2>1
<1>3. CASE Following
  <2>1. Len(open) \in {1, 2} /\ (Len(open) = 2 => StepOf(1) = "process_silver_queue")
    BY <1>1, <1>3, FollowingHere DEF RunInv
  <2>2. Len(open') \in {0, 1} /\ (Len(open') = 1 => Len(open) = 2)
    BY <2>1
  <2>3. Len(open') = 1 => StepOf(1)' = "process_silver_queue"
    <3>1. Len(open') = 1 => 1 \in 1..Len(open')
      OBVIOUS
    <3> QED
      BY <2>1, <2>2, <3>1
  <2> QED
    BY <2>2, <2>3 DEF MayWarn
<1> QED
  BY <1>2, <1>3 DEF RunInv, Placed

LEMMA CommitDecisionKeeps == ASSUME RunInv, CommitDecision PROVE RunInv'
<1>1. /\ Working /\ error = Nothing /\ todo # <<>> /\ Head(todo).op = "decide"
      /\ decided' = TRUE /\ todo' = Tail(todo) /\ Following /\ Flawless
      /\ UNCHANGED <<request, pc, begun, outcomes, landed, open, log, row, error, cause,
                     failures>>
  BY Sound DEF CommitDecision, Undisturbed
<1>2. PICK a : a = Current
  OBVIOUS
<1>3. a = Current' /\ Working'
  BY <1>1, <1>2, SameScript DEF Working
<1>4. PICK k \in 0..Len(Script(a)) :
          /\ k < Len(Script(a)) /\ Head(todo) = Script(a)[k + 1]
          /\ Tail(todo) = SubSeq(Script(a), k + 2, Len(Script(a)))
          /\ Len(open) = Depth(a, k)
          /\ Len(open) > 0 => StepOf(Len(open)) = Innermost(a, k)
          /\ Len(open) = 2 => StepOf(1) = "process_silver_queue"
  BY <1>1, <1>2, FollowingHere DEF RunInv
<1>5. Depth(a, k + 1) = Depth(a, k) /\ Innermost(a, k + 1) = Innermost(a, k)
  BY <1>1, <1>4, ScriptSteps
<1>6. k + 1 \in 0..Len(Script(a)) /\ k + 1 + 1 = k + 2
  BY <1>4, ScriptTyped
<1>7. Following'
  <2>1. \A d : StepOf(d)' = StepOf(d)
    BY <1>1, ScopesKeep
  <2>2. /\ todo' = SubSeq(Script(a), k + 1 + 1, Len(Script(a))) /\ Len(open') = Depth(a, k + 1)
        /\ Len(open') > 0 => \A d : d = Len(open') => StepOf(d)' = Innermost(a, k + 1)
        /\ Len(open') = 2 => StepOf(1)' = "process_silver_queue"
    BY <1>1, <1>4, <1>5, <1>6, <2>1
  <2> QED
    BY <1>3, <1>6, <2>2, FollowingNext
<1>8. Flawless' /\ Opened' /\ Receipted'
  BY <1>1, ScopesKeep DEF RunInv, Receipted
<1>9. Outlived'
  BY <1>1 DEF Outlived
<1>10. cause' = error'
  BY <1>1 DEF RunInv, Recorded
<1> QED
  BY <1>1, <1>7, <1>8, <1>9, <1>10, RunTypes, WithinKeeps DEF RunInv

(* A step begins, or fails to begin.                                       *)
LEMMA EnterStepKeeps == ASSUME RunInv, EnterStep PROVE RunInv'
<1>1. /\ Working /\ error = Nothing /\ cause = Nothing /\ todo # <<>>
      /\ Head(todo).op = "enter" /\ Following /\ Flawless /\ Opened /\ RunTyped
      /\ UNCHANGED <<request, pc, begun, outcomes, landed, decided, row>>
  BY Sound DEF EnterStep, Undisturbed, RunInv, Recorded
<1>2. PICK a : a = Current
  OBVIOUS
<1>3. a = Current' /\ Working'
  BY <1>1, <1>2, SameScript DEF Working
<1>4. PICK k \in 0..Len(Script(a)) :
          /\ k < Len(Script(a)) /\ Head(todo) = Script(a)[k + 1]
          /\ todo = SubSeq(Script(a), k + 1, Len(Script(a)))
          /\ Tail(todo) = SubSeq(Script(a), k + 2, Len(Script(a)))
          /\ Len(open) = Depth(a, k)
          /\ Len(open) > 0 => StepOf(Len(open)) = Innermost(a, k)
          /\ Len(open) = 1 => ~MayWarn(StepOf(1))
  BY <1>1, <1>2, FollowingHere
<1>5. PICK s : s = Head(todo).step
  OBVIOUS
<1>6. /\ s \in StepNames /\ s = Innermost(a, k + 1) /\ Depth(a, k + 1) = Depth(a, k) + 1
      /\ Depth(a, k) = 1 => Innermost(a, k) = "process_silver_queue"
      /\ Script(a)[k + 1] = Enter(s)
  <2>1. /\ Head(todo) \in Ops
        /\ s \in StepNames /\ s = Innermost(a, k + 1) /\ Depth(a, k + 1) = Depth(a, k) + 1
        /\ Depth(a, k) = 1 => Innermost(a, k) = "process_silver_queue"
    BY <1>1, <1>4, <1>5, ScriptSteps
  <2>2. Head(todo) = Enter(s)
    BY <1>1, <1>5, <2>1 DEF Ops, Enter
  <2> QED
    BY <1>4, <2>1, <2>2
<1>7. /\ k + 1 \in 0..Len(Script(a)) /\ k + 1 + 1 = k + 2 /\ Len(Script(a)) \in Nat
      /\ Depth(a, k) \in 0..2 /\ Depth(a, k + 1) \in 0..2
  BY <1>4, ScriptTyped, ScriptScopes
<1>8. /\ failures \in 0..MaxFailures /\ failures \in Nat /\ MaxFailures \in Nat
      /\ decided' \in BOOLEAN
  BY <1>1, RunTypes
<1>9. CASE /\ log' = Append(log, Started(s)) /\ open' = Append(open, Len(log) + 1)
           /\ todo' = Tail(todo) /\ UNCHANGED <<error, cause, failures>>
  <2>1. /\ log' \in Seq(Entries) /\ \A i \in 1..Len(log') : log'[i].of < i
        /\ open' \in Seq(Nat) /\ Len(open) \in Nat /\ Len(open') = Len(open) + 1
        /\ \A d \in 1..Len(open) : StepOf(d)' = StepOf(d)
        /\ \A d : d = Len(open) + 1 => StepOf(d)' = s
        /\ Opened' /\ Flawless'
        /\ (\A i \in Begins : IsOpen(i) \/ Closed(i))
              => \A i \in Begins' : IsOpen(i)' \/ Closed(i)'
    BY <1>1, <1>6, <1>9, Pushed
  <2>2. Receipted'
    BY <1>9, <2>1 DEF RunInv, Receipted
  <2>3. Following'
    <3>1. todo' = SubSeq(Script(a), k + 1 + 1, Len(Script(a))) /\ Len(open') = Depth(a, k + 1)
      BY <1>4, <1>6, <1>7, <1>9, <2>1
    <3>2. \A d : d = Len(open') => StepOf(d)' = Innermost(a, k + 1)
      BY <1>6, <2>1
    <3>3. Len(open') = 2 => StepOf(1)' = "process_silver_queue"
      <4> SUFFICES ASSUME Len(open') = 2 PROVE StepOf(1)' = "process_silver_queue"
        OBVIOUS
      <4>0. \A n \in Nat : n + 1 = 2 => n = 1
        OBVIOUS
      <4>1. Len(open) = 1
        BY <2>1, <4>0
      <4>2. StepOf(1)' = StepOf(1)
        BY <2>1, <4>1
      <4>3. StepOf(1) = Innermost(a, k) /\ Innermost(a, k) = "process_silver_queue"
        BY <1>4, <1>6, <4>1
      <4> QED
        BY <4>2, <4>3
    <3> QED
      BY <1>3, <1>7, <3>1, <3>2, <3>3, FollowingNext
  <2>4. Outlived'
    BY <1>1, <1>9 DEF Outlived
  <2>5. error' \in Errors \cup {Nothing} /\ cause' = error'
    BY <1>1, <1>9
  <2> QED
    BY <1>1, <1>8, <1>9, <2>1, <2>2, <2>3, <2>4, <2>5, WithinKeeps
<1>10. CASE /\ failures < MaxFailures /\ failures' = failures + 1
            /\ log' = Append(log, Started(s)) \/ log' = log
            /\ open' = open /\ Escape(s, Error("Exception", s), AfterLeave(todo))
  <2>1. PICK e : e = Error("Exception", s)
    OBVIOUS
  <2>2. e \in Errors /\ e # Nothing /\ e.kind = "Exception" /\ e.step = s
    BY <1>6, <2>1, ErrorTyped DEF Kinds
  <2>3. /\ log' \in Seq(Entries) /\ \A i \in 1..Len(log') : log'[i].of < i
        /\ \A d \in 1..Len(open) : StepOf(d)' = StepOf(d)
        /\ Opened' /\ (MayWarn(s) => Flawless')
    BY <1>1, <1>6, <1>10, PushLost
  <2>4. failures' \in 0..MaxFailures /\ failures' # 0
    BY <1>8, <1>10
  <2>5. Receipted'
    BY <2>4 DEF Receipted
  <2>6. open' \in Seq(Nat)
    BY <1>10, RunTypes DEF RunInv
  <2>7. CASE Shielded(s, e)
    <3>1. error' = Nothing /\ cause' = Nothing /\ todo' = AfterLeave(todo) /\ MayWarn(s)
      BY <1>10, <2>1, <2>7 DEF Escape, Shielded, MayWarn
    <3>2. Depth(a, k) = 1
      BY <1>4, <1>6, <3>1, ScriptWarnings
    <3>3. PICK m \in (k + 1)..Len(Script(a)) :
              /\ Script(a)[m] = Leave /\ \A j \in (k + 1)..(m - 1) : Script(a)[j] # Leave
              /\ Depth(a, m) = 1 /\ Innermost(a, m) = "process_silver_queue"
      BY <1>4, <1>6, <3>1, ScriptWarnings
    <3>4. todo' = SubSeq(Script(a), m + 1, Len(Script(a)))
      BY <1>4, <3>1, <3>3, ScriptTyped, AfterStep
    <3>5. Following'
      <4>1. m \in 0..Len(Script(a))
        BY <1>7, <3>3
      <4>2. Len(open') = 1 /\ Len(open') # 2 /\ Len(open') = Depth(a, m)
        <5>1. Len(open') = Len(open)
          BY <1>10
        <5> QED
          BY <1>4, <3>2, <3>3, <5>1
      <4>3. \A d : d = Len(open') => StepOf(d)' = Innermost(a, m)
        <5>1. Len(open) = 1 /\ 1 \in 1..Len(open)
          BY <1>10, <4>2
        <5>2. StepOf(1)' = StepOf(1) /\ StepOf(1) = Innermost(a, m)
          BY <1>4, <1>6, <2>3, <3>2, <3>3, <5>1
        <5> QED
          BY <4>2, <5>2
      <4> QED
        BY <1>3, <3>4, <4>1, <4>2, <4>3, FollowingNext
    <3>6. Outlived'
      BY <3>1 DEF Outlived
    <3> QED
      BY <1>1, <1>8, <2>3, <2>4, <2>5, <2>6, <3>1, <3>5, <3>6, WithinKeeps
  <2>8. CASE ~Shielded(s, e)
    <3>1. error' = e /\ cause' = e /\ todo' = <<>>
      BY <1>1, <1>10, <2>1, <2>8 DEF Escape
    <3>2. Len(open') \in {0, 1} /\ \A d \in 1..Len(open') : d = 1 /\ ~MayWarn(StepOf(d))'
      <4>1. Len(open') \in {0, 1} /\ Len(open') = Len(open)
        BY <1>4, <1>6, <1>7, <1>10
      <4>2. Len(open) = 1 => 1 \in 1..Len(open) /\ StepOf(1)' = StepOf(1)
        BY <2>3
      <4>3. \A d \in 1..Len(open') : d = 1 /\ Len(open) = 1
        BY <4>1
      <4> QED
        BY <1>4, <4>1, <4>2, <4>3 DEF MayWarn
    <3>3. Abandoned' /\ Hopeless'
      BY <2>2, <3>1, <3>2 DEF Abandoned, Hopeless, MayWarn
    <3>4. Outlived'
      BY <1>1, <2>2, <2>8, <3>1 DEF Outlived, Shielded
    <3>5. (todo = <<>> => todo' = <<>>) /\ (todo = <<>> /\ open = <<>> => open' = <<>>)
      BY <1>1
    <3> QED
      BY <1>1, <1>8, <2>2, <2>3, <2>4, <2>5, <2>6, <3>1, <3>3, <3>4, <3>5, WithinKeeps
  <2> QED
    BY <2>7, <2>8
<1> QED
  BY <1>5, <1>9, <1>10 DEF EnterStep, Failing

(* A step ends well, or its receipt fails: a warning within what may       *)
(* warn.                                                                   *)
LEMMA LeaveStepKeeps == ASSUME RunInv, LeaveStep PROVE RunInv'
<1>1. /\ Working /\ error = Nothing /\ cause = Nothing /\ todo # <<>>
      /\ Head(todo).op = "leave" /\ Following /\ Flawless /\ Opened /\ RunTyped
      /\ UNCHANGED <<request, pc, begun, outcomes, landed, decided, row>>
      /\ open' = SubSeq(open, 1, Len(open) - 1)
  BY Sound DEF LeaveStep, Undisturbed, RunInv, Recorded
<1>2. PICK a : a = Current
  OBVIOUS
<1>3. a = Current' /\ Working'
  BY <1>1, <1>2, SameScript DEF Working
<1>4. PICK k \in 0..Len(Script(a)) :
          /\ k < Len(Script(a)) /\ Head(todo) = Script(a)[k + 1]
          /\ Tail(todo) = SubSeq(Script(a), k + 2, Len(Script(a)))
          /\ Len(open) = Depth(a, k)
          /\ Len(open) > 0 => StepOf(Len(open)) \in StepNames
  BY <1>1, <1>2, FollowingHere
<1>5. /\ Depth(a, k) = Depth(a, k + 1) + 1
      /\ Depth(a, k + 1) = 1 => Innermost(a, k + 1) = "process_silver_queue"
  BY <1>1, <1>4, ScriptSteps
<1>6. /\ k + 1 \in 0..Len(Script(a)) /\ k + 1 + 1 = k + 2 /\ Depth(a, k + 1) \in 0..2
  BY <1>4, ScriptTyped, ScriptScopes
<1>7. Len(open) \in Nat \ {0} /\ open # <<>>
  BY <1>1, <1>4, <1>5, <1>6, RunTypes
<1>8. /\ failures \in 0..MaxFailures /\ failures \in Nat /\ MaxFailures \in Nat
      /\ decided' \in BOOLEAN /\ Len(log) \in Nat /\ log \in Seq(Entries)
  BY <1>1, RunTypes
<1>9. PICK i : i = open[Len(open)]
  OBVIOUS
<1>10. PICK s : s = log[i].step
  OBVIOUS
<1>11. s \in StepNames /\ s = StepOf(Len(open))
  BY <1>4, <1>7, <1>9, <1>10 DEF StepOf
<1>12. \/ /\ log' = Append(log, Finished(i, "success")) /\ todo' = Tail(todo)
          /\ UNCHANGED <<error, cause, failures>>
       \/ /\ failures < MaxFailures /\ failures' = failures + 1
          /\ log' = Append(log, Finished(i, "success")) \/ log' = log
          /\ Escape(s, Error("Exception", s), Tail(todo))
  BY <1>9, <1>10 DEF LeaveStep, Failing
<1>13. /\ log' \in Seq(Entries) /\ \A j \in 1..Len(log') : log'[j].of < j
       /\ open' \in Seq(Nat) /\ Len(open') = Len(open) - 1
       /\ \A d \in 1..Len(open') : StepOf(d)' = StepOf(d)
       /\ Opened'
       /\ MayWarn(s) => Flawless'
       /\ log' = Append(log, Finished(i, "success")) => Flawless'
       /\ /\ log' # log
          /\ \A b \in Begins : IsOpen(b) \/ Closed(b)
          => \A b \in Begins' : IsOpen(b)' \/ Closed(b)'
  BY <1>1, <1>7, <1>9, <1>10, <1>12, Popped
<1>14. /\ Len(open') \in {0, 1} /\ \A d \in 1..Len(open') : ~MayWarn(StepOf(d))'
       /\ Len(open') = 1 => StepOf(1)' = "process_silver_queue"
  BY <1>1, <1>7, <1>13, Below
<1>15. ASSUME todo' = Tail(todo) PROVE Following'
  <2>1. todo' = SubSeq(Script(a), k + 1 + 1, Len(Script(a)))
    BY <1>4, <1>6, <1>15
  <2>2. Len(open') = Depth(a, k + 1)
    BY <1>4, <1>5, <1>6, <1>13
  <2>3. Len(open') > 0 => \A d : d = Len(open') => StepOf(d)' = Innermost(a, k + 1)
    BY <1>5, <1>14, <2>2
  <2>4. Len(open') # 2
    BY <1>14
  <2> QED
    BY <1>3, <1>6, <2>1, <2>2, <2>3, <2>4, FollowingNext
<1>16. CASE /\ log' = Append(log, Finished(i, "success")) /\ todo' = Tail(todo)
            /\ UNCHANGED <<error, cause, failures>>
  <2>1. log' # log
    <3>1. Len(Append(log, Finished(i, "success"))) = Len(log) + 1
      BY <1>8
    <3> QED
      BY <1>8, <1>16, <3>1
  <2>2. Receipted'
    BY <1>13, <1>16, <2>1 DEF RunInv, Receipted
  <2>3. Outlived'
    BY <1>1, <1>16 DEF Outlived
  <2>4. error' \in Errors \cup {Nothing} /\ cause' = error'
    BY <1>1, <1>16
  <2> QED
    BY <1>1, <1>8, <1>13, <1>15, <1>16, <2>2, <2>3, <2>4, WithinKeeps
<1>17. CASE /\ failures < MaxFailures /\ failures' = failures + 1
            /\ Escape(s, Error("Exception", s), Tail(todo))
  <2>1. PICK e : e = Error("Exception", s)
    OBVIOUS
  <2>2. e \in Errors /\ e # Nothing /\ e.kind = "Exception" /\ e.step = s
    BY <1>11, <2>1, ErrorTyped DEF Kinds
  <2>3. failures' \in 0..MaxFailures /\ failures' # 0
    BY <1>8, <1>17
  <2>4. Receipted'
    BY <2>3 DEF Receipted
  <2>5. CASE Shielded(s, e)
    <3>1. error' = Nothing /\ cause' = Nothing /\ todo' = Tail(todo) /\ MayWarn(s)
      BY <1>17, <2>1, <2>5 DEF Escape, Shielded, MayWarn
    <3>2. Outlived'
      BY <3>1 DEF Outlived
    <3> QED
      BY <1>1, <1>8, <1>13, <1>15, <2>3, <2>4, <3>1, <3>2, WithinKeeps
  <2>6. CASE ~Shielded(s, e)
    <3>1. error' = e /\ cause' = e /\ todo' = <<>>
      BY <1>1, <1>17, <2>1, <2>6 DEF Escape
    <3>2. Abandoned' /\ Hopeless'
      <4>1. Hopeless'
        BY <1>14, <2>2, <3>1 DEF Hopeless
      <4>2. Len(open') <= 1
        <5>1. \A n \in {0, 1} : n <= 1
          OBVIOUS
        <5> QED
          BY <1>14, <5>1
      <4> QED
        BY <3>1, <4>1, <4>2 DEF Abandoned
    <3>3. Outlived'
      BY <1>1, <2>2, <2>6, <3>1 DEF Outlived, Shielded
    <3> QED
      BY <1>1, <1>8, <1>13, <2>2, <2>3, <2>4, <3>1, <3>2, <3>3, WithinKeeps
  <2> QED
    BY <2>5, <2>6
<1> QED
  BY <1>12, <1>16, <1>17

(* The innermost step, if there is one.                                    *)
LEMMA TopTyped ==
    ASSUME RunTyped
    PROVE  /\ Top \in StepNames \cup {Nothing}
           /\ open # <<>> => Top = StepOf(Len(open))
           /\ Top # Nothing => open # <<>>
<1>1. CASE open = <<>>
  BY <1>1 DEF Top
<1>2. CASE open # <<>>
  <2>1. Len(open) \in 1..Len(open)
    BY <1>2, RunTypes
  <2>2. open[Len(open)] \in 1..Len(log)
    BY <2>1 DEF RunTyped, RunTypeOK
  <2>3. log[open[Len(open)]].step \in StepNames
    BY <2>2, RunTypes DEF Entries
  <2> QED
    BY <1>2, <2>3 DEF Top, StepOf
<1> QED
  BY <1>1, <1>2

LEMMA FailKeeps == ASSUME RunInv, Fail PROVE RunInv'
<1>1. /\ Working /\ error = Nothing /\ Following /\ Flawless /\ RunTyped
      /\ UNCHANGED <<request, pc, todo, begun, outcomes, landed, decided, open, log, row,
                     failures>>
  BY Sound DEF Fail, RunInv
<1>2. PICK kind \in Kinds : error' = Error(kind, Top) /\ cause' = Error(kind, Top)
  BY DEF Fail, Raise
<1>3. error' \in Errors /\ error' # Nothing /\ error'.step = Top /\ cause' = error'
  BY <1>1, <1>2, TopTyped, ErrorTyped
<1>4. PICK a : a = Current
  OBVIOUS
<1>5. a = Current' /\ Working'
  BY <1>1, <1>4, SameScript DEF Working
<1>6. PICK k \in 0..Len(Script(a)) :
          /\ todo = SubSeq(Script(a), k + 1, Len(Script(a)))
          /\ Len(open) = Depth(a, k)
          /\ Len(open) > 0 => StepOf(Len(open)) = Innermost(a, k)
          /\ Len(open) = 2 => StepOf(1) = "process_silver_queue"
  BY <1>1, <1>4, FollowingHere
<1>7. \A d : StepOf(d)' = StepOf(d)
  BY <1>1, ScopesKeep
<1>8. Following'
  <2>1. /\ todo' = SubSeq(Script(a), k + 1, Len(Script(a))) /\ Len(open') = Depth(a, k)
        /\ Len(open') > 0 => \A d : d = Len(open') => StepOf(d)' = Innermost(a, k)
        /\ Len(open') = 2 => StepOf(1)' = "process_silver_queue"
    BY <1>1, <1>6, <1>7
  <2> QED
    BY <1>5, <2>1, FollowingNext
<1>9. Flawless' /\ Opened' /\ Receipted'
  BY <1>1, ScopesKeep DEF RunInv, Receipted
<1>10. Outlived'
  <2> SUFFICES ASSUME Top = "finalize_silver_build"
               PROVE  open' # <<>> /\ StepOf(Len(open))' = "finalize_silver_build"
    BY <1>3, <1>5 DEF Outlived
  <2>1. Top # Nothing
    BY NothingAssumption DEF StepNames
  <2>2. open # <<>> /\ StepOf(Len(open)) = "finalize_silver_build"
    BY <1>1, <2>1, TopTyped
  <2> QED
    BY <1>1, <2>2 DEF StepOf
<1> QED
  BY <1>1, <1>3, <1>8, <1>9, <1>10, RunTypes, WithinKeeps

(* The exception leaves a step, and is the one that entered it.            *)
LEMMA UnwindKeeps == ASSUME RunInv, Unwind PROVE RunInv'
<1>1. /\ Working /\ error # Nothing /\ cause = error /\ open # <<>> /\ Opened /\ RunTyped
      /\ UNCHANGED <<request, pc, begun, outcomes, landed, decided, row>>
      /\ open' = SubSeq(open, 1, Len(open) - 1)
  BY DEF Unwind, RunInv, Recorded
<1>2. PICK a : a = Current
  OBVIOUS
<1>3. a = Current' /\ Working'
  BY <1>1, <1>2, SameScript DEF Working
<1>4. Len(open) \in Nat \ {0} /\ error \in Errors
  BY <1>1, RunTypes
<1>5. /\ failures \in 0..MaxFailures /\ failures \in Nat /\ MaxFailures \in Nat
      /\ decided' \in BOOLEAN /\ Len(log) \in Nat /\ log \in Seq(Entries)
  BY <1>1, RunTypes
<1>6. PICK i : i = open[Len(open)]
  OBVIOUS
<1>7. PICK s : s = log[i].step
  OBVIOUS
<1>8. s = StepOf(Len(open)) /\ Len(open) \in 1..Len(open)
  BY <1>4, <1>6, <1>7 DEF StepOf
<1>9. PICK verdict : verdict = StatusOf(error)
  OBVIOUS
<1>10. verdict \in {"success", "failed", "interrupted"} /\ verdict # "success"
  BY <1>9 DEF StatusOf
<1>11. /\ \/ log' = Append(log, Finished(i, verdict)) /\ failures' = failures
          \/ /\ failures < MaxFailures /\ failures' = failures + 1
             /\ log' = Append(log, Finished(i, verdict)) \/ log' = log
       /\ Escape(s, error, IF todo = <<>> THEN <<>> ELSE AfterLeave(todo))
  BY <1>6, <1>7, <1>9 DEF Unwind, Failing
<1>12. failures' \in 0..MaxFailures
  BY <1>5, <1>11
<1>13. /\ log' \in Seq(Entries) /\ \A j \in 1..Len(log') : log'[j].of < j
       /\ open' \in Seq(Nat) /\ Len(open') = Len(open) - 1
       /\ \A d \in 1..Len(open') : StepOf(d)' = StepOf(d)
       /\ Opened'
       /\ Flawless /\ MayWarn(s) => Flawless'
       /\ /\ log' # log
          /\ \A b \in Begins : IsOpen(b) \/ Closed(b)
          => \A b \in Begins' : IsOpen(b)' \/ Closed(b)'
  <2>1. log' = Append(log, Finished(i, verdict)) \/ log' = log
    BY <1>11
  <2> QED
    BY <1>1, <1>6, <1>7, <1>10, <2>1, Popped
<1>14. /\ Len(open') \in {0, 1} /\ \A d \in 1..Len(open') : ~MayWarn(StepOf(d))'
       /\ Following /\ Len(open') = 1 => StepOf(1)' = "process_silver_queue"
  BY <1>1, <1>13, Below
<1>15. Receipted'
  <2> SUFFICES ASSUME failures' = 0
               PROVE  \A b \in Begins' : IsOpen(b)' \/ Closed(b)'
    BY DEF Receipted
  <2>1. log' = Append(log, Finished(i, verdict)) /\ failures = 0
    BY <1>5, <1>11
  <2>2. Len(log') = Len(log) + 1
    BY <1>5, <2>1
  <2>3. log' # log
    BY <1>5, <2>2
  <2> QED
    BY <1>13, <2>1, <2>3 DEF RunInv, Receipted
<1>16. CASE Shielded(s, error)
  <2>1. /\ error' = Nothing /\ cause' = Nothing /\ MayWarn(s)
        /\ todo' = IF todo = <<>> THEN <<>> ELSE AfterLeave(todo)
    BY <1>11, <1>16 DEF Escape, Shielded, MayWarn
  <2>2. ~Hopeless
    BY <1>8, <2>1 DEF Hopeless
  <2>3. Following /\ Flawless
    BY <1>1, <2>2 DEF RunInv, Placed, Whole, Abandoned
  <2>4. PICK k \in 0..Len(Script(a)) :
            /\ todo = SubSeq(Script(a), k + 1, Len(Script(a)))
            /\ Len(open) = Depth(a, k) /\ Len(open) \in 0..2 /\ todo # <<>>
            /\ StepOf(Len(open)) = Innermost(a, k)
            /\ Len(open) = 1 => ~MayWarn(StepOf(1))
    <3>1. Len(open) > 0
      BY <1>4
    <3> QED
      BY <1>1, <1>2, <2>3, <3>1, FollowingHere
  <2>5. Depth(a, k) > 0 /\ Innermost(a, k) = s
    BY <1>4, <1>8, <2>4
  <2>6. PICK m \in (k + 1)..Len(Script(a)) :
            /\ Script(a)[m] = Leave /\ \A j \in (k + 1)..(m - 1) : Script(a)[j] # Leave
            /\ Depth(a, m) = 1 /\ Innermost(a, m) = "process_silver_queue"
    BY <2>1, <2>5, ScriptWarnings
  <2>7. a = "silver.process"
    BY <2>1, <2>5, ScriptWarnings
  <2>8. todo' = SubSeq(Script(a), m + 1, Len(Script(a)))
    BY <2>1, <2>4, <2>6, ScriptTyped, AfterStep
  <2>9. Len(open) # 1
    BY <1>8, <2>1, <2>4
  <2>10. Len(open') = 1
    <3>1. \A n \in 0..2 : n # 0 /\ n # 1 => n - 1 = 1
      OBVIOUS
    <3> QED
      BY <1>4, <1>13, <2>4, <2>9, <3>1
  <2>11. Following'
    <3>1. m \in 0..Len(Script(a))
      BY <2>6, ScriptTyped
    <3>2. Len(open') = Depth(a, m) /\ Len(open') # 2
      BY <2>6, <2>10
    <3>3. \A d : d = Len(open') => StepOf(d)' = Innermost(a, m)
      BY <1>14, <2>3, <2>6, <2>10
    <3> QED
      BY <1>3, <2>8, <3>1, <3>2, <3>3, FollowingNext
  <2>12. Flawless'
    BY <1>13, <2>1, <2>3
  <2>13. Outlived'
    BY <2>1 DEF Outlived
  <2> QED
    BY <1>1, <1>2, <1>5, <1>12, <1>13, <1>15, <2>1, <2>4, <2>7, <2>11, <2>12, <2>13,
       WithinKeeps
<1>17. CASE ~Shielded(s, error)
  <2>1. error' = error /\ cause' = error /\ todo' = <<>>
    BY <1>1, <1>11, <1>17 DEF Escape
  <2>2. Hopeless'
    BY <1>1, <1>14, <2>1 DEF Hopeless
  <2>3. Len(open') <= 1
    <3>1. \A n \in {0, 1} : n <= 1
      OBVIOUS
    <3> QED
      BY <1>14, <3>1
  <2>4. Abandoned'
    BY <2>1, <2>2, <2>3 DEF Abandoned
  <2>5. ~(decided /\ error.step = "finalize_silver_build" /\ error.kind = "Exception")
    <3>1. pc # "crashed"
      BY <1>1 DEF Working
    <3> QED
      BY <1>1, <1>8, <1>17, <3>1 DEF RunInv, Outlived, Shielded
  <2>6. Outlived'
    BY <1>1, <2>1, <2>5 DEF Outlived
  <2> QED
    BY <1>1, <1>4, <1>5, <1>12, <1>13, <1>15, <2>1, <2>2, <2>4, <2>6, WithinKeeps
<1> QED
  BY <1>16, <1>17

LEMMA InterruptUnwindKeeps == ASSUME RunInv, InterruptUnwind PROVE RunInv'
<1>1. /\ Working /\ error # Nothing /\ open # <<>> /\ Opened /\ RunTyped /\ todo' = <<>>
      /\ UNCHANGED <<request, pc, begun, outcomes, landed, decided, log, row>>
      /\ open' = SubSeq(open, 1, Len(open) - 1)
      /\ failures < MaxFailures /\ failures' = failures + 1
      /\ error' = Error("Interrupt", Top) /\ cause' = error'
  BY DEF InterruptUnwind, RunInv, Failing, Raise
<1>2. error' \in Errors /\ error' # Nothing /\ error'.kind = "Interrupt"
  BY <1>1, TopTyped, ErrorTyped DEF Kinds
<1>3. PICK i : i = open[Len(open)]
  OBVIOUS
<1>4. failures' \in 0..MaxFailures /\ failures' # 0 /\ decided' \in BOOLEAN
  BY <1>1, RunTypes
<1>5. /\ log' \in Seq(Entries) /\ \A j \in 1..Len(log') : log'[j].of < j
      /\ open' \in Seq(Nat) /\ Len(open') = Len(open) - 1
      /\ \A d \in 1..Len(open') : StepOf(d)' = StepOf(d)
      /\ Opened'
  <2>1. log' = Append(log, Finished(i, "failed")) \/ log' = log
    BY <1>1
  <2> QED
    BY <1>1, <1>3, <2>1, Popped
<1>6. Len(open') \in {0, 1} /\ \A d \in 1..Len(open') : ~MayWarn(StepOf(d))'
  BY <1>1, <1>5, Below
<1>7. Hopeless'
  BY <1>2, <1>6 DEF Hopeless
<1>8. Len(open') <= 1
  <2>1. \A n \in {0, 1} : n <= 1
    OBVIOUS
  <2> QED
    BY <1>6, <2>1
<1>9. Abandoned'
  BY <1>1, <1>7, <1>8 DEF Abandoned
<1>10. Receipted' /\ Outlived'
  BY <1>2, <1>4 DEF Receipted, Outlived
<1> QED
  BY <1>1, <1>2, <1>4, <1>5, <1>7, <1>9, <1>10, WithinKeeps

(* A run ends: its row is written, or a call has failed.                   *)
LEMMA FinishFailedKeeps == ASSUME RunInv, FinishFailed PROVE RunInv'
<1>1. /\ Working /\ error # Nothing /\ open = <<>> /\ pc' = "raised"
      /\ UNCHANGED <<request, todo, begun, outcomes, landed, decided, open, log, error, cause>>
  BY DEF FinishFailed
<1>2. PICK failed : failed = FinishedRow("failed", error)
  OBVIOUS
<1>3. \/ row' = failed /\ failures' = failures
      \/ /\ failures < MaxFailures /\ failures' = failures + 1
         /\ row' = failed \/ row' = row
  BY <1>2 DEF FinishFailed, Failing
<1>4. row.status \notin {"failed", "success"}
  BY <1>1 DEF RunInv, Recorded, Working
<1>5. failed \in RunRows /\ failed.status = "failed" /\ failed.error = error
  BY <1>1, <1>2, RunTypes DEF FinishedRow, RunInv, RunRows
<1>6. /\ failures' \in 0..MaxFailures /\ failures' \in {failures, failures + 1}
      /\ failures' = 0 => row' = failed
      /\ row' \in RunRows /\ row'.status # "success"
      /\ row'.status = "failed" => row'.error = error
  BY <1>3, <1>4, <1>5, RunTypes DEF RunInv
<1>7. Opened' /\ Whole' /\ Receipted'
  BY <1>1, <1>6, QuietStep DEF Working
<1>8. RunTyped'
  BY <1>1, <1>6, <1>7, RunTypes, TypesKeep DEF RunInv, Ended
<1>9. Placed'
  BY <1>1 DEF Placed, Working
<1>10. InOrder'
  BY <1>1, <1>6 DEF RunInv, InOrder
<1>11. Recorded'
  BY <1>1, <1>5, <1>6 DEF RunInv, Recorded
<1>12. Outlived'
  BY <1>1 DEF RunInv, Outlived, Working
<1> QED
  BY <1>7, <1>8, <1>9, <1>10, <1>11, <1>12 DEF RunInv

LEMMA FinishSuccessKeeps == ASSUME RunInv, FinishSuccess PROVE RunInv'
<1>1. /\ pc = "finish" /\ open = <<>> /\ error = Nothing /\ cause = Nothing
      /\ UNCHANGED <<request, todo, begun, outcomes, landed, decided, open, log>>
      /\ Flawless /\ row.status \notin {"failed", "success"}
  BY DEF FinishSuccess, RunInv, Placed, Recorded, Whole, Working
<1>2. PICK done : done = FinishedRow("success", Nothing)
  OBVIOUS
<1>3. \/ row' = done /\ pc' = "returned" /\ UNCHANGED <<error, cause, failures>>
      \/ /\ failures < MaxFailures /\ failures' = failures + 1
         /\ row' = done \/ row' = row
         /\ pc' = "raised" /\ error' = Error("Exception", Nothing) /\ cause' = error'
  BY <1>2 DEF FinishSuccess, Failing, Raise
<1>4. done \in RunRows /\ done.status = "success"
  BY <1>2, RunTypes DEF FinishedRow, RunInv, RunRows
<1>5. /\ failures' \in 0..MaxFailures /\ failures' \in {failures, failures + 1}
      /\ row' \in RunRows /\ row'.status # "failed"
      /\ pc' = "returned" => row'.status = "success"
      /\ failures' = 0 => row'.status = "success"
      /\ row'.status = "success" => pc' \in {"returned", "raised"}
  BY <1>1, <1>3, <1>4, RunTypes DEF RunInv
<1>6. /\ pc' \in {"returned", "raised"} /\ cause' = error' /\ error' \in Errors \cup {Nothing}
      /\ pc' = "raised" => error' # Nothing
      /\ error' # Nothing => error'.step = Nothing
  BY <1>1, <1>3, ErrorTyped DEF Kinds
<1>7. Opened' /\ Whole' /\ Receipted'
  BY <1>1, <1>5, <1>6, QuietStep DEF Working
<1>8. RunTyped'
  BY <1>1, <1>5, <1>6, <1>7, RunTypes, TypesKeep DEF RunInv, Ended
<1>9. Placed'
  BY <1>1, <1>6 DEF Placed, Working
<1>10. InOrder'
  <2>1. Len(outcomes) = IF landed \/ forced THEN Len(pipeline) ELSE 0
    BY <1>1 DEF RunInv, InOrder
  <2> QED
    BY <1>1, <1>6, <2>1 DEF RunInv, InOrder, request
<1>11. Recorded'
  BY <1>1, <1>5, <1>6 DEF RunInv, Recorded
<1>12. Outlived'
  BY <1>6, NothingAssumption DEF Outlived, StepNames
<1> QED
  BY <1>7, <1>8, <1>9, <1>10, <1>11, <1>12 DEF RunInv

LEMMA DieKeeps == ASSUME RunInv, Die PROVE RunInv'
<1>1. /\ pc \notin Ended /\ pc' = "crashed"
      /\ UNCHANGED <<request, todo, begun, outcomes, landed, decided, open, log, row, error,
                     cause, failures>>
  BY DEF Die
<1>2. row.status \notin {"failed", "success"}
  BY <1>1 DEF RunInv, Recorded, Ended
<1>3. Opened' /\ Whole' /\ Receipted'
  BY <1>1, <1>2, QuietStep DEF Working
<1>4. RunTyped'
  BY <1>1, <1>3, RunTypes, TypesKeep DEF RunInv, Ended
<1>5. Placed'
  BY <1>1 DEF Placed, Working
<1>6. InOrder'
  BY <1>1, <1>2 DEF RunInv, InOrder
<1>7. Recorded' /\ Outlived'
  BY <1>1, <1>2 DEF RunInv, Recorded, Outlived
<1> QED
  BY <1>3, <1>4, <1>5, <1>6, <1>7 DEF RunInv

LEMMA RunStays == ASSUME RunInv, UNCHANGED runVars PROVE RunInv'
<1>1. UNCHANGED <<request, pc, todo, begun, outcomes, landed, decided, open, log, row, error,
                  cause, failures>>
  BY DEF runVars, request
<1>2. Opened' /\ Whole' /\ Receipted'
  <2>1. pc \in {"finish", "returned"} \/ row.status = "success" => Flawless
    BY DEF RunInv, Whole
  <2> QED
    BY <1>1, <2>1, QuietStep DEF Working
<1>3. RunTyped'
  BY <1>1, <1>2, RunTypes, TypesKeep DEF RunInv
<1>4. Placed'
  <2>1. (Following => Following') /\ (Abandoned => Abandoned')
    BY DEF runVars, Following, Abandoned, Hopeless, Scoped, CurrentScript, Current, StepOf
  <2> QED
    BY <1>1, <2>1 DEF RunInv, Placed, Working, request
<1>5. InOrder' /\ Recorded' /\ Outlived'
  BY <1>1 DEF RunInv, InOrder, Recorded, Outlived, HasBatch, request, Working, StepOf
<1> QED
  BY <1>2, <1>3, <1>4, <1>5 DEF RunInv

LEMMA RunInvKept == RunInv /\ [RunNext]_runVars => RunInv'
<1> SUFFICES ASSUME RunInv, [RunNext]_runVars PROVE RunInv'
  OBVIOUS
<1>1. CASE Open BY <1>1, OpenKeeps
<1>2. CASE Start BY <1>2, StartKeeps
<1>3. CASE Resolve BY <1>3, ResolveKeeps
<1>4. CASE Acquired BY <1>4, AcquiredKeeps
<1>5. CASE BeginAction BY <1>5, BeginActionKeeps
<1>6. CASE EndAction BY <1>6, EndActionKeeps
<1>7. CASE ActionsDone BY <1>7, ActionsDoneKeeps
<1>8. CASE EnterStep BY <1>8, EnterStepKeeps
<1>9. CASE CommitDecision BY <1>9, CommitDecisionKeeps
<1>10. CASE LeaveStep BY <1>10, LeaveStepKeeps
<1>11. CASE Unwind BY <1>11, UnwindKeeps
<1>12. CASE FinishFailed BY <1>12, FinishFailedKeeps
<1>13. CASE FinishSuccess BY <1>13, FinishSuccessKeeps
<1>14. CASE Fail BY <1>14, FailKeeps
<1>15. CASE InterruptUnwind BY <1>15, InterruptUnwindKeeps
<1>16. CASE Die BY <1>16, DieKeeps
<1>17. CASE UNCHANGED runVars BY <1>17, RunStays
<1> QED
  BY <1>1, <1>2, <1>3, <1>4, <1>5, <1>6, <1>7, <1>8, <1>9, <1>10, <1>11, <1>12, <1>13, <1>14,
     <1>15, <1>16, <1>17 DEF RunNext, Steps

-----------------------------------------------------------------------------
(* What the invariant says of a run that has ended.                        *)
LEMMA RunInvSays == ASSUME RunInv PROVE CauseIsReported /\ RecordsAreTrue
<1>1. CauseIsReported
  BY DEF RunInv, Recorded, CauseIsReported
<1>2. SuccessIsWhole
  <2>1. pc = "returned" => row.status = "success"
    BY DEF RunInv, Recorded
  <2> SUFFICES ASSUME row.status = "success"
               PROVE  /\ Len(outcomes) = IF landed \/ forced THEN Len(pipeline) ELSE 0
                      /\ \A i \in 1..Len(outcomes) :
                            outcomes[i][1] = "documentation.bind" =>
                                \E j \in 1..(i - 1) :
                                    outcomes[j] = <<"bronze.ingest", "completed">>
                      /\ \A i \in Begins : ~MayWarn(log[i].step) =>
                            \E j \in Closing(i) : log[j].status = "success"
    BY <2>1 DEF SuccessIsWhole
  <2>2. open = <<>>
    BY DEF RunInv, Recorded, Placed, Working
  <2>3. \A i : ~IsOpen(i)
    BY <2>2, RunTypes DEF RunInv, IsOpen
  <2>4. Flawless
    BY DEF RunInv, Whole
  <2>5. \A i \in Begins : ~MayWarn(log[i].step) =>
            \E j \in Closing(i) : log[j].status = "success"
    BY <2>3, <2>4 DEF Flawless
  <2>6. InOrder
    BY DEF RunInv
  <2>7. Len(outcomes) = IF landed \/ forced THEN Len(pipeline) ELSE 0
    BY <2>6 DEF InOrder
  <2>8. \A i \in 1..Len(outcomes) : outcomes[i][1] = "documentation.bind" =>
            \E j \in 1..(i - 1) : outcomes[j] = <<"bronze.ingest", "completed">>
    BY <2>6 DEF InOrder
  <2> QED
    BY <2>5, <2>7, <2>8
<1>3. EndedRunIsRecorded
  <2> SUFFICES ASSUME pc \in {"returned", "raised"}, failures = 0, row.status # Nothing
               PROVE  row.status \in {"success", "failed"} /\ \A i \in Begins : Closed(i)
    BY DEF EndedRunIsRecorded, Closed
  <2>1. row.status \in {"success", "failed"}
    BY RunTypes DEF RunInv, Recorded, RunRows
  <2>2. open = <<>>
    BY DEF RunInv, Placed, Working
  <2>3. \A i : ~IsOpen(i)
    BY <2>2, RunTypes DEF RunInv, IsOpen
  <2> QED
    BY <2>1, <2>3 DEF RunInv, Receipted
<1>4. DecisionOutlivesReceipt
  <2> SUFFICES ASSUME pc = "raised", decided, error.step = "finalize_silver_build"
               PROVE  error.kind = "Interrupt"
    BY DEF DecisionOutlivesReceipt
  <2>1. error \in Errors
    BY RunTypes DEF RunInv, Recorded
  <2>2. error.kind # "Exception"
    BY <2>1, NothingAssumption DEF RunInv, Outlived, Working
  <2> QED
    BY <2>1, <2>2 DEF Errors, Kinds
<1> QED
  BY <1>1, <1>2, <1>3, <1>4 DEF RunInv, RunTyped, RecordsAreTrue

(* Whatever else fails on the way out (run_step's finally, pipeline_run's  *)
(* except), the exception the caller gets, and the one in the run's row,   *)
(* is the one that ended the work.                                         *)
THEOREM CauseIsReportedCorrect == RunSpec => []CauseIsReported
<1>1. RunInv => CauseIsReported
  BY RunInvSays
<1> QED
  BY <1>1, RunInitially, RunInvKept, PTL DEF RunSpec

(* What run_step and pipeline_run have recorded is true: a success is whole*)
(* and in order, a run with every call answered left nothing open and      *)
(* closed every step once, and a decision that is committed is not         *)
(* reported as a failure for want of its receipt.                          *)
THEOREM RecordsAreTrueCorrect == RunSpec => []RecordsAreTrue
<1>1. RunInv => RecordsAreTrue
  BY RunInvSays
<1> QED
  BY <1>1, RunInitially, RunInvKept, PTL DEF RunSpec

=============================================================================
