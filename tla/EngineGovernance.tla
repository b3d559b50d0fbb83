------------------------- MODULE EngineGovernance --------------------------
(***************************************************************************)
(* Releases of the Silver engine: every run registers the release that is  *)
(* installed, operators approve and reject releases, and the gate decides  *)
(* whether a run may build.                                                *)
(*                                                                         *)
(* Approval is a transaction of several statements under an advisory lock, *)
(* interleaved here with single-statement rejections and registrations and *)
(* with running pipelines.  PostgreSQL shows uncommitted changes to no one *)
(* and makes a second writer of a row wait for the first.                  *)
(***************************************************************************)
EXTENDS Naturals, FiniteSets

CONSTANTS Releases, Operators, Runs, MaxFaults, None

ASSUME NoneAssumption == None \notin Releases \cup Operators
ASSUME FaultAssumption == MaxFaults \in Nat

VARIABLES status,       \* meta.silver_engine_releases.status, "absent" before registration
          approvals,    \* releases whose approved_at and approved_by are set
          rejections,   \* releases whose rejected_at and rejected_by are set
          lock,         \* operator that holds the advisory lock silver-engine-approval
          op,           \* approval transactions
          run,          \* pipeline runs
          builds,       \* Silver builds, with the release that made them
          faults

releases == <<status, approvals, rejections>>
vars == <<releases, lock, op, run, builds, faults>>

Statuses == {"candidate", "approved", "rejected", "retired"}
Environments == {"development", "production"}
Policies == {"allow_candidate", "require_approved"}

NoApproval == [at |-> "idle", release |-> None, retiring |-> {}]
NoRun == [at |-> "idle", release |-> None, environment |-> "development",
          policy |-> "allow_candidate"]

Init ==
    /\ status = [e \in Releases |-> "absent"]
    /\ approvals = {} /\ rejections = {}
    /\ lock = None
    /\ op = [o \in Operators |-> NoApproval]
    /\ run = [r \in Runs |-> NoRun]
    /\ builds = {}
    /\ faults = 0

TypeOK ==
    /\ status \in [Releases -> Statuses \cup {"absent"}]
    /\ approvals \in SUBSET Releases
    /\ rejections \in SUBSET Releases
    /\ lock \in Operators \cup {None}
    /\ op \in [Operators -> [at: {"idle", "waiting", "locked", "row_locked", "retired"},
                             release: Releases \cup {None}, retiring: SUBSET Releases]]
    /\ run \in [Runs -> [at: {"idle", "composed", "processing"},
                         release: Releases \cup {None},
                         environment: Environments, policy: Policies]]
    /\ builds \in SUBSET [release: Releases, environment: Environments]
    /\ faults \in Nat

Approved == {e \in Releases : status[e] = "approved"}

(* Rows an approval has locked: its release, and those it has retired.     *)
Rows(o) ==
    CASE op[o].at = "row_locked" -> {op[o].release}
      [] op[o].at = "retired" -> {op[o].release} \cup op[o].retiring
      [] OTHER -> {}
RowFree(e) == \A o \in Operators : e \notin Rows(o)

-----------------------------------------------------------------------------
(* The approval transaction.                                               *)
BeginApproval(o, e) ==
    /\ op[o].at = "idle"
    /\ op' = [op EXCEPT ![o] = [NoApproval EXCEPT !.at = "waiting", !.release = e]]
    /\ UNCHANGED <<releases, lock, run, builds, faults>>

(* Fault: approvals do not wait for each other.                            *)
Unlocked(o) ==
    /\ op[o].at = "waiting"
    /\ op' = [op EXCEPT ![o].at = "locked"]
    /\ UNCHANGED <<releases, lock, run, builds, faults>>

LockApproval(o) ==
    /\ op[o].at = "waiting"
    /\ lock = None
    /\ lock' = o
    /\ op' = [op EXCEPT ![o].at = "locked"]
    /\ UNCHANGED <<releases, run, builds, faults>>

EndTransaction(o) ==
    /\ lock' = IF lock = o THEN None ELSE lock
    /\ op' = [op EXCEPT ![o] = NoApproval]

LockRow(o) ==
    /\ op[o].at = "locked"
    /\ status[op[o].release] # "absent"
    /\ RowFree(op[o].release)
    /\ op' = [op EXCEPT ![o].at = "row_locked"]
    /\ UNCHANGED <<releases, lock, run, builds, faults>>

(* Fault: the refusal leaves the transaction open.                         *)
RefuseUnknownOpen(o) ==
    /\ op[o].at = "locked"
    /\ status[op[o].release] = "absent"
    /\ op' = [op EXCEPT ![o] = NoApproval]
    /\ UNCHANGED <<releases, lock, run, builds, faults>>

RefuseUnknown(o) ==
    /\ op[o].at = "locked"
    /\ status[op[o].release] = "absent"
    /\ EndTransaction(o)
    /\ UNCHANGED <<releases, run, builds, faults>>

(* Every other approved release is retired; the UPDATE waits for rows that *)
(* another approval has locked.                                            *)
RetireOthers(o) ==
    LET others == Approved \ {op[o].release} IN
    /\ op[o].at = "row_locked"
    /\ \A e \in others, p \in Operators \ {o} : e \notin Rows(p)
    /\ op' = [op EXCEPT ![o].at = "retired", ![o].retiring = others]
    /\ UNCHANGED <<releases, lock, run, builds, faults>>

(* Fault: the rejection of a release survives its approval.                *)
CommitKeepingRejection(o) ==
    LET e == op[o].release IN
    /\ op[o].at = "retired"
    /\ Approved \subseteq op[o].retiring \cup {e}
    /\ status' = [x \in Releases |->
           IF x = e THEN "approved" ELSE IF x \in op[o].retiring THEN "retired" ELSE status[x]]
    /\ approvals' = approvals \cup {e}
    /\ EndTransaction(o)
    /\ UNCHANGED <<rejections, run, builds, faults>>

(* The release is approved, whatever its status was, and its rejection, if *)
(* any, is erased.  A second approved row would violate the unique index.  *)
CommitApproval(o) ==
    LET e == op[o].release IN
    /\ op[o].at = "retired"
    /\ Approved \subseteq op[o].retiring \cup {e}
    /\ status' = [x \in Releases |->
           IF x = e THEN "approved" ELSE IF x \in op[o].retiring THEN "retired" ELSE status[x]]
    /\ approvals' = approvals \cup {e}
    /\ rejections' = rejections \ {e}
    /\ EndTransaction(o)
    /\ UNCHANGED <<run, builds, faults>>

(* The operator's process or connection dies: the transaction rolls back.  *)
Crash(o) ==
    /\ op[o].at # "idle"
    /\ faults < MaxFaults
    /\ faults' = faults + 1
    /\ EndTransaction(o)
    /\ UNCHANGED <<releases, run, builds>>

(* reject is one UPDATE: it waits for the row and looks at the committed   *)
(* status; an approved or unknown release is refused without a change.     *)
Reject(e) ==
    /\ status[e] \notin {"absent", "approved"}
    /\ RowFree(e)
    /\ status' = [status EXCEPT ![e] = "rejected"]
    /\ rejections' = rejections \cup {e}
    /\ UNCHANGED <<approvals, lock, op, run, builds, faults>>

-----------------------------------------------------------------------------
(* resolve_silver_engine_policy: production never disables the approval; a *)
(* configuration that tries is an error ("invalid").                       *)
ResolvePolicy(environment, configured) ==
    CASE configured = "none" /\ environment = "production" -> "require_approved"
      [] configured = "none" /\ environment = "development" -> "allow_candidate"
      [] configured = "allow_candidate" /\ environment = "production" -> "invalid"
      [] OTHER -> configured

(* Fault: registration starts the review of a known release again.         *)
RegisterAgain(e) ==
    /\ status' = [status EXCEPT ![e] = "candidate"]
    /\ UNCHANGED <<approvals, rejections>>

(* register_candidate: a release that is known keeps its status.           *)
Register(e) ==
    /\ status' = [status EXCEPT ![e] = IF @ = "absent" THEN "candidate" ELSE @]
    /\ UNCHANGED <<approvals, rejections>>

(* A run is composed: its policy is resolved and the installed release is  *)
(* registered.                                                             *)
Compose(r, e, environment, configured) ==
    LET policy == ResolvePolicy(environment, configured) IN
    /\ run[r].at = "idle"
    /\ policy \in Policies
    /\ Register(e)
    /\ run' = [run EXCEPT ![r] = [at |-> "composed", release |-> e,
                                  environment |-> environment, policy |-> policy]]
    /\ UNCHANGED <<lock, op, builds, faults>>

(* Fault: any approved release opens the gate.                             *)
AllowsAfterAnyApproval(release, policy) ==
    policy = "allow_candidate" \/ Approved # {}

(* evaluate_silver_engine_gate: the approved release, read once, must be   *)
(* the installed one.                                                      *)
Allows(release, policy) ==
    \/ policy = "allow_candidate"
    \/ release \in Approved

EvaluateGate(r) ==
    /\ run[r].at = "composed"
    /\ run' = [run EXCEPT ![r] = IF Allows(run[r].release, run[r].policy)
                                 THEN [@ EXCEPT !.at = "processing"] ELSE NoRun]
    /\ UNCHANGED <<releases, lock, op, builds, faults>>

(* While a run is processing, nothing looks at the releases again.         *)
Build(r) ==
    /\ run[r].at = "processing"
    /\ builds' = builds \cup
           {[release |-> run[r].release, environment |-> run[r].environment]}
    /\ UNCHANGED <<releases, lock, op, run, faults>>

EndRun(r) ==
    /\ run[r].at # "idle"
    /\ run' = [run EXCEPT ![r] = NoRun]
    /\ UNCHANGED <<releases, lock, op, builds, faults>>

-----------------------------------------------------------------------------
ApprovalStep(o) ==
    \/ LockApproval(o) \/ LockRow(o) \/ RefuseUnknown(o)
    \/ RetireOthers(o) \/ CommitApproval(o)

RunStep(r) ==
    \/ \E e \in Releases, environment \in Environments, configured \in Policies \cup {"none"} :
          Compose(r, e, environment, configured)
    \/ EvaluateGate(r) \/ Build(r) \/ EndRun(r)

Next ==
    \/ \E o \in Operators :
          (\E e \in Releases : BeginApproval(o, e)) \/ ApprovalStep(o) \/ Crash(o)
    \/ \E e \in Releases : Reject(e)
    \/ \E r \in Runs : RunStep(r)

Spec == Init /\ [][Next]_vars

(* Operators' processes go on, and waiters get the lock in their turn.     *)
FairSpec == Spec /\ \A o \in Operators : SF_vars(ApprovalStep(o))

-----------------------------------------------------------------------------
(* Production has at most one engine at any time, whatever operators and   *)
(* runs do at once, and its review is complete: an approval is on record   *)
(* and no rejection; a rejected release has its rejection on record.       *)
OneReviewedEngine ==
    /\ \A e, f \in Approved : e = f
    /\ \A e \in Approved : e \in approvals /\ e \notin rejections
    /\ \A e \in Releases : status[e] = "rejected" => e \in rejections

(* The rows are well-formed and their reviews consistent.                  *)
GovernanceIsConsistent == TypeOK /\ OneReviewedEngine

(* The advisory lock keeps the unique index on approved rows from ever     *)
(* refusing an approval: what an approval has not retired is not approved  *)
(* when it commits.                                                        *)
ApprovalIsNeverRefused ==
    \A o \in Operators :
        op[o].at = "retired" => Approved \subseteq op[o].retiring \cup {op[o].release}

(* Whatever is built in production was made by a release an operator had   *)
(* approved, although approvals change between the gate and the build.     *)
ProductionIsReviewed ==
    \A build \in builds : build.environment = "production" => build.release \in approvals

(* Once an engine is approved there is always one: approving another       *)
(* replaces it in one step, and neither a rejection nor a registration of  *)
(* the same release takes it away, so production is never held up.         *)
ApprovalIsContinuous == [][Approved # {} => Approved' # {}]_vars

(* Every approval that has begun ends.                                     *)
ApprovalsEnd == \A o \in Operators : op[o].at # "idle" ~> op[o].at = "idle"

=============================================================================
