-------------------------- MODULE SilverBuild_proofs --------------------------
(***************************************************************************)
(* The catalog of builds and the artifact storage agree at every moment,   *)
(* outcomes are final and only failed builds lose artifacts, for any       *)
(* number of processes, builds, tables and files, whatever fails.          *)
(***************************************************************************)
EXTENDS SilverBuild, TLAPS

(* The points at which a process builds a table, and at which it has an    *)
(* attempt that is still running.                                          *)
InTable == {"building", "table_staged", "details_written"}
Busy == InTable \cup {"committing", "writing_manifest", "deciding"}
Working == Busy \cup {"finalization_failed"}

(* A process works on a build of its own: no other run has inserted it, so *)
(* no other run stages, fails or cleans up after it.                       *)
Ownership ==
    \A w \in Workers :
        /\ worker[w].at \in Working => worker[w].build \in worker[w].mine
        /\ \A b \in worker[w].mine : Status(b) # "absent"
        /\ \A v \in Workers : v # w => worker[v].mine \cap worker[w].mine = {}

(* How far the process r has brought its build: what is staged, stored and *)
(* listed at each point of the work.                                       *)
Progress(r) ==
    /\ r.at \in Busy => Status(r.build) = "running"
    /\ r.at = "finalization_failed" => Status(r.build) \in {"running", "succeeded"}
    /\ r.at \in InTable => {r.build} \X (Tables \ r.left) \subseteq staged
    /\ r.at \in {"table_staged", "details_written"} => <<r.build, r.table>> \in staged
    /\ r.at = "details_written" => <<r.build, r.table>> \in details
    /\ r.at = "committing" =>
          /\ {r.build} \X r.left \subseteq staged
          /\ {r.build} \X (Tables \ r.left) \subseteq stored
    /\ r.at \in {"writing_manifest", "deciding"} => {r.build} \X Tables \subseteq stored
    /\ r.at = "deciding" => r.build \in manifests

(* What reconciliation has listed for deletion has failed, and stays so.   *)
ListedHaveFailed ==
    /\ \A b \in cleaner.failed : Status(b) = "failed"
    /\ \A d \in cleaner.directories : Status(d[1]) = "failed"

BuildInv ==
    /\ TypeOK /\ Ownership /\ ListedHaveFailed /\ SucceededIsComplete /\ ManifestIsLast
    /\ \A w \in Workers : Progress(worker[w])

-----------------------------------------------------------------------------
Records == [at: Points, config: Configs \cup {None}, force: BOOLEAN,
            queue: SUBSET [file: Files, matched: BOOLEAN], mine: SUBSET Builds,
            build: Builds \cup {None}, left: SUBSET Tables, table: Tables \cup {None},
            stamp: Nat]
Attempts == [status: {"absent", "running", "succeeded", "failed"}, file: Files \cup {None},
             config: Configs \cup {None}, forced: BOOLEAN, started: Nat, completed: Nat]

(* The types of everything but the attempts, the workers and the cleaner.  *)
RestTyped ==
    /\ ingested \in Seq(Files) /\ published \in SUBSET Builds
    /\ staged \in SUBSET (Builds \X Tables) /\ stored \in SUBSET (Builds \X Tables)
    /\ details \in SUBSET (Builds \X Tables) /\ impacts \in SUBSET (Builds \X Tables)
    /\ manifests \in SUBSET Builds /\ clock \in Nat /\ faults \in Nat

(* A step changes the record of one process.                               *)
Becomes(w, rec) ==
    /\ rec \in Records /\ worker' \in [Workers -> Records]
    /\ \A v \in Workers : worker'[v] = IF v = w THEN rec ELSE worker[v]

LEMMA WorkerChanges ==
    ASSUME BuildInv, NEW w \in Workers, NEW rec \in Records, worker' = [worker EXCEPT ![w] = rec]
    PROVE  Becomes(w, rec)
BY DEF BuildInv, TypeOK, Records, Becomes

LEMMA IdleTyped == Idle \in Records /\ Idle.at = "idle" /\ Idle.mine = {}
BY DEF Idle, Records, Points

LEMMA Typed ==
    ASSUME BuildInv
    PROVE  /\ attempt \in [Builds -> Attempts] /\ worker \in [Workers -> Records]
           /\ RestTyped /\ \A w \in Workers : worker[w] \in Records
BY DEF BuildInv, TypeOK, Attempts, Records, RestTyped

(* What a process at work relies on.                                       *)
LEMMA AtWork ==
    ASSUME BuildInv, NEW w \in Workers, worker[w].at \in Working
    PROVE  /\ worker[w].build \in Builds /\ worker[w].build \in worker[w].mine
           /\ Progress(worker[w]) /\ Status(worker[w].build) # "failed"
<1>1. worker[w].build \in worker[w].mine /\ worker[w].mine \in SUBSET Builds
  BY Typed DEF BuildInv, Ownership, Records
<1>2. Progress(worker[w])
  BY DEF BuildInv
<1>3. Status(worker[w].build) \in {"running", "succeeded"}
  BY <1>2 DEF Progress, Working
<1> QED
  BY <1>1, <1>2, <1>3

-----------------------------------------------------------------------------
(* A step leaves alone all builds but those of S.                          *)
Frame(S) ==
    \A b \in Builds \ S :
        /\ attempt'[b] = attempt[b]
        /\ b \in manifests => b \in manifests'
        /\ \A t \in Tables : /\ <<b, t>> \in staged => <<b, t>> \in staged'
                             /\ <<b, t>> \in stored => <<b, t>> \in stored'
                             /\ <<b, t>> \in details => <<b, t>> \in details'

LEMMA ProgressKept ==
    ASSUME BuildInv, NEW v \in Workers, worker'[v] = worker[v], NEW S, Frame(S),
           worker[v].at \in Working => worker[v].build \notin S
    PROVE  Progress(worker[v])'
<1> DEFINE r == worker[v]
<1>1. CASE r.at \in Working
  <2>1. r.build \in Builds \ S /\ Progress(r) /\ r \in Records
    BY <1>1, AtWork, Typed
  <2>2. RestTyped
    BY Typed
  <2>3. /\ attempt'[r.build] = attempt[r.build]
        /\ r.build \in manifests => r.build \in manifests'
        /\ \A T \in SUBSET Tables : {r.build} \X T \subseteq staged => {r.build} \X T \subseteq staged'
        /\ \A T \in SUBSET Tables : {r.build} \X T \subseteq stored => {r.build} \X T \subseteq stored'
    BY <2>1 DEF Frame
  <2>4. /\ <<r.build, r.table>> \in staged => <<r.build, r.table>> \in staged'
        /\ <<r.build, r.table>> \in details => <<r.build, r.table>> \in details'
    BY <2>1, <2>2 DEF Frame, RestTyped
  <2>5. r.left \in SUBSET Tables /\ Tables \ r.left \in SUBSET Tables /\ Tables \in SUBSET Tables
    BY <2>1 DEF Records
  <2> QED
    BY <2>1, <2>3, <2>4, <2>5 DEF Progress, Status
<1>2. CASE r.at \notin Working
  BY <1>2 DEF Progress, Working, Busy, InTable
<1> QED
  BY <1>1, <1>2

(* A step of one process preserves the invariant if it concerns only its   *)
(* own builds, resurrects none, and leaves what it did consistent.         *)
LEMMA WorkerStep ==
    ASSUME BuildInv, NEW w \in Workers, NEW rec \in Records, Becomes(w, rec),
           \A b \in rec.mine : b \in worker[w].mine \/ Status(b) = "absent",
           \A b \in rec.mine : attempt'[b].status # "absent",
           rec.at \in Working => rec.build \in rec.mine,
           Frame(rec.mine \cup worker[w].mine),
           attempt' \in [Builds -> Attempts], RestTyped', cleaner' = cleaner,
           \A b \in Builds : /\ Status(b) # "absent" => attempt'[b].status # "absent"
                             /\ Status(b) = "failed" => attempt'[b].status = "failed",
           Progress(worker[w])', SucceededIsComplete', ManifestIsLast'
    PROVE  BuildInv'
<1>1. TypeOK'
  BY DEF BuildInv, TypeOK, RestTyped, Attempts, Records, Becomes
<1>2. \A v \in Workers : v # w => worker'[v] = worker[v]
  BY DEF Becomes
<1>3. worker'[w] = rec
  BY DEF Becomes
<1>4. /\ \A v \in Workers : worker[v].mine \in SUBSET Builds
      /\ rec.mine \in SUBSET Builds
  BY Typed DEF Records
<1>5. ASSUME NEW v \in Workers, v # w
      PROVE  worker[v].mine \cap (rec.mine \cup worker[w].mine) = {}
  BY <1>5 DEF BuildInv, Ownership
<1>6. Ownership'
  <2> SUFFICES ASSUME NEW u \in Workers
               PROVE  /\ worker'[u].at \in Working => worker'[u].build \in worker'[u].mine
                      /\ \A b \in worker'[u].mine : attempt'[b].status # "absent"
                      /\ \A v \in Workers : v # u => worker'[v].mine \cap worker'[u].mine = {}
    BY DEF Ownership, Status
  <2>1. CASE u = w
    BY <2>1, <1>2, <1>3, <1>5
  <2>2. CASE u # w
    <3>1. /\ worker'[u].at \in Working => worker'[u].build \in worker'[u].mine
          /\ \A b \in worker'[u].mine : attempt'[b].status # "absent"
      BY <2>2, <1>2, <1>4 DEF BuildInv, Ownership
    <3>2. ASSUME NEW v \in Workers, v # u  PROVE worker'[v].mine \cap worker'[u].mine = {}
      <4>1. CASE v = w
        BY <4>1, <2>2, <1>2, <1>3, <1>5
      <4>2. CASE v # w
        BY <4>2, <2>2, <3>2, <1>2 DEF BuildInv, Ownership
      <4> QED
        BY <4>1, <4>2
    <3> QED
      BY <3>1, <3>2
  <2> QED
    BY <2>1, <2>2
<1>7. ListedHaveFailed'
  <2>1. cleaner.failed \in SUBSET Builds /\ \A d \in cleaner.directories : d[1] \in Builds
    BY DEF BuildInv, TypeOK
  <2> QED
    BY <2>1 DEF BuildInv, ListedHaveFailed, Status
<1>8. ASSUME NEW v \in Workers  PROVE Progress(worker[v])'
  <2>1. CASE v # w
    <3>1. worker[v].at \in Working => worker[v].build \notin rec.mine \cup worker[w].mine
      BY <2>1, <1>5, AtWork
    <3> QED
      BY <2>1, <3>1, <1>2, ProgressKept
  <2> QED
    BY <2>1
<1> QED
  BY <1>1, <1>6, <1>7, <1>8 DEF BuildInv

(* Files that are added do not change what is complete.                    *)
LEMMA CompleteKept ==
    ASSUME BuildInv, UNCHANGED <<attempt, manifests, impacts>>,
           stored \subseteq stored', details \subseteq details'
    PROVE  SucceededIsComplete' /\ ManifestIsLast'
BY DEF BuildInv, SucceededIsComplete, Complete, ManifestIsLast, Status

(* A step of a process that touches neither rows nor files.                *)
LEMMA QuietStep ==
    ASSUME BuildInv, NEW w \in Workers, NEW rec \in Records, worker' = [worker EXCEPT ![w] = rec],
           rec.mine \subseteq worker[w].mine, rec.at \in Working => rec.build \in rec.mine,
           Progress(rec), UNCHANGED <<rows, artifacts, cleaner>>, clock' \in Nat, faults' \in Nat
    PROVE  BuildInv'
<1>1. Becomes(w, rec) /\ worker'[w] = rec
  BY WorkerChanges DEF Becomes
<1>2. \A b \in worker[w].mine : b \in Builds /\ Status(b) # "absent"
  BY Typed DEF BuildInv, Ownership, Records
<1>3. Frame(rec.mine \cup worker[w].mine)
  BY DEF Frame, rows, artifacts
<1>4. attempt' \in [Builds -> Attempts] /\ RestTyped'
  BY Typed DEF RestTyped, rows, artifacts
<1>5. SucceededIsComplete' /\ ManifestIsLast'
  BY CompleteKept DEF rows, artifacts
<1>6. Progress(worker[w])'
  BY <1>1 DEF Progress, Status, rows, artifacts
<1>7. /\ \A b \in rec.mine : b \in worker[w].mine \/ Status(b) = "absent"
      /\ \A b \in rec.mine : attempt'[b].status # "absent"
      /\ \A b \in Builds : /\ Status(b) # "absent" => attempt'[b].status # "absent"
                           /\ Status(b) = "failed" => attempt'[b].status = "failed"
  BY <1>2 DEF rows, Status
<1>8. cleaner' = cleaner
  OBVIOUS
<1> HIDE DEF Becomes, Frame
<1> QED
  BY <1>1, <1>3, <1>4, <1>5, <1>6, <1>7, <1>8, WorkerStep

-----------------------------------------------------------------------------
LEMMA BuildsInitially == Init => BuildInv
<1> SUFFICES ASSUME Init PROVE BuildInv
  OBVIOUS
<1>1. TypeOK
  <2>1. Absent \in Attempts
    BY DEF Absent, Attempts
  <2>2. ingested \in Seq(Files)
    BY DEF Init
  <2>3. cleaner \in [at: {"idle", "publications", "builds", "deleting"},
                     published: SUBSET Builds, failed: SUBSET Builds,
                     directories: SUBSET (Builds \X {"manifests", "tables", "impacts"})]
    BY DEF Init, Resting
  <2> QED
    BY <2>1, <2>2, <2>3, IdleTyped DEF Init, TypeOK, Attempts, Records
<1>2. \A w \in Workers : worker[w] = Idle
  BY DEF Init
<1>3. Ownership
  BY <1>2, IdleTyped DEF Ownership, Working, Busy, InTable
<1>4. ListedHaveFailed
  BY DEF Init, Resting, ListedHaveFailed
<1>5. SucceededIsComplete /\ ManifestIsLast
  BY DEF Init, SucceededIsComplete, ManifestIsLast, Status, Absent
<1>6. \A w \in Workers : Progress(worker[w])
  BY <1>2, IdleTyped DEF Progress, Busy, InTable
<1> QED
  BY <1>1, <1>3, <1>4, <1>5, <1>6 DEF BuildInv

LEMMA SelectStep ==
    ASSUME BuildInv, NEW w \in Workers, NEW config \in Configs, NEW force \in Forcing,
           SelectCandidates(w, config, force)
    PROVE  BuildInv'
<1> DEFINE found == {[file |-> f, matched |-> FindSuccessful(<<f, config>>) # {}] : f \in Candidates}
           pending == {candidate \in found : ~ candidate.matched \/ force}
           rec == [Idle EXCEPT !.at = "preparing", !.config = config, !.force = force,
                               !.queue = pending]
<1>1. /\ worker' = [worker EXCEPT ![w] = rec]
      /\ UNCHANGED <<rows, artifacts, clock, cleaner, faults>>
  BY DEF SelectCandidates
<1>2. Candidates \subseteq Files
  BY Typed DEF RestTyped, Candidates
<1>3. pending \in SUBSET [file: Files, matched: BOOLEAN]
  <2> DEFINE Matched(f) == FindSuccessful(<<f, config>>) # {}
  <2>1. \A f \in Files : Matched(f) \in BOOLEAN
    OBVIOUS
  <2> HIDE DEF Matched
  <2>2. {[file |-> f, matched |-> Matched(f)] : f \in Candidates}
            \in SUBSET [file: Files, matched: BOOLEAN]
    BY <1>2, <2>1
  <2> USE DEF Matched
  <2> QED
    BY <2>2
<1> HIDE DEF pending
<1>4. rec \in Records /\ rec.at = "preparing" /\ rec.mine = {}
  BY <1>3, BoundsAssumption DEF Idle, Records, Points
<1> HIDE DEF rec
<1>5. Progress(rec) /\ rec.at \notin Working
  BY <1>4 DEF Progress, Working, Busy, InTable
<1>6. clock' \in Nat /\ faults' \in Nat
  BY <1>1, Typed DEF RestTyped
<1> QED
  BY <1>1, <1>4, <1>5, <1>6, QuietStep

LEMMA PrepareStep ==
    ASSUME BuildInv, NEW w \in Workers, NEW b \in Builds, NEW candidate \in worker[w].queue,
           PrepareCandidate(w, b, candidate)
    PROVE  BuildInv'
<1> DEFINE r == worker[w]
           new == [status |-> "running", file |-> candidate.file, config |-> r.config,
                   forced |-> r.force, started |-> clock + 1, completed |-> 0]
           rec == [r EXCEPT !.at = "building", !.build = b, !.queue = r.queue \ {candidate},
                            !.mine = r.mine \cup {b}, !.left = Tables]
<1>1. /\ Status(b) = "absent" /\ attempt' = [attempt EXCEPT ![b] = new]
      /\ worker' = [worker EXCEPT ![w] = rec] /\ clock' = clock + 1
      /\ UNCHANGED <<ingested, published, impacts, artifacts, cleaner, faults>>
  BY DEF PrepareCandidate
<1>2. r \in Records /\ attempt \in [Builds -> Attempts] /\ clock \in Nat
  BY Typed DEF RestTyped
<1>3. candidate \in [file: Files, matched: BOOLEAN]
  BY <1>2 DEF Records
<1>4. new \in Attempts /\ new.status = "running"
  BY <1>2, <1>3 DEF Attempts, Records
<1> HIDE DEF new
<1>5. /\ rec \in Records /\ rec.at = "building" /\ rec.build = b
      /\ rec.mine = r.mine \cup {b} /\ rec.left = Tables
  BY <1>2 DEF Records, Points
<1> HIDE DEF rec
<1>6. Becomes(w, rec) /\ worker'[w] = rec
  BY <1>1, <1>5, WorkerChanges DEF Becomes
<1>7. /\ attempt' \in [Builds -> Attempts]
      /\ \A c \in Builds : attempt'[c] = IF c = b THEN new ELSE attempt[c]
  BY <1>1, <1>2, <1>4
<1>8. RestTyped'
  BY <1>1, <1>2, Typed DEF RestTyped, artifacts
<1>9. Frame(rec.mine \cup r.mine)
  BY <1>1, <1>5, <1>7 DEF Frame, artifacts
<1>10. Progress(worker[w])'
  BY <1>4, <1>5, <1>6, <1>7 DEF Progress, Status, Busy, InTable
<1>11. SucceededIsComplete'
  <2>1. \A entry \in impacts : entry[1] \in Builds
    BY Typed DEF RestTyped
  <2> QED
    BY <1>1, <1>4, <1>7, <2>1 DEF BuildInv, SucceededIsComplete, Complete, Status, artifacts
<1>12. ManifestIsLast'
  BY <1>1, <1>4, <1>7, Typed DEF BuildInv, ManifestIsLast, Status, artifacts, RestTyped
<1>13. /\ \A c \in rec.mine : c \in r.mine \/ Status(c) = "absent"
       /\ \A c \in rec.mine : attempt'[c].status # "absent"
       /\ \A c \in Builds : /\ Status(c) # "absent" => attempt'[c].status # "absent"
                            /\ Status(c) = "failed" => attempt'[c].status = "failed"
  <2>1. \A c \in r.mine : c \in Builds /\ Status(c) # "absent"
    BY <1>2 DEF BuildInv, Ownership, Records
  <2> QED
    BY <1>1, <1>4, <1>5, <1>7, <2>1 DEF Status
<1>14. cleaner' = cleaner /\ rec.build \in rec.mine
  BY <1>1, <1>5
<1> HIDE DEF Becomes, Frame
<1> QED
  BY <1>5, <1>6, <1>7, <1>8, <1>9, <1>10, <1>11, <1>12, <1>13, <1>14, WorkerStep

-----------------------------------------------------------------------------
(* Steps that only move a process on.                                      *)
LEMMA MoveStep ==
    ASSUME BuildInv, NEW w \in Workers, NEW at \in {"finalization_failed", "failed"},
           worker' = [worker EXCEPT ![w].at = at],
           at = "finalization_failed" => worker[w].at \in Busy,
           UNCHANGED <<rows, artifacts, cleaner>>, clock' \in Nat, faults' \in Nat
    PROVE  BuildInv'
<1> DEFINE rec == [worker[w] EXCEPT !.at = at]
<1>1. worker[w] \in Records
  BY Typed
<1>2. rec \in Records /\ rec.at = at /\ rec.mine = worker[w].mine /\ rec.build = worker[w].build
  BY <1>1 DEF Records, Points
<1>3. worker' = [worker EXCEPT ![w] = rec]
  OBVIOUS
<1> HIDE DEF rec
<1>4. at = "finalization_failed" =>
          worker[w].build \in worker[w].mine /\ Status(worker[w].build) = "running"
  BY AtWork DEF Working, Progress
<1>5. Progress(rec)
  BY <1>2, <1>4 DEF Progress, Busy, InTable
<1>6. rec.at \in Working => rec.build \in rec.mine
  BY <1>2, <1>4 DEF Working, Busy, InTable
<1> QED
  BY <1>2, <1>3, <1>5, <1>6, QuietStep

LEMMA IdleStep ==
    ASSUME BuildInv, NEW w \in Workers, worker' = [worker EXCEPT ![w] = Idle],
           UNCHANGED <<rows, artifacts, cleaner>>, clock' \in Nat, faults' \in Nat
    PROVE  BuildInv'
<1>1. Idle.at \notin Working /\ Progress(Idle)
  BY IdleTyped DEF Working, Progress, Busy, InTable
<1> QED
  BY <1>1, IdleTyped, QuietStep

LEMMA FaultTyped == ASSUME BuildInv, Fault PROVE faults' \in Nat
BY Typed DEF RestTyped, Fault

LEMMA MovesKeep ==
    ASSUME BuildInv, NEW w \in Workers,
           \/ \E candidate \in worker[w].queue : RefuseWithoutReason(w, candidate)
           \/ FailPreparation(w) \/ FailFinalization(w) \/ EndRun(w) \/ Crash(w)
    PROVE  BuildInv'
<1>0. clock \in Nat /\ faults \in Nat
  BY Typed DEF RestTyped
<1>1. ASSUME NEW candidate \in worker[w].queue, RefuseWithoutReason(w, candidate)
      PROVE  BuildInv'
  BY <1>0, <1>1, MoveStep DEF RefuseWithoutReason
<1>2. CASE FailPreparation(w)
  BY <1>0, <1>2, MoveStep, FaultTyped DEF FailPreparation
<1>3. CASE FailFinalization(w)
  <2>1. worker[w].at \in Busy
    BY <1>3 DEF FailFinalization, Busy
  <2> QED
    BY <1>0, <1>3, <2>1, MoveStep, FaultTyped DEF FailFinalization
<1>4. CASE EndRun(w)
  BY <1>0, <1>4, IdleStep DEF EndRun
<1>5. CASE Crash(w)
  BY <1>0, <1>5, IdleStep, FaultTyped DEF Crash
<1> QED
  BY <1>1, <1>2, <1>3, <1>4, <1>5

(* A table is done: everything that is not left is staged, and before the  *)
(* commit begins that is every table.                                      *)
LEMMA EndTableBecomes ==
    ASSUME BuildInv, NEW w \in Workers, EndTable(w),
           worker[w].at \in {"table_staged", "details_written"}
    PROVE  \E rec \in Records :
               /\ worker' = [worker EXCEPT ![w] = rec]
               /\ rec.at \in {"building", "committing"}
               /\ rec.mine = worker[w].mine /\ rec.build = worker[w].build
               /\ Progress(rec)
<1> DEFINE r == worker[w]
           left == r.left \ {r.table}
           at == IF left = {} THEN "committing" ELSE "building"
           next == IF left = {} THEN Tables ELSE left
           rec == [r EXCEPT !.table = None, !.at = at, !.left = next]
<1>1. worker' = [worker EXCEPT ![w] = rec]
  BY DEF EndTable
<1>2. r \in Records /\ r.at \in InTable /\ r.at \in Working /\ r.at \in Busy
  BY Typed DEF InTable, Working, Busy
<1>3. /\ Progress(r) /\ Status(r.build) = "running"
      /\ {r.build} \X (Tables \ r.left) \subseteq staged /\ <<r.build, r.table>> \in staged
  BY <1>2, AtWork DEF Progress
<1>4. {r.build} \X (Tables \ left) \subseteq staged
  BY <1>3
<1>5. /\ left \in SUBSET Tables /\ at \in {"building", "committing"} /\ next \in SUBSET Tables
      /\ at = "building" => next = left
      /\ at = "committing" => left = {} /\ next = Tables
  BY <1>2 DEF Records
<1> HIDE DEF left, at, next
<1>6. /\ rec \in Records /\ rec.at = at /\ rec.left = next
      /\ rec.mine = r.mine /\ rec.build = r.build
  BY <1>2, <1>5 DEF Records, Points
<1> HIDE DEF rec
<1>7. Progress(rec)
  BY <1>3, <1>4, <1>5, <1>6 DEF Progress, Busy, InTable
<1> QED
  BY <1>1, <1>5, <1>6, <1>7

LEMMA NothingToRecordStep ==
    ASSUME BuildInv, NEW w \in Workers, NothingToRecord(w)
    PROVE  BuildInv'
<1>1. worker[w].at = "table_staged" /\ EndTable(w)
      /\ UNCHANGED <<rows, artifacts, clock, cleaner, faults>>
  BY DEF NothingToRecord
<1>2. PICK rec \in Records :
               /\ worker' = [worker EXCEPT ![w] = rec]
               /\ rec.at \in {"building", "committing"}
               /\ rec.mine = worker[w].mine /\ rec.build = worker[w].build
               /\ Progress(rec)
  BY <1>1, EndTableBecomes
<1>3. worker[w].build \in worker[w].mine
  BY <1>1, AtWork DEF Working, Busy, InTable
<1>4. clock' \in Nat /\ faults' \in Nat
  BY <1>1, Typed DEF RestTyped
<1> QED
  BY <1>1, <1>2, <1>3, <1>4, QuietStep

LEMMA StampStep ==
    ASSUME BuildInv, NEW w \in Workers, StampCompletion(w)
    PROVE  BuildInv'
<1> DEFINE r == worker[w]
           rec == [r EXCEPT !.at = "writing_manifest", !.stamp = clock + 1]
<1>1. /\ r.at = "committing" /\ r.left = {} /\ worker' = [worker EXCEPT ![w] = rec]
      /\ clock' = clock + 1 /\ UNCHANGED <<rows, artifacts, cleaner, faults>>
  BY DEF StampCompletion
<1>2. r \in Records /\ clock + 1 \in Nat /\ clock' \in Nat /\ faults' \in Nat
  BY <1>1, Typed DEF RestTyped
<1>3. r.build \in r.mine /\ Status(r.build) = "running" /\ {r.build} \X Tables \subseteq stored
  BY <1>1, AtWork DEF Working, Busy, Progress
<1>4. /\ rec \in Records /\ rec.at = "writing_manifest"
      /\ rec.mine = r.mine /\ rec.build = r.build
  BY <1>2 DEF Records, Points
<1> HIDE DEF rec
<1>5. Progress(rec)
  BY <1>3, <1>4 DEF Progress, Busy, InTable
<1> QED
  BY <1>1, <1>2, <1>3, <1>4, <1>5, QuietStep

-----------------------------------------------------------------------------
(* A step at which a process adds files of its build.                      *)
LEMMA FileStep ==
    ASSUME BuildInv, NEW w \in Workers, NEW rec \in Records, worker' = [worker EXCEPT ![w] = rec],
           rec.mine \subseteq worker[w].mine, rec.at \in Working => rec.build \in rec.mine,
           UNCHANGED <<attempt, cleaner>>, RestTyped', manifests \subseteq manifests',
           Frame(worker[w].mine), Progress(worker[w])', SucceededIsComplete', ManifestIsLast'
    PROVE  BuildInv'
<1>1. Becomes(w, rec) /\ worker'[w] = rec
  BY WorkerChanges DEF Becomes
<1>2. \A b \in worker[w].mine : b \in Builds /\ Status(b) # "absent"
  BY Typed DEF BuildInv, Ownership, Records
<1>3. rec.mine \cup worker[w].mine = worker[w].mine
  OBVIOUS
<1>4. attempt' \in [Builds -> Attempts]
  BY Typed
<1>5. /\ \A b \in rec.mine : b \in worker[w].mine \/ Status(b) = "absent"
      /\ \A b \in rec.mine : attempt'[b].status # "absent"
      /\ \A b \in Builds : /\ Status(b) # "absent" => attempt'[b].status # "absent"
                           /\ Status(b) = "failed" => attempt'[b].status = "failed"
  BY <1>2 DEF Status
<1>6. cleaner' = cleaner
  OBVIOUS
<1> HIDE DEF Becomes, Frame
<1> QED
  BY <1>1, <1>3, <1>4, <1>5, <1>6, WorkerStep

LEMMA StageStep ==
    ASSUME BuildInv, NEW w \in Workers, NEW t \in Tables, StageTable(w, t)
    PROVE  BuildInv'
<1> DEFINE r == worker[w]
           rec == [r EXCEPT !.at = "table_staged", !.table = t]
<1>1. /\ r.at = "building" /\ staged' = staged \cup {<<r.build, t>>}
      /\ worker' = [worker EXCEPT ![w].at = "table_staged", ![w].table = t]
      /\ UNCHANGED <<rows, stored, details, manifests, clock, cleaner, faults>>
  BY DEF StageTable
<1>2. r \in Records /\ RestTyped
  BY Typed
<1>3. worker' = [worker EXCEPT ![w] = rec]
  BY <1>1, <1>2, Typed DEF Records
<1>4. /\ rec \in Records /\ rec.at = "table_staged" /\ rec.table = t
      /\ rec.mine = r.mine /\ rec.build = r.build /\ rec.left = r.left
  BY <1>2 DEF Records, Points
<1>5. /\ r.build \in Builds /\ r.build \in r.mine /\ Status(r.build) = "running"
      /\ {r.build} \X (Tables \ r.left) \subseteq staged
  BY <1>1, AtWork DEF Working, Busy, InTable, Progress
<1> HIDE DEF rec
<1>6. worker'[w] = rec
  BY <1>3, Typed
<1>7. Progress(worker[w])'
  <2>1. /\ {rec.build} \X (Tables \ rec.left) \subseteq staged'
        /\ <<rec.build, rec.table>> \in staged' /\ attempt'[rec.build].status = "running"
    BY <1>1, <1>4, <1>5 DEF Status, rows
  <2> QED
    BY <1>4, <1>6, <2>1 DEF Progress, Busy, InTable, Status
<1>8. RestTyped'
  BY <1>1, <1>2, <1>5 DEF RestTyped, rows
<1>9. SucceededIsComplete' /\ ManifestIsLast'
  BY <1>1, CompleteKept DEF rows
<1>10. Frame(r.mine)
  BY <1>1 DEF Frame, rows
<1> QED
  BY <1>1, <1>3, <1>4, <1>5, <1>7, <1>8, <1>9, <1>10, FileStep DEF rows

LEMMA DetailsStep ==
    ASSUME BuildInv, NEW w \in Workers, WriteDetails(w)
    PROVE  BuildInv'
<1> DEFINE r == worker[w]
           rec == [r EXCEPT !.at = "details_written"]
<1>1. /\ r.at = "table_staged" /\ details' = details \cup {<<r.build, r.table>>}
      /\ worker' = [worker EXCEPT ![w] = rec]
      /\ UNCHANGED <<rows, staged, stored, manifests, clock, cleaner, faults>>
  BY DEF WriteDetails
<1>2. r \in Records /\ RestTyped
  BY Typed
<1>3. /\ rec \in Records /\ rec.at = "details_written" /\ rec.table = r.table
      /\ rec.mine = r.mine /\ rec.build = r.build /\ rec.left = r.left
  BY <1>2 DEF Records, Points
<1>4. /\ r.build \in Builds /\ r.build \in r.mine /\ Status(r.build) = "running"
      /\ {r.build} \X (Tables \ r.left) \subseteq staged /\ <<r.build, r.table>> \in staged
  BY <1>1, AtWork DEF Working, Busy, InTable, Progress
<1> HIDE DEF rec
<1>5. worker'[w] = rec
  BY <1>1, Typed
<1>6. Progress(worker[w])'
  BY <1>1, <1>3, <1>4, <1>5 DEF Progress, Busy, InTable, Status, rows
<1>7. RestTyped'
  BY <1>1, <1>2, <1>4 DEF RestTyped, rows
<1>8. SucceededIsComplete' /\ ManifestIsLast'
  BY <1>1, CompleteKept DEF rows
<1>9. Frame(r.mine)
  BY <1>1 DEF Frame, rows
<1> QED
  BY <1>1, <1>3, <1>4, <1>6, <1>7, <1>8, <1>9, FileStep DEF rows

(* The impact row names details that were written before.                  *)
LEMMA ImpactsStep ==
    ASSUME BuildInv, NEW w \in Workers, RecordImpacts(w)
    PROVE  BuildInv'
<1> DEFINE r == worker[w]
<1>1. /\ r.at = "details_written" /\ impacts' = impacts \cup {<<r.build, r.table>>}
      /\ EndTable(w)
      /\ UNCHANGED <<ingested, attempt, published, artifacts, clock, cleaner, faults>>
  BY DEF RecordImpacts
<1>2. PICK rec \in Records :
               /\ worker' = [worker EXCEPT ![w] = rec]
               /\ rec.at \in {"building", "committing"}
               /\ rec.mine = worker[w].mine /\ rec.build = worker[w].build
               /\ Progress(rec)
  BY <1>1, EndTableBecomes
<1>3. /\ r.build \in Builds /\ r.build \in r.mine /\ <<r.build, r.table>> \in details
  BY <1>1, AtWork DEF Working, Busy, InTable, Progress
<1>4. worker'[w] = rec
  BY <1>2, Typed
<1>5. Progress(worker[w])'
  BY <1>1, <1>2, <1>4 DEF Progress, Status, artifacts
<1>6. RestTyped'
  BY <1>1, <1>3, Typed DEF RestTyped, artifacts
<1>7. SucceededIsComplete' /\ ManifestIsLast'
  BY <1>1, <1>3
     DEF BuildInv, SucceededIsComplete, Complete, ManifestIsLast, Status, artifacts
<1>8. Frame(r.mine)
  BY <1>1 DEF Frame, artifacts
<1> QED
  BY <1>1, <1>2, <1>3, <1>5, <1>6, <1>7, <1>8, FileStep DEF artifacts

LEMMA CommitStep ==
    ASSUME BuildInv, NEW w \in Workers, NEW t \in Tables, CommitFile(w, t)
    PROVE  BuildInv'
<1> DEFINE r == worker[w]
           rec == [r EXCEPT !.left = r.left \ {t}]
<1>1. /\ r.at = "committing" /\ stored' = stored \cup {<<r.build, t>>}
      /\ worker' = [worker EXCEPT ![w] = rec]
      /\ UNCHANGED <<rows, staged, details, manifests, clock, cleaner, faults>>
  BY DEF CommitFile
<1>2. r \in Records /\ RestTyped
  BY Typed
<1>3. /\ rec \in Records /\ rec.at = "committing" /\ rec.left = r.left \ {t}
      /\ rec.mine = r.mine /\ rec.build = r.build
  BY <1>1, <1>2 DEF Records
<1>4. /\ r.build \in Builds /\ r.build \in r.mine /\ Status(r.build) = "running"
      /\ {r.build} \X r.left \subseteq staged
      /\ {r.build} \X (Tables \ r.left) \subseteq stored
  BY <1>1, AtWork DEF Working, Busy, Progress
<1> HIDE DEF rec
<1>5. worker'[w] = rec
  BY <1>1, Typed
<1>6. Progress(worker[w])'
  BY <1>1, <1>3, <1>4, <1>5 DEF Progress, Busy, InTable, Status, rows
<1>7. RestTyped'
  BY <1>1, <1>2, <1>4 DEF RestTyped, rows
<1>8. SucceededIsComplete' /\ ManifestIsLast'
  BY <1>1, CompleteKept DEF rows
<1>9. Frame(r.mine)
  BY <1>1 DEF Frame, rows
<1> QED
  BY <1>1, <1>3, <1>4, <1>6, <1>7, <1>8, <1>9, FileStep DEF rows

(* The manifest is written when every table is stored.                     *)
LEMMA ManifestStep ==
    ASSUME BuildInv, NEW w \in Workers, WriteManifest(w)
    PROVE  BuildInv'
<1> DEFINE r == worker[w]
           rec == [r EXCEPT !.at = "deciding"]
<1>1. /\ r.at = "writing_manifest" /\ manifests' = manifests \cup {r.build}
      /\ worker' = [worker EXCEPT ![w] = rec]
      /\ UNCHANGED <<rows, staged, stored, details, clock, cleaner, faults>>
  BY DEF WriteManifest
<1>2. r \in Records /\ RestTyped
  BY Typed
<1>3. rec \in Records /\ rec.at = "deciding" /\ rec.mine = r.mine /\ rec.build = r.build
  BY <1>2 DEF Records, Points
<1>4. /\ r.build \in Builds /\ r.build \in r.mine /\ Status(r.build) = "running"
      /\ {r.build} \X Tables \subseteq stored
  BY <1>1, AtWork DEF Working, Busy, Progress
<1> HIDE DEF rec
<1>5. worker'[w] = rec
  BY <1>1, Typed
<1>6. Progress(worker[w])'
  BY <1>1, <1>3, <1>4, <1>5 DEF Progress, Busy, InTable, Status, rows
<1>7. RestTyped'
  BY <1>1, <1>2, <1>4 DEF RestTyped, rows
<1>8. SucceededIsComplete' /\ ManifestIsLast'
  BY <1>1, <1>4 DEF BuildInv, SucceededIsComplete, Complete, ManifestIsLast, Status, rows
<1>9. Frame(r.mine)
  BY <1>1 DEF Frame, rows
<1> QED
  BY <1>1, <1>3, <1>4, <1>6, <1>7, <1>8, <1>9, FileStep DEF rows

(* The cleanup of a run concerns the staging of its own builds.            *)
LEMMA CleanStep ==
    ASSUME BuildInv, NEW w \in Workers, CleanStaging(w)
    PROVE  BuildInv'
<1> DEFINE r == worker[w]
           goOn == [r EXCEPT !.at = "preparing", !.build = None, !.stamp = 0]
           rec == IF r.queue = {} THEN Idle ELSE goOn
<1>1. /\ UNCHANGED <<rows, stored, details, manifests, clock, cleaner, faults>>
      /\ worker' = [worker EXCEPT ![w] = rec]
  BY DEF CleanStaging, NextCandidate
<1>2. PICK kept \in SUBSET {file \in staged : file[1] \in r.mine} :
          staged' = {file \in staged : file[1] \notin r.mine} \cup kept
  BY DEF CleanStaging
<1>3. r \in Records /\ RestTyped
  BY Typed
<1>4. goOn \in Records /\ goOn.at = "preparing" /\ goOn.mine = r.mine
  BY <1>3 DEF Records, Points
<1> HIDE DEF goOn
<1>5. rec \in Records /\ rec.at \in {"idle", "preparing"} /\ rec.mine \subseteq r.mine
  BY <1>4, IdleTyped
<1> HIDE DEF rec
<1>6. worker'[w] = rec
  BY <1>1, Typed
<1>7. Progress(worker[w])' /\ rec.at \notin Working
  BY <1>5, <1>6 DEF Progress, Working, Busy, InTable
<1>8. RestTyped'
  BY <1>1, <1>2, <1>3 DEF RestTyped, rows
<1>9. SucceededIsComplete' /\ ManifestIsLast'
  BY <1>1, CompleteKept DEF rows
<1>10. Frame(r.mine)
  BY <1>1, <1>2 DEF Frame, rows
<1> QED
  BY <1>1, <1>5, <1>7, <1>8, <1>9, <1>10, FileStep DEF rows

-----------------------------------------------------------------------------
(* A step at which a process ends the attempt on its build; it may remove  *)
(* details of an attempt that it marks failed.                             *)
LEMMA OutcomeStep ==
    ASSUME BuildInv, NEW w \in Workers, NEW rec \in Records, worker' = [worker EXCEPT ![w] = rec],
           worker[w].at \in Working, rec.at \notin Busy,
           rec.mine = worker[w].mine, rec.build = worker[w].build,
           Status(worker[w].build) = "running",
           NEW new \in Attempts, attempt' = [attempt EXCEPT ![worker[w].build] = new],
           new.status \in {"succeeded", "failed"},
           rec.at = "finalization_failed" => new.status = "succeeded",
           new.status = "succeeded" => Complete(worker[w].build) /\ details' = details,
           UNCHANGED <<ingested, published, impacts, staged, stored, manifests, cleaner>>,
           details' \subseteq details,
           \A d \in details : d[1] # worker[w].build => d \in details',
           clock' \in Nat, faults' \in Nat
    PROVE  BuildInv'
<1> DEFINE b == worker[w].build
<1>1. b \in Builds /\ b \in worker[w].mine
  BY AtWork
<1>2. Becomes(w, rec) /\ worker'[w] = rec
  BY WorkerChanges DEF Becomes
<1>3. /\ attempt' \in [Builds -> Attempts]
      /\ \A c \in Builds : attempt'[c] = IF c = b THEN new ELSE attempt[c]
  BY <1>1, Typed
<1>4. RestTyped'
  BY Typed DEF RestTyped
<1>5. \A c \in worker[w].mine : c \in Builds /\ Status(c) # "absent"
  BY Typed DEF BuildInv, Ownership, Records
<1>6. /\ \A c \in rec.mine : c \in worker[w].mine \/ Status(c) = "absent"
      /\ \A c \in rec.mine : attempt'[c].status # "absent"
      /\ \A c \in Builds : /\ Status(c) # "absent" => attempt'[c].status # "absent"
                           /\ Status(c) = "failed" => attempt'[c].status = "failed"
  BY <1>3, <1>5 DEF Status
<1>7. Frame(rec.mine \cup worker[w].mine)
  BY <1>1, <1>3 DEF Frame
<1>8. Progress(worker[w])'
  <2>1. attempt'[rec.build].status = new.status /\ rec.at \notin InTable
        /\ rec.at \notin {"table_staged", "details_written", "committing",
                          "writing_manifest", "deciding"}
    BY <1>1, <1>3 DEF Busy, InTable
  <2> QED
    BY <1>2, <2>1 DEF Progress, Status
<1>9. SucceededIsComplete'
  <2>1. ASSUME NEW c \in Builds, attempt'[c].status = "succeeded"  PROVE Complete(c)'
    BY <2>1, <1>3 DEF BuildInv, SucceededIsComplete, Complete, Status
  <2>2. ASSUME NEW entry \in impacts', attempt'[entry[1]].status # "failed"
        PROVE  entry \in details'
    <3>1. entry \in impacts /\ entry[1] \in Builds
      BY <2>2, Typed DEF RestTyped
    <3>2. CASE entry[1] = b
      BY <2>2, <3>1, <3>2, <1>3 DEF BuildInv, SucceededIsComplete, Status
    <3>3. CASE entry[1] # b
      BY <2>2, <3>1, <3>3, <1>3 DEF BuildInv, SucceededIsComplete, Status
    <3> QED
      BY <3>2, <3>3
  <2> QED
    BY <2>1, <2>2 DEF SucceededIsComplete, Status
<1>10. ManifestIsLast'
  BY <1>3, Typed DEF BuildInv, ManifestIsLast, Complete, Status, RestTyped
<1>11. cleaner' = cleaner /\ (rec.at \in Working => rec.build \in rec.mine)
  BY <1>1
<1> HIDE DEF Becomes, Frame
<1> QED
  BY <1>2, <1>3, <1>4, <1>6, <1>7, <1>8, <1>9, <1>10, <1>11, WorkerStep

(* The decision, also one whose acknowledgement is lost.                   *)
LEMMA DecideStep ==
    ASSUME BuildInv, NEW w \in Workers, Decide(w) \/ LoseAcknowledgement(w)
    PROVE  BuildInv'
<1> DEFINE r == worker[w]
           new == [attempt[r.build] EXCEPT !.status = "succeeded", !.completed = r.stamp]
<1>1. /\ r.at = "deciding" /\ Status(r.build) = "running" /\ MarkSucceeded(r.build, r.stamp)
      /\ UNCHANGED <<ingested, published, impacts, artifacts, clock, cleaner>>
  BY DEF Decide, LoseAcknowledgement
<1>2. PICK at \in {"cleaning", "finalization_failed"} : worker' = [worker EXCEPT ![w].at = at]
  BY DEF Decide, LoseAcknowledgement
<1>3. clock' \in Nat /\ faults' \in Nat
  BY <1>1, Typed, FaultTyped DEF RestTyped, Decide, LoseAcknowledgement
<1>4. r \in Records /\ r.build \in Builds /\ r.at \in Working /\ Complete(r.build)
  BY <1>1, AtWork, Typed DEF Working, Busy, Progress, Complete
<1>5. new \in Attempts /\ new.status = "succeeded"
  <2>1. attempt[r.build] \in Attempts
    BY <1>4, Typed
  <2>2. r.stamp \in Nat
    BY <1>4 DEF Records
  <2> QED
    BY <2>1, <2>2 DEF Attempts
<1>6. attempt' = [attempt EXCEPT ![r.build] = new]
  BY <1>1, <1>4, Typed DEF MarkSucceeded, Attempts
<1> DEFINE rec == [r EXCEPT !.at = at]
<1>7. /\ rec \in Records /\ rec.at = at /\ rec.mine = r.mine /\ rec.build = r.build
      /\ rec.at \notin Busy
  BY <1>4 DEF Records, Points, Busy, InTable
<1>8. worker' = [worker EXCEPT ![w] = rec]
  BY <1>2
<1> HIDE DEF rec, new
<1>9. /\ UNCHANGED <<ingested, published, impacts, staged, stored, manifests, cleaner>>
      /\ details' = details /\ details' \subseteq details
      /\ \A d \in details : d[1] # r.build => d \in details'
  BY <1>1 DEF artifacts
<1> QED
  BY <1>1, <1>3, <1>4, <1>5, <1>6, <1>7, <1>8, <1>9, OutcomeStep

LEMMA MarkFailedIs ==
    ASSUME BuildInv, NEW b \in Builds, MarkFailed(b)
    PROVE  \E new \in Attempts : new.status = "failed" /\ attempt' = [attempt EXCEPT ![b] = new]
<1> DEFINE new == [attempt[b] EXCEPT !.status = "failed", !.completed = clock + 1]
<1>1. clock + 1 \in Nat /\ attempt \in [Builds -> Attempts]
  BY Typed DEF RestTyped
<1>2. new \in Attempts /\ new.status = "failed"
  BY <1>1 DEF Attempts
<1>3. attempt' = [attempt EXCEPT ![b] = new]
  BY <1>1 DEF MarkFailed, Attempts
<1> HIDE DEF new
<1> QED
  BY <1>2, <1>3

LEMMA FailTableStep ==
    ASSUME BuildInv, NEW w \in Workers, FailTable(w)
    PROVE  BuildInv'
<1> DEFINE r == worker[w]
           rec == [r EXCEPT !.at = "failed"]
<1>1. /\ r.at \in InTable /\ details' = details \ {<<r.build, r.table>>}
      /\ MarkFailed(r.build) /\ clock' = clock + 1
      /\ worker' = [worker EXCEPT ![w] = rec] /\ Fault
      /\ UNCHANGED <<ingested, published, impacts, staged, stored, manifests, cleaner>>
  BY DEF FailTable, InTable
<1>2. r \in Records /\ clock' \in Nat /\ faults' \in Nat
  BY <1>1, Typed, FaultTyped DEF RestTyped
<1>3. r.at \in Working /\ r.build \in Builds /\ Status(r.build) = "running"
  BY <1>1, AtWork DEF Working, Busy, Progress
<1>4. PICK new \in Attempts :
          new.status = "failed" /\ attempt' = [attempt EXCEPT ![r.build] = new]
  BY <1>1, <1>3, MarkFailedIs
<1>5. /\ rec \in Records /\ rec.at = "failed" /\ rec.mine = r.mine /\ rec.build = r.build
      /\ rec.at \notin Busy
  BY <1>2 DEF Records, Points, Busy, InTable
<1> HIDE DEF rec
<1>6. details' \subseteq details /\ \A d \in details : d[1] # r.build => d \in details'
  BY <1>1
<1> QED
  BY <1>1, <1>2, <1>3, <1>4, <1>5, <1>6, OutcomeStep

LEMMA RecordFailureStep ==
    ASSUME BuildInv, NEW w \in Workers, RecordFinalizationFailure(w)
    PROVE  BuildInv'
<1> DEFINE r == worker[w]
           rec == [r EXCEPT !.at = "failed"]
<1>1. /\ r.at = "finalization_failed" /\ worker' = [worker EXCEPT ![w] = rec]
      /\ UNCHANGED <<ingested, published, impacts, artifacts, cleaner, faults>>
  BY DEF RecordFinalizationFailure
<1>2. r \in Records /\ clock \in Nat /\ clock + 1 \in Nat /\ faults' \in Nat
  BY <1>1, Typed DEF RestTyped
<1>3. CASE Status(r.build) # "running"
  <2>1. UNCHANGED <<attempt, clock>>
    BY <1>3 DEF RecordFinalizationFailure
  <2> QED
    BY <1>1, <1>2, <2>1, MoveStep DEF rows
<1>4. CASE Status(r.build) = "running"
  <2>1. MarkFailed(r.build) /\ clock' = clock + 1
    BY <1>4 DEF RecordFinalizationFailure
  <2>2. r.at \in Working /\ r.build \in Builds
    BY <1>1, AtWork DEF Working
  <2>3. PICK new \in Attempts :
            new.status = "failed" /\ attempt' = [attempt EXCEPT ![r.build] = new]
    BY <2>1, <2>2, MarkFailedIs
  <2>4. /\ rec \in Records /\ rec.at = "failed" /\ rec.mine = r.mine /\ rec.build = r.build
        /\ rec.at \notin Busy
    BY <1>2 DEF Records, Points, Busy, InTable
  <2> HIDE DEF rec
  <2>5. /\ UNCHANGED <<ingested, published, impacts, staged, stored, manifests, cleaner>>
        /\ details' \subseteq details /\ \A d \in details : d[1] # r.build => d \in details'
    BY <1>1 DEF artifacts
  <2> QED
    BY <1>1, <1>2, <1>4, <2>1, <2>2, <2>3, <2>4, <2>5, OutcomeStep
<1> QED
  BY <1>3, <1>4

-----------------------------------------------------------------------------
(* Ingestions and publications concern no build at work.                   *)
LEMMA OutsideStep ==
    ASSUME BuildInv, (\E f \in Files : Ingest(f)) \/ (\E b \in Builds : Publish(b))
    PROVE  BuildInv'
<1>1. UNCHANGED <<attempt, impacts, artifacts, clock, worker, cleaner, faults>>
  BY DEF Ingest, Publish
<1>2. ingested' \in Seq(Files) /\ published' \in SUBSET Builds
  <2>1. ASSUME NEW f \in Files, Ingest(f)
        PROVE  ingested' \in Seq(Files) /\ published' \in SUBSET Builds
    <3>1. ingested \in Seq(Files) /\ ingested' = Append(ingested, f) /\ published' = published
      BY <2>1, Typed DEF RestTyped, Ingest
    <3> QED
      BY <3>1, Typed DEF RestTyped
  <2>2. ASSUME NEW b \in Builds, Publish(b)
        PROVE  ingested' \in Seq(Files) /\ published' \in SUBSET Builds
    BY <2>2, Typed DEF RestTyped, Publish
  <2> QED
    BY <2>1, <2>2
<1>3. TypeOK'
  BY <1>1, <1>2 DEF BuildInv, TypeOK, artifacts
<1>4. Ownership' /\ ListedHaveFailed'
  BY <1>1 DEF BuildInv, Ownership, ListedHaveFailed, Status
<1>5. SucceededIsComplete' /\ ManifestIsLast'
  BY <1>1, CompleteKept DEF artifacts
<1>6. Frame({})
  BY <1>1 DEF Frame, artifacts
<1>7. \A w \in Workers : Progress(worker[w])'
  BY <1>1, <1>6, ProgressKept
<1> QED
  BY <1>3, <1>4, <1>5, <1>7 DEF BuildInv

Cleaners == [at: {"idle", "publications", "builds", "deleting"},
             published: SUBSET Builds, failed: SUBSET Builds,
             directories: SUBSET (Builds \X {"manifests", "tables", "impacts"})]

(* Reconciliation takes artifacts from failed builds only, and no process  *)
(* works on one of them.                                                   *)
LEMMA CleanerChanges ==
    ASSUME BuildInv, UNCHANGED <<ingested, attempt, published, impacts, staged, clock, worker>>,
           cleaner' \in Cleaners, faults' \in Nat,
           \A b \in cleaner'.failed : Status(b) = "failed",
           \A d \in cleaner'.directories : Status(d[1]) = "failed",
           stored' \subseteq stored, details' \subseteq details, manifests' \subseteq manifests,
           Frame({b \in Builds : Status(b) = "failed"})
    PROVE  BuildInv'
<1>1. TypeOK'
  BY DEF BuildInv, TypeOK, Cleaners
<1>2. Ownership' /\ ListedHaveFailed'
  BY DEF BuildInv, Ownership, ListedHaveFailed, Status
<1>3. SucceededIsComplete'
  <2>1. ASSUME NEW b \in Builds, Status(b) = "succeeded"  PROVE Complete(b)'
    BY <2>1 DEF BuildInv, SucceededIsComplete, Complete, Frame
  <2>2. ASSUME NEW entry \in impacts, Status(entry[1]) # "failed"  PROVE entry \in details'
    <3>1. PICK b \in Builds, t \in Tables : entry = <<b, t>>
      BY Typed DEF RestTyped
    <3> QED
      BY <2>2, <3>1 DEF BuildInv, SucceededIsComplete, Frame
  <2> QED
    BY <2>1, <2>2 DEF SucceededIsComplete, Status
<1>4. ManifestIsLast'
  <2>1. ASSUME NEW b \in manifests', Status(b) # "failed"
        PROVE  {b} \X Tables \subseteq stored'
    <3>1. b \in manifests /\ b \in Builds
      BY Typed DEF RestTyped
    <3> QED
      BY <2>1, <3>1 DEF BuildInv, ManifestIsLast, Frame
  <2> QED
    BY <2>1 DEF ManifestIsLast, Status
<1>5. ASSUME NEW w \in Workers  PROVE Progress(worker[w])'
  <2>1. worker[w].at \in Working => worker[w].build \notin {b \in Builds : Status(b) = "failed"}
    BY AtWork
  <2>2. worker'[w] = worker[w]
    OBVIOUS
  <2> HIDE DEF Frame, Progress
  <2> QED
    BY <2>1, <2>2, ProgressKept
<1> QED
  BY <1>1, <1>2, <1>3, <1>4, <1>5 DEF BuildInv

LEMMA CleanerKeeps == ASSUME BuildInv, CleanerStep PROVE BuildInv'
<1>1. /\ cleaner \in Cleaners /\ RestTyped /\ faults \in Nat
      /\ \A b \in cleaner.failed : Status(b) = "failed"
      /\ \A d \in cleaner.directories : Status(d[1]) = "failed"
  BY Typed DEF BuildInv, TypeOK, Cleaners, ListedHaveFailed, RestTyped
<1>2. ASSUME UNCHANGED <<rows, artifacts, clock, worker>>, faults' \in Nat,
             cleaner' \in Cleaners,
             \A b \in cleaner'.failed : Status(b) = "failed",
             \A d \in cleaner'.directories : Status(d[1]) = "failed"
      PROVE  BuildInv'
  BY <1>2, CleanerChanges DEF rows, artifacts, Frame
<1>3. CASE ListPublications
  <2>1. /\ cleaner' \in Cleaners
        /\ cleaner'.failed = cleaner.failed /\ cleaner'.directories = cleaner.directories
    BY <1>1, <1>3 DEF ListPublications, Cleaners, RestTyped
  <2> QED
    BY <1>1, <1>2, <1>3, <2>1 DEF ListPublications
<1>4. ASSUME NEW old \in SUBSET Builds, ListBuilds(old)  PROVE BuildInv'
  <2> DEFINE failed == {b \in old \ cleaner.published : Status(b) = "failed"}
  <2>1. /\ cleaner' = [cleaner EXCEPT !.at = "builds", !.failed = failed]
        /\ UNCHANGED <<rows, artifacts, clock, worker, faults>>
    BY <1>4 DEF ListBuilds
  <2>2. failed \in SUBSET Builds /\ \A b \in failed : Status(b) = "failed"
    OBVIOUS
  <2> HIDE DEF failed
  <2>3. /\ cleaner' \in Cleaners
        /\ cleaner'.failed = failed /\ cleaner'.directories = cleaner.directories
    BY <1>1, <2>1, <2>2 DEF Cleaners
  <2> QED
    BY <1>1, <1>2, <2>1, <2>2, <2>3
<1>5. CASE ListDirectories
  <2> DEFINE listed == DirectoriesOf(cleaner.failed)
  <2>1. /\ cleaner' = [cleaner EXCEPT !.at = "deleting", !.directories = listed]
        /\ UNCHANGED <<rows, artifacts, clock, worker, faults>>
    BY <1>5 DEF ListDirectories
  <2>2. /\ listed \in SUBSET (Builds \X {"manifests", "tables", "impacts"})
        /\ \A d \in listed : d[1] \in cleaner.failed
    BY <1>1 DEF DirectoriesOf, Cleaners
  <2> HIDE DEF listed
  <2>3. /\ cleaner' \in Cleaners
        /\ cleaner'.failed = cleaner.failed /\ cleaner'.directories = listed
    BY <1>1, <2>1, <2>2 DEF Cleaners
  <2> QED
    BY <1>1, <1>2, <2>1, <2>2, <2>3
<1>6. CASE EndCleaning
  <2>1. cleaner' \in Cleaners /\ cleaner'.failed = {} /\ cleaner'.directories = {}
    BY <1>6 DEF EndCleaning, Resting, Cleaners
  <2> QED
    BY <1>1, <1>2, <1>6, <2>1 DEF EndCleaning
<1>7. ASSUME NEW b \in Builds, NEW root \in {"manifests", "tables", "impacts"},
             DeleteDirectory(b, root) \/ LeaveDirectory(b, root)
      PROVE  BuildInv'
  <2> DEFINE rest == cleaner.directories \ {<<b, root>>}
  <2>1. /\ <<b, root>> \in cleaner.directories
        /\ cleaner' = [cleaner EXCEPT !.directories = rest]
        /\ UNCHANGED <<ingested, attempt, published, impacts, staged, clock, worker>>
    BY <1>7 DEF DeleteDirectory, LeaveDirectory, rows, artifacts
  <2>2. /\ cleaner' \in Cleaners
        /\ cleaner'.failed = cleaner.failed /\ cleaner'.directories = rest
    BY <1>1, <2>1 DEF Cleaners
  <2>3. Status(b) = "failed"
    BY <1>1, <2>1
  <2>4. faults' \in Nat
    BY <1>1, <1>7 DEF DeleteDirectory, LeaveDirectory
  <2>5. /\ stored' \subseteq stored /\ details' \subseteq details /\ manifests' \subseteq manifests
        /\ \A file \in stored : file[1] # b => file \in stored'
        /\ \A file \in details : file[1] # b => file \in details'
        /\ \A c \in manifests : c # b => c \in manifests'
    BY <1>7 DEF DeleteDirectory, LeaveDirectory, Without, artifacts
  <2>6. Frame({c \in Builds : Status(c) = "failed"})
    BY <2>1, <2>3, <2>5 DEF Frame
  <2> HIDE DEF Frame
  <2> QED
    BY <1>1, <2>1, <2>2, <2>4, <2>5, <2>6, CleanerChanges
<1> QED
  BY <1>3, <1>4, <1>5, <1>6, <1>7 DEF CleanerStep

-----------------------------------------------------------------------------
LEMMA BuildStepKeeps ==
    ASSUME BuildInv, NEW w \in Workers, BuildStep(w) \/ FailureStep(w) \/ Select(w)
    PROVE  BuildInv'
<1>1. CASE BuildStep(w)
  BY <1>1, MovesKeep, PrepareStep, StageStep, DetailsStep, ImpactsStep, NothingToRecordStep,
     CommitStep, StampStep, ManifestStep, DecideStep, CleanStep, RecordFailureStep
  DEF BuildStep
<1>2. CASE FailureStep(w)
  BY <1>2, MovesKeep, FailTableStep, DecideStep DEF FailureStep
<1>3. CASE Select(w)
  BY <1>3, SelectStep DEF Select
<1> QED
  BY <1>1, <1>2, <1>3

LEMMA BuildInvStep == BuildInv /\ [Next]_vars => BuildInv'
<1> SUFFICES ASSUME BuildInv, [Next]_vars PROVE BuildInv'
  OBVIOUS
<1>1. CASE (\E f \in Files : Ingest(f)) \/ (\E b \in Builds : Publish(b))
  BY <1>1, OutsideStep
<1>2. ASSUME NEW w \in Workers, Select(w) \/ BuildStep(w) \/ FailureStep(w)
      PROVE  BuildInv'
  BY <1>2, BuildStepKeeps
<1>3. CASE CleanerStep
  BY <1>3, CleanerKeeps
<1>4. CASE UNCHANGED vars
  <2>1. UNCHANGED <<ingested, attempt, published, impacts, staged, stored, details, manifests,
                    clock, worker, cleaner, faults>>
    BY <1>4 DEF vars, rows, artifacts
  <2> QED
    BY <2>1 DEF BuildInv, TypeOK, Ownership, ListedHaveFailed, SucceededIsComplete, Complete,
                ManifestIsLast, Progress, Status
<1> QED
  BY <1>1, <1>2, <1>3, <1>4 DEF Next

(* The inductive invariant holds of every behaviour.                       *)
LEMMA BuildsCorrect == Spec => []BuildInv
<1>1. BuildInv /\ [Next]_vars => BuildInv'
  BY BuildInvStep
<1> QED
  BY BuildsInitially, <1>1, PTL DEF Spec

(* A succeeded attempt has its manifest and every table, an impact row its *)
(* details, a manifest its tables, and a build in commit what it has       *)
(* staged, whichever runs fail, crash or clean up next to it.              *)
THEOREM BuildsAreConsistentCorrect == Spec => []BuildsAreConsistent
<1>1. BuildInv => BuildsAreConsistent
  BY DEF BuildInv, BuildsAreConsistent, StagingAwaitsCommit, Progress
<1> QED
  BY <1>1, BuildsCorrect, PTL

-----------------------------------------------------------------------------
(* Reconciliation deletes only what belongs to a build that has failed by  *)
(* the moment of the deletion.                                             *)
LEMMA DeletionStep ==
    ASSUME BuildInv, [Next]_vars, NEW b \in Builds,
           cleaner.at = "deleting", cleaner' # cleaner, Status(b) # "failed"
    PROVE  /\ b \in manifests => b \in manifests'
           /\ \A t \in Tables : <<b, t>> \in stored => <<b, t>> \in stored'
<1>1. CleanerStep
  BY DEF Next, vars, Ingest, Publish, Select, SelectCandidates, BuildStep, FailureStep,
         RefuseWithoutReason, PrepareCandidate, StageTable, WriteDetails, RecordImpacts,
         NothingToRecord, CommitFile, StampCompletion, WriteManifest, Decide, CleanStaging,
         RecordFinalizationFailure, EndRun, FailPreparation, FailTable, FailFinalization,
         LoseAcknowledgement, Crash
<1>2. CASE EndCleaning
  BY <1>2 DEF EndCleaning, artifacts
<1>3. ASSUME NEW c \in Builds, NEW root \in {"manifests", "tables", "impacts"},
             DeleteDirectory(c, root)
      PROVE  /\ b \in manifests => b \in manifests'
             /\ \A t \in Tables : <<b, t>> \in stored => <<b, t>> \in stored'
  <2>1. Status(c) = "failed"
    <3>1. <<c, root>> \in cleaner.directories
      BY <1>3 DEF DeleteDirectory
    <3> QED
      BY <3>1 DEF BuildInv, ListedHaveFailed
  <2> QED
    BY <1>3, <2>1 DEF DeleteDirectory, Without
<1>4. ASSUME NEW c \in Builds, NEW root \in {"manifests", "tables", "impacts"},
             LeaveDirectory(c, root)
      PROVE  UNCHANGED <<manifests, stored>>
  BY <1>4 DEF LeaveDirectory, artifacts
<1>5. ~ ListPublications /\ ~ ListDirectories /\ \A old \in SUBSET Builds : ~ ListBuilds(old)
  BY DEF ListPublications, ListDirectories, ListBuilds
<1> QED
  BY <1>1, <1>2, <1>3, <1>4, <1>5 DEF CleanerStep

(* Nothing is deleted from a running, succeeded or published build,        *)
(* although the deletion acts on a list read several steps before.         *)
THEOREM OnlyFailedIsDeletedCorrect == Spec => OnlyFailedIsDeleted
<1>1. BuildInv /\ [Next]_vars =>
          [\A b \in Builds :
              cleaner.at = "deleting" /\ cleaner' # cleaner /\ Status(b) # "failed" =>
                  /\ b \in manifests => b \in manifests'
                  /\ \A t \in Tables : <<b, t>> \in stored => <<b, t>> \in stored']_vars
  BY DeletionStep
<1> QED
  BY <1>1, BuildsCorrect, PTL DEF Spec, OnlyFailedIsDeleted

-----------------------------------------------------------------------------
(* Only an attempt that is running, or the identifier of a new one, is     *)
(* written.                                                                *)
LEMMA OutcomeKept ==
    ASSUME BuildInv, [Next]_vars, NEW b \in Builds, Status(b) \in {"succeeded", "failed"}
    PROVE  attempt'[b] = attempt[b]
<1>1. attempt \in [Builds -> Attempts]
  BY Typed
<1>2. ASSUME NEW c, Status(c) \in {"absent", "running"}, NEW new,
             attempt' = [attempt EXCEPT ![c] = new]
      PROVE  attempt'[b] = attempt[b]
  <2>1. c # b
    BY <1>2
  <2> QED
    BY <1>1, <1>2, <2>1
<1>3. ASSUME NEW w \in Workers, NEW c \in Builds, NEW candidate, PrepareCandidate(w, c, candidate)
      PROVE  attempt'[b] = attempt[b]
  BY <1>2, <1>3 DEF PrepareCandidate
<1>4. ASSUME NEW c \in Builds, Status(c) = "running",
             MarkFailed(c) \/ \E stamp : MarkSucceeded(c, stamp)
      PROVE  attempt'[b] = attempt[b]
  <2>1. c # b
    BY <1>4
  <2> QED
    BY <1>1, <1>4, <2>1 DEF MarkFailed, MarkSucceeded
<1>5. ASSUME NEW w \in Workers,
             Decide(w) \/ LoseAcknowledgement(w) \/ FailTable(w) \/ RecordFinalizationFailure(w)
      PROVE  attempt'[b] = attempt[b]
  <2>1. worker[w].at \in Working
    BY <1>5 DEF Decide, LoseAcknowledgement, FailTable, RecordFinalizationFailure, Working, Busy,
                InTable
  <2>2. worker[w].build \in Builds /\ Progress(worker[w])
    BY <2>1, AtWork
  <2>3. CASE Decide(w) \/ LoseAcknowledgement(w)
    BY <1>4, <2>2, <2>3 DEF Decide, LoseAcknowledgement
  <2>4. CASE FailTable(w)
    BY <1>4, <2>2, <2>4 DEF FailTable, Progress, Busy, InTable
  <2>5. CASE RecordFinalizationFailure(w)
    BY <1>4, <2>2, <2>5 DEF RecordFinalizationFailure
  <2> QED
    BY <1>5, <2>3, <2>4, <2>5
<1>6. CASE UNCHANGED attempt
  BY <1>6
<1>7. ASSUME NEW w \in Workers, Select(w) \/ BuildStep(w) \/ FailureStep(w)
      PROVE  attempt'[b] = attempt[b]
  BY <1>3, <1>5, <1>6, <1>7
  DEF rows, Select, SelectCandidates, BuildStep, FailureStep, RefuseWithoutReason, StageTable,
      WriteDetails, RecordImpacts, NothingToRecord, CommitFile, StampCompletion, WriteManifest,
      CleanStaging, EndRun, FailPreparation, FailFinalization, Crash
<1>8. CASE CleanerStep
  BY <1>6, <1>8
  DEF CleanerStep, rows, ListPublications, ListBuilds, ListDirectories, EndCleaning,
      DeleteDirectory, LeaveDirectory
<1>9. CASE (\E f \in Files : Ingest(f)) \/ (\E c \in Builds : Publish(c))
  BY <1>6, <1>9 DEF Ingest, Publish
<1> QED
  BY <1>6, <1>7, <1>8, <1>9 DEF Next, vars, rows

(* A recorded outcome is never rewritten, not even by a process that lost  *)
(* the acknowledgement of its own decision.                                *)
THEOREM OutcomeIsFinalCorrect == Spec => OutcomeIsFinal
<1>1. BuildInv /\ [Next]_vars =>
          [\A b \in Builds : Status(b) \in {"succeeded", "failed"} =>
              attempt'[b] = attempt[b]]_vars
  BY OutcomeKept
<1> QED
  BY <1>1, BuildsCorrect, PTL DEF Spec, OutcomeIsFinal
=============================================================================
