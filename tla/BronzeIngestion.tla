--------------------------- MODULE BronzeIngestion ---------------------------
(***************************************************************************)
(* Bronze ingestion: a run takes the assets of one source capture, stream  *)
(* by stream, registers each in FileMarshal, writes it (or the members of  *)
(* a ZIP that changed) to a Bronze run directory, records the artifact     *)
(* manifest, moves the dataset's latest pointer, and at the end binds the  *)
(* capture's assets to the files.  Silver runs meanwhile promote files.    *)
(*                                                                         *)
(* Runs are processes without a common lock; a statement outside a         *)
(* transaction commits by itself.  File identifiers and timestamps come    *)
(* from one clock.                                                         *)
(***************************************************************************)
EXTENDS Naturals, Sequences, FiniteSets

CONSTANTS Runs,
          Assets,     \* contents of landed files; equal content has equal hash
          StreamOf, Kind, PeriodOf,
          Members,    \* the files inside an asset, as <<name, content>>
          Captures,
          AssetsOf,   \* the assets of a capture, in the order of its streams
          MaxClock,   \* bound on identifiers and timestamps
          MaxFaults,  \* bound on failures and crashes
          None

ASSUME AssetAssumption ==
    /\ Kind \in [Assets -> {"zip", "flat", "batch"}]
    /\ DOMAIN Members = Assets /\ DOMAIN PeriodOf = Assets /\ DOMAIN StreamOf = Assets
    /\ \A a \in Assets : Members[a] # {} /\ (Kind[a] # "zip" => Cardinality(Members[a]) = 1)
ASSUME CaptureAssumption == AssetsOf \in [Captures -> Seq(Assets) \ {<<>>}]
ASSUME BoundsAssumption == MaxClock \in Nat /\ MaxFaults \in Nat /\ None \notin Assets \cup Captures

VARIABLES marshal,   \* meta.marshaled_files, in the order of registration
          disk,      \* files in Bronze run directories: <<id, member>>
          pointer,   \* latest/bronze pointer of a stream
          bound,     \* meta.source_capture_assets: <<capture, position>> -> id
          run, clock, faults,
          skipped, broken  \* history: ids whose ingestion skipped, or failed after registering

shared == <<marshal, disk, pointer, bound, skipped, broken>>
vars == <<shared, run, clock, faults>>

Streams == {StreamOf[a] : a \in Assets}
Places == UNION {{c} \X DOMAIN AssetsOf[c] : c \in Captures}
Ids == 1..MaxClock
AllMembers == UNION {Members[a] : a \in Assets}

Idle == [at |-> "idle", capture |-> None, results |-> <<>>, id |-> 0, stamp |-> 0,
         todo |-> {}, written |-> {}]

Init ==
    /\ marshal = <<>> /\ disk = {}
    /\ pointer = [s \in Streams |-> None]
    /\ bound = [p \in Places |-> None]
    /\ run = [r \in Runs |-> Idle]
    /\ clock = 0 /\ faults = 0
    /\ skipped = {} /\ broken = {}

Entries == DOMAIN marshal
Entry == [id: Ids, asset: Assets, stamp: Ids, artifacts: SUBSET AllMembers, promoted: BOOLEAN]

TypeOK ==
    /\ marshal \in Seq(Entry)
    /\ disk \in SUBSET (Ids \X AllMembers)
    /\ pointer \in [Streams -> Ids \cup {None}]
    /\ bound \in [Places -> Ids \cup {None}]
    /\ run \in [Runs -> [at: {"idle", "next", "preparing", "checking", "inserting", "selecting",
                             "writing", "recording", "pointing", "refused"},
                         capture: Captures \cup {None}, results: Seq(Ids),
                         id: Ids \cup {0}, stamp: Ids \cup {0},
                         todo: SUBSET AllMembers, written: SUBSET AllMembers]]
    /\ clock \in 0..MaxClock /\ faults \in 0..MaxFaults
    /\ skipped \in SUBSET Ids /\ broken \in SUBSET Ids

-----------------------------------------------------------------------------
(* Queries of the FileMarshal store.                                       *)
Known(a) == \E i \in Entries : marshal[i].asset = a
GetByHash(a) ==
    LET same == {i \in Entries : marshal[i].asset = a}
    IN  CHOOSE i \in same : \A j \in same : marshal[j].stamp <= marshal[i].stamp

(* Fault: promoted or not, the file registered last is compared with.      *)
LastRegisteredAsset(s) ==
    LET files == {i \in Entries : StreamOf[marshal[i].asset] = s}
    IN  IF files = {} THEN None
        ELSE marshal[CHOOSE i \in files : \A j \in files : j <= i].asset

(* get_promoted_fingerprint: of the promoted files of all periods, the one *)
(* registered last.                                                        *)
PromotedAsset(s) ==
    LET files == {i \in Entries : StreamOf[marshal[i].asset] = s /\ marshal[i].promoted}
    IN  IF files = {} THEN None
        ELSE marshal[CHOOSE i \in files : \A j \in files : j <= i].asset

(* A row is written as a whole: replaced if its id is known, else added.   *)
Upsert(row) ==
    IF \E i \in Entries : marshal[i].id = row.id
    THEN [i \in Entries |-> IF marshal[i].id = row.id THEN row ELSE marshal[i]]
    ELSE Append(marshal, row)

IsCandidate(i) == marshal[i].artifacts # {}

(* verify_bronze_artifacts: the run directory holds exactly the manifest.  *)
Verified(i) ==
    /\ marshal[i].artifacts # {}
    /\ marshal[i].artifacts = {m \in AllMembers : <<marshal[i].id, m>> \in disk}

(* zip_members_to_extract: the members that are new or changed.            *)
Changed(a, base) == IF base = None THEN Members[a] ELSE Members[a] \ Members[base]

Position(r) == Len(run[r].results) + 1
Asset(r) == AssetsOf[run[r].capture][Position(r)]
EntryOf(id) == marshal[CHOOSE i \in Entries : marshal[i].id = id]

(* The ingestion of the current asset ends; the batch goes on.             *)
Finished(r, id) == [Idle EXCEPT !.at = "next", !.capture = run[r].capture,
                                !.results = Append(run[r].results, id)]
Refused(r) == [Idle EXCEPT !.at = "refused", !.capture = run[r].capture,
                           !.results = run[r].results]

(* A file with a manifest is a duplicate; one without refuses the run.     *)
AnswerKnown(r) ==
    LET existing == marshal[GetByHash(Asset(r))] IN
    run' = [run EXCEPT ![r] =
               IF existing.artifacts # {} THEN Finished(r, existing.id) ELSE Refused(r)]

-----------------------------------------------------------------------------
Begin(r, c) ==
    /\ run[r].at = "idle"
    /\ clock < MaxClock
    /\ run' = [run EXCEPT ![r] = [Idle EXCEPT !.at = "next", !.capture = c]]
    /\ UNCHANGED <<shared, clock, faults>>

HasNext(r) == run[r].at = "next" /\ Position(r) <= Len(AssetsOf[run[r].capture])

(* The landed file is hashed and given identifiers and a timestamp.        *)
Fingerprint(r) ==
    /\ HasNext(r) /\ Kind[Asset(r)] # "batch"
    /\ clock < MaxClock
    /\ clock' = clock + 1
    /\ run' = [run EXCEPT ![r].at = "checking", ![r].id = clock', ![r].stamp = clock']
    /\ UNCHANGED <<shared, faults>>

(* XLSX batches look for the batch hash before they allocate anything ...  *)
FingerprintBatch(r) ==
    /\ HasNext(r) /\ Kind[Asset(r)] = "batch"
    /\ IF Known(Asset(r))
       THEN AnswerKnown(r) /\ UNCHANGED clock
       ELSE /\ clock < MaxClock
            /\ clock' = clock + 1
            /\ run' = [run EXCEPT ![r].at = "preparing", ![r].id = clock']
    /\ UNCHANGED <<shared, faults>>

(* ... and assemble their Bronze file before they register it.             *)
Prepare(r) ==
    /\ run[r].at = "preparing"
    /\ clock < MaxClock
    /\ clock' = clock + 1
    /\ disk' = disk \cup ({run[r].id} \X Members[Asset(r)])
    /\ run' = [run EXCEPT ![r].at = "checking", ![r].stamp = clock',
                          ![r].written = Members[Asset(r)]]
    /\ UNCHANGED <<marshal, pointer, bound, faults, skipped, broken>>

(* Fault: a known file is a duplicate, whether or not it has a manifest.   *)
CheckKnownOnly(r) ==
    /\ run[r].at = "checking"
    /\ run' = [run EXCEPT ![r] = IF Known(Asset(r))
                                 THEN Finished(r, marshal[GetByHash(Asset(r))].id)
                                 ELSE [run[r] EXCEPT !.at = "inserting"]]
    /\ UNCHANGED <<shared, clock, faults>>

(* register(): look the hash up, in a statement of its own.  For an XLSX   *)
(* batch the duplicate error is not handled.                               *)
CheckKnown(r) ==
    /\ run[r].at = "checking"
    /\ IF ~ Known(Asset(r)) THEN run' = [run EXCEPT ![r].at = "inserting"]
       ELSE IF Kind[Asset(r)] = "batch" THEN run' = [run EXCEPT ![r] = Refused(r)]
       ELSE AnswerKnown(r)
    /\ UNCHANGED <<shared, clock, faults>>

(* register(): insert the entry and its event.                             *)
Register(r) ==
    /\ run[r].at = "inserting"
    /\ marshal' = Upsert([id |-> run[r].id, asset |-> Asset(r), stamp |-> run[r].stamp,
                          artifacts |-> {}, promoted |-> FALSE])
    /\ run' = [run EXCEPT ![r].at =
                  IF Kind[Asset(r)] = "batch" THEN "recording" ELSE "selecting"]
    /\ UNCHANGED <<disk, pointer, bound, clock, faults, skipped, broken>>

-----------------------------------------------------------------------------
(* Fault: the pointer follows an archive that was skipped, too.            *)
SelectAndPoint(r) ==
    /\ run[r].at = "selecting"
    /\ LET a == Asset(r)
           changed == Changed(a, IF Kind[a] = "zip" THEN PromotedAsset(StreamOf[a]) ELSE None)
       IN  run' = [run EXCEPT ![r].at = IF changed = {} THEN "pointing" ELSE "writing",
                              ![r].todo = changed]
    /\ UNCHANGED <<shared, clock, faults>>

(* A flat file is copied.  Of a ZIP, the members are extracted that the    *)
(* promoted file does not have; if there are none, nothing is extracted    *)
(* and the entry stays without a manifest.  The fingerprint of a promoted  *)
(* file that is no ZIP cannot be read as one.                              *)
Select(r) ==
    /\ run[r].at = "selecting"
    /\ LET a == Asset(r)
           id == run[r].id
           base == IF Kind[a] = "zip" THEN PromotedAsset(StreamOf[a]) ELSE None
           readable == base # None => Kind[base] = "zip"
           changed == Changed(a, base)
       IN  \/ /\ ~ readable
              /\ run' = [run EXCEPT ![r] = Idle]
              /\ broken' = broken \cup {id}
              /\ UNCHANGED skipped
           \/ /\ readable
              /\ changed = {}
              /\ run' = [run EXCEPT ![r] = Finished(r, id)]
              /\ skipped' = skipped \cup {id}
              /\ UNCHANGED broken
           \/ /\ readable
              /\ changed # {}
              /\ run' = [run EXCEPT ![r].at = "writing", ![r].todo = changed]
              /\ UNCHANGED <<skipped, broken>>
    /\ UNCHANGED <<marshal, disk, pointer, bound, clock, faults>>

(* One file of the run directory is written.                               *)
Write(r) ==
    /\ run[r].at = "writing"
    /\ \E m \in run[r].todo :
          /\ disk' = disk \cup {<<run[r].id, m>>}
          /\ run' = [run EXCEPT ![r].todo = @ \ {m}, ![r].written = @ \cup {m},
                        ![r].at = IF run[r].todo = {m} THEN "recording" ELSE "writing"]
    /\ UNCHANGED <<marshal, pointer, bound, clock, faults, skipped, broken>>

(* The written files pass the gate, are hashed and compared with the       *)
(* source, and become the manifest of the entry, once.                     *)
Record(r) ==
    /\ run[r].at = "recording"
    /\ LET target == EntryOf(run[r].id) IN
          /\ target.artifacts \in {{}, run[r].written}
          /\ marshal' = Upsert([target EXCEPT !.artifacts = run[r].written])
    /\ run' = [run EXCEPT ![r].at = "pointing"]
    /\ UNCHANGED <<disk, pointer, bound, clock, faults, skipped, broken>>

(* The pointer is replaced atomically, after the manifest is committed.    *)
UpdateLatestPointer(r) ==
    /\ run[r].at = "pointing"
    /\ pointer' = [pointer EXCEPT ![StreamOf[Asset(r)]] = run[r].id]
    /\ run' = [run EXCEPT ![r] = Finished(r, run[r].id)]
    /\ UNCHANGED <<marshal, disk, bound, clock, faults, skipped, broken>>

AllIngested(r) == run[r].at = "next" /\ Position(r) > Len(AssetsOf[run[r].capture])

(* Fault: a later run replaces the files a capture is bound to.            *)
Rebind(r) ==
    /\ AllIngested(r)
    /\ bound' = [p \in Places |-> IF p[1] = run[r].capture THEN run[r].results[p[2]] ELSE bound[p]]
    /\ run' = [run EXCEPT ![r] = Idle]
    /\ UNCHANGED <<marshal, disk, pointer, clock, faults, skipped, broken>>

(* bind_assets, in one transaction: what is bound already must be equal.   *)
Bind(r) ==
    /\ AllIngested(r)
    /\ LET c == run[r].capture
           mine == {p \in Places : p[1] = c}
       IN  bound' = IF \A p \in mine : bound[p] \in {None, run[r].results[p[2]]}
                    THEN [p \in Places |-> IF p \in mine THEN run[r].results[p[2]] ELSE bound[p]]
                    ELSE bound
    /\ run' = [run EXCEPT ![r] = Idle]
    /\ UNCHANGED <<marshal, disk, pointer, clock, faults, skipped, broken>>

(* The exception of a refusal ends the run.                                *)
GiveUp(r) ==
    /\ run[r].at = "refused"
    /\ run' = [run EXCEPT ![r] = Idle]
    /\ UNCHANGED <<shared, clock, faults>>

(* A quality gate, the disk or the database fails, or the process dies.    *)
Fail(r) ==
    /\ run[r].at \notin {"idle", "refused"}
    /\ faults < MaxFaults
    /\ faults' = faults + 1
    /\ run' = [run EXCEPT ![r] = Idle]
    /\ broken' = broken \cup {marshal[i].id : i \in {j \in Entries : marshal[j].id = run[r].id}}
    /\ UNCHANGED <<marshal, disk, pointer, bound, clock, skipped>>

(* promote(), inside a publication decision: a Silver candidate is one     *)
(* with a manifest; the promoted file of its period is demoted.            *)
Promote(i) ==
    /\ IsCandidate(i)
    /\ LET SamePeriod(j) == /\ StreamOf[marshal[j].asset] = StreamOf[marshal[i].asset]
                            /\ PeriodOf[marshal[j].asset] = PeriodOf[marshal[i].asset]
       IN  marshal' = [j \in Entries |->
               IF SamePeriod(j) THEN [marshal[j] EXCEPT !.promoted = (j = i)] ELSE marshal[j]]
    /\ UNCHANGED <<disk, pointer, bound, run, clock, faults, skipped, broken>>

Step(r) ==
    \/ Fingerprint(r) \/ FingerprintBatch(r) \/ Prepare(r) \/ CheckKnown(r) \/ Register(r)
    \/ Select(r) \/ Write(r) \/ Record(r) \/ UpdateLatestPointer(r) \/ Bind(r) \/ GiveUp(r)

Next ==
    \/ \E r \in Runs : Step(r) \/ Fail(r)
    \/ \E r \in Runs, c \in Captures : Begin(r, c)
    \/ \E i \in Entries : Promote(i)

Spec == Init /\ [][Next]_vars

-----------------------------------------------------------------------------
(* Every Silver candidate passes verify_bronze_artifacts: its run          *)
(* directory holds exactly the files of its manifest, whatever failed      *)
(* before or beside it.                                                    *)
CandidatesAreWhole ==
    \A i \in Entries : IsCandidate(i) => Verified(i)

(* Extracting only the members that changed loses nothing: each member of  *)
(* a file that was ingested is in the manifest of some file of the stream. *)
NoMemberIsLost ==
    \A i \in Entries : (marshal[i].artifacts # {} \/ marshal[i].id \in skipped) =>
        \A m \in Members[marshal[i].asset] : \E j \in Entries :
            /\ StreamOf[marshal[j].asset] = StreamOf[marshal[i].asset]
            /\ m \in marshal[j].artifacts

(* The latest pointer of a stream names a run with a recorded manifest.    *)
PointerNamesARecordedRun ==
    \A s \in Streams : pointer[s] # None =>
        \E i \in Entries : /\ marshal[i].id = pointer[s]
                           /\ StreamOf[marshal[i].asset] = s /\ marshal[i].artifacts # {}

(* Entries, run directories and pointers agree at every moment.            *)
BronzeIsConsistent == TypeOK /\ CandidatesAreWhole /\ PointerNamesARecordedRun

(* What a capture is bound to has the captured content and was ingested to *)
(* the end: it has a manifest, or had nothing new to extract.              *)
BoundFilesWereIngested ==
    \A p \in Places : bound[p] # None => \E i \in Entries :
        /\ marshal[i].id = bound[p] /\ marshal[i].asset = AssetsOf[p[1]][p[2]]
        /\ marshal[i].artifacts # {} \/ bound[p] \in skipped

(* A capture that is bound stays bound to the same files, also when runs   *)
(* ingest it at the same time.                                             *)
BindingsAreImmutable == [][\A p \in Places : bound[p] # None => bound'[p] = bound[p]]_vars

(* One dataset has one file of a content.                                  *)
OneFilePerContent ==
    \A i, j \in Entries : marshal[i].asset = marshal[j].asset => i = j

(* The refusal of a known file says that its earlier ingestion failed.     *)
RefusalsFollowFailures ==
    \A r \in Runs : run[r].at = "refused" =>
        \E i \in Entries : marshal[i].asset = Asset(r) /\ marshal[i].id \in broken
=============================================================================
