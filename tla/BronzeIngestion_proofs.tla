------------------------ MODULE BronzeIngestion_proofs ------------------------
(***************************************************************************)
(* The entries of FileMarshal, the Bronze run directories, the pointers    *)
(* and the bindings of captures agree at every moment, and no member of an *)
(* ingested file is lost, for any number of runs, captures and assets,     *)
(* whichever runs fail beside each other.                                  *)
(***************************************************************************)
EXTENDS BronzeIngestion, TLAPS

(* The points of a run at which it works on an asset, before and after the *)
(* entry of this asset exists.                                             *)
Unregistered == {"preparing", "checking", "inserting"}
Registered == {"selecting", "writing", "recording", "pointing"}
Holding == Unregistered \cup Registered

AssetFor(c) == AssetsOf[c.capture][Len(c.results) + 1]

Held(s, m) ==
    \E j \in Entries : StreamOf[marshal[j].asset] = s /\ m \in marshal[j].artifacts
Ingested(id, a) ==
    \E i \in Entries : /\ marshal[i].id = id /\ marshal[i].asset = a
                       /\ marshal[i].artifacts # {} \/ id \in skipped

(* What the run c has ingested of its capture.                             *)
Batch(c) ==
    c.at # "idle" =>
        /\ c.capture \in Captures
        /\ Len(c.results) <= Len(AssetsOf[c.capture])
        /\ c.at \in Holding => Len(c.results) < Len(AssetsOf[c.capture])
        /\ \A k \in 1..Len(c.results) : Ingested(c.results[k], AssetsOf[c.capture][k])

(* How far the run c has come with the asset at hand: its identifier is    *)
(* known to nobody else, what it wrote is what its directory holds, and    *)
(* what it does not extract is held by earlier files of the stream.        *)
Work(c) ==
    /\ c.at \in {"next", "preparing"} => c.written = {}
    /\ c.at \in Holding =>
          /\ c.id \in 1..clock
          /\ c.at # "preparing" => c.stamp # 0
          /\ c.written = {m \in AllMembers : <<c.id, m>> \in disk}
    /\ c.at \in Unregistered => \A i \in Entries : marshal[i].id # c.id
    /\ c.at \in {"checking", "inserting"} /\ Kind[AssetFor(c)] = "batch" =>
          c.written = Members[AssetFor(c)]
    /\ c.at \in Registered =>
          \E i \in Entries : /\ marshal[i].id = c.id /\ marshal[i].asset = AssetFor(c)
                             /\ marshal[i].artifacts = IF c.at = "pointing" THEN c.written ELSE {}
    /\ c.at = "writing" =>
          /\ c.todo # {}
          /\ \A m \in Members[AssetFor(c)] \ (c.todo \cup c.written) :
                Held(StreamOf[AssetFor(c)], m)
    /\ c.at \in {"recording", "pointing"} => c.written # {}
    /\ c.at = "recording" =>
          \A m \in Members[AssetFor(c)] \ c.written : Held(StreamOf[AssetFor(c)], m)

(* Two runs never work under the same identifier.                          *)
Distinct ==
    \A r, q \in Runs :
        run[r].at \in Holding /\ run[q].at \in Holding /\ run[r].id = run[q].id => r = q

(* Identifiers are unique and were given out, what was skipped has an      *)
(* entry, only a file with a manifest is promoted, and any set of entries  *)
(* has a last and a youngest one.                                          *)
RowsAreSound ==
    /\ \A i, j \in Entries : marshal[i].id = marshal[j].id => i = j
    /\ \A i \in Entries : marshal[i].id <= clock
    /\ \A file \in disk : file[1] <= clock
    /\ \A id \in skipped : \E i \in Entries : marshal[i].id = id
    /\ \A i \in Entries : marshal[i].promoted => marshal[i].artifacts # {}
    /\ \A F \in SUBSET Entries : F # {} =>
          /\ \E i \in F : \A j \in F : j <= i
          /\ \E i \in F : \A j \in F : marshal[j].stamp <= marshal[i].stamp

BronzeInv ==
    /\ TypeOK /\ Distinct /\ RowsAreSound
    /\ CandidatesAreWhole /\ NoMemberIsLost /\ PointerNamesARecordedRun /\ BoundFilesWereIngested
    /\ \A r \in Runs : Batch(run[r]) /\ Work(run[r])

-----------------------------------------------------------------------------
Records == [at: {"idle", "next", "preparing", "checking", "inserting", "selecting",
                 "writing", "recording", "pointing", "refused"},
            capture: Captures \cup {None}, results: Seq(Ids), id: Ids \cup {0},
            stamp: Ids \cup {0}, todo: SUBSET AllMembers, written: SUBSET AllMembers]

(* The types of everything but the runs.                                   *)
RestTyped ==
    /\ marshal \in Seq(Entry) /\ disk \in SUBSET (Ids \X AllMembers)
    /\ pointer \in [Streams -> Ids \cup {None}] /\ bound \in [Places -> Ids \cup {None}]
    /\ clock \in 0..MaxClock /\ faults \in 0..MaxFaults
    /\ skipped \in SUBSET Ids /\ broken \in SUBSET Ids

LEMMA Typed ==
    ASSUME BronzeInv
    PROVE  /\ RestTyped /\ run \in [Runs -> Records]
           /\ \A r \in Runs : run[r] \in Records
           /\ Entries = 1..Len(marshal) /\ Len(marshal) \in Nat
           /\ \A i \in Entries : marshal[i] \in Entry
<1>1. RestTyped /\ run \in [Runs -> Records]
  BY DEF BronzeInv, TypeOK, RestTyped, Records
<1>2. Entries = 1..Len(marshal) /\ Len(marshal) \in Nat /\ \A i \in Entries : marshal[i] \in Entry
  BY <1>1 DEF RestTyped, Entries
<1> QED
  BY <1>1, <1>2

LEMMA IdleTyped ==
    /\ Idle \in Records /\ Idle.at = "idle" /\ Idle.results = <<>>
    /\ Idle.written = {} /\ Idle.todo = {} /\ Idle.id = 0
<1>1. <<>> \in Seq(Ids)
  OBVIOUS
<1> QED
  BY <1>1 DEF Idle, Records

(* The assets of a capture, and the one at hand.                           *)
LEMMA CaptureAssets ==
    ASSUME NEW c \in Captures
    PROVE  /\ Len(AssetsOf[c]) \in Nat
           /\ \A k \in 1..Len(AssetsOf[c]) : AssetsOf[c][k] \in Assets
<1>1. AssetsOf[c] \in Seq(Assets)
  BY CaptureAssumption
<1> QED
  BY <1>1

LEMMA AtHand ==
    ASSUME NEW c \in Records, c.capture \in Captures,
           Len(c.results) < Len(AssetsOf[c.capture])
    PROVE  AssetFor(c) \in Assets /\ Members[AssetFor(c)] \in SUBSET AllMembers
<1>1. c.results \in Seq(Ids)
  BY DEF Records
<1>2. Len(c.results) \in Nat /\ Len(AssetsOf[c.capture]) \in Nat
  BY <1>1, CaptureAssets
<1>3. AssetFor(c) \in Assets
  BY <1>2, CaptureAssets DEF AssetFor
<1> QED
  BY <1>3 DEF AllMembers

LEMMA AssetIs ==
    ASSUME NEW r \in Runs
    PROVE  Asset(r) = AssetFor(run[r]) /\ Position(r) = Len(run[r].results) + 1
BY DEF Asset, AssetFor, Position

(* What a run that is not idle can rely on.                                *)
LEMMA AtWork ==
    ASSUME BronzeInv, NEW r \in Runs, run[r].at \in Holding
    PROVE  /\ Asset(r) \in Assets /\ Members[Asset(r)] \in SUBSET AllMembers
           /\ run[r].capture \in Captures /\ Len(run[r].results) < Len(AssetsOf[run[r].capture])
           /\ run[r].id \in 1..clock /\ run[r].id \in Ids
           /\ Batch(run[r]) /\ Work(run[r])
<1>1. Batch(run[r]) /\ Work(run[r]) /\ run[r] \in Records
  BY Typed DEF BronzeInv
<1>2. /\ run[r].capture \in Captures /\ Len(run[r].results) < Len(AssetsOf[run[r].capture])
      /\ run[r].id \in 1..clock
  BY <1>1 DEF Batch, Work, Holding, Registered, Unregistered
<1>3. run[r].id \in Ids
  BY <1>2, BoundsAssumption, Typed DEF Ids, RestTyped
<1> QED
  BY <1>1, <1>2, <1>3, AtHand, AssetIs

-----------------------------------------------------------------------------
(* Entries keep their identity and, once they have one, their manifest.    *)
RowsKept ==
    \A i \in Entries :
        /\ i \in Entries' /\ marshal'[i].id = marshal[i].id
        /\ marshal'[i].asset = marshal[i].asset
        /\ marshal[i].artifacts # {} => marshal'[i].artifacts = marshal[i].artifacts

(* A step concerns the entry and the directory of one identifier.          *)
Touches(id) ==
    /\ \A i \in Entries : marshal'[i].artifacts # marshal[i].artifacts => marshal[i].id = id
    /\ \A i \in Entries' \ Entries : marshal'[i].id = id
    /\ disk \subseteq disk' /\ \A file \in disk' \ disk : file[1] = id

LEMMA HeldKept == ASSUME RowsKept, NEW s, NEW m, Held(s, m) PROVE Held(s, m)'
<1>1. PICK j \in Entries : StreamOf[marshal[j].asset] = s /\ m \in marshal[j].artifacts
  BY DEF Held
<1>2. /\ j \in Entries' /\ marshal'[j].asset = marshal[j].asset
      /\ marshal'[j].artifacts = marshal[j].artifacts
  BY <1>1 DEF RowsKept
<1> QED
  BY <1>1, <1>2 DEF Held

LEMMA IngestedKept ==
    ASSUME RowsKept, skipped \subseteq skipped', NEW id, NEW a, Ingested(id, a)
    PROVE  Ingested(id, a)'
<1>1. PICK i \in Entries : /\ marshal[i].id = id /\ marshal[i].asset = a
                           /\ marshal[i].artifacts # {} \/ id \in skipped
  BY DEF Ingested
<1>2. /\ i \in Entries' /\ marshal'[i].id = id /\ marshal'[i].asset = a
      /\ marshal'[i].artifacts # {} \/ id \in skipped'
  BY <1>1 DEF RowsKept
<1> QED
  BY <1>2 DEF Ingested

LEMMA BatchKept ==
    ASSUME RowsKept, skipped \subseteq skipped', NEW c, Batch(c)
    PROVE  Batch(c)'
BY IngestedKept DEF Batch

LEMMA WorkKept ==
    ASSUME BronzeInv, NEW c \in Records, Work(c), NEW id, c.at \in Holding => c.id # id,
           Touches(id), RowsKept, clock <= clock', clock' \in Nat
    PROVE  Work(c)'
<1> USE DEF Holding, Registered, Unregistered
<1>1. c.at \in Holding =>
          /\ c.id \in 1..clock'
          /\ c.written = {m \in AllMembers : <<c.id, m>> \in disk'}
  BY Typed DEF Work, Touches, RestTyped
<1>2. c.at \in Unregistered => \A i \in Entries' : marshal'[i].id # c.id
  BY DEF Work, Touches, RowsKept
<1>3. c.at \in Registered =>
          \E i \in Entries' :
              /\ marshal'[i].id = c.id /\ marshal'[i].asset = AssetFor(c)
              /\ marshal'[i].artifacts = IF c.at = "pointing" THEN c.written ELSE {}
  <2> SUFFICES ASSUME c.at \in Registered
               PROVE  \E i \in Entries' :
                         /\ marshal'[i].id = c.id /\ marshal'[i].asset = AssetFor(c)
                         /\ marshal'[i].artifacts = IF c.at = "pointing" THEN c.written ELSE {}
    OBVIOUS
  <2> DEFINE mine == IF c.at = "pointing" THEN c.written ELSE {}
  <2> HIDE DEF mine
  <2>1. PICK i \in Entries : /\ marshal[i].id = c.id /\ marshal[i].asset = AssetFor(c)
                             /\ marshal[i].artifacts = mine
    BY DEF Work, mine
  <2>2. marshal'[i].artifacts = marshal[i].artifacts
    BY <2>1 DEF Touches
  <2>3. i \in Entries' /\ marshal'[i].id = c.id /\ marshal'[i].asset = AssetFor(c)
        /\ marshal'[i].artifacts = mine
    BY <2>1, <2>2 DEF RowsKept
  <2> QED
    BY <2>3 DEF mine
<1>4. \A m, s : Held(s, m) => Held(s, m)'
  BY HeldKept
<1> HIDE DEF Holding, Registered, Unregistered
<1> QED
  BY <1>1, <1>2, <1>3, <1>4 DEF Work

(* The run whose record changes is r, and id is the identifier concerned.  *)
LEMMA RunStep ==
    ASSUME BronzeInv, NEW r \in Runs, NEW rec \in Records, run' = [run EXCEPT ![r] = rec],
           NEW id, (run[r].at \in Holding /\ id = run[r].id) \/ id = 0, Touches(id), RowsKept,
           rec.at \in Holding => \/ run[r].at \in Holding /\ rec.id = run[r].id
                                 \/ rec.id > clock,
           clock <= clock', skipped \subseteq skipped',
           RestTyped', RowsAreSound', CandidatesAreWhole', NoMemberIsLost',
           PointerNamesARecordedRun', BoundFilesWereIngested',
           Batch(rec)', Work(rec)'
    PROVE  BronzeInv'
<1>1. \A q \in Runs : run'[q] = IF q = r THEN rec ELSE run[q]
  BY Typed
<1>2. TypeOK'
  BY Typed DEF TypeOK, RestTyped, Records
<1>3. clock \in Nat /\ clock' \in Nat
  BY Typed, BoundsAssumption DEF RestTyped
<1>4. \A q \in Runs : run[q].at \in Holding => run[q].id \in 1..clock
  BY AtWork
<1>5. Distinct'
  <2> SUFFICES ASSUME NEW p \in Runs, NEW q \in Runs, run'[p].at \in Holding,
                      run'[q].at \in Holding, run'[p].id = run'[q].id
               PROVE  p = q
    BY DEF Distinct
  <2> QED
    BY <1>1, <1>3, <1>4 DEF BronzeInv, Distinct
<1>6. ASSUME NEW q \in Runs  PROVE Batch(run[q])' /\ Work(run[q])'
  <2>1. CASE q = r
    BY <1>1, <2>1 DEF Batch, Work, AssetFor
  <2>2. CASE q # r
    <3>1. PICK c \in Records : c = run[q]
      BY Typed
    <3>2. Batch(c) /\ Work(c) /\ run'[q] = c
      BY <1>1, <2>2, <3>1 DEF BronzeInv
    <3>3. c.at \in Holding => c.id # id
      BY <1>4, <2>2, <3>1, <1>3 DEF BronzeInv, Distinct
    <3>4. Batch(c)' /\ Work(c)'
      BY <3>2, <3>3, <1>3, BatchKept, WorkKept
    <3> QED
      BY <3>2, <3>4 DEF Batch, Work, AssetFor
  <2> QED
    BY <2>1, <2>2
<1> QED
  BY <1>2, <1>5, <1>6 DEF BronzeInv
-----------------------------------------------------------------------------
LEMMA BronzeInitially == Init => BronzeInv
<1> SUFFICES ASSUME Init PROVE BronzeInv
  OBVIOUS
<1>1. marshal = <<>> /\ Entries = {} /\ disk = {} /\ clock = 0 /\ skipped = {}
  BY DEF Init, Entries
<1>2. TypeOK
  <2>1. RestTyped
    BY <1>1, BoundsAssumption DEF Init, RestTyped
  <2>2. run \in [Runs -> Records]
    BY IdleTyped DEF Init
  <2> QED
    BY <2>1, <2>2 DEF TypeOK, RestTyped, Records
<1>3. \A r \in Runs : run[r] = Idle
  BY DEF Init
<1>4. Distinct /\ \A r \in Runs : Batch(run[r]) /\ Work(run[r])
  BY <1>3, IdleTyped DEF Distinct, Batch, Work, Holding, Registered, Unregistered
<1>5. RowsAreSound
  BY <1>1 DEF RowsAreSound
<1>6. CandidatesAreWhole /\ NoMemberIsLost /\ PointerNamesARecordedRun /\ BoundFilesWereIngested
  BY <1>1 DEF Init, CandidatesAreWhole, NoMemberIsLost, PointerNamesARecordedRun,
              BoundFilesWereIngested
<1> QED
  BY <1>2, <1>4, <1>5, <1>6 DEF BronzeInv

-----------------------------------------------------------------------------
(* A step of a run that changes neither entries, files nor pointers.       *)
LEMMA QuietStep ==
    ASSUME BronzeInv, NEW r \in Runs, NEW rec \in Records, run' = [run EXCEPT ![r] = rec],
           UNCHANGED <<marshal, disk, pointer>>, BoundFilesWereIngested',
           bound' \in [Places -> Ids \cup {None}],
           clock <= clock', clock' \in 0..MaxClock, faults' \in 0..MaxFaults,
           skipped \subseteq skipped', skipped' \in SUBSET Ids, broken' \in SUBSET Ids,
           NoMemberIsLost',
           \A id \in skipped' \ skipped : \E i \in Entries : marshal[i].id = id,
           rec.at \in Holding => \/ run[r].at \in Holding /\ rec.id = run[r].id
                                 \/ rec.id > clock,
           Batch(rec)', Work(rec)'
    PROVE  BronzeInv'
<1>1. Touches(0) /\ RowsKept
  BY DEF Touches, RowsKept, Entries
<1>2. RestTyped'
  BY Typed DEF RestTyped
<1>3. clock \in Nat /\ clock' \in Nat
  BY Typed DEF RestTyped
<1>4. RowsAreSound'
  <2>1. /\ \A i \in Entries : marshal[i].id \in Nat
        /\ \A file \in disk : file[1] \in Nat
    BY Typed DEF RestTyped, Entry, Ids
  <2> QED
    BY <1>3, <2>1 DEF BronzeInv, RowsAreSound, Entries
<1>5. CandidatesAreWhole' /\ PointerNamesARecordedRun'
  BY DEF BronzeInv, CandidatesAreWhole, PointerNamesARecordedRun, Verified, IsCandidate, Entries
<1> QED
  BY <1>1, <1>2, <1>4, <1>5, RunStep

(* A step that changes the record of one run only.                         *)
LEMMA MoveStep ==
    ASSUME BronzeInv, NEW r \in Runs, NEW rec \in Records, run' = [run EXCEPT ![r] = rec],
           UNCHANGED <<marshal, disk, pointer, bound, skipped>>,
           clock <= clock', clock' \in 0..MaxClock, faults' \in 0..MaxFaults,
           broken' \in SUBSET Ids,
           rec.at \in Holding => \/ run[r].at \in Holding /\ rec.id = run[r].id
                                 \/ rec.id > clock,
           Batch(rec)', Work(rec)'
    PROVE  BronzeInv'
<1>1. bound' \in [Places -> Ids \cup {None}] /\ skipped' \in SUBSET Ids
  BY Typed DEF RestTyped
<1>2. NoMemberIsLost' /\ BoundFilesWereIngested'
  BY DEF BronzeInv, NoMemberIsLost, BoundFilesWereIngested, Entries
<1> QED
  BY <1>1, <1>2, QuietStep

LEMMA Unchanged == ASSUME UNCHANGED <<marshal, skipped>> PROVE RowsKept /\ skipped \subseteq skipped'
BY DEF RowsKept, Entries

(* The record of a run that has finished an asset, and of one refused.     *)
LEMMA FinishedIs ==
    ASSUME NEW r \in Runs, run[r] \in Records, Batch(run[r]), run[r].at # "idle",
           Len(run[r].results) < Len(AssetsOf[run[r].capture]), NEW id \in Ids,
           RowsKept, skipped \subseteq skipped', NEW a, a = Asset(r), Ingested(id, a)'
    PROVE  \E rec \in Records : /\ rec = Finished(r, id) /\ rec.at \notin Holding
                                 /\ Batch(rec)' /\ Work(rec)'
<1> DEFINE c == run[r]
<1>1. /\ c.capture \in Captures /\ c.results \in Seq(Ids) /\ Len(c.results) \in Nat
      /\ Len(AssetsOf[c.capture]) \in Nat
  BY CaptureAssets DEF Batch, Records
<1>2. PICK results : results = Append(c.results, id)
  OBVIOUS
<1>3. /\ results \in Seq(Ids) /\ Len(results) = Len(c.results) + 1
      /\ results[Len(c.results) + 1] = id
      /\ \A k \in 1..Len(c.results) : results[k] = c.results[k]
  BY <1>1, <1>2
<1>4. PICK n : n = Len(c.results)
  OBVIOUS
<1>5. PICK capture \in Captures : capture = c.capture
  BY <1>1
<1>6. \A k \in 1..n : Ingested(results[k], AssetsOf[capture][k])'
  BY <1>3, <1>4, <1>5, IngestedKept DEF Batch
<1>7. Ingested(results[n + 1], AssetsOf[capture][n + 1])'
  <2>1. AssetsOf[capture][n + 1] = a /\ results[n + 1] = id
    BY <1>3, <1>4, <1>5, AssetIs DEF AssetFor
  <2> QED
    BY <2>1
<1>8. PICK rec : rec = [Idle EXCEPT !.at = "next", !.capture = capture, !.results = results]
  OBVIOUS
<1>9. /\ rec \in Records /\ rec.at = "next" /\ rec.written = {} /\ rec.capture = capture
      /\ rec.results = results
  BY <1>3, <1>8, IdleTyped DEF Records
<1>10. rec = Finished(r, id)
  BY <1>2, <1>5, <1>8 DEF Finished
<1>11. Batch(rec)'
  <2>1. Len(rec.results) <= Len(AssetsOf[rec.capture])
    BY <1>1, <1>3, <1>5, <1>9
  <2>2. \A k \in 1..Len(rec.results) : Ingested(rec.results[k], AssetsOf[rec.capture][k])'
    BY <1>1, <1>3, <1>4, <1>6, <1>7, <1>9
  <2> QED
    BY <2>1, <2>2, <1>9 DEF Batch, Holding, Registered, Unregistered
<1>12. Work(rec)' /\ rec.at \notin Holding
  BY <1>9 DEF Work, Holding, Registered, Unregistered
<1> QED
  BY <1>9, <1>10, <1>11, <1>12

LEMMA RefusedIs ==
    ASSUME BronzeInv, NEW r \in Runs, run[r].at # "idle", UNCHANGED <<marshal, skipped>>
    PROVE  \E rec \in Records : /\ rec = Refused(r) /\ rec.at \notin Holding
                                 /\ Batch(rec)' /\ Work(rec)'
<1>1. run[r] \in Records /\ Batch(run[r])
  BY Typed DEF BronzeInv
<1>2. PICK rec : rec = Refused(r)
  OBVIOUS
<1>3. /\ rec \in Records /\ rec.at = "refused" /\ rec.capture = run[r].capture
      /\ rec.results = run[r].results
  BY <1>1, <1>2, IdleTyped DEF Refused, Records
<1>4. Work(rec)' /\ rec.at \notin Holding
  BY <1>3 DEF Work, Holding, Registered, Unregistered
<1>5. Batch(rec)
  BY <1>1, <1>3 DEF Batch, Holding, Registered, Unregistered
<1> QED
  BY <1>2, <1>3, <1>4, <1>5, Unchanged, BatchKept
-----------------------------------------------------------------------------
LEMMA BeginStep ==
    ASSUME BronzeInv, NEW r \in Runs, NEW c \in Captures, Begin(r, c)
    PROVE  BronzeInv'
<1> DEFINE rec == [Idle EXCEPT !.at = "next", !.capture = c]
<1>1. /\ run' = [run EXCEPT ![r] = rec] /\ UNCHANGED <<shared, clock, faults>>
  BY DEF Begin
<1>2. /\ rec \in Records /\ rec.at = "next" /\ rec.capture = c /\ rec.results = <<>>
      /\ rec.written = {}
  BY IdleTyped DEF Records
<1> HIDE DEF rec
<1>3. Batch(rec)' /\ Work(rec)' /\ rec.at \notin Holding
  BY <1>2, CaptureAssets DEF Batch, Work, Holding, Registered, Unregistered
<1>4. /\ clock <= clock' /\ clock' \in 0..MaxClock /\ faults' \in 0..MaxFaults
      /\ broken' \in SUBSET Ids
  BY <1>1, Typed, BoundsAssumption DEF RestTyped, shared
<1> QED
  BY <1>1, <1>2, <1>3, <1>4, MoveStep DEF shared

(* A run takes up an asset: its new identifier is known to nobody.         *)
LEMMA TakeUp ==
    ASSUME BronzeInv, NEW r \in Runs, HasNext(r), clock < MaxClock, clock' = clock + 1,
           UNCHANGED shared,
           NEW rec \in Records, rec.at = "preparing" \/ (rec.at = "checking" /\ rec.stamp # 0),
           rec.capture = run[r].capture, rec.results = run[r].results,
           rec.written = run[r].written, rec.id = clock + 1,
           rec.at = "checking" => Kind[AssetFor(rec)] # "batch"
    PROVE  /\ clock <= clock' /\ clock' \in 0..MaxClock /\ rec.id > clock
           /\ Batch(rec)' /\ Work(rec)'
<1>1. clock \in Nat /\ MaxClock \in Nat
  BY Typed, BoundsAssumption DEF RestTyped
<1>2. clock <= clock' /\ clock' \in 0..MaxClock /\ rec.id > clock /\ rec.id \in 1..clock'
  BY <1>1
<1>3. run[r] \in Records /\ Batch(run[r]) /\ Work(run[r]) /\ run[r].at = "next"
  BY Typed DEF BronzeInv, HasNext
<1>4. run[r].written = {} /\ run[r].capture \in Captures
  BY <1>3 DEF Work, Batch
<1>5. Len(run[r].results) < Len(AssetsOf[run[r].capture])
  <2>1. Len(run[r].results) \in Nat /\ Len(AssetsOf[run[r].capture]) \in Nat
    BY <1>3, <1>4, CaptureAssets DEF Records
  <2> QED
    BY <2>1 DEF HasNext, Position
<1>6. Batch(rec)'
  <2>1. Batch(rec)
    BY <1>3, <1>5 DEF Batch
  <2> QED
    BY <2>1, Unchanged, BatchKept DEF shared
<1>7. \A i \in Entries' : marshal'[i].id # rec.id
  <2>1. \A i \in Entries : marshal[i].id \in Nat /\ marshal[i].id <= clock
    BY Typed DEF BronzeInv, RowsAreSound, Entry, Ids
  <2> QED
    BY <2>1, <1>1 DEF shared, Entries
<1>8. {m \in AllMembers : <<rec.id, m>> \in disk'} = {}
  <2>1. \A file \in disk : file[1] \in Nat /\ file[1] <= clock
    BY Typed DEF BronzeInv, RowsAreSound, RestTyped, Ids
  <2> QED
    BY <2>1, <1>1 DEF shared
<1>9. Work(rec)'
  BY <1>2, <1>4, <1>7, <1>8 DEF Work, Holding, Registered, Unregistered
<1> QED
  BY <1>2, <1>6, <1>9

LEMMA NextIdentifier ==
    ASSUME BronzeInv, clock < MaxClock
    PROVE  \E next \in Ids : next = clock + 1 /\ next # 0
BY Typed, BoundsAssumption DEF RestTyped, Ids

LEMMA FingerprintStep ==
    ASSUME BronzeInv, NEW r \in Runs, Fingerprint(r)
    PROVE  BronzeInv'
<1>1. /\ HasNext(r) /\ Kind[Asset(r)] # "batch" /\ clock < MaxClock /\ clock' = clock + 1
      /\ UNCHANGED <<shared, faults>>
  BY DEF Fingerprint
<1>2. PICK next \in Ids : next = clock + 1 /\ next # 0
  BY <1>1, NextIdentifier
<1>3. PICK rec : rec = [run[r] EXCEPT !.at = "checking", !.id = next, !.stamp = next]
  OBVIOUS
<1>4. run' = [run EXCEPT ![r] = rec] /\ run[r] \in Records
  BY <1>1, <1>2, <1>3, Typed DEF Fingerprint, Records
<1>5. /\ rec \in Records /\ rec.at = "checking" /\ rec.stamp # 0 /\ rec.id = next
      /\ rec.capture = run[r].capture /\ rec.results = run[r].results
      /\ rec.written = run[r].written
  BY <1>2, <1>3, <1>4 DEF Records
<1>6. Kind[AssetFor(rec)] # "batch"
  BY <1>1, <1>5, AssetIs DEF AssetFor
<1>7. /\ clock <= clock' /\ clock' \in 0..MaxClock /\ rec.id > clock
      /\ Batch(rec)' /\ Work(rec)'
  BY <1>1, <1>2, <1>5, <1>6, TakeUp
<1>8. faults' \in 0..MaxFaults /\ broken' \in SUBSET Ids
  BY <1>1, Typed DEF RestTyped, shared
<1> QED
  BY <1>1, <1>4, <1>5, <1>7, <1>8, MoveStep DEF shared

(* A known file answers with its entry, or refuses the run.                *)
LEMMA GetByHashIs ==
    ASSUME BronzeInv, NEW a, Known(a)
    PROVE  GetByHash(a) \in Entries /\ marshal[GetByHash(a)].asset = a
<1> DEFINE same == {i \in Entries : marshal[i].asset = a}
<1>1. same \in SUBSET Entries /\ same # {}
  BY DEF Known
<1>2. \E i \in same : \A j \in same : marshal[j].stamp <= marshal[i].stamp
  BY <1>1 DEF BronzeInv, RowsAreSound
<1>3. GetByHash(a) \in same
  BY <1>2 DEF GetByHash
<1> QED
  BY <1>3

LEMMA AnswerStep ==
    ASSUME BronzeInv, NEW r \in Runs, run[r].at # "idle", Known(Asset(r)), AnswerKnown(r),
           Len(run[r].results) < Len(AssetsOf[run[r].capture]),
           UNCHANGED <<shared, clock, faults>>
    PROVE  BronzeInv'
<1>1. PICK a : a = Asset(r)
  OBVIOUS
<1>2. PICK i \in Entries : i = GetByHash(a) /\ marshal[i].asset = a
  BY <1>1, GetByHashIs
<1>3. run' = [run EXCEPT ![r] = IF marshal[i].artifacts # {} THEN Finished(r, marshal[i].id)
                                                            ELSE Refused(r)]
  BY <1>1, <1>2 DEF AnswerKnown
<1>4. run[r] \in Records /\ Batch(run[r]) /\ marshal[i].id \in Ids
  BY Typed DEF BronzeInv, Entry
<1>5. /\ clock <= clock' /\ clock' \in 0..MaxClock /\ faults' \in 0..MaxFaults
      /\ broken' \in SUBSET Ids
  BY Typed, BoundsAssumption DEF RestTyped, shared
<1>6. RowsKept /\ skipped \subseteq skipped' /\ UNCHANGED <<marshal, skipped>>
  BY Unchanged DEF shared
<1>7. CASE marshal[i].artifacts # {}
  <2>1. PICK id \in Ids : id = marshal[i].id
    BY <1>4
  <2>2. Ingested(id, a)'
    BY <1>2, <1>6, <1>7, <2>1 DEF Ingested, Entries
  <2>3. PICK rec \in Records : /\ rec = Finished(r, id) /\ rec.at \notin Holding
                               /\ Batch(rec)' /\ Work(rec)'
    BY <1>1, <1>4, <1>6, <2>2, FinishedIs
  <2>4. run' = [run EXCEPT ![r] = rec]
    BY <1>3, <1>7, <2>1, <2>3
  <2> QED
    BY <1>5, <2>3, <2>4, MoveStep DEF shared
<1>8. CASE marshal[i].artifacts = {}
  <2>1. PICK rec \in Records : /\ rec = Refused(r) /\ rec.at \notin Holding
                               /\ Batch(rec)' /\ Work(rec)'
    BY <1>6, RefusedIs
  <2>2. run' = [run EXCEPT ![r] = rec]
    BY <1>3, <1>8, <2>1
  <2> QED
    BY <1>5, <2>1, <2>2, MoveStep DEF shared
<1> QED
  BY <1>7, <1>8
LEMMA FingerprintBatchStep ==
    ASSUME BronzeInv, NEW r \in Runs, FingerprintBatch(r)
    PROVE  BronzeInv'
<1>1. HasNext(r) /\ UNCHANGED <<shared, faults>>
  BY DEF FingerprintBatch
<1>2. run[r] \in Records /\ Batch(run[r]) /\ run[r].at = "next"
  BY <1>1, Typed DEF BronzeInv, HasNext
<1>3. CASE Known(Asset(r))
  <2>1. Len(run[r].results) < Len(AssetsOf[run[r].capture])
    <3>1. Len(run[r].results) \in Nat /\ Len(AssetsOf[run[r].capture]) \in Nat
      BY <1>2, CaptureAssets DEF Records, Batch
    <3> QED
      BY <1>1, <3>1 DEF HasNext, Position
  <2>2. AnswerKnown(r) /\ UNCHANGED clock
    BY <1>3 DEF FingerprintBatch
  <2> QED
    BY <1>1, <1>2, <1>3, <2>1, <2>2, AnswerStep
<1>4. CASE ~ Known(Asset(r))
  <2>1. clock < MaxClock /\ clock' = clock + 1
    BY <1>4 DEF FingerprintBatch
  <2>2. PICK next \in Ids : next = clock + 1 /\ next # 0
    BY <2>1, NextIdentifier
  <2>3. PICK rec : rec = [run[r] EXCEPT !.at = "preparing", !.id = next]
    OBVIOUS
  <2>7. run' = [run EXCEPT ![r] = rec]
    BY <1>2, <1>4, <2>1, <2>2, <2>3 DEF FingerprintBatch, Records
  <2>4. /\ rec \in Records /\ rec.at = "preparing" /\ rec.id = next
        /\ rec.capture = run[r].capture /\ rec.results = run[r].results
        /\ rec.written = run[r].written
    BY <1>2, <2>2, <2>3 DEF Records
  <2>8. /\ rec \in Records
        /\ rec.at = "preparing" \/ (rec.at = "checking" /\ rec.stamp # 0)
        /\ rec.capture = run[r].capture /\ rec.results = run[r].results
        /\ rec.written = run[r].written /\ rec.id = clock + 1
        /\ rec.at = "checking" => Kind[AssetFor(rec)] # "batch"
    BY <2>2, <2>4
  <2>5. /\ clock <= clock' /\ clock' \in 0..MaxClock /\ rec.id > clock
        /\ Batch(rec)' /\ Work(rec)'
    BY <1>1, <2>1, <2>8, TakeUp
  <2>6. faults' \in 0..MaxFaults /\ broken' \in SUBSET Ids
    BY <1>1, Typed DEF RestTyped, shared
  <2> QED
    BY <1>1, <2>4, <2>5, <2>6, <2>7, MoveStep DEF shared
<1> QED
  BY <1>3, <1>4

LEMMA CheckStep ==
    ASSUME BronzeInv, NEW r \in Runs, CheckKnown(r)
    PROVE  BronzeInv'
<1>1. run[r].at = "checking" /\ UNCHANGED <<shared, clock, faults>>
  BY DEF CheckKnown
<1>2. run[r].at \in Holding /\ run[r] \in Records
  BY <1>1, Typed DEF Holding, Unregistered
<1>3. /\ clock <= clock' /\ clock' \in 0..MaxClock /\ faults' \in 0..MaxFaults
      /\ broken' \in SUBSET Ids
  BY <1>1, Typed, BoundsAssumption DEF RestTyped, shared
<1>4. CASE ~ Known(Asset(r))
  <2>0. PICK rec : rec = [run[r] EXCEPT !.at = "inserting"]
    OBVIOUS
  <2>1. run' = [run EXCEPT ![r] = rec]
    BY <1>4, <2>0 DEF CheckKnown
  <2>2. /\ rec \in Records /\ rec.at = "inserting" /\ rec.id = run[r].id
        /\ rec.capture = run[r].capture /\ rec.results = run[r].results
        /\ rec.written = run[r].written /\ rec.stamp = run[r].stamp
    BY <1>2, <2>0 DEF Records
  <2>3. Batch(rec) /\ Work(rec)
    BY <1>1, <1>2, <2>2, AtWork DEF Batch, Work, Holding, Unregistered, Registered, AssetFor
  <2>4. Batch(rec)'
    BY <1>1, <2>3, Unchanged, BatchKept DEF shared
  <2>5. Work(rec)'
    BY <1>1, <2>3 DEF shared, Work, Held, Entries
  <2> QED
    BY <1>1, <1>2, <1>3, <2>1, <2>2, <2>4, <2>5, MoveStep DEF shared
<1>5. CASE Known(Asset(r)) /\ Kind[Asset(r)] = "batch"
  <2>1. PICK rec \in Records : /\ rec = Refused(r) /\ rec.at \notin Holding
                               /\ Batch(rec)' /\ Work(rec)'
    BY <1>1, RefusedIs DEF shared
  <2>2. run' = [run EXCEPT ![r] = rec]
    BY <1>5, <2>1 DEF CheckKnown
  <2> QED
    BY <1>1, <1>3, <2>1, <2>2, MoveStep DEF shared
<1>6. CASE Known(Asset(r)) /\ Kind[Asset(r)] # "batch"
  <2>1. AnswerKnown(r)
    BY <1>6 DEF CheckKnown
  <2> QED
    BY <1>1, <1>2, <1>6, <2>1, AnswerStep, AtWork
<1> QED
  BY <1>4, <1>5, <1>6

(* A run that ends, for whatever reason, leaves everything as it is.       *)
LEMMA EndStep ==
    ASSUME BronzeInv, NEW r \in Runs, GiveUp(r) \/ Fail(r)
    PROVE  BronzeInv'
<1>1. /\ run' = [run EXCEPT ![r] = Idle]
      /\ UNCHANGED <<marshal, disk, pointer, bound, clock, skipped>>
  BY DEF GiveUp, Fail, shared
<1>2. /\ clock <= clock' /\ clock' \in 0..MaxClock
  BY <1>1, Typed, BoundsAssumption DEF RestTyped
<1>3. faults' \in 0..MaxFaults
  BY Typed, BoundsAssumption DEF RestTyped, GiveUp, Fail
<1>4. broken' \in SUBSET Ids
  BY Typed DEF RestTyped, GiveUp, Fail, shared, Entry
<1>5. Idle.at \notin Holding /\ Batch(Idle)' /\ Work(Idle)'
  BY IdleTyped DEF Batch, Work, Holding, Registered, Unregistered
<1> QED
  BY <1>1, <1>2, <1>3, <1>4, <1>5, IdleTyped, MoveStep

(* What an archive need not extract is held by earlier files.              *)
LEMMA PromotedIs ==
    ASSUME BronzeInv, NEW s, PromotedAsset(s) # None
    PROVE  \A m \in Members[PromotedAsset(s)] : Held(s, m)
<1> DEFINE files == {i \in Entries : StreamOf[marshal[i].asset] = s /\ marshal[i].promoted}
<1>1. files # {} /\ files \in SUBSET Entries
  BY DEF PromotedAsset
<1>2. \E i \in files : \A j \in files : j <= i
  BY <1>1 DEF BronzeInv, RowsAreSound
<1>3. PICK i \in files : PromotedAsset(s) = marshal[i].asset
  BY <1>1, <1>2 DEF PromotedAsset
<1>4. marshal[i].artifacts # {}
  BY <1>3 DEF BronzeInv, RowsAreSound
<1> QED
  BY <1>3, <1>4 DEF BronzeInv, NoMemberIsLost, Held
(* The members that changed are extracted, or there are none.              *)
LEMMA SelectStep ==
    ASSUME BronzeInv, NEW r \in Runs, Select(r)
    PROVE  BronzeInv'
<1>0. PICK a : a = Asset(r)
  OBVIOUS
<1>1. PICK base : base = IF Kind[a] = "zip" THEN PromotedAsset(StreamOf[a]) ELSE None
  OBVIOUS
<1>2. PICK changed : changed = Changed(a, base)
  OBVIOUS
<1>3. /\ run[r].at = "selecting"
      /\ UNCHANGED <<marshal, disk, pointer, bound, clock, faults>>
  BY DEF Select
<1>4. /\ run[r] \in Records /\ run[r].at \in Holding /\ a \in Assets
      /\ Members[a] \in SUBSET AllMembers
      /\ Batch(run[r]) /\ Work(run[r]) /\ run[r].id \in Ids
      /\ Len(run[r].results) < Len(AssetsOf[run[r].capture])
  BY <1>0, <1>3, AtWork, Typed DEF Holding, Registered
<1>5. changed \in SUBSET Members[a] /\ \A m \in Members[a] \ changed : Held(StreamOf[a], m)
  BY <1>1, <1>2, PromotedIs DEF Changed
<1>6. PICK i \in Entries : /\ marshal[i].id = run[r].id /\ marshal[i].asset = a
                           /\ marshal[i].artifacts = {}
  BY <1>0, <1>3, <1>4, AssetIs DEF Work, Registered
<1>7. /\ clock <= clock' /\ clock' \in 0..MaxClock /\ faults' \in 0..MaxFaults
  BY <1>3, Typed, BoundsAssumption DEF RestTyped
<1>8. CASE run' = [run EXCEPT ![r] = Idle] /\ broken' = broken \cup {run[r].id} /\ UNCHANGED skipped
  <2>1. Idle.at \notin Holding /\ Batch(Idle)' /\ Work(Idle)'
    BY IdleTyped DEF Batch, Work, Holding, Registered, Unregistered
  <2>2. broken' \in SUBSET Ids
    BY <1>4, <1>8, Typed DEF RestTyped
  <2> QED
    BY <1>3, <1>7, <1>8, <2>1, <2>2, IdleTyped, MoveStep
<1>9. CASE /\ changed = {} /\ run' = [run EXCEPT ![r] = Finished(r, run[r].id)]
           /\ skipped' = skipped \cup {run[r].id} /\ UNCHANGED broken
  <2>1. PICK id \in Ids : id = run[r].id
    BY <1>4
  <2>2. RowsKept /\ skipped \subseteq skipped' /\ skipped' \in SUBSET Ids /\ broken' \in SUBSET Ids
    BY <1>3, <1>4, <1>9, Typed DEF RowsKept, RestTyped, Entries
  <2>3. Ingested(id, a)'
    BY <1>3, <1>6, <1>9, <2>1 DEF Ingested, Entries
  <2>4. PICK rec \in Records : /\ rec = Finished(r, id) /\ rec.at \notin Holding
                               /\ Batch(rec)' /\ Work(rec)'
    BY <1>0, <1>3, <1>4, <2>2, <2>3, FinishedIs
  <2>5. run' = [run EXCEPT ![r] = rec]
    BY <1>9, <2>1, <2>4
  <2>6. NoMemberIsLost'
    <3>1. \A j \in Entries : marshal[j].id = run[r].id => j = i
      BY <1>6 DEF BronzeInv, RowsAreSound
    <3>2. \A m \in Members[marshal[i].asset] : Held(StreamOf[marshal[i].asset], m)
      BY <1>5, <1>6, <1>9
    <3> QED
      BY <1>3, <1>9, <3>1, <3>2 DEF BronzeInv, NoMemberIsLost, Held, Entries
  <2>7. BoundFilesWereIngested' /\ bound' \in [Places -> Ids \cup {None}]
    BY <1>3, <1>9, Typed DEF BronzeInv, BoundFilesWereIngested, RestTyped, Entries
  <2>8. \A j \in skipped' \ skipped : \E k \in Entries : marshal[k].id = j
    BY <1>6, <1>9
  <2> QED
    BY <1>3, <1>7, <2>2, <2>4, <2>5, <2>6, <2>7, <2>8, QuietStep
<1>10. CASE /\ changed # {} /\ UNCHANGED <<skipped, broken>>
            /\ run' = [run EXCEPT ![r].at = "writing", ![r].todo = changed]
  <2>1. PICK rec : rec = [run[r] EXCEPT !.at = "writing", !.todo = changed]
    OBVIOUS
  <2>2. /\ rec \in Records /\ rec.at = "writing" /\ rec.id = run[r].id
        /\ rec.capture = run[r].capture /\ rec.results = run[r].results
        /\ rec.written = run[r].written /\ rec.stamp = run[r].stamp /\ rec.todo = changed
    BY <1>4, <1>5, <2>1 DEF Records
  <2>3. run' = [run EXCEPT ![r] = rec]
    BY <1>10, <1>4, <2>1 DEF Records
  <2>4. AssetFor(rec) = a
    BY <1>0, <2>2, AssetIs DEF AssetFor
  <2>5. Batch(rec)
    BY <1>3, <1>4, <2>2 DEF Batch
  <2>6. Work(rec)
    BY <1>3, <1>4, <1>5, <1>6, <1>10, <2>2, <2>4 DEF Work, Holding, Registered, Unregistered
  <2>7. Batch(rec)'
    BY <1>3, <1>10, <2>5, Unchanged, BatchKept
  <2>8. Work(rec)'
    BY <1>3, <2>6 DEF Work, Held, Entries
  <2>9. broken' \in SUBSET Ids
    BY <1>10, Typed DEF RestTyped
  <2> QED
    BY <1>3, <1>4, <1>7, <1>10, <2>2, <2>3, <2>7, <2>8, <2>9, MoveStep
<1> QED
  BY <1>0, <1>1, <1>2, <1>8, <1>9, <1>10 DEF Select

(* A capture is bound to the files its assets were ingested into.          *)
LEMMA BindStep ==
    ASSUME BronzeInv, NEW r \in Runs, Bind(r)
    PROVE  BronzeInv'
<1> DEFINE c == run[r].capture
           mine == {p \in Places : p[1] = c}
<1>1. /\ AllIngested(r) /\ run' = [run EXCEPT ![r] = Idle]
      /\ \/ bound' = bound
         \/ bound' = [p \in Places |-> IF p \in mine THEN run[r].results[p[2]] ELSE bound[p]]
      /\ UNCHANGED <<marshal, disk, pointer, clock, faults, skipped, broken>>
  BY DEF Bind
<1>2. run[r] \in Records /\ Batch(run[r]) /\ run[r].at = "next" /\ c \in Captures
  BY <1>1, Typed DEF BronzeInv, AllIngested, Batch
<1>3. Len(run[r].results) = Len(AssetsOf[c])
  <2>1. Len(run[r].results) \in Nat /\ Len(AssetsOf[c]) \in Nat
    BY <1>2, CaptureAssets DEF Records
  <2> QED
    BY <1>1, <1>2, <2>1 DEF AllIngested, Position, Batch
<1>4. ASSUME NEW p \in mine
      PROVE  /\ run[r].results[p[2]] \in Ids
             /\ Ingested(run[r].results[p[2]], AssetsOf[p[1]][p[2]])
  <2>1. p[1] = c /\ p[2] \in DOMAIN AssetsOf[c]
    BY <1>4 DEF Places
  <2>2. p[2] \in 1..Len(run[r].results)
    BY <1>2, <1>3, <2>1, CaptureAssumption
  <2> QED
    BY <1>2, <2>1, <2>2 DEF Batch, Records
<1>5. bound' \in [Places -> Ids \cup {None}]
  BY <1>1, <1>4, Typed DEF RestTyped
<1>6. ASSUME NEW p \in Places, bound'[p] # None
      PROVE  Ingested(bound'[p], AssetsOf[p[1]][p[2]])
  <2>1. CASE bound'[p] = bound[p]
    BY <1>6, <2>1 DEF BronzeInv, BoundFilesWereIngested, Ingested
  <2>2. CASE bound'[p] # bound[p]
    <3>1. p \in mine /\ bound'[p] = run[r].results[p[2]]
      BY <1>1, <2>2
    <3> QED
      BY <1>4, <3>1
  <2> QED
    BY <2>1, <2>2
<1>7. BoundFilesWereIngested'
  <2>1. Entries' = Entries
    BY <1>1 DEF Entries
  <2> QED
    BY <1>1, <1>6, <2>1 DEF BoundFilesWereIngested, Ingested
<1>8. NoMemberIsLost'
  BY <1>1 DEF BronzeInv, NoMemberIsLost, Entries
<1>9. Idle.at \notin Holding /\ Batch(Idle)' /\ Work(Idle)'
  BY IdleTyped DEF Batch, Work, Holding, Registered, Unregistered
<1>10. /\ clock <= clock' /\ clock' \in 0..MaxClock /\ faults' \in 0..MaxFaults
       /\ skipped \subseteq skipped' /\ skipped' \in SUBSET Ids /\ broken' \in SUBSET Ids
  BY <1>1, Typed, BoundsAssumption DEF RestTyped
<1> QED
  BY <1>1, <1>5, <1>7, <1>8, <1>9, <1>10, IdleTyped, QuietStep
-----------------------------------------------------------------------------
LEMMA PointerKept ==
    ASSUME BronzeInv, RowsKept, pointer' = pointer
    PROVE  PointerNamesARecordedRun'
<1> SUFFICES ASSUME NEW s \in Streams, pointer[s] # None
             PROVE  \E i \in Entries' : /\ marshal'[i].id = pointer[s]
                                        /\ StreamOf[marshal'[i].asset] = s
                                        /\ marshal'[i].artifacts # {}
  BY DEF PointerNamesARecordedRun
<1>1. PICK i \in Entries : /\ marshal[i].id = pointer[s]
                           /\ StreamOf[marshal[i].asset] = s /\ marshal[i].artifacts # {}
  BY DEF BronzeInv, PointerNamesARecordedRun
<1> QED
  BY <1>1 DEF RowsKept

LEMMA BoundKept ==
    ASSUME BronzeInv, RowsKept, bound' = bound, skipped \subseteq skipped'
    PROVE  BoundFilesWereIngested'
<1> SUFFICES ASSUME NEW p \in Places, bound[p] # None
             PROVE  \E i \in Entries' :
                       /\ marshal'[i].id = bound[p] /\ marshal'[i].asset = AssetsOf[p[1]][p[2]]
                       /\ marshal'[i].artifacts # {} \/ bound[p] \in skipped'
  BY DEF BoundFilesWereIngested
<1>1. PICK i \in Entries :
          /\ marshal[i].id = bound[p] /\ marshal[i].asset = AssetsOf[p[1]][p[2]]
          /\ marshal[i].artifacts # {} \/ bound[p] \in skipped
  BY DEF BronzeInv, BoundFilesWereIngested
<1> QED
  BY <1>1 DEF RowsKept

(* A run writes files into the directory of its identifier, whose entry    *)
(* has no manifest yet.                                                    *)
LEMMA DiskStep ==
    ASSUME BronzeInv, NEW r \in Runs, NEW rec \in Records, run' = [run EXCEPT ![r] = rec],
           run[r].at \in Holding, rec.id = run[r].id, NEW M \in SUBSET AllMembers,
           disk' = disk \cup ({run[r].id} \X M),
           \A i \in Entries : marshal[i].id = run[r].id => marshal[i].artifacts = {},
           UNCHANGED <<marshal, pointer, bound, faults, skipped, broken>>,
           clock <= clock', clock' \in 0..MaxClock, Batch(rec)', Work(rec)'
    PROVE  BronzeInv'
<1>1. Touches(run[r].id) /\ RowsKept
  BY DEF Touches, RowsKept, Entries
<1>2. run[r].id \in 1..clock /\ run[r].id \in Ids /\ clock \in Nat /\ clock' \in Nat
  BY AtWork, Typed DEF RestTyped
<1>3. RestTyped'
  BY <1>2, Typed DEF RestTyped
<1>4. RowsAreSound'
  <2>1. /\ \A i \in Entries : marshal[i].id \in Nat
        /\ \A file \in disk : file[1] \in Nat
    BY Typed DEF RestTyped, Entry, Ids
  <2> QED
    BY <1>2, <2>1 DEF BronzeInv, RowsAreSound, Entries
<1>5. CandidatesAreWhole'
  <2>1. ASSUME NEW i \in Entries, marshal[i].artifacts # {}  PROVE Verified(i)'
    <3>1. marshal[i].id # run[r].id /\ Verified(i)
      BY <2>1 DEF BronzeInv, CandidatesAreWhole, IsCandidate
    <3> QED
      BY <3>1 DEF Verified
  <2> QED
    BY <2>1 DEF CandidatesAreWhole, IsCandidate, Entries
<1>6. NoMemberIsLost' /\ PointerNamesARecordedRun' /\ BoundFilesWereIngested'
  BY DEF BronzeInv, NoMemberIsLost, PointerNamesARecordedRun, BoundFilesWereIngested, Entries
<1> QED
  BY <1>1, <1>3, <1>4, <1>5, <1>6, RunStep

LEMMA PrepareStep ==
    ASSUME BronzeInv, NEW r \in Runs, Prepare(r)
    PROVE  BronzeInv'
<1>1. /\ run[r].at = "preparing" /\ clock < MaxClock /\ clock' = clock + 1
      /\ disk' = disk \cup ({run[r].id} \X Members[Asset(r)])
      /\ UNCHANGED <<marshal, pointer, bound, faults, skipped, broken>>
  BY DEF Prepare
<1>2. /\ run[r].at \in Holding /\ run[r] \in Records /\ Asset(r) \in Assets
      /\ Members[Asset(r)] \in SUBSET AllMembers /\ Batch(run[r]) /\ Work(run[r])
  BY <1>1, AtWork, Typed DEF Holding, Unregistered
<1>3. PICK next \in Ids : next = clock + 1 /\ next # 0
  BY <1>1, NextIdentifier
<1>4. PICK rec : rec = [run[r] EXCEPT !.at = "checking", !.stamp = next,
                                      !.written = Members[Asset(r)]]
  OBVIOUS
<1>5. run' = [run EXCEPT ![r] = rec]
  BY <1>1, <1>2, <1>3, <1>4 DEF Prepare, Records
<1>6. /\ rec \in Records /\ rec.at = "checking" /\ rec.id = run[r].id /\ rec.stamp # 0
      /\ rec.capture = run[r].capture /\ rec.results = run[r].results
      /\ rec.written = Members[Asset(r)]
  BY <1>2, <1>3, <1>4 DEF Records
<1>7. AssetFor(rec) = Asset(r)
  BY <1>6, AssetIs DEF AssetFor
<1>8. /\ run[r].id \in 1..clock /\ \A i \in Entries : marshal[i].id # run[r].id
      /\ {m \in AllMembers : <<run[r].id, m>> \in disk} = {}
  BY <1>1, <1>2 DEF Work, Holding, Registered, Unregistered
<1>9. /\ clock \in Nat /\ clock <= clock' /\ clock' \in 0..MaxClock
      /\ run[r].id \in 1..clock'
  BY <1>1, <1>8, Typed, BoundsAssumption DEF RestTyped
<1>10. Batch(rec)'
  <2>1. Batch(rec)
    BY <1>1, <1>2, <1>6 DEF Batch, Holding, Unregistered
  <2> QED
    BY <1>1, <2>1, Unchanged, BatchKept
<1>11. {m \in AllMembers : <<rec.id, m>> \in disk'} = rec.written
  BY <1>1, <1>2, <1>6, <1>8
<1>12. \A i \in Entries' : marshal'[i].id # rec.id
  BY <1>1, <1>6, <1>8 DEF Entries
<1>13. Work(rec)'
  BY <1>6, <1>7, <1>9, <1>11, <1>12 DEF Work, Holding, Registered, Unregistered, AssetFor
<1> QED
  BY <1>1, <1>2, <1>5, <1>6, <1>8, <1>9, <1>10, <1>13, DiskStep

LEMMA WriteStep ==
    ASSUME BronzeInv, NEW r \in Runs, Write(r)
    PROVE  BronzeInv'
<1>1. PICK m \in run[r].todo :
          /\ disk' = disk \cup {<<run[r].id, m>>}
          /\ run' = [run EXCEPT ![r].todo = @ \ {m}, ![r].written = @ \cup {m},
                        ![r].at = IF run[r].todo = {m} THEN "recording" ELSE "writing"]
  BY DEF Write
<1>2. /\ run[r].at = "writing"
      /\ UNCHANGED <<marshal, pointer, bound, clock, faults, skipped, broken>>
  BY DEF Write
<1>3. /\ run[r].at \in Holding /\ run[r] \in Records /\ Batch(run[r]) /\ Work(run[r])
  BY <1>2, AtWork, Typed DEF Holding, Registered
<1>4. PICK at \in {"recording", "writing"} :
          at = IF run[r].todo = {m} THEN "recording" ELSE "writing"
  OBVIOUS
<1>5. PICK rec : rec = [run[r] EXCEPT !.at = at, !.todo = run[r].todo \ {m},
                                      !.written = run[r].written \cup {m}]
  OBVIOUS
<1>6. run' = [run EXCEPT ![r] = rec]
  BY <1>1, <1>3, <1>4, <1>5 DEF Records
<1>7. /\ rec \in Records /\ rec.at = at /\ rec.id = run[r].id /\ rec.stamp = run[r].stamp
      /\ rec.capture = run[r].capture /\ rec.results = run[r].results
      /\ rec.todo = run[r].todo \ {m} /\ rec.written = run[r].written \cup {m}
      /\ m \in AllMembers
  BY <1>3, <1>5 DEF Records
<1>8. AssetFor(rec) = AssetFor(run[r])
  BY <1>7 DEF AssetFor
<1>9. /\ at = "writing" => rec.todo # {}
      /\ at = "recording" => rec.todo = {}
  BY <1>4, <1>7
<1>10. Batch(rec)'
  <2>1. Batch(rec)
    BY <1>2, <1>3, <1>7 DEF Batch, Holding, Registered
  <2> QED
    BY <1>2, <2>1, Unchanged, BatchKept
<1>11. {n \in AllMembers : <<rec.id, n>> \in disk'} = rec.written
  <2>1. run[r].written = {n \in AllMembers : <<run[r].id, n>> \in disk}
    BY <1>3 DEF Work
  <2> QED
    BY <1>1, <1>7, <2>1
<1>12. \A n \in Members[AssetFor(rec)] \ (rec.todo \cup rec.written) :
           Held(StreamOf[AssetFor(rec)], n)'
  <2>1. rec.todo \cup rec.written = run[r].todo \cup run[r].written
    BY <1>1, <1>7
  <2> QED
    BY <1>2, <1>3, <1>8, <2>1 DEF Work, Held, Entries
<1>13. PICK i \in Entries : /\ marshal[i].id = rec.id /\ marshal[i].asset = AssetFor(rec)
                            /\ marshal[i].artifacts = {}
  BY <1>2, <1>3, <1>7, <1>8 DEF Work, Registered
<1>14. Work(rec)'
  BY <1>2, <1>3, <1>7, <1>9, <1>11, <1>12, <1>13
  DEF Work, Holding, Registered, Unregistered, AssetFor, Entries
<1>15. \A j \in Entries : marshal[j].id = run[r].id => marshal[j].artifacts = {}
  BY <1>7, <1>13 DEF BronzeInv, RowsAreSound
<1>16. clock <= clock' /\ clock' \in 0..MaxClock
  BY <1>2, Typed, BoundsAssumption DEF RestTyped
<1>17. {m} \in SUBSET AllMembers /\ disk' = disk \cup ({run[r].id} \X {m})
  BY <1>1, <1>7
<1> QED
  BY <1>2, <1>3, <1>6, <1>7, <1>10, <1>14, <1>15, <1>16, <1>17, DiskStep
-----------------------------------------------------------------------------
(* A set of entries that includes the one registered last still has a last *)
(* and a youngest member.                                                  *)
LEMMA AppendOrdered ==
    ASSUME BronzeInv, NEW row \in Entry, marshal' = Append(marshal, row),
           NEW F \in SUBSET Entries', F # {}
    PROVE  /\ \E i \in F : \A j \in F : j <= i
           /\ \E i \in F : \A j \in F : marshal'[j].stamp <= marshal'[i].stamp
<1> DEFINE n == Len(marshal) + 1
           G == F \ {n}
<1>1. /\ marshal \in Seq(Entry) /\ Len(marshal) \in Nat /\ Entries = 1..Len(marshal)
  BY Typed DEF RestTyped
<1>2. /\ Entries' = 1..n /\ marshal'[n] = row
      /\ \A i \in Entries : marshal'[i] = marshal[i]
  BY <1>1 DEF Entries
<1>3. G \in SUBSET Entries /\ n \in Nat /\ \A i \in F : i \in Nat
  <2>1. n \in Nat /\ \A i \in 1..n : i \in Nat /\ (i # n => i \in 1..Len(marshal))
    BY <1>1
  <2> HIDE DEF n
  <2>2. F \in SUBSET (1..n)
    BY <1>2
  <2> QED
    BY <1>1, <2>1, <2>2
<1>4. \A i \in G : i <= n
  BY <1>1, <1>3
<1>5. /\ row.stamp \in Nat
      /\ \A i \in Entries : marshal[i].stamp \in Nat
  BY Typed DEF Entry, Ids
<1>6. CASE n \notin F
  <2>1. F \in SUBSET Entries
    BY <1>3, <1>6
  <2>2. /\ \E i \in F : \A j \in F : j <= i
        /\ \E i \in F : \A j \in F : marshal[j].stamp <= marshal[i].stamp
    BY <2>1 DEF BronzeInv, RowsAreSound
  <2> QED
    BY <1>2, <2>1, <2>2
<1>7. CASE n \in F
  <2>1. \E i \in F : \A j \in F : j <= i
    BY <1>3, <1>4, <1>7
  <2>2. CASE G = {}
    <3>1. F = {n}
      BY <1>7, <2>2
    <3> QED
      BY <2>1, <3>1, <1>2, <1>5
  <2>3. CASE G # {}
    <3>1. PICK i \in G : \A j \in G : marshal[j].stamp <= marshal[i].stamp
      BY <1>3, <2>3 DEF BronzeInv, RowsAreSound
    <3>2. \A j \in G : marshal'[j].stamp = marshal[j].stamp /\ marshal[j].stamp \in Nat
      BY <1>2, <1>3, <1>5
    <3>3. CASE row.stamp <= marshal[i].stamp
      <4>1. \A j \in F : marshal'[j].stamp <= marshal'[i].stamp
        BY <1>2, <3>1, <3>2, <3>3
      <4> QED
        BY <2>1, <4>1
    <3>4. CASE ~ (row.stamp <= marshal[i].stamp)
      <4>1. marshal[i].stamp <= row.stamp
        BY <1>5, <3>2, <3>4
      <4>2. \A j \in F : marshal'[j].stamp <= marshal'[n].stamp
        BY <1>2, <1>5, <3>1, <3>2, <4>1
      <4> QED
        BY <1>7, <2>1, <4>2
    <3> QED
      BY <3>3, <3>4
  <2> QED
    BY <2>2, <2>3
<1> QED
  BY <1>6, <1>7

LEMMA RegisterStep ==
    ASSUME BronzeInv, NEW r \in Runs, Register(r)
    PROVE  BronzeInv'
<1>1. PICK row : row = [id |-> run[r].id, asset |-> Asset(r), stamp |-> run[r].stamp,
                        artifacts |-> {}, promoted |-> FALSE]
  OBVIOUS
<1>2. PICK at : at = IF Kind[Asset(r)] = "batch" THEN "recording" ELSE "selecting"
  OBVIOUS
<1>3. /\ run[r].at = "inserting" /\ marshal' = Upsert(row)
      /\ run' = [run EXCEPT ![r].at = at]
      /\ UNCHANGED <<disk, pointer, bound, clock, faults, skipped, broken>>
  BY <1>1, <1>2 DEF Register
<1>4. /\ run[r].at \in Holding /\ run[r] \in Records /\ Batch(run[r]) /\ Work(run[r])
      /\ Asset(r) \in Assets /\ run[r].id \in 1..clock /\ run[r].id \in Ids
  BY <1>3, AtWork, Typed DEF Holding, Unregistered
<1>5. \A i \in Entries : marshal[i].id # run[r].id
  BY <1>3, <1>4 DEF Work, Unregistered
<1>6. run[r].stamp \in Ids
  BY <1>3, <1>4 DEF Work, Records
<1>7. /\ row \in Entry /\ row.id = run[r].id /\ row.asset = Asset(r) /\ row.artifacts = {}
      /\ row.promoted = FALSE
  BY <1>1, <1>4, <1>6 DEF Entry
<1>8. marshal' = Append(marshal, row)
  BY <1>3, <1>5, <1>7 DEF Upsert
<1>9. /\ marshal \in Seq(Entry) /\ Len(marshal) \in Nat /\ Entries = 1..Len(marshal)
      /\ clock \in Nat
  BY Typed DEF RestTyped
<1>10. PICK n : n = Len(marshal) + 1
  OBVIOUS
<1>11. /\ Entries' = 1..n /\ n \in Entries' /\ n \notin Entries /\ marshal'[n] = row
       /\ \A i \in Entries : i \in Entries' /\ marshal'[i] = marshal[i]
       /\ \A i \in Entries' : i \in Entries \/ i = n
  BY <1>8, <1>9, <1>10 DEF Entries
<1>12. Touches(run[r].id) /\ RowsKept
  BY <1>3, <1>7, <1>11 DEF Touches, RowsKept
<1>13. RestTyped'
  BY <1>3, <1>7, <1>8, <1>9, Typed DEF RestTyped
<1>14. \A i \in Entries : marshal[i].id \in Nat /\ marshal[i].id <= clock
  BY Typed DEF BronzeInv, RowsAreSound, Entry, Ids
<1>15. RowsAreSound'
  <2>1. \A i, j \in Entries' : marshal'[i].id = marshal'[j].id => i = j
    BY <1>5, <1>7, <1>11 DEF BronzeInv, RowsAreSound
  <2>2. \A i \in Entries' : marshal'[i].id <= clock'
    BY <1>3, <1>4, <1>7, <1>11, <1>14
  <2>3. /\ \A file \in disk' : file[1] <= clock'
        /\ \A id \in skipped' : \E i \in Entries' : marshal'[i].id = id
        /\ \A i \in Entries' : marshal'[i].promoted => marshal'[i].artifacts # {}
    BY <1>3, <1>7, <1>11 DEF BronzeInv, RowsAreSound
  <2>4. \A F \in SUBSET Entries' : F # {} =>
            /\ \E i \in F : \A j \in F : j <= i
            /\ \E i \in F : \A j \in F : marshal'[j].stamp <= marshal'[i].stamp
    BY <1>7, <1>8, AppendOrdered
  <2> QED
    BY <2>1, <2>2, <2>3, <2>4 DEF RowsAreSound
<1>16. CandidatesAreWhole'
  BY <1>3, <1>7, <1>11 DEF BronzeInv, CandidatesAreWhole, IsCandidate, Verified
<1>17. NoMemberIsLost'
  <2>1. run[r].id \notin skipped
    BY <1>5 DEF BronzeInv, RowsAreSound
  <2>2. \A i \in Entries' : marshal'[i].artifacts # {} \/ marshal'[i].id \in skipped' =>
            i \in Entries /\ (marshal[i].artifacts # {} \/ marshal[i].id \in skipped)
    BY <1>3, <1>7, <1>11, <2>1
  <2>3. \A i \in Entries : marshal[i].artifacts # {} \/ marshal[i].id \in skipped =>
            \A m \in Members[marshal[i].asset] : Held(StreamOf[marshal[i].asset], m)
    BY DEF BronzeInv, NoMemberIsLost, Held
  <2>4. \A m, s : Held(s, m) => Held(s, m)'
    BY <1>12, HeldKept
  <2> QED
    BY <1>11, <2>2, <2>3, <2>4 DEF NoMemberIsLost, Held
<1>18. PointerNamesARecordedRun' /\ BoundFilesWereIngested'
  BY <1>3, <1>12, PointerKept, BoundKept
<1>19. PICK rec : rec = [run[r] EXCEPT !.at = at]
  OBVIOUS
<1>20. /\ rec \in Records /\ rec.at = at /\ rec.id = run[r].id /\ rec.stamp = run[r].stamp
       /\ rec.capture = run[r].capture /\ rec.results = run[r].results
       /\ rec.written = run[r].written
  BY <1>2, <1>4, <1>19 DEF Records
<1>21. run' = [run EXCEPT ![r] = rec] /\ at \in {"recording", "selecting"} /\ at \in Registered
  BY <1>2, <1>3, <1>19 DEF Registered
<1>22. AssetFor(rec) = Asset(r) /\ AssetFor(rec) = AssetFor(run[r])
  BY <1>20, AssetIs DEF AssetFor
<1>23. Batch(rec)'
  <2>1. Batch(rec)
    BY <1>3, <1>4, <1>20 DEF Batch
  <2> QED
    BY <1>3, <1>12, <2>1, BatchKept
<1>24. Work(rec)'
  <2>1. at = "recording" => rec.written = Members[AssetFor(rec)] /\ rec.written # {}
    BY <1>2, <1>3, <1>4, <1>20, <1>22, AssetAssumption DEF Work
  <2>2. /\ rec.id \in 1..clock' /\ rec.stamp # 0
        /\ rec.written = {m \in AllMembers : <<rec.id, m>> \in disk'}
    BY <1>3, <1>4, <1>20 DEF Work
  <2>3. \E i \in Entries' : /\ marshal'[i].id = rec.id /\ marshal'[i].asset = AssetFor(rec)
                            /\ marshal'[i].artifacts = {}
    BY <1>7, <1>11, <1>20, <1>22
  <2> QED
    BY <1>20, <1>21, <2>1, <2>2, <2>3
    DEF Work, Holding, Registered, Unregistered, AssetFor
<1> QED
  <2>1. clock <= clock' /\ skipped \subseteq skipped'
    BY <1>3, <1>9
  <2> QED
    BY <1>4, <1>12, <1>13, <1>15, <1>16, <1>17, <1>18, <1>20, <1>21, <1>23, <1>24, <2>1, RunStep
-----------------------------------------------------------------------------
LEMMA EntryOfIs ==
    ASSUME BronzeInv, NEW i \in Entries
    PROVE  EntryOf(marshal[i].id) = marshal[i]
<1>1. \A j \in Entries : marshal[j].id = marshal[i].id => j = i
  BY DEF BronzeInv, RowsAreSound
<1> QED
  BY <1>1 DEF EntryOf

(* A step that replaces rows in place, and changes neither what identifies *)
(* them nor a manifest that is recorded.                                   *)
LEMMA RowsReplaced ==
    ASSUME BronzeInv, marshal' \in [Entries -> Entry],
           \A i \in Entries :
               /\ marshal'[i].id = marshal[i].id /\ marshal'[i].asset = marshal[i].asset
               /\ marshal'[i].stamp = marshal[i].stamp
               /\ marshal[i].artifacts # {} => marshal'[i].artifacts = marshal[i].artifacts
               /\ marshal'[i].promoted => marshal'[i].artifacts # {}
               /\ marshal'[i].artifacts \in {marshal[i].artifacts,
                                            {m \in AllMembers : <<marshal[i].id, m>> \in disk}}
               /\ marshal'[i].artifacts # marshal[i].artifacts =>
                     \A m \in Members[marshal[i].asset] \ marshal'[i].artifacts :
                        Held(StreamOf[marshal[i].asset], m),
           UNCHANGED <<disk, pointer, bound, clock, faults, skipped, broken>>
    PROVE  /\ RowsKept /\ RestTyped' /\ RowsAreSound' /\ CandidatesAreWhole' /\ NoMemberIsLost'
           /\ PointerNamesARecordedRun' /\ BoundFilesWereIngested' /\ Entries' = Entries
<1>1. Entries' = Entries
  BY DEF Entries
<1>2. RowsKept
  BY <1>1 DEF RowsKept
<1>3. marshal' \in Seq(Entry)
  BY Typed
<1>4. RestTyped'
  BY <1>3, Typed DEF RestTyped
<1>5. RowsAreSound'
  BY <1>1 DEF BronzeInv, RowsAreSound
<1>6. CandidatesAreWhole'
  <2>1. ASSUME NEW i \in Entries, marshal'[i].artifacts # {}
        PROVE  marshal'[i].artifacts = {m \in AllMembers : <<marshal[i].id, m>> \in disk}
    <3>1. CASE marshal'[i].artifacts = marshal[i].artifacts
      BY <2>1, <3>1 DEF BronzeInv, CandidatesAreWhole, IsCandidate, Verified
    <3>2. CASE marshal'[i].artifacts # marshal[i].artifacts
      BY <3>2
    <3> QED
      BY <3>1, <3>2
  <2> QED
    BY <1>1, <2>1 DEF CandidatesAreWhole, IsCandidate, Verified
<1>7. NoMemberIsLost'
  <2>1. \A m, s : Held(s, m) => Held(s, m)'
    BY <1>2, HeldKept
  <2>2. ASSUME NEW i \in Entries, marshal'[i].artifacts # {} \/ marshal[i].id \in skipped,
               NEW m \in Members[marshal[i].asset]
        PROVE  Held(StreamOf[marshal[i].asset], m)'
    <3>1. CASE m \in marshal'[i].artifacts
      <4>1. PICK s : s = StreamOf[marshal[i].asset]
        OBVIOUS
      <4>2. i \in Entries' /\ StreamOf[marshal'[i].asset] = s /\ m \in marshal'[i].artifacts
        BY <1>1, <3>1, <4>1
      <4>3. \E j \in Entries' : StreamOf[marshal'[j].asset] = s /\ m \in marshal'[j].artifacts
        BY <4>2
      <4> QED
        BY <4>1, <4>2, <4>3 DEF Held
    <3>2. CASE m \notin marshal'[i].artifacts
      <4>1. Held(StreamOf[marshal[i].asset], m)
        BY <2>2, <3>2 DEF BronzeInv, NoMemberIsLost, Held
      <4>2. PICK s : s = StreamOf[marshal[i].asset]
        OBVIOUS
      <4>3. Held(s, m)'
        BY <2>1, <4>1, <4>2
      <4> QED
        BY <4>2, <4>3 DEF Held
    <3> QED
      BY <3>1, <3>2
  <2> QED
    BY <1>1, <2>2 DEF NoMemberIsLost, Held
<1>8. PointerNamesARecordedRun' /\ BoundFilesWereIngested'
  BY <1>2, PointerKept, BoundKept
<1> QED
  BY <1>1, <1>2, <1>4, <1>5, <1>6, <1>7, <1>8

LEMMA RecordStep ==
    ASSUME BronzeInv, NEW r \in Runs, Record(r)
    PROVE  BronzeInv'
<1>1. /\ run[r].at = "recording" /\ EntryOf(run[r].id).artifacts \in {{}, run[r].written}
      /\ marshal' = Upsert([EntryOf(run[r].id) EXCEPT !.artifacts = run[r].written])
      /\ run' = [run EXCEPT ![r].at = "pointing"]
      /\ UNCHANGED <<disk, pointer, bound, clock, faults, skipped, broken>>
  BY DEF Record
<1>2. /\ run[r].at \in Holding /\ run[r] \in Records /\ Batch(run[r]) /\ Work(run[r])
  BY <1>1, AtWork, Typed DEF Holding, Registered
<1>3. PICK i \in Entries : /\ marshal[i].id = run[r].id /\ marshal[i].asset = AssetFor(run[r])
                           /\ marshal[i].artifacts = {}
  BY <1>1, <1>2 DEF Work, Registered
<1>4. PICK row : row = [marshal[i] EXCEPT !.artifacts = run[r].written]
  OBVIOUS
<1>5. /\ row \in Entry /\ row.id = marshal[i].id /\ row.asset = marshal[i].asset
      /\ row.stamp = marshal[i].stamp /\ row.promoted = marshal[i].promoted
      /\ row.artifacts = run[r].written
  BY <1>2, <1>4, Typed DEF Entry, Records
<1>6. marshal' = Upsert(row)
  BY <1>1, <1>3, <1>4, EntryOfIs
<1>7. marshal' = [j \in Entries |-> IF marshal[j].id = row.id THEN row ELSE marshal[j]]
  BY <1>3, <1>5, <1>6 DEF Upsert
<1>8. \A j \in Entries : marshal[j].id = row.id <=> j = i
  BY <1>5 DEF BronzeInv, RowsAreSound
<1>9. marshal' \in [Entries -> Entry]
  BY <1>5, <1>7, Typed
<1>10. marshal'[i] = row /\ \A j \in Entries : j # i => marshal'[j] = marshal[j]
  BY <1>7, <1>8
<1>11. /\ run[r].written = {m \in AllMembers : <<run[r].id, m>> \in disk}
       /\ run[r].written # {}
       /\ \A m \in Members[AssetFor(run[r])] \ run[r].written : Held(StreamOf[AssetFor(run[r])], m)
  BY <1>1, <1>2 DEF Work
<1>12. \A j \in Entries :
           /\ marshal'[j].id = marshal[j].id /\ marshal'[j].asset = marshal[j].asset
           /\ marshal'[j].stamp = marshal[j].stamp
           /\ marshal[j].artifacts # {} => marshal'[j].artifacts = marshal[j].artifacts
           /\ marshal'[j].promoted => marshal'[j].artifacts # {}
           /\ marshal'[j].artifacts \in {marshal[j].artifacts,
                                        {m \in AllMembers : <<marshal[j].id, m>> \in disk}}
           /\ marshal'[j].artifacts # marshal[j].artifacts =>
                 \A m \in Members[marshal[j].asset] \ marshal'[j].artifacts :
                    Held(StreamOf[marshal[j].asset], m)
  <2> SUFFICES ASSUME NEW j \in Entries
               PROVE /\ marshal'[j].id = marshal[j].id /\ marshal'[j].asset = marshal[j].asset
                     /\ marshal'[j].stamp = marshal[j].stamp
                     /\ marshal[j].artifacts # {} => marshal'[j].artifacts = marshal[j].artifacts
                     /\ marshal'[j].promoted => marshal'[j].artifacts # {}
                     /\ marshal'[j].artifacts \in {marshal[j].artifacts,
                                        {m \in AllMembers : <<marshal[j].id, m>> \in disk}}
                     /\ marshal'[j].artifacts # marshal[j].artifacts =>
                           \A m \in Members[marshal[j].asset] \ marshal'[j].artifacts :
                              Held(StreamOf[marshal[j].asset], m)
    OBVIOUS
  <2>1. CASE j = i
    BY <1>3, <1>5, <1>10, <1>11, <2>1
  <2>2. CASE j # i
    BY <1>10, <2>2 DEF BronzeInv, RowsAreSound
  <2> QED
    BY <2>1, <2>2
<1>13. /\ RowsKept /\ RestTyped' /\ RowsAreSound' /\ CandidatesAreWhole' /\ NoMemberIsLost'
       /\ PointerNamesARecordedRun' /\ BoundFilesWereIngested' /\ Entries' = Entries
  BY <1>1, <1>9, <1>12, RowsReplaced
<1>14. Touches(run[r].id)
  BY <1>1, <1>3, <1>10, <1>13 DEF Touches
<1>15. PICK rec : rec = [run[r] EXCEPT !.at = "pointing"]
  OBVIOUS
<1>16. /\ rec \in Records /\ rec.at = "pointing" /\ rec.id = run[r].id
       /\ rec.capture = run[r].capture /\ rec.results = run[r].results
       /\ rec.written = run[r].written /\ rec.stamp = run[r].stamp
  BY <1>2, <1>15 DEF Records
<1>17. run' = [run EXCEPT ![r] = rec]
  BY <1>1, <1>15
<1>18. AssetFor(rec) = AssetFor(run[r])
  BY <1>16 DEF AssetFor
<1>19. Batch(rec)'
  <2>1. Batch(rec)
    BY <1>1, <1>2, <1>16 DEF Batch
  <2>2. skipped \subseteq skipped'
    BY <1>1
  <2> QED
    BY <1>13, <2>1, <2>2, BatchKept
<1>20. Work(rec)'
  <2>1. /\ rec.id \in 1..clock' /\ rec.stamp # 0 /\ rec.written # {}
        /\ rec.written = {m \in AllMembers : <<rec.id, m>> \in disk'}
    BY <1>1, <1>2, <1>11, <1>16 DEF Work
  <2>2. \E j \in Entries' : /\ marshal'[j].id = rec.id /\ marshal'[j].asset = AssetFor(rec)
                            /\ marshal'[j].artifacts = rec.written
    BY <1>3, <1>5, <1>10, <1>13, <1>16, <1>18
  <2> QED
    BY <1>16, <2>1, <2>2 DEF Work, Holding, Registered, Unregistered, AssetFor
<1>21. clock <= clock' /\ skipped \subseteq skipped'
  BY <1>1, Typed DEF RestTyped
<1> QED
  BY <1>2, <1>13, <1>14, <1>16, <1>17, <1>19, <1>20, <1>21, RunStep

LEMMA PromoteStep ==
    ASSUME BronzeInv, NEW i \in Entries, Promote(i)
    PROVE  BronzeInv'
<1> DEFINE SamePeriod(j) == /\ StreamOf[marshal[j].asset] = StreamOf[marshal[i].asset]
                            /\ PeriodOf[marshal[j].asset] = PeriodOf[marshal[i].asset]
<1>1. /\ marshal[i].artifacts # {}
      /\ marshal' = [j \in Entries |->
             IF SamePeriod(j) THEN [marshal[j] EXCEPT !.promoted = (j = i)] ELSE marshal[j]]
      /\ UNCHANGED <<disk, pointer, bound, run, clock, faults, skipped, broken>>
  BY DEF Promote, IsCandidate
<1>2. ASSUME NEW j \in Entries
      PROVE  /\ marshal'[j] \in Entry
             /\ marshal'[j].id = marshal[j].id /\ marshal'[j].asset = marshal[j].asset
             /\ marshal'[j].stamp = marshal[j].stamp
             /\ marshal'[j].artifacts = marshal[j].artifacts
             /\ marshal'[j].promoted => marshal[j].promoted \/ j = i
  <2>1. marshal[j] \in Entry
    BY Typed
  <2>2. PICK flag \in BOOLEAN : flag = (j = i)
    OBVIOUS
  <2>3. CASE SamePeriod(j)
    <3>1. marshal'[j] = [marshal[j] EXCEPT !.promoted = flag]
      BY <1>1, <2>2, <2>3
    <3> QED
      BY <2>1, <2>2, <3>1 DEF Entry
  <2>4. CASE ~ SamePeriod(j)
    BY <1>1, <2>1, <2>4
  <2> QED
    BY <2>3, <2>4
<1>3. marshal' \in [Entries -> Entry]
  BY <1>1, <1>2
<1>4. \A j \in Entries : marshal'[j].promoted => marshal'[j].artifacts # {}
  BY <1>1, <1>2 DEF BronzeInv, RowsAreSound
<1>5. /\ RowsKept /\ RestTyped' /\ RowsAreSound' /\ CandidatesAreWhole' /\ NoMemberIsLost'
      /\ PointerNamesARecordedRun' /\ BoundFilesWereIngested' /\ Entries' = Entries
  BY <1>1, <1>2, <1>3, <1>4, RowsReplaced
<1>6. Touches(0)
  BY <1>1, <1>2, <1>5 DEF Touches
<1>7. TypeOK' /\ Distinct'
  BY <1>1, <1>5, Typed DEF BronzeInv, TypeOK, RestTyped, Records, Distinct
<1>8. ASSUME NEW q \in Runs  PROVE Batch(run[q])' /\ Work(run[q])'
  <2>1. PICK c \in Records : c = run[q]
    BY Typed
  <2>2. Batch(c) /\ Work(c) /\ run'[q] = c
    BY <1>1, <2>1 DEF BronzeInv
  <2>3. c.at \in Holding => c.id # 0
    BY <2>1, AtWork
  <2>4. clock <= clock' /\ clock' \in Nat /\ skipped \subseteq skipped'
    BY <1>1, Typed DEF RestTyped
  <2>5. Batch(c)' /\ Work(c)'
    BY <1>5, <1>6, <2>2, <2>3, <2>4, BatchKept, WorkKept
  <2> QED
    BY <2>2, <2>5 DEF Batch, Work, AssetFor
<1> QED
  BY <1>5, <1>7, <1>8 DEF BronzeInv
LEMMA PointerStep ==
    ASSUME BronzeInv, NEW r \in Runs, UpdateLatestPointer(r)
    PROVE  BronzeInv'
<1>0. PICK a : a = Asset(r)
  OBVIOUS
<1>1. /\ run[r].at = "pointing" /\ pointer' = [pointer EXCEPT ![StreamOf[a]] = run[r].id]
      /\ run' = [run EXCEPT ![r] = Finished(r, run[r].id)]
      /\ UNCHANGED <<marshal, disk, bound, clock, faults, skipped, broken>>
  BY <1>0 DEF UpdateLatestPointer
<1>2. /\ run[r].at \in Holding /\ run[r] \in Records /\ Batch(run[r]) /\ Work(run[r])
      /\ a \in Assets /\ Len(run[r].results) < Len(AssetsOf[run[r].capture])
      /\ AssetFor(run[r]) = a
  BY <1>0, <1>1, AtWork, AssetIs, Typed DEF Holding, Registered
<1>3. PICK id \in Ids : id = run[r].id
  BY <1>2, AtWork
<1>4. PICK i \in Entries : /\ marshal[i].id = id /\ marshal[i].asset = a
                           /\ marshal[i].artifacts # {}
  BY <1>1, <1>2, <1>3 DEF Work, Registered
<1>5. Touches(0) /\ RowsKept /\ skipped \subseteq skipped' /\ clock <= clock' /\ Entries' = Entries
  BY <1>1, Typed DEF Touches, RowsKept, Entries, RestTyped
<1>6. PICK rec \in Records : /\ rec = Finished(r, id) /\ rec.at \notin Holding
                             /\ Batch(rec)' /\ Work(rec)'
  <2>1. Ingested(id, a)'
    BY <1>1, <1>4, <1>5 DEF Ingested
  <2> QED
    BY <1>0, <1>1, <1>2, <1>5, <2>1, FinishedIs
<1>7. run' = [run EXCEPT ![r] = rec]
  BY <1>1, <1>3, <1>6
<1>8. /\ \A s \in Streams : pointer'[s] = IF s = StreamOf[a] THEN id ELSE pointer[s]
      /\ RestTyped'
  BY <1>1, <1>3, Typed DEF RestTyped
<1>9. PointerNamesARecordedRun'
  BY <1>1, <1>4, <1>5, <1>8 DEF BronzeInv, PointerNamesARecordedRun
<1>10. RowsAreSound' /\ CandidatesAreWhole' /\ NoMemberIsLost' /\ BoundFilesWereIngested'
  BY <1>1, <1>5 DEF BronzeInv, RowsAreSound, CandidatesAreWhole, Verified, IsCandidate,
                    NoMemberIsLost, BoundFilesWereIngested
<1> QED
  BY <1>5, <1>6, <1>7, <1>8, <1>9, <1>10, RunStep

-----------------------------------------------------------------------------
LEMMA BronzeInvStep == BronzeInv /\ [Next]_vars => BronzeInv'
<1> SUFFICES ASSUME BronzeInv, [Next]_vars PROVE BronzeInv'
  OBVIOUS
<1>1. ASSUME NEW r \in Runs, Step(r) \/ Fail(r)  PROVE BronzeInv'
  BY <1>1, FingerprintStep, FingerprintBatchStep, PrepareStep, CheckStep, RegisterStep, SelectStep,
     WriteStep, RecordStep, PointerStep, BindStep, EndStep
  DEF Step
<1>2. ASSUME NEW r \in Runs, NEW c \in Captures, Begin(r, c)  PROVE BronzeInv'
  BY <1>2, BeginStep
<1>3. ASSUME NEW i \in Entries, Promote(i)  PROVE BronzeInv'
  BY <1>3, PromoteStep
<1>4. CASE UNCHANGED vars
  <2>1. UNCHANGED <<marshal, disk, pointer, bound, skipped, broken, run, clock, faults>>
    BY <1>4 DEF vars, shared
  <2>2. TypeOK' /\ Distinct' /\ RowsAreSound'
    BY <2>1 DEF BronzeInv, TypeOK, Distinct, RowsAreSound, Entries
  <2>3. /\ CandidatesAreWhole' /\ NoMemberIsLost'
        /\ PointerNamesARecordedRun' /\ BoundFilesWereIngested'
    BY <2>1 DEF BronzeInv, CandidatesAreWhole, NoMemberIsLost, PointerNamesARecordedRun,
                BoundFilesWereIngested, Verified, IsCandidate, Entries
  <2>4. \A r \in Runs : Batch(run[r])'
    BY <2>1 DEF BronzeInv, Batch, Ingested, Entries
  <2>5. \A r \in Runs : Work(run[r])'
    BY <2>1 DEF BronzeInv, Work, AssetFor, Held, Entries
  <2> QED
    BY <2>2, <2>3, <2>4, <2>5 DEF BronzeInv
<1> QED
  BY <1>1, <1>2, <1>3, <1>4 DEF Next

(* The inductive invariant holds of every behaviour.                       *)
LEMMA BronzeCorrect == Spec => []BronzeInv
<1>1. BronzeInv /\ [Next]_vars => BronzeInv'
  BY BronzeInvStep
<1> QED
  BY BronzeInitially, <1>1, PTL DEF Spec

(* Every Silver candidate passes the verification of its artifacts, and    *)
(* the latest pointer names an entry with a manifest: the directories of   *)
(* runs that failed or run beside it never get in its way.                 *)
THEOREM BronzeIsConsistentCorrect == Spec => []BronzeIsConsistent
<1>1. BronzeInv => BronzeIsConsistent
  BY DEF BronzeInv, BronzeIsConsistent
<1> QED
  BY <1>1, BronzeCorrect, PTL

(* Leaving out the members the promoted archive has loses none of them,    *)
(* along any chain of promotions and partial extractions.                  *)
THEOREM NoMemberIsLostCorrect == Spec => []NoMemberIsLost
<1>1. BronzeInv => NoMemberIsLost
  BY DEF BronzeInv
<1> QED
  BY <1>1, BronzeCorrect, PTL

(* A capture is bound only to files of its own content that were ingested  *)
(* to the end.                                                             *)
THEOREM BoundFilesWereIngestedCorrect == Spec => []BoundFilesWereIngested
<1>1. BronzeInv => BoundFilesWereIngested
  BY DEF BronzeInv
<1> QED
  BY <1>1, BronzeCorrect, PTL

LEMMA BindingKept ==
    ASSUME BronzeInv, [Next]_vars, NEW p \in Places, bound[p] # None
    PROVE  bound'[p] = bound[p]
<1>1. CASE UNCHANGED bound
  BY <1>1
<1>2. ASSUME NEW r \in Runs, Bind(r)  PROVE bound'[p] = bound[p]
  <2> DEFINE mine == {q \in Places : q[1] = run[r].capture}
  <2>1. CASE \A q \in mine : bound[q] \in {None, run[r].results[q[2]]}
    <3>1. bound' = [q \in Places |-> IF q \in mine THEN run[r].results[q[2]] ELSE bound[q]]
      BY <1>2, <2>1 DEF Bind
    <3>2. bound'[p] = IF p \in mine THEN run[r].results[p[2]] ELSE bound[p]
      BY <3>1
    <3> QED
      BY <2>1, <3>2
  <2>2. CASE ~ \A q \in mine : bound[q] \in {None, run[r].results[q[2]]}
    BY <1>2, <2>2 DEF Bind
  <2> QED
    BY <2>1, <2>2
<1>3. ASSUME NEW r \in Runs, Step(r) \/ Fail(r), ~ Bind(r)  PROVE UNCHANGED bound
  BY <1>3 DEF Step, Fail, shared, Fingerprint, FingerprintBatch, Prepare, CheckKnown, Register,
              Select, Write, Record, UpdateLatestPointer, GiveUp
<1>4. ASSUME NEW r \in Runs, NEW c \in Captures, Begin(r, c)  PROVE UNCHANGED bound
  BY <1>4 DEF Begin, shared
<1>5. ASSUME NEW i \in Entries, Promote(i)  PROVE UNCHANGED bound
  BY <1>5 DEF Promote
<1> QED
  BY <1>1, <1>2, <1>3, <1>4, <1>5 DEF Next, vars, shared

(* A binding is never changed, however many runs ingest the capture.       *)
THEOREM BindingsAreImmutableCorrect == Spec => BindingsAreImmutable
<1>1. BronzeInv /\ [Next]_vars =>
          [\A p \in Places : bound[p] # None => bound'[p] = bound[p]]_vars
  BY BindingKept
<1> QED
  BY <1>1, BronzeCorrect, PTL DEF Spec, BindingsAreImmutable
=============================================================================
