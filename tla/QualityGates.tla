---------------------------- MODULE QualityGates ----------------------------
(***************************************************************************)
(* The quality gates of a pipeline: the checks each gate runs on a landed  *)
(* file, on Bronze output and on a Silver table before and after its       *)
(* transformation, the evidence each check leaves in                       *)
(* quality.quality_check_definitions and quality.quality_check_runs, and   *)
(* the verdict.  Every statement commits by itself; runs of one dataset    *)
(* share the definitions, which their own quality.yaml overwrites.         *)
(***************************************************************************)
EXTENDS QualityRules

CONSTANTS Jobs,           \* work on one dataset: a landed file or a Silver table each
          Configs,        \* contents of quality.yaml for the table
          Files,          \* landed files, as their checks see them
          Outputs,        \* Bronze output of a file
          Inputs,         \* tables read from Bronze: their columns and rows
          Tables,         \* rows of a finished Silver table
          Saved,          \* sizes of the files it is saved to, one per format
          MaxStoreFaults  \* bound on statements that fail

ASSUME ConfigsAssumption == \A config \in Configs : config.columns \in Seq(Rules)
                                                  /\ config.when \in Seq(Rules)
ASSUME FilesAssumption ==
    Files \subseteq [suffix : {"csv", "zip", "xlsx"}, size : Nat, digest : BOOLEAN,
                     sound : BOOLEAN, members : Nat, sheet : {"none", "found", "missing"}]
ASSUME OutputsAssumption ==
    Outputs \subseteq [files : Seq(Nat), required : BOOLEAN,
                       extraction : {"none", "done", "failed"}]
ASSUME TablesAssumption == Tables \subseteq Seq([Published -> Values \cup {Null}])
ASSUME SavedAssumption == Saved \subseteq Seq(Nat) \ {<<>>}
ASSUME StoreAssumption == MaxStoreFaults \in Nat

VARIABLES state,        \* per job: where it is, its gate, what the gate looks at
          definitions,  \* quality_check_definitions: severity and value of a check id
          evidence,     \* quality_check_runs, in order of insertion
          storeFaults

gatesVars == <<state, definitions, evidence, storeFaults>>

Always == [c \in {} |-> Null]
Nothing == [kind |-> "true", low |-> 0, high |-> 0, set |-> {}]
Key(name) == [name |-> name, column |-> Null, rows |-> Always]
Verdict(passed) == IF passed THEN "passed" ELSE "failed"

(* A built-in check: blocking, with no value of its own.                   *)
BuiltIn(name, status) ==
    [key |-> Key(name), severity |-> "blocking", value |-> Nothing, status |-> status]

NoConfig == [unique |-> {}, columns |-> <<>>, when |-> <<>>]
NotBegun == [pc |-> "idle", gate |-> Null, config |-> NoConfig, subject |-> Null,
             checks |-> <<>>, results |-> <<>>]

GatesInit ==
    /\ state = [r \in Jobs |-> NotBegun]
    /\ definitions = [id \in {} |-> Nothing]
    /\ evidence = <<>>
    /\ storeFaults = 0

-----------------------------------------------------------------------------
(* Which checks a gate runs.                                               *)

(* A missing file has size 0.  Reading a sheet that is missing, or is in a *)
(* package that is not sound, raises.                                      *)
FileStatus(name, file) ==
    CASE name = "file_not_empty" -> Verdict(file.size > 0)
      [] name = "sha256_recorded" -> Verdict(file.digest)
      [] name = "payload_fingerprint_recorded" -> Verdict(file.members > 0)
      [] name \in {"zip_crc_valid", "xlsx_package_integrity"} -> Verdict(file.sound)
      [] name = "xlsx_has_data_rows" ->
            IF file.sound /\ file.sheet = "found" THEN Verdict(file.members > 0) ELSE "error"

LandedChecks(file) ==
    LET names == <<"file_not_empty", "sha256_recorded">>
                 \o (CASE file.suffix = "zip" ->
                            <<"zip_crc_valid", "payload_fingerprint_recorded">>
                       [] file.suffix = "xlsx" /\ file.sheet = "none" ->
                            <<"xlsx_package_integrity">>
                       [] file.suffix = "xlsx" /\ file.sheet # "none" ->
                            <<"xlsx_package_integrity", "xlsx_has_data_rows">>
                       [] OTHER -> <<>>)
    IN  [i \in DOMAIN names |-> BuiltIn(names[i], FileStatus(names[i], file))]

(* Sizes of the files, 0 for one that is missing or empty.                 *)
FilesCreated(files, required) ==
    BuiltIn("output_files_created",
            IF ~required THEN "skipped"
            ELSE Verdict(Len(files) > 0 /\ \A i \in DOMAIN files : files[i] > 0))

BronzeChecks(output) ==
    <<FilesCreated(output.files, output.required)>>
    \o (IF output.extraction = "none" THEN <<>>
        ELSE <<BuiltIn("bronze_extraction_completed", Verdict(output.extraction = "done"))>>)

ColumnsMatch(columns, extra) ==
    BuiltIn("columns_match",
            Verdict(Published \subseteq columns /\ (extra \/ columns \subseteq Published)))

InputChecks(input) ==
    <<BuiltIn("has_rows", Verdict(input.rows # <<>>)), ColumnsMatch(input.columns, TRUE)>>

(* The rules of columns come before those of the when blocks.              *)
OutputChecks(config, table) ==
    LET entries == Entries(config)
    IN  <<BuiltIn("has_rows", Verdict(table.rows # <<>>)),
          ColumnsMatch(table.columns, FALSE),
          FilesCreated(table.files, TRUE)>>
        \o (IF config.unique = {} THEN <<>>
            ELSE <<BuiltIn("unique", Verdict(Unrepeated(table.rows, config.unique)))>>)
        \o [i \in DOMAIN entries |-> ColumnCheck(table.rows, entries[i])]

-----------------------------------------------------------------------------
(* Work that reaches a gate.                                               *)

Open(r, gate, config, subject, checks) ==
    state' = [state EXCEPT ![r] = [pc |-> "check", gate |-> gate, config |-> config,
                                   subject |-> subject, checks |-> checks,
                                   results |-> <<>>]]

Kept == UNCHANGED <<definitions, evidence, storeFaults>>

LandFile(r, file) ==
    /\ state[r].pc = "idle"
    /\ Open(r, "pre_bronze", NoConfig, file, LandedChecks(file))
    /\ Kept

WriteBronze(r, output) ==
    /\ state[r].pc = "passed" /\ state[r].gate = "pre_bronze"
    /\ Open(r, "post_bronze", NoConfig, output, BronzeChecks(output))
    /\ Kept

(* Composition loads and validates quality.yaml before anything runs.      *)
Configure(r, config) ==
    /\ state[r].pc = "idle"
    /\ state' = [state EXCEPT ![r].pc = IF Loads(config) /\ Valid(config)
                                        THEN "configured" ELSE "refused",
                              ![r].config = config]
    /\ Kept

ReadInput(r, input) ==
    /\ state[r].pc = "configured"
    /\ Open(r, "pre_silver", state[r].config, input, InputChecks(input))
    /\ Kept

(* The transformation selects the published columns; then files are saved. *)
Transform(r, rows, files) ==
    /\ state[r].pc = "passed" /\ state[r].gate = "pre_silver"
    /\ LET table == [columns |-> Published, rows |-> rows, files |-> files]
       IN  Open(r, "post_silver", state[r].config, table,
                OutputChecks(state[r].config, table))
    /\ Kept

-----------------------------------------------------------------------------
(* _run_gate: per check a definition, then a row that copies from it.      *)

Current(r) == state[r].checks[Len(state[r].results) + 1]
CheckId(r) == <<state[r].gate, Current(r).key>>

DefinitionUpserted(r) ==
    definitions' = [id \in DOMAIN definitions \cup {CheckId(r)} |->
                      IF id = CheckId(r)
                      THEN [severity |-> Current(r).severity, value |-> Current(r).value]
                      ELSE definitions[id]]

UpsertDefinition(r) ==
    /\ state[r].pc = "check"
    /\ DefinitionUpserted(r)
    /\ state' = [state EXCEPT ![r].pc = "insert"]
    /\ UNCHANGED <<evidence, storeFaults>>

RunInserted(r) ==
    evidence' = Append(evidence, [job |-> r, id |-> CheckId(r), status |-> Current(r).status,
                                  severity |-> definitions[CheckId(r)].severity])

(* A gate fails when a blocking check failed or raised.                    *)
Blocked(results) ==
    \E i \in DOMAIN results :
        results[i].status \in {"failed", "error"} /\ results[i].severity = "blocking"

(* Fault: the gate ends with the first check that blocks. *)
InsertRunEarly(r) ==
    /\ state[r].pc = "insert" /\ CheckId(r) \in DOMAIN definitions
    /\ RunInserted(r)
    /\ LET results == Append(state[r].results, Current(r))
       IN  state' = [state EXCEPT ![r].results = results,
                 ![r].pc = IF Blocked(results) THEN "blocked"
                           ELSE IF Len(results) < Len(state[r].checks) THEN "check"
                           ELSE "passed"]
    /\ UNCHANGED <<definitions, storeFaults>>

InsertRun(r) ==
    /\ state[r].pc = "insert" /\ CheckId(r) \in DOMAIN definitions
    /\ RunInserted(r)
    /\ LET results == Append(state[r].results, Current(r))
       IN  state' = [state EXCEPT ![r].results = results,
                 ![r].pc = IF Len(results) < Len(state[r].checks) THEN "check"
                           ELSE IF Blocked(results) THEN "blocked" ELSE "passed"]
    /\ UNCHANGED <<definitions, storeFaults>>

(* A statement fails and its exception leaves the gate: the work fails     *)
(* without a verdict, its last row perhaps written all the same.           *)
StoreFails(r) ==
    /\ storeFaults < MaxStoreFaults /\ storeFaults' = storeFaults + 1
    /\ state[r].pc \in {"check", "insert"}
    /\ state' = [state EXCEPT ![r].pc = "failed"]
    /\ \/ UNCHANGED <<definitions, evidence>>
       \/ state[r].pc = "check" /\ DefinitionUpserted(r) /\ UNCHANGED evidence
       \/ state[r].pc = "insert" /\ CheckId(r) \in DOMAIN definitions
          /\ RunInserted(r) /\ UNCHANGED definitions

GatesNext ==
    \E r \in Jobs :
        \/ \E file \in Files : LandFile(r, file)
        \/ \E output \in Outputs : WriteBronze(r, output)
        \/ \E config \in Configs : Configure(r, config)
        \/ \E input \in Inputs : ReadInput(r, input)
        \/ \E rows \in Tables, files \in Saved : Transform(r, rows, files)
        \/ UpsertDefinition(r)
        \/ InsertRun(r)
        \/ StoreFails(r)

GatesSpec == GatesInit /\ [][GatesNext]_gatesVars

-----------------------------------------------------------------------------
Statuses == {"passed", "failed", "error", "skipped"}
Ended == {"passed", "blocked"}
At(r, gate) == state[r].pc \in Ended /\ state[r].gate = gate

(* Shape of the state: results are of the checks begun, rows of evidence   *)
(* point at a definition (quality_check_runs has a foreign key).           *)
GatesTypeOK ==
    /\ storeFaults \in 0 .. MaxStoreFaults
    /\ \A r \in Jobs :
          /\ state[r].pc \in {"idle", "configured", "refused", "check", "insert", "failed"}
                                \cup Ended
          /\ state[r].results = SubSeq(state[r].checks, 1, Len(state[r].results))
          /\ state[r].pc \in {"check", "insert"} => Len(state[r].results) < Len(state[r].checks)
    /\ \A i \in DOMAIN evidence :
          /\ evidence[i].job \in Jobs /\ evidence[i].status \in Statuses
          /\ evidence[i].severity \in Severities /\ evidence[i].id \in DOMAIN definitions

(* A file that passes the gate before Bronze is there, fingerprinted, not  *)
(* corrupted and, where a sheet is read, not without rows; Bronze output   *)
(* that was required exists and came from a complete extraction            *)
(* (check_landed_file, check_bronze_output and _summarize).                *)
BronzeGatesKeepOut ==
    \A r \in Jobs : state[r].pc = "passed" =>
        LET s == state[r].subject
        IN  CASE state[r].gate = "pre_bronze" ->
                   /\ s.size > 0 /\ s.digest /\ (s.suffix \in {"zip", "xlsx"} => s.sound)
                   /\ s.suffix = "zip" \/ (s.suffix = "xlsx" /\ s.sheet # "none") => s.members > 0
                   /\ s.suffix = "xlsx" => s.sheet # "missing"
              [] state[r].gate = "post_bronze" ->
                   /\ s.required => s.files # <<>> /\ \A i \in DOMAIN s.files : s.files[i] > 0
                   /\ s.extraction # "failed"
              [] OTHER -> TRUE

Broken(config, rows, severities) ==
    {i \in DOMAIN Entries(config) :
        /\ ParseRule(Entries(config)[i].item).severity \in severities
        /\ ~Keeps(rows, Entries(config)[i])}

(* A Silver table passes its gate exactly when it has rows and files, its  *)
(* rows are unique as configured, and every blocking rule of the run's own *)
(* quality.yaml permits every value it concerns: missing values, rows      *)
(* outside a condition, rules that only warn and the definitions other     *)
(* runs write make no difference (check_silver_output, checks/tables.py).  *)
SilverGateIsExact ==
    \A r \in Jobs : At(r, "post_silver") =>
        LET rows == state[r].subject.rows
            config == state[r].config
        IN  state[r].pc = "passed" <=>
                /\ rows # <<>>
                /\ \A i \in DOMAIN state[r].subject.files : state[r].subject.files[i] > 0
                /\ config.unique # {} =>
                      Cardinality({[c \in config.unique |-> rows[i][c]] : i \in DOMAIN rows})
                          = Len(rows)
                /\ Broken(config, rows, {"blocking"}) = {}

(* What the workspace validation accepts can be checked: no rule of an     *)
(* accepted quality.yaml raises at the gate, where the exception would     *)
(* block every table (validate_quality_config, _parse_rule, _run_gate).    *)
AcceptedRulesRun ==
    \A r \in Jobs : state[r].gate = "post_silver" =>
        \A i \in DOMAIN state[r].results : state[r].results[i].status # "error"

(* The rows of evidence of a job's gate, and which of them a row is.       *)
RowsOf(r) == {i \in DOMAIN evidence : evidence[i].job = r /\ evidence[i].id[1] = state[r].gate}
Place(r, i) == Cardinality({j \in RowsOf(r) : j <= i})

(* A gate that gave its verdict left one row of evidence per check, in     *)
(* order, with the status the check had, also after a check that blocked   *)
(* and for two rules with the same id; a gate that was cut short left rows *)
(* of its first checks (_run_gate, _record).                               *)
EvidenceComplete ==
    \A r \in Jobs :
        /\ Cardinality(RowsOf(r)) <= Len(state[r].checks)
        /\ \A i \in RowsOf(r) :
              LET check == state[r].checks[Place(r, i)]
              IN  evidence[i].id[2] = check.key /\ evidence[i].status = check.status
        /\ state[r].pc \in Ended => Cardinality(RowsOf(r)) = Len(state[r].checks)

(* The rows of evidence tell the verdict: a gate blocked exactly when they *)
(* hold a blocking check that failed or raised.  The severity in a row is  *)
(* the definition's at that moment (insert_quality_check_run).             *)
EvidenceTellsVerdict ==
    \A r \in Jobs : state[r].pc \in Ended =>
        (state[r].pc = "blocked" <=>
            \E i \in RowsOf(r) : /\ evidence[i].status \in {"failed", "error"}
                                 /\ evidence[i].severity = "blocking")

(* The gates let through what they should and nothing else, and what was   *)
(* accepted at start-up never stops a run at its gate.                     *)
GatesAreSound == GatesTypeOK /\ BronzeGatesKeepOut /\ SilverGateIsExact /\ AcceptedRulesRun

(* The evidence of a run that is alone with its definitions is complete    *)
(* and tells its verdict.                                                  *)
EvidenceIsTrue == EvidenceComplete /\ EvidenceTellsVerdict
=============================================================================
