----------------------------- MODULE PipelineRun -----------------------------
(***************************************************************************)
(* One pipeline run: its row in logs.pipeline_runs, the configured actions *)
(* executed in order after acquisition, and the nested run_step scopes     *)
(* that write step_started and step_finished receipts to                   *)
(* logs.execution_logs.  Every call uses one autocommit session; a call    *)
(* may fail, with or without having been applied.                          *)
(***************************************************************************)
EXTENDS Naturals, Sequences

CONSTANTS Pipelines,   \* configured action sequences
          Actions,     \* the actions that are registered
          MaxFailures, \* bound on failing calls and interrupted receipts
          Nothing

ASSUME PipelineAssumption == \A p \in Pipelines : p \in Seq(STRING)
ASSUME BoundAssumption == MaxFailures \in Nat

VARIABLES pipeline, forced,  \* what the run was asked for
          pc, todo,          \* where the run is; the rest of the current action
          begun, outcomes,   \* actions begun; outcomes recorded in the run state
          landed,            \* whether acquisition produced assets
          decided,           \* whether the last finalization committed its decision
          open,              \* the open steps, outermost first: indexes into log
          log,               \* logs.execution_logs
          row,               \* logs.pipeline_runs
          error, cause,      \* the exception in flight; what ended the work
          failures

request == <<pipeline, forced>>
runVars == <<pipeline, forced, pc, todo, begun, outcomes, landed, decided, open, log, row,
             error, cause, failures>>

Enter(s) == [op |-> "enter", step |-> s]
Leave == [op |-> "leave", step |-> Nothing]
Decide == [op |-> "decide", step |-> Nothing]

(* The steps each part of a run opens and closes, and where Silver commits *)
(* its publication decision.  An action without an entry is an extension's *)
(* that opens no step.                                                     *)
Script(a) ==
    CASE a = "acquisition" -> <<Enter("http_file_extraction"), Leave>>
      [] a = "bronze.ingest" -> <<Enter("ingest_and_stage"), Leave>>
      [] a = "documentation.bind" -> <<Enter("bind_documentation_assets"), Leave>>
      [] a = "silver.process" ->
            <<Enter("process_silver_queue"), Enter("build_table"), Leave,
              Enter("finalize_silver_build"), Decide, Leave,
              Enter("cleanup_silver_staging"), Leave, Leave>>
      [] OTHER -> <<>>

StepNames == {"http_file_extraction", "ingest_and_stage", "bind_documentation_assets",
              "process_silver_queue", "build_table", "finalize_silver_build",
              "cleanup_silver_staging"}

Error(kind, s) == [kind |-> kind, step |-> s]
Kinds == {"Exception", "Interrupt"}
Errors == [kind: Kinds, step: StepNames \cup {Nothing}]
ASSUME NothingAssumption ==
    Nothing \notin Errors \cup StepNames \cup {"running", "success", "failed"}

Ended == {"returned", "raised", "crashed"}

RunInit ==
    /\ pipeline \in Pipelines /\ forced \in BOOLEAN
    /\ pc = "new" /\ todo = <<>>
    /\ begun = 0 /\ outcomes = <<>> /\ landed = FALSE /\ decided = FALSE
    /\ open = <<>> /\ log = <<>>
    /\ row = [status |-> Nothing, error |-> Nothing]
    /\ error = Nothing /\ cause = Nothing /\ failures = 0

Top == IF open = <<>> THEN Nothing ELSE log[open[Len(open)]].step

Raise(e) == error' = e /\ cause' = e

(* A call on the session that fails: it may have been applied all the same *)
(* (the answer is lost), or not.                                           *)
Failing(applied, otherwise) ==
    /\ failures < MaxFailures
    /\ failures' = failures + 1
    /\ (applied \/ otherwise)

-----------------------------------------------------------------------------
(* open_pipeline_context: the workspace, the session and the schema version*)
(* are checked before there is a row.                                      *)
Open ==
    /\ pc = "new"
    /\ \/ pc' = "opened" /\ UNCHANGED <<error, cause>>
       \/ pc' = "raised" /\ Raise(Error("Exception", Nothing))
    /\ UNCHANGED <<request, todo, begun, outcomes, landed, decided, open, log, row, failures>>

(* start_pipeline_run inserts the row of the run, finish_pipeline_run      *)
(* replaces its outcome.                                                   *)
RunningRow == [status |-> "running", error |-> Nothing]
FinishedRow(status, e) == [status |-> status, error |-> e]

(* start_pipeline_run comes before the try block: a failure leaves no      *)
(* failed row.                                                             *)
Start ==
    /\ pc = "opened"
    /\ \/ /\ pc' = "resolve"
          /\ row' = RunningRow
          /\ UNCHANGED <<error, cause, failures>>
       \/ /\ Failing(row' = RunningRow, row' = row)
          /\ pc' = "raised"
          /\ Raise(Error("Exception", Nothing))
    /\ UNCHANGED <<request, todo, begun, outcomes, landed, decided, open, log>>

(* parse_pipeline_spec: a pipeline has steps.                              *)
WellFormed(p) == p # <<>>

Registered(a) == a \in Actions

(* Every action is resolved, with its options, before anything is acquired.*)
Resolve ==
    /\ pc = "resolve" /\ error = Nothing
    /\ IF WellFormed(pipeline) /\ \A i \in 1..Len(pipeline) : Registered(pipeline[i])
       THEN /\ pc' = "acquire" /\ todo' = Script("acquisition")
            /\ UNCHANGED <<error, cause>>
       ELSE Raise(Error("Exception", Nothing)) /\ UNCHANGED <<pc, todo>>
    /\ UNCHANGED <<request, begun, outcomes, landed, decided, open, log, row, failures>>

(* Without landed assets no action runs, unless a rebuild was requested.   *)
Acquired ==
    /\ pc = "acquire" /\ todo = <<>> /\ error = Nothing
    /\ \E found \in BOOLEAN :
         /\ landed' = found
         /\ pc' = IF found \/ forced THEN "act" ELSE "finish"
    /\ UNCHANGED <<request, todo, begun, outcomes, decided, open, log, row, error, cause,
                   failures>>

(* documentation.bind needs the Bronze batch of this run.                  *)
HasBatch(a) ==
    a = "documentation.bind" =>
        \E i \in 1..Len(outcomes) : outcomes[i] = <<"bronze.ingest", "completed">>

(* bronze.ingest needs landed assets.                                      *)
HasAssets(a) == a = "bronze.ingest" => landed

(* silver.process is skipped when the engine gate is shut.                 *)
MaySkip(a) == a = "silver.process"

(* The next action finds its input, or raises.                             *)
BeginAction ==
    /\ pc = "act" /\ error = Nothing
    /\ begun = Len(outcomes) /\ begun < Len(pipeline)
    /\ LET a == pipeline[begun + 1]
       IN  /\ begun' = begun + 1
           /\ decided' = FALSE
           /\ \/ /\ ~(HasAssets(a) /\ HasBatch(a))
                 /\ Raise(Error("Exception", Nothing))
                 /\ UNCHANGED <<todo, outcomes>>
              \/ /\ HasAssets(a) /\ HasBatch(a)
                 /\ todo' = Script(a)
                 /\ UNCHANGED <<outcomes, error, cause>>
              \/ /\ MaySkip(a)
                 /\ outcomes' = Append(outcomes, <<a, "skipped">>)
                 /\ UNCHANGED <<todo, error, cause>>
    /\ UNCHANGED <<request, pc, landed, open, log, row, failures>>

EndAction ==
    /\ pc = "act" /\ error = Nothing
    /\ todo = <<>> /\ begun > Len(outcomes)
    /\ outcomes' = Append(outcomes, <<pipeline[begun], "completed">>)
    /\ UNCHANGED <<request, pc, todo, begun, landed, decided, open, log, row, error, cause,
                   failures>>

ActionsDone ==
    /\ pc = "act" /\ error = Nothing
    /\ Len(outcomes) = Len(pipeline)
    /\ pc' = "finish"
    /\ UNCHANGED <<request, todo, begun, outcomes, landed, decided, open, log, row, error, cause,
                   failures>>

-----------------------------------------------------------------------------
Working == pc \in {"resolve", "acquire", "act"}
Undisturbed == todo # <<>> /\ error = Nothing /\ Working

Started(s) == [step |-> s, of |-> 0, status |-> "started"]
Finished(i, status) == [step |-> log[i].step, of |-> i, status |-> status]

(* What follows the next end of a step in the script.                      *)
AfterLeave(ops) ==
    LET leave == CHOOSE i \in 1..Len(ops) :
                    ops[i] = Leave /\ \A j \in 1..(i - 1) : ops[j] # Leave
    IN  SubSeq(ops, leave + 1, Len(ops))

(* Fault: a failed finalization receipt fails the run.                     *)
ShieldedCleanup(s, e) == e.kind = "Exception" /\ s = "cleanup_silver_staging"

(* Staging cleanup, and finalization once its decision is committed, turn  *)
(* an exception into a warning.                                            *)
Shielded(s, e) ==
    /\ e.kind = "Exception"
    /\ s = "cleanup_silver_staging" \/ (s = "finalize_silver_build" /\ decided)

(* Exception e leaves the scope of step s; rest follows the scope.         *)
Escape(s, e, rest) ==
    IF Shielded(s, e)
    THEN error' = Nothing /\ cause' = Nothing /\ todo' = rest
    ELSE error' = e /\ todo' = <<>> /\ cause' = (IF cause = Nothing THEN e ELSE cause)

(* run_step begins: step_started is written before the try block, so a     *)
(* step that fails to start has no step_finished.                          *)
EnterStep ==
    /\ Undisturbed /\ Head(todo).op = "enter"
    /\ LET s == Head(todo).step
       IN  \/ /\ log' = Append(log, Started(s))
              /\ open' = Append(open, Len(log) + 1)
              /\ todo' = Tail(todo)
              /\ UNCHANGED <<error, cause, failures>>
           \/ /\ Failing(log' = Append(log, Started(s)), log' = log)
              /\ open' = open
              /\ Escape(s, Error("Exception", s), AfterLeave(todo))
    /\ UNCHANGED <<request, pc, begun, outcomes, landed, decided, row>>

(* The decision transaction commits.                                       *)
CommitDecision ==
    /\ Undisturbed /\ Head(todo).op = "decide"
    /\ decided' = TRUE
    /\ todo' = Tail(todo)
    /\ UNCHANGED <<request, pc, begun, outcomes, landed, open, log, row, error, cause,
                   failures>>

(* The body of the innermost step ends well: step_finished with success; a *)
(* failure to write it is the step's failure.                              *)
LeaveStep ==
    /\ Undisturbed /\ Head(todo).op = "leave"
    /\ LET i == open[Len(open)]
       IN  /\ \/ /\ log' = Append(log, Finished(i, "success"))
                 /\ todo' = Tail(todo)
                 /\ UNCHANGED <<error, cause, failures>>
              \/ /\ Failing(log' = Append(log, Finished(i, "success")), log' = log)
                 /\ Escape(log[i].step, Error("Exception", log[i].step), Tail(todo))
           /\ open' = SubSeq(open, 1, Len(open) - 1)
    /\ UNCHANGED <<request, pc, begun, outcomes, landed, decided, row>>

(* The work itself raises, within a step or between steps: an error, or    *)
(* the operator's interrupt.                                               *)
Fail ==
    /\ Working /\ error = Nothing
    /\ \E kind \in Kinds : Raise(Error(kind, Top))
    /\ UNCHANGED <<request, pc, todo, begun, outcomes, landed, decided, open, log, row,
                   failures>>

StatusOf(e) == IF e.kind = "Exception" THEN "failed" ELSE "interrupted"

(* Fault: a step_finished that cannot be written replaces the error.       *)
UnwindLosing ==
    /\ Working /\ error # Nothing /\ open # <<>>
    /\ LET i == open[Len(open)]
           lost == Error("Exception", log[i].step)
       IN  /\ \/ /\ log' = Append(log, Finished(i, StatusOf(error)))
                 /\ failures' = failures
                 /\ Escape(log[i].step, error, IF todo = <<>> THEN <<>> ELSE AfterLeave(todo))
              \/ /\ Failing(log' = Append(log, Finished(i, StatusOf(error))), log' = log)
                 /\ error' = lost /\ todo' = <<>> /\ cause' = cause
           /\ open' = SubSeq(open, 1, Len(open) - 1)
    /\ UNCHANGED <<request, pc, begun, outcomes, landed, decided, row>>

(* The exception leaves the innermost step, whose step_finished is written *)
(* if possible: a failure to write it must not replace the exception.      *)
Unwind ==
    /\ Working /\ error # Nothing /\ open # <<>>
    /\ LET i == open[Len(open)]
       IN  /\ \/ log' = Append(log, Finished(i, StatusOf(error))) /\ failures' = failures
              \/ Failing(log' = Append(log, Finished(i, StatusOf(error))), log' = log)
           /\ Escape(log[i].step, error, IF todo = <<>> THEN <<>> ELSE AfterLeave(todo))
           /\ open' = SubSeq(open, 1, Len(open) - 1)
    /\ UNCHANGED <<request, pc, begun, outcomes, landed, decided, row>>

(* The operator interrupts the writing of step_finished: no handler for    *)
(* Exception sees it, and it takes the place of the exception in flight.   *)
InterruptUnwind ==
    /\ Working /\ error # Nothing /\ open # <<>>
    /\ Failing(TRUE, FALSE)
    /\ Raise(Error("Interrupt", Top))
    /\ todo' = <<>>
    /\ open' = SubSeq(open, 1, Len(open) - 1)
    /\ UNCHANGED <<request, pc, begun, outcomes, landed, decided, log, row>>

-----------------------------------------------------------------------------
(* Fault: the run waits until its failure is recorded.                     *)
FinishFailedWaiting ==
    /\ Working /\ error # Nothing /\ open = <<>> /\ failures = 0
    /\ row' = FinishedRow("failed", error)
    /\ pc' = "raised"
    /\ UNCHANGED <<request, todo, begun, outcomes, landed, decided, open, log, error,
                   cause, failures>>

(* The exception reaches pipeline_run, which records it if it can.         *)
FinishFailed ==
    /\ Working /\ error # Nothing /\ open = <<>>
    /\ LET failed == FinishedRow("failed", error)
       IN  \/ row' = failed /\ failures' = failures
           \/ Failing(row' = failed, row' = row)
    /\ pc' = "raised"
    /\ UNCHANGED <<request, todo, begun, outcomes, landed, decided, open, log, error, cause>>

(* Success is recorded in the else branch: a failure there is raised, and  *)
(* the row is not marked failed.                                           *)
FinishSuccess ==
    /\ pc = "finish"
    /\ \/ /\ row' = FinishedRow("success", Nothing)
          /\ pc' = "returned"
          /\ UNCHANGED <<error, cause, failures>>
       \/ /\ Failing(row' = FinishedRow("success", Nothing), row' = row)
          /\ pc' = "raised"
          /\ Raise(Error("Exception", Nothing))
    /\ UNCHANGED <<request, todo, begun, outcomes, landed, decided, open, log>>

(* The process dies: nothing is written any more.                          *)
Die ==
    /\ pc \notin Ended
    /\ pc' = "crashed"
    /\ UNCHANGED <<request, todo, begun, outcomes, landed, decided, open, log, row, error, cause,
                   failures>>

Steps == \/ Open \/ Start \/ Resolve \/ Acquired \/ BeginAction \/ EndAction \/ ActionsDone
         \/ EnterStep \/ CommitDecision \/ LeaveStep \/ Unwind \/ FinishFailed \/ FinishSuccess

RunNext == Steps \/ Fail \/ InterruptUnwind \/ Die

(* A run that does not die goes on.                                        *)
Fairness == WF_runVars(Steps)
RunSpec == RunInit /\ [][RunNext]_runVars /\ Fairness

-----------------------------------------------------------------------------
(* Types of the variables.                                                 *)
RunTypeOK ==
    /\ pc \in {"new", "opened", "resolve", "acquire", "act", "finish"} \cup Ended
    /\ begun \in {Len(outcomes), Len(outcomes) + 1} /\ begun <= Len(pipeline)
    /\ \A i \in 1..Len(outcomes) : outcomes[i] \in {pipeline[i]} \X {"completed", "skipped"}
    /\ landed \in BOOLEAN /\ decided \in BOOLEAN /\ failures \in 0..MaxFailures
    /\ \A i \in 1..Len(open) : open[i] \in 1..Len(log)
    /\ \A i \in 1..Len(log) : log[i].of < i
    /\ row.status \in {Nothing, "running", "success", "failed"}
    /\ {error, cause, row.error} \subseteq Errors \cup {Nothing}

(* Whatever else fails on the way out, the exception the caller gets, and  *)
(* the one in the run's row, is what ended the work (run_step's finally,   *)
(* pipeline_run's except).                                                 *)
CauseIsReported ==
    /\ pc = "raised" => error = cause /\ cause # Nothing
    /\ row.status = "failed" => row.error = cause

Closing(i) == {j \in 1..Len(log) : log[j].of = i}
Begins == {i \in 1..Len(log) : log[i].of = 0}
MayWarn(s) == s \in {"cleanup_silver_staging", "finalize_silver_build"}

(* A run that returns is recorded as a success, and a success means that   *)
(* every configured action has its outcome in order (or there was nothing  *)
(* to do) and every step outside the two that may only warn succeeded.     *)
SuccessIsWhole ==
    /\ pc = "returned" => row.status = "success"
    /\ row.status = "success" =>
        /\ Len(outcomes) = IF landed \/ forced THEN Len(pipeline) ELSE 0
        /\ \A i \in 1..Len(outcomes) :
              outcomes[i][1] = "documentation.bind" =>
                  \E j \in 1..(i - 1) : outcomes[j] = <<"bronze.ingest", "completed">>
        /\ \A i \in Begins : ~MayWarn(log[i].step) =>
              \E j \in Closing(i) : log[j].status = "success"

(* A run that ended with every call answered left nothing open: its row is *)
(* finished, every step is closed once, inner steps before outer ones, and *)
(* a step that failed did not leave its enclosing step a success.          *)
EndedRunIsRecorded ==
    pc \in {"returned", "raised"} /\ failures = 0 /\ row.status # Nothing =>
        /\ row.status \in {"success", "failed"}
        /\ \A i \in Begins : \E j \in Closing(i) :
              /\ Closing(i) = {j}
              /\ \A inner \in Begins \cap (i + 1)..(j - 1) : \E k \in Closing(inner) :
                    /\ k < j
                    /\ log[k].status # "success" /\ log[j].status = "success" =>
                          MayWarn(log[inner].step)

(* Once the publication decision is committed, a failure to write the      *)
(* receipts of its finalization does not fail the run: the caller would    *)
(* take the build for unfinished.                                          *)
DecisionOutlivesReceipt ==
    pc = "raised" /\ decided =>
        error.step # "finalize_silver_build" \/ error.kind = "Interrupt"

(* What is recorded about a run is true, while it runs and when it ended.  *)
RecordsAreTrue ==
    RunTypeOK /\ SuccessIsWhole /\ EndedRunIsRecorded /\ DecisionOutlivesReceipt

(* A run ends: it returns, raises or dies.                                 *)
RunEnds == <>(pc \in Ended)
=============================================================================
