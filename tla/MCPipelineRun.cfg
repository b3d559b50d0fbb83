SPECIFICATION
    RunSpec
CONSTANTS
    Pipelines <- MCPipelines
    Actions <- MCActions
    MaxFailures = 2
    Nothing = Nothing
INVARIANTS
    CauseIsReported
    RecordsAreTrue
PROPERTIES
    RunEnds
CHECK_DEADLOCK
    FALSE
