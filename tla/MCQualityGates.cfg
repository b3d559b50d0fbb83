SPECIFICATION
    GatesSpec
CONSTANTS
    Jobs = {r1}
    Published <- MCPublished
    Numeric <- MCNumeric
    Values <- MCValues
    Null = Null
    CurrentYear = CurrentYear
    Year = 1
    Rules <- MCRules
    Configs <- MCConfigs
    Files <- MCFiles
    Outputs <- MCOutputs
    Inputs <- MCInputs
    Tables <- MCTables
    Saved <- MCSaved
    MaxStoreFaults = 1
INVARIANTS
    GatesAreSound
    EvidenceIsTrue
CHECK_DEADLOCK
    FALSE
