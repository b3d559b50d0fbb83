SPECIFICATION FairSpec
CONSTANTS
    None = None
    Releases = {e1, e2}
    Operators = {o1, o2}
    Runs = {r1}
    MaxFaults = 1
INVARIANTS
    GovernanceIsConsistent
    ApprovalIsNeverRefused
    ProductionIsReviewed
PROPERTIES
    ApprovalIsContinuous
    ApprovalsEnd
