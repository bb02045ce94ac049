SPECIFICATION FairSpec
CONSTANTS
    Call = {c1, c2}
    MaxToolCalls = 1
    MaxFaults = 2
    ApprovalEnabled = TRUE
INVARIANTS
    TypeOK
    CompletedHasFullTrail
    StreamTellsTheTrail
    CancellationLeavesNothingOpen
    BudgetHeldButForLost
PROPERTIES
    ImplementsAuditTrail
    DiagnoseReturns
CHECK_DEADLOCK FALSE
