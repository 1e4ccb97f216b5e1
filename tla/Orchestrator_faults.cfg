SPECIFICATION FinalSpec
CONSTANTS
    a1 = a1
    Apps = {a1}
    CvApps <- ThreeCvs
    RunCount = 1
    Statuses = {"Succeeded", "Failed"}
    MaxRaises = 3
    MaxRestarts = 1
    Outputs <- Docs
    MaxExecutions = 2
    MaxDisturbances = 1
CHECK_DEADLOCK FALSE
INVARIANTS
    FinalTypeOK
    IndexBeforeMessage
    DocumentIsLedger
    AggregateIsOfLedger
    HandoffAgrees
PROPERTIES
    TerminalRunIsFinal
    
    ImplementsOrchestrator
