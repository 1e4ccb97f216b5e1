SPECIFICATION Spec
CONSTANTS
    a1 = a1
    a2 = a2
    h1 = h1
    h2 = h2
    Apps = {a1, a2}
    CvApps <- TwoCvs
    RunCount = 1
    Statuses = {"Succeeded", "Failed"}
    Handlers = {h1, h2}
    NoMsg = NoMsg
    Open = Open
    MaxRestarts = 0
    MaxCrashes = 1
    MaxRepeats = 1
SYMMETRY HandlerSymmetry
CHECK_DEADLOCK FALSE
INVARIANTS
    TypeOK
    ResultsAreRoutable
    HandoffIsAuthoritative

PROPERTIES
    OrchestratorSpec
    IntakeSpec
    ImplementsScoringBatch
