SPECIFICATION Spec
CONSTANTS
    a1 = a1
    a2 = a2
    Apps = {a1, a2}
    CvApps <- TwoCvs
    RunCount = 2
    Statuses = {"Succeeded", "Failed"}
    MaxRaises = 1
    MaxRestarts = 1
CHECK_DEADLOCK FALSE
INVARIANTS
    TypeOK
    CountersMatchLedger
    SequencesAgree
    EmittedAreTerminal
    CompletedIsWhole
