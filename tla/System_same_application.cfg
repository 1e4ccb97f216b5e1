SPECIFICATION FairSpec
CONSTANTS
    a1 = a1
    a2 = a2
    h1 = h1
    h2 = h2
    Apps = {a1, a2}
    CvApps <- SameCvs
    RunCount = 1
    Statuses = {"Succeeded"}
    Handlers = {h1, h2}
    NoMsg = NoMsg
    Open = Open
    MaxRestarts = 0
    MaxCrashes = 0
    MaxRepeats = 0
CHECK_DEADLOCK FALSE
PROPERTIES
    BatchEnds
