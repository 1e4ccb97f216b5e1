SPECIFICATION Spec
CONSTANTS
    a1 = a1
    a2 = a2
    Apps = {a1, a2}
    CvApps <- OneCv
    RunCount = 1
    Statuses = {"Succeeded", "Partial"}
    MaxRaises = 1
    MaxRestarts = 0
CHECK_DEADLOCK FALSE
INVARIANTS
    CompletedIsWhole
