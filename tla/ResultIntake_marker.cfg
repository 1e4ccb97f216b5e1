SPECIFICATION Spec
CONSTANTS
    r1 = r1
    r2 = r2
    h1 = h1
    h2 = h2
    Runs = {r1}
    Statuses = {"Succeeded", "Failed"}
    Forms = {"canonical"}
    Handlers = {h1, h2}
    NoMsg = NoMsg
    MaxCrashes = 1
CHECK_DEADLOCK FALSE
INVARIANT MarkerMeansProcessed
