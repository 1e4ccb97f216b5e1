SPECIFICATION FairDlqSpec
CONSTANTS
    r1 = r1
    h1 = h1
    h2 = h2
    Runs = {r1}
    Statuses = {"Succeeded"}
    Forms = {"canonical", "aliased", "malformed"}
    Handlers = {h1, h2}
    NoMsg = NoMsg
    MaxCrashes = 1
    MaxDeliveries = 2
    MaxFaults = 2
CHECK_DEADLOCK FALSE
INVARIANTS
    DlqTypeOK
    ClaimIsExclusive
    EventRaisedOnce
    NoRunIsLost
PROPERTIES
    EveryRunIsClaimed
