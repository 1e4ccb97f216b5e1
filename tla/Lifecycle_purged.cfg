SPECIFICATION Spec
CONSTANTS
    c1 = c1
    c2 = c2
    p1 = p1
    p2 = p2
    Calls <- OneCall
    Payloads <- OnePayload
    MaxCalls = 4
    MaxPurges = 1
INVARIANTS
    VerdictOutlivesPurge
CHECK_DEADLOCK FALSE
