SPECIFICATION Spec
CONSTANTS
    c1 = c1
    c2 = c2
    p1 = p1
    p2 = p2
    Calls <- OneCall
    Payloads <- OnePayload
    MaxCalls = 2
    MaxPurges = 0
INVARIANTS
    CompletedIsShown
CHECK_DEADLOCK FALSE
