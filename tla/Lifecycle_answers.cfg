SPECIFICATION FairSpec
CONSTANTS
    c1 = c1
    c2 = c2
    p1 = p1
    p2 = p2
    Calls <- TwoCalls
    Payloads <- TwoPayloads
    MaxCalls = 4
    MaxPurges = 1
INVARIANTS
    TypeOK
    AcceptedIsStarted
    OneVerdict
    
    CompletedHasHandoff
PROPERTIES
    CancelEndsBatch
CHECK_DEADLOCK FALSE
