SPECIFICATION FairSpec
CONSTANTS
    Symbols = {a}
    MaxCalls = 1
    MaxFills = 1
INVARIANTS TypeOK
PROPERTIES StaleGateCloses BreakerFollowsFeed GateOpens
CHECK_DEADLOCK FALSE
