SPECIFICATION FairSpec
CONSTANTS
    Symbols = {a}
    Host = host
    Subs = {host}
    Buffer = 1
    InboxSize = 1
    MaxTime = 3
    Minute = 1
    PricingOn = FALSE
    GapInspector = FALSE
    MaxResets = 0
PROPERTIES EveryBarAnswered PathLatchMirrored ShutdownCompletes
CHECK_DEADLOCK FALSE
