SPECIFICATION Spec
CONSTANTS
    Symbols = {a}
    Host = host
    Subs = {host}
    Buffer = 1
    InboxSize = 1
    MaxTime = 2
    Minute = 1
    PricingOn = TRUE
    GapInspector = FALSE
    MaxResets = 1
INVARIANT ResetEndsLatch
CHECK_DEADLOCK FALSE
