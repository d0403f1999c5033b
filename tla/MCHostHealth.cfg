SPECIFICATION HealthSpec
CONSTANTS
    Symbols = {a}
    Host = host
    Subs = {host}
    Buffer = 1
    InboxSize = 1
    MaxTime = 2
    Minute = 1
    PricingOn = TRUE
    GapInspector = FALSE
    MaxResets = 1
    ActionableAfter = 2
    WarmupBars = 1
INVARIANT UnavailableMeansFailed
CHECK_DEADLOCK FALSE
