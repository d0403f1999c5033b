SPECIFICATION Spec
CONSTANTS
    Symbols = {a}
    Host = host
    Subs = {host}
    Buffer = 1
    InboxSize = 1
    MaxTime = 3
    Minute = 1
    PricingOn = TRUE
    GapInspector = FALSE
    MaxResets = 0
PROPERTY CommittedEventKept
CHECK_DEADLOCK FALSE
