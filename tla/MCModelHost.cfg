SPECIFICATION Spec
CONSTANTS
    Symbols = {a}
    Host = host
    Subs = {host}
    Buffer = 1
    InboxSize = 1
    MaxTime = 3
    Minute = 1
    PricingOn = TRUE
    GapInspector = TRUE
    MaxResets = 1
INVARIANTS TypeOK NoSilentGap  CommitsInOrder VolumeCoversModel VolumeSequenceExact 
CHECK_DEADLOCK FALSE
