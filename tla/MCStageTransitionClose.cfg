SPECIFICATION HubSpec
CONSTANTS
    Callers = {g1, g2}
    Stages = {"P02_INGESTION", "P03_ADAPTIVE"}
    Symbols = {a}
    Global = global
    States = {x, y}
    Absent = absent
    NoEvent = noEvent
    Subs = {txt}
    Buffer = 1
    MaxEvents = 1
INVARIANT ConcurrentSafe
CHECK_DEADLOCK FALSE
