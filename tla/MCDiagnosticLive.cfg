SPECIFICATION FairSpec
CONSTANTS
    Callers = {g1}
    Stages = {"P02_INGESTION"}
    Symbols = {a}
    Global = global
    States = {x, y}
    Absent = absent
    NoEvent = noEvent
    Subs = {diag, snap}
    Buffer = 1
    MaxEvents = 2
    Diag = diag
    NoFooter = noFooter
    MaxErrors = 0
PROPERTY CloseReturns
CHECK_DEADLOCK FALSE
