SPECIFICATION Spec
CONSTANTS
    Callers = {g1, g2}
    Stages = {"P03_ADAPTIVE"}
    Symbols = {a}
    Global = global
    States = {x, y}
    Absent = absent
    NoEvent = noEvent
    Subs = {diag, snap}
    Buffer = 1
    MaxEvents = 2
    Diag = diag
    NoFooter = noFooter
    MaxErrors = 1
SYMMETRY Symmetry
INVARIANTS TypeOK FooterCoversDelivered  Reconstructs
PROPERTIES NumbersNeverReused
CHECK_DEADLOCK FALSE
