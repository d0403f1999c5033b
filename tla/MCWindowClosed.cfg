SPECIFICATION WindowSpec
CONSTANTS
    Symbols = {a}
    MaxTime = 2
    Minute = 1
    Prices = {"p"}
    Limit = 2
INVARIANT ClosedBarTaken
