SPECIFICATION Spec
CONSTANTS
    MaxSessions = 3
    MaxMisses = 2
    BackoffCap = 2
    EventSymbols = {"AAPL", "MSFT"}
    EventBuffer = 1
    MaxEmitted = 3
    MaxEngines = 2
    Limits = {0, 1}
    Symbols = {"AAPL", "MSFT"}
    MaxTime = 1
    Minute = 1
    Prices = {"p", "q"}
    Limit = 2
    BarBuffer = 1
    MaxOffers = 2
    NoOffer = noOffer
INVARIANTS StreamsTypeOK OneConnection CatchUpExact WindowReachesClient NewestKept
PROPERTIES KeepsFeedProtocol  CallsEnd
CHECK_DEADLOCK FALSE
