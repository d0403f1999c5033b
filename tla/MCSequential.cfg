SPECIFICATION Spec
CONSTANTS
    Symbols = {a}
    MaxTime = 6
    Minute = 2
    Subs = {c1, c2}
    Buffer = 1
    Prices = {"p", "q"}
    Limit = 3
    ContextLength = 3
    Scores = {1, 2}
    MaxEvaluated = 6
    MaxPrepared = 6
    DerivativeWindow = 3
    F4Window = 3
    PersistenceObservations = 1
    CandidateHold = 0
    MaxPriceBars = 10
    MaxSlope = 2
    RawWindow = 3
    V1V2Window = 3
    ConfirmationCount = 2
    Volumes = {0, 2, 3}
    Scale = 6
    MaxGen = 8
    MaxRise = 3
    MaxDelay = 2
    EditedTerms = {"VIEWER_PRICE_HOLDING", "SKIP_INITIALIZING"}
INVARIANTS SequentialTypeOK NoSilentDrop NothingSentPastALoss DecisionsFollowRecords EmissionSchedule  IndicatorIsTwoAgreeing LaterBarsEvaluated
PROPERTIES SentInOrder ImplementsWindowMap OnlyReconstructedHeadUnreadies ColoursAgree
CHECK_DEADLOCK FALSE
