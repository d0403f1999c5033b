------------------------------ MODULE Catalog ------------------------------
(***************************************************************************)
(* The authored semantic dictionary (internal/semantics/catalog/v1.go),    *)
(* term by term and in its order: who owns a word, what kind of word it    *)
(* is, which terms its text refers to and, for a word of the dashboard,    *)
(* which terms it stands for.  Of the meanings and the texts shown to a    *)
(* user only that they are given is kept; live_path_proven, which is set   *)
(* exactly for the active terms that are not the dashboard's, is left out. *)
(***************************************************************************)
EXTENDS Sequences

\* A canonical term: a word of the component that speaks it.
Term(id, term, type, component, related) ==
    [id |-> id, term |-> term, type |-> type, component |-> component,
     relatedTerms |-> related, canonicalSourceIDs |-> {}, aliases |-> {},
     presentationOnly |-> FALSE, lifecycleStatus |-> "ACTIVE",
     persistencePolicy |-> "PERSIST", meaning |-> "given"]

\* A term whose word is stored under other names too.
Renamed(id, term, type, component, related, names) ==
    [Term(id, term, type, component, related) EXCEPT !.aliases = names]

\* A term for an enumeration value that nothing writes.
Reserved(id, term, type, component, related) ==
    [Term(id, term, type, component, related)
        EXCEPT !.lifecycleStatus = "RESERVED"]

\* A word of the dashboard, which stands for canonical terms.
Alias(id, term, type, related, sources) ==
    [Term(id, term, type, "VIEWER", related)
        EXCEPT !.presentationOnly = TRUE, !.persistencePolicy = "RENDER_ONLY",
               !.canonicalSourceIDs = sources]

-----------------------------------------------------------------------------
\* The emitter's decision.
Decisions == <<
    Term("ADAPTIVE_BUY", "BUY", "DECISION", "ADAPTIVE_EMITTER",
        {"ADAPTIVE_SELL", "ADAPTIVE_HOLD", "ADAPTIVE_LONG",
         "PRICE_COLOR_GREEN"}),
    Term("ADAPTIVE_SELL", "SELL", "DECISION", "ADAPTIVE_EMITTER",
        {"ADAPTIVE_BUY", "ADAPTIVE_HOLD", "ADAPTIVE_SHORT",
         "PRICE_COLOR_RED"}),
    Term("ADAPTIVE_HOLD", "HOLD", "DECISION", "ADAPTIVE_EMITTER",
        {"ADAPTIVE_BUY", "ADAPTIVE_SELL", "VIEWER_ADAPTIVE_HOLDING",
         "PRICE_COLOR_AMBER"})>>

\* The emitter's scientific position.
EmitterPositions == <<
    Term("ADAPTIVE_LONG", "LONG", "STATE", "ADAPTIVE_EMITTER",
        {"ADAPTIVE_SHORT", "ADAPTIVE_FLAT", "ADAPTIVE_BUY"}),
    Term("ADAPTIVE_SHORT", "SHORT", "STATE", "ADAPTIVE_EMITTER",
        {"ADAPTIVE_LONG", "ADAPTIVE_FLAT", "ADAPTIVE_SELL"}),
    Term("ADAPTIVE_FLAT", "FLAT", "STATE", "ADAPTIVE_EMITTER",
        {"ADAPTIVE_LONG", "ADAPTIVE_SHORT", "ADAPTIVE_PATH_FLAT"})>>

\* D02's path.
PathDirections == <<
    Term("ADAPTIVE_PATH_UPWARD", "UPWARD", "CLASSIFICATION", "D02",
        {"ADAPTIVE_PATH_DOWNWARD", "ADAPTIVE_PATH_FLAT", "ADAPTIVE_BUY"}),
    Term("ADAPTIVE_PATH_DOWNWARD", "DOWNWARD", "CLASSIFICATION", "D02",
        {"ADAPTIVE_PATH_UPWARD", "ADAPTIVE_SELL"}),
    Term("ADAPTIVE_PATH_FLAT", "FLAT", "CLASSIFICATION", "D02",
        {"ADAPTIVE_FLAT", "ADAPTIVE_HOLD"})>>

\* Adaptive warm-up.
ModelStatuses == <<
    Term("ADAPTIVE_INITIALIZING", "INITIALIZING",
        "STATUS", "ADAPTIVE_EMITTER",
        {"ADAPTIVE_ACTIONABLE", "PRICE_STATUS_WARMUP_DERIVATIVE",
         "PRICE_STATUS_WARMUP_F4"}),
    Term("ADAPTIVE_ACTIONABLE", "ACTIONABLE", "STATUS", "ADAPTIVE_EMITTER",
        {"ADAPTIVE_INITIALIZING", "ADAPTIVE_BUY", "ADAPTIVE_HOLD"})>>

\* D04's measures.
Capturability == <<
    Term("ADAPTIVE_H", "H", "MEASURE", "D04",
        {"ADAPTIVE_C", "ADAPTIVE_QG", "ADAPTIVE_QS", "ADAPTIVE_QR"}),
    Term("ADAPTIVE_QG", "Q_G", "MEASURE", "D04",
        {"ADAPTIVE_QS", "ADAPTIVE_QR", "ADAPTIVE_C"}),
    Term("ADAPTIVE_QS", "Q_S", "MEASURE", "D04",
        {"ADAPTIVE_QG", "ADAPTIVE_QR", "ADAPTIVE_STRENGTH"}),
    Term("ADAPTIVE_QR", "Q_R", "MEASURE", "D04",
        {"ADAPTIVE_QG", "ADAPTIVE_C"}),
    Term("ADAPTIVE_C", "C", "MEASURE", "D04",
        {"ADAPTIVE_H", "ADAPTIVE_QG", "PRICE_CONFIDENCE_HIGH"})>>

\* D01's measures.
StateMeasures == <<
    Term("ADAPTIVE_STRENGTH", "strength", "MEASURE", "D01",
        {"ADAPTIVE_COHERENCE", "ADAPTIVE_QS"}),
    Term("ADAPTIVE_COHERENCE", "coherence", "MEASURE", "D01",
        {"ADAPTIVE_STRENGTH", "ADAPTIVE_PERSISTENCE"}),
    Term("ADAPTIVE_PERSISTENCE", "persistence", "MEASURE", "D01",
        {"ADAPTIVE_STRENGTH", "PRICE_COCKPIT_PERSISTENCE"}),
    Term("ADAPTIVE_UNCERTAINTY", "uncertainty", "MEASURE", "D01",
        {"ADAPTIVE_QR", "ADAPTIVE_REVERSAL"}),
    Term("ADAPTIVE_REVERSAL", "reversal_propensity", "MEASURE", "D01",
        {"ADAPTIVE_QR", "PRICE_PHASE_TURNING_UP"})>>

\* Why the host gives no decision: the bar or the path.
GateSkips == <<
    Term("SKIP_INFER_OFF", "INFER_OFF", "REASON", "MODEL_HOST",
        {"SKIP_STATE_DISCONTINUOUS", "OPS_INFER"}),
    Term("SKIP_NOT_MODEL_ELIGIBLE", "NOT_MODEL_ELIGIBLE",
        "REASON", "INGESTION",
        {"QUALITY_COMPLETE", "QUALITY_RECONSTRUCTED", "QUALITY_PARTIAL"}),
    Term("SKIP_DUPLICATE_OR_REGRESSION", "DUPLICATE_OR_REGRESSION",
        "REASON", "RUNTIME",
        {"RUNTIME_CONTINUITY_DUPLICATE", "RUNTIME_CONTINUITY_REGRESSION",
         "SKIP_INPUT_GAP"}),
    Term("SKIP_INPUT_GAP", "INPUT_GAP", "REASON", "RUNTIME",
        {"RUNTIME_CONTINUITY_IRREGULAR", "SKIP_STATE_DISCONTINUOUS",
         "SKIP_QUEUE_OVERFLOW"}),
    Term("SKIP_QUEUE_OVERFLOW", "QUEUE_OVERFLOW", "REASON", "MODEL_HOST",
        {"SKIP_STATE_DISCONTINUOUS", "HOST_STATUS_DISCONTINUOUS"})>>

\* Why the host gives no decision: the engine, or the latch.
EngineSkips == <<
    Term("SKIP_TIMEOUT", "TIMEOUT", "REASON", "MODEL_HOST",
        {"SKIP_ENGINE_ERROR"}),
    Term("SKIP_INVALID_INPUT", "INVALID_INPUT", "REASON", "RUNTIME",
        {"PRICE_COLOR_INVALID"}),
    Term("SKIP_ENGINE_ERROR", "ENGINE_ERROR", "REASON", "MODEL_HOST",
        {"SKIP_ENGINE_PANIC", "SKIP_TIMEOUT"}),
    Term("SKIP_ENGINE_PANIC", "ENGINE_PANIC", "REASON", "MODEL_HOST",
        {"SKIP_STATE_DISCONTINUOUS", "HOST_STATUS_DISCONTINUOUS"}),
    Term("SKIP_STATE_DISCONTINUOUS", "STATE_DISCONTINUOUS",
        "STATE", "MODEL_HOST",
        {"SKIP_INPUT_GAP", "SKIP_QUEUE_OVERFLOW",
         "HOST_STATUS_DISCONTINUOUS"})>>

\* The policy's colour.
PriceColors == <<
    Term("PRICE_COLOR_GREEN", "GREEN", "CLASSIFICATION", "PRICE_ENGINE",
        {"PRICE_COLOR_AMBER", "PRICE_COLOR_RED", "ADAPTIVE_BUY",
         "VIEWER_PRICE_ON_TIME"}),
    Term("PRICE_COLOR_AMBER", "AMBER", "CLASSIFICATION", "PRICE_ENGINE",
        {"PRICE_COLOR_GREEN", "PRICE_COLOR_RED", "ADAPTIVE_HOLD",
         "VIEWER_PRICE_HOLDING"}),
    Term("PRICE_COLOR_RED", "RED", "CLASSIFICATION", "PRICE_ENGINE",
        {"PRICE_COLOR_GREEN", "ADAPTIVE_SELL", "VIEWER_PRICE_DELAYED"}),
    Term("PRICE_COLOR_INVALID", "INVALID", "CLASSIFICATION", "PRICE_ENGINE",
        {"PRICE_STATUS_PROJECTION_FAILURE", "SKIP_INVALID_INPUT"})>>

\* The trajectory's phase, without a turn.
SteadyPhases == <<
    Term("PRICE_PHASE_UP_ACCELERATING", "UP_ACCELERATING",
        "STATE", "PRICE_ENGINE",
        {"PRICE_PHASE_UP_DECELERATING", "PRICE_PHASE_DOWN_ACCELERATING",
         "ADAPTIVE_PATH_UPWARD"}),
    Term("PRICE_PHASE_DOWN_ACCELERATING", "DOWN_ACCELERATING",
        "STATE", "PRICE_ENGINE",
        {"PRICE_PHASE_DOWN_DECELERATING", "PRICE_PHASE_UP_ACCELERATING"}),
    Term("PRICE_PHASE_UP_DECELERATING", "UP_DECELERATING",
        "STATE", "PRICE_ENGINE",
        {"PRICE_PHASE_UP_ACCELERATING", "PRICE_COLOR_AMBER"}),
    Term("PRICE_PHASE_DOWN_DECELERATING", "DOWN_DECELERATING",
        "STATE", "PRICE_ENGINE",
        {"PRICE_PHASE_DOWN_ACCELERATING", "PRICE_COLOR_AMBER"})>>

\* The trajectory's phase, at a turn.
TurningPhases == <<
    Term("PRICE_PHASE_TURNING_UP", "TURNING_UP", "STATE", "PRICE_ENGINE",
        {"PRICE_PHASE_TURNING_DOWN", "PRICE_COLOR_GREEN"}),
    Term("PRICE_PHASE_TURNING_DOWN", "TURNING_DOWN", "STATE", "PRICE_ENGINE",
        {"PRICE_PHASE_TURNING_UP", "PRICE_COLOR_RED"}),
    Term("PRICE_PHASE_NEAR_STATIONARY", "NEAR_STATIONARY",
        "STATE", "PRICE_ENGINE",
        {"PRICE_COLOR_AMBER", "ADAPTIVE_PATH_FLAT"})>>

\* The projection's confidence.
Confidence == <<
    Term("PRICE_CONFIDENCE_HIGH", "HIGH", "CLASSIFICATION", "PRICE_ENGINE",
        {"PRICE_CONFIDENCE_MEDIUM", "PRICE_CONFIDENCE_LOW", "ADAPTIVE_C"}),
    Term("PRICE_CONFIDENCE_MEDIUM", "MEDIUM",
        "CLASSIFICATION", "PRICE_ENGINE",
        {"PRICE_CONFIDENCE_HIGH", "PRICE_CONFIDENCE_LOW"}),
    Term("PRICE_CONFIDENCE_LOW", "LOW", "CLASSIFICATION", "PRICE_ENGINE",
        {"PRICE_DOMAIN_EXIT", "PRICE_COLOR_AMBER"})>>

\* The domain of the F4 fit.
Domains == <<
    Term("PRICE_DOMAIN_IN", "IN_DOMAIN", "STATE", "PRICE_ENGINE",
        {"PRICE_DOMAIN_OUT", "PRICE_DOMAIN_EXIT"}),
    Term("PRICE_DOMAIN_OUT", "OUT_OF_DOMAIN", "STATE", "PRICE_ENGINE",
        {"PRICE_DOMAIN_EXIT", "PRICE_CONFIDENCE_LOW"}),
    Term("PRICE_DOMAIN_EXIT", "DOMAIN_EXIT", "EVENT", "PRICE_ENGINE",
        {"PRICE_DOMAIN_OUT", "PRICE_CONFIDENCE_LOW", "ADAPTIVE_SELL"})>>

\* Its stability.
Stability == <<
    Term("PRICE_STABILITY_STABLE", "STABLE", "STATE", "PRICE_ENGINE",
        {"PRICE_STABILITY_EXPANSIVE"}),
    Term("PRICE_STABILITY_EXPANSIVE", "LOCALLY_EXPANSIVE",
        "STATE", "PRICE_ENGINE",
        {"PRICE_STABILITY_STABLE"})>>

\* The status of a price step; a failed projection is stored under the name the
\* frozen fixtures use.
StatusWords == <<
    Term("PRICE_STATUS_WARMUP_DERIVATIVE", "WARMUP_DERIVATIVE",
        "STATUS", "PRICE_ENGINE",
        {"PRICE_STATUS_WARMUP_F4", "ADAPTIVE_INITIALIZING"}),
    Term("PRICE_STATUS_WARMUP_F4", "WARMUP_F4", "STATUS", "PRICE_ENGINE",
        {"PRICE_STATUS_WARMUP_DERIVATIVE", "PRICE_STATUS_EMITTED"}),
    Term("PRICE_STATUS_F4_UNAVAILABLE", "F4_FIT_UNAVAILABLE",
        "STATUS", "PRICE_ENGINE",
        {"PRICE_STATUS_WARMUP_F4"}),
    Term("PRICE_STATUS_EMITTED", "EMITTED", "STATUS", "PRICE_ENGINE",
        {"PRICE_COLOR_GREEN", "ADAPTIVE_ACTIONABLE"}),
    Renamed("PRICE_STATUS_PROJECTION_FAILURE", "PROJECTION_FAILURE",
        "STATUS", "PRICE_ENGINE",
        {"PRICE_COLOR_INVALID", "PRICE_SKIP_PROJECTION_FAILURE"},
        {"RK45_FAILURE"})>>

\* The reason of a skip after a failed projection.
ProjectionSkip == <<
    Term("PRICE_SKIP_PROJECTION_FAILURE", "PROJECTION_FAILURE",
        "REASON", "PRICE_ENGINE",
        {"PRICE_STATUS_PROJECTION_FAILURE"})>>

\* The causal class of a bar.
Continuity == <<
    Term("RUNTIME_CONTINUITY_NORMAL", "normal", "CLASSIFICATION", "RUNTIME",
        {"RUNTIME_CONTINUITY_IRREGULAR"}),
    Term("RUNTIME_CONTINUITY_IRREGULAR", "irregular",
        "CLASSIFICATION", "RUNTIME",
        {"SKIP_INPUT_GAP", "RUNTIME_CONTINUITY_NORMAL"}),
    Term("RUNTIME_CONTINUITY_DUPLICATE", "duplicate",
        "CLASSIFICATION", "RUNTIME",
        {"SKIP_DUPLICATE_OR_REGRESSION"}),
    Term("RUNTIME_CONTINUITY_REGRESSION", "regression",
        "CLASSIFICATION", "RUNTIME",
        {"SKIP_DUPLICATE_OR_REGRESSION"})>>

\* A symbol that is not evaluated.
LatchStatuses == <<
    Term("HOST_STATUS_DISCONTINUOUS", "discontinuous", "STATUS", "MODEL_HOST",
        {"SKIP_STATE_DISCONTINUOUS"}),
    Term("HOST_STATUS_PAUSED", "paused", "STATUS", "MODEL_HOST",
        {"SKIP_INFER_OFF"})>>

\* The quality of a bar; nothing writes STALE.
Qualities == <<
    Term("QUALITY_COMPLETE", "COMPLETE", "STATUS", "INGESTION",
        {"QUALITY_PARTIAL", "QUALITY_RECONSTRUCTED",
         "SKIP_NOT_MODEL_ELIGIBLE"}),
    Term("QUALITY_PARTIAL", "PARTIAL", "STATUS", "INGESTION",
        {"QUALITY_COMPLETE"}),
    Term("QUALITY_RECONSTRUCTED", "RECONSTRUCTED", "STATUS", "INGESTION",
        {"SKIP_NOT_MODEL_ELIGIBLE"}),
    Reserved("QUALITY_STALE", "STALE", "STATUS", "INGESTION",
        {"OPS_INFER", "QUALITY_COMPLETE"})>>

\* What the process is ready for.
ReadinessWords == <<
    Term("OPS_INFER", "infer", "STATUS", "OPERATIONS",
        {"SKIP_INFER_OFF", "OPS_OBSERVE"}),
    Term("OPS_OBSERVE", "observe", "STATUS", "OPERATIONS",
        {"OPS_INFER", "FEED_HEALTHY"})>>

\* The breaker's view of the feed.
FeedStates == <<
    Term("FEED_HEALTHY", "HEALTHY", "STATUS", "OPERATIONS",
        {"FEED_DEGRADED", "OPS_OBSERVE"}),
    Term("FEED_DEGRADED", "DEGRADED", "STATUS", "OPERATIONS",
        {"FEED_HEALTHY", "FEED_FAILED"}),
    Term("FEED_FAILED", "FAILED", "STATUS", "OPERATIONS",
        {"FEED_RECOVERING"}),
    Term("FEED_RECOVERING", "RECOVERING", "STATUS", "OPERATIONS",
        {"FEED_HEALTHY", "RUNTIME_CONTINUITY_IRREGULAR"})>>

\* What the dashboard makes of the adaptive words.
AdaptiveAliases == <<
    Alias("VIEWER_ADAPTIVE_BOARDING", "BOARDING", "STATUS",
        {"ADAPTIVE_INITIALIZING", "VIEWER_PRICE_BOARDING"},
        {"ADAPTIVE_INITIALIZING"}),
    Alias("VIEWER_ADAPTIVE_CLEARED", "CLEARED", "STATUS",
        {"ADAPTIVE_BUY", "ADAPTIVE_SELL", "VIEWER_ADAPTIVE_HOLDING"},
        {"ADAPTIVE_BUY", "ADAPTIVE_SELL"}),
    Alias("VIEWER_ADAPTIVE_HOLDING", "HOLDING", "STATUS",
        {"ADAPTIVE_HOLD", "VIEWER_PRICE_HOLDING"},
        {"ADAPTIVE_HOLD"}),
    Alias("VIEWER_ADAPTIVE_DELAYED", "DELAYED", "STATUS",
        {"SKIP_INFER_OFF", "SKIP_TIMEOUT", "VIEWER_PRICE_DELAYED"},
        {"SKIP_INFER_OFF", "SKIP_TIMEOUT"}),
    Alias("VIEWER_ADAPTIVE_GROUNDED", "GROUNDED", "STATUS",
        {"SKIP_INPUT_GAP", "SKIP_QUEUE_OVERFLOW", "SKIP_STATE_DISCONTINUOUS"},
        {"SKIP_INPUT_GAP", "SKIP_QUEUE_OVERFLOW", "SKIP_STATE_DISCONTINUOUS"})>>

DivertedAlias == <<
    Alias("VIEWER_ADAPTIVE_DIVERTED", "DIVERTED", "STATUS",
        {"SKIP_ENGINE_ERROR", "SKIP_INVALID_INPUT"},
        {"SKIP_ENGINE_ERROR", "SKIP_INVALID_INPUT"})>>

\* What it makes of the price words.
PriceAliases == <<
    Alias("VIEWER_PRICE_ON_TIME", "ON TIME", "STATUS",
        {"PRICE_COLOR_GREEN", "VIEWER_PRICE_HOLDING", "VIEWER_PRICE_DELAYED"},
        {"PRICE_COLOR_GREEN"}),
    Alias("VIEWER_PRICE_HOLDING", "HOLDING", "STATUS",
        {"PRICE_COLOR_AMBER", "ADAPTIVE_HOLD", "VIEWER_ADAPTIVE_HOLDING"},
        {"PRICE_COLOR_AMBER"}),
    Alias("VIEWER_PRICE_DELAYED", "DELAYED", "STATUS",
        {"PRICE_COLOR_RED", "VIEWER_ADAPTIVE_DELAYED"},
        {"PRICE_COLOR_RED"}),
    Alias("VIEWER_PRICE_BOARDING", "BOARDING", "STATUS",
        {"PRICE_STATUS_WARMUP_DERIVATIVE", "PRICE_STATUS_WARMUP_F4",
         "VIEWER_ADAPTIVE_BOARDING"},
        {"PRICE_STATUS_WARMUP_DERIVATIVE", "PRICE_STATUS_WARMUP_F4",
         "PRICE_STATUS_F4_UNAVAILABLE"}),
    Alias("VIEWER_PRICE_DIVERTED", "DIVERTED", "STATUS",
        {"PRICE_COLOR_INVALID", "VIEWER_ADAPTIVE_DIVERTED"},
        {"PRICE_COLOR_INVALID"})>>

\* The cockpit's directions.
CockpitDirections == <<
    Term("PRICE_DIR_UP", "UP", "CLASSIFICATION", "PRICE_ENGINE",
        {"PRICE_DIR_DOWN", "PRICE_DIR_NEAR_ZERO", "ADAPTIVE_PATH_UPWARD"}),
    Term("PRICE_DIR_DOWN", "DOWN", "CLASSIFICATION", "PRICE_ENGINE",
        {"PRICE_DIR_UP"}),
    Term("PRICE_DIR_NEAR_ZERO", "NEAR_ZERO", "CLASSIFICATION", "PRICE_ENGINE",
        {"PRICE_PHASE_NEAR_STATIONARY"})>>

CockpitPersistence == <<
    Term("PRICE_COCKPIT_PERSISTENCE", "persistence_state",
        "STATE", "PRICE_ENGINE",
        {"ADAPTIVE_PERSISTENCE"})>>

\* Tendencies to turn.
Tendencies == <<
    Term("PRICE_TENDENCY_NONE", "NONE", "CLASSIFICATION", "PRICE_ENGINE",
        {"PRICE_PHASE_TURNING_UP", "PRICE_TENDENCY_TURNING_UP"}),
    Term("PRICE_TENDENCY_TURNING_UP", "TURNING_UP",
        "CLASSIFICATION", "PRICE_ENGINE",
        {"PRICE_PHASE_TURNING_UP", "PRICE_TENDENCY_TURNING_DOWN",
         "PRICE_TENDENCY_NONE"}),
    Term("PRICE_TENDENCY_TURNING_DOWN", "TURNING_DOWN",
        "CLASSIFICATION", "PRICE_ENGINE",
        {"PRICE_PHASE_TURNING_DOWN", "PRICE_TENDENCY_TURNING_UP"}),
    Term("PRICE_TENDENCY_DETERIORATING", "DETERIORATING_TOWARD_TURN",
        "CLASSIFICATION", "PRICE_ENGINE",
        {"PRICE_PHASE_UP_DECELERATING", "PRICE_TENDENCY_RECOVERING"}),
    Term("PRICE_TENDENCY_RECOVERING", "RECOVERING_TOWARD_TURN",
        "CLASSIFICATION", "PRICE_ENGINE",
        {"FEED_RECOVERING", "PRICE_PHASE_DOWN_DECELERATING",
         "PRICE_TENDENCY_DETERIORATING"})>>

ReversalTendency == <<
    Term("PRICE_TENDENCY_P2_REVERSAL", "PROJECTED_P2_REVERSAL",
        "CLASSIFICATION", "PRICE_ENGINE",
        {"ADAPTIVE_REVERSAL", "PRICE_TENDENCY_NONE"})>>

\* Why the solver gives no projection.
SolverSkips == <<
    Term("PRICE_SKIP_TIME_TERM", "ANALYTIC_TIME_TERM_UNSUPPORTED",
        "REASON", "PRICE_ENGINE",
        {"PRICE_STATUS_PROJECTION_FAILURE", "PRICE_ENGINE_NOUN"}),
    Term("PRICE_SKIP_NUMERICALLY_UNSTABLE", "NUMERICALLY_UNSTABLE",
        "REASON", "PRICE_ENGINE",
        {"PRICE_STATUS_PROJECTION_FAILURE", "PRICE_SKIP_PROJECTION_FAILURE"})>>

\* The words of the arrivals board.
ArrivalAliases == <<
    Alias("PRICE_HOLDING", "HOLDING", "STATE",
        {"VIEWER_PRICE_HOLDING", "PRICE_COLOR_AMBER", "ADAPTIVE_HOLD",
         "VIEWER_ADAPTIVE_HOLDING"},
        {"PRICE_COLOR_AMBER"}),
    Alias("PRICE_ON_TIME", "ON TIME", "STATE",
        {"VIEWER_PRICE_ON_TIME", "PRICE_COLOR_GREEN"},
        {"PRICE_COLOR_GREEN"}),
    Alias("PRICE_DELAYED", "DELAYED", "STATE",
        {"VIEWER_PRICE_DELAYED", "PRICE_COLOR_RED",
         "VIEWER_ADAPTIVE_DELAYED"},
        {"PRICE_COLOR_RED"})>>

\* The parts themselves.
Nouns == <<
    Term("D01_STATE", "D01", "NOUN", "D01",
        {"D02_SHAPE", "D04_ENVELOPE"}),
    Term("D02_SHAPE", "D02", "NOUN", "D02",
        {"D01_STATE", "D04_ENVELOPE", "ADAPTIVE_PATH_UPWARD"}),
    Term("D04_ENVELOPE", "D04", "NOUN", "D04",
        {"ADAPTIVE_H", "ADAPTIVE_C", "ADAPTIVE_EMITTER_NOUN"}),
    Term("ADAPTIVE_EMITTER_NOUN", "Emitter", "NOUN", "ADAPTIVE_EMITTER",
        {"ADAPTIVE_BUY", "ADAPTIVE_HOLD", "PRICE_ENGINE_NOUN"}),
    Term("PRICE_ENGINE_NOUN", "Price Engine", "NOUN", "PRICE_ENGINE",
        {"ADAPTIVE_EMITTER_NOUN", "PRICE_COLOR_GREEN",
         "PRICE_STATUS_EMITTED"})>>

\* Nothing writes DEGRADED.
ReservedQuality == <<
    Reserved("QUALITY_DEGRADED", "DEGRADED", "STATUS", "INGESTION",
        {"FEED_DEGRADED", "QUALITY_COMPLETE"})>>

\* A symbol that is evaluated.
HostStatuses == <<
    Term("HOST_STATUS_INITIALIZING", "initializing", "STATUS", "MODEL_HOST",
        {"ADAPTIVE_INITIALIZING", "HOST_STATUS_READY"}),
    Term("HOST_STATUS_READY", "ready", "STATUS", "MODEL_HOST",
        {"ADAPTIVE_ACTIONABLE", "OPS_INFER"})>>

WarmupSkip == <<
    Term("SKIP_INITIALIZING", "INITIALIZING", "REASON", "ADAPTIVE_EMITTER",
        {"ADAPTIVE_INITIALIZING"})>>

-----------------------------------------------------------------------------
\* The document's terms, in order.
V1 ==
    Decisions \o EmitterPositions \o PathDirections \o ModelStatuses \o
    Capturability \o StateMeasures \o GateSkips \o EngineSkips \o
    PriceColors \o SteadyPhases \o TurningPhases \o Confidence \o Domains \o
    Stability \o StatusWords \o ProjectionSkip \o Continuity \o
    LatchStatuses \o Qualities \o ReadinessWords \o FeedStates \o
    AdaptiveAliases \o DivertedAlias \o PriceAliases \o CockpitDirections \o
    CockpitPersistence \o Tendencies \o ReversalTendency \o SolverSkips \o
    ArrivalAliases \o Nouns \o ReservedQuality \o HostStatuses \o WarmupSkip
=============================================================================
