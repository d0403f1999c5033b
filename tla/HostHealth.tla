------------------------------ MODULE HostHealth ------------------------------
(***************************************************************************)
(* What the model host reports of itself (SymbolHealth, Health and         *)
(* PricingHealth of internal/modelhost/host.go) and what GetHealth makes   *)
(* of it (internal/server/server.go).  The reports only read the workers;  *)
(* the one thing they read that ModelHost does not have is the worker's    *)
(* count of errors.  A report is taken here while nothing moves, of a host *)
(* that is enabled.                                                        *)
(***************************************************************************)
EXTENDS ModelHost

CONSTANTS
    ActionableAfter,    \* adaptive.ActionableAfter
    WarmupBars          \* pricing.Config.WarmupBars()

VARIABLE errors         \* errors[s]: the worker's count of recovered panics

HealthInit == Init /\ errors = [s \in Symbols |-> 0]

\* The deferred function of handle counts the panic; nothing else, ResetSymbol
\* included, writes the count.
PanicCounted(s) ==
    /\ Panic(s)
    /\ errors' = [errors EXCEPT ![s] = @ + 1]

Orderly(s) ==
    \/ Take(s) \/ GateAdmit(s) \/ GateSkip(s) \/ GateInputGap(s)
    \/ VolumeCommit(s) \/ VolumeRefuse(s) \/ ModelCommit(s) \/ ModelDecline(s)
    \/ StopWorker(s) \/ Reset(s)

HealthNext ==
    \/ \E s \in Symbols : PanicCounted(s)
    \/ /\ \/ \E s \in Symbols, t \in Times : Feed(s, t)
          \/ Cancel \/ Dispatcher
          \/ \E s \in Symbols : Orderly(s)
       /\ UNCHANGED errors

HealthSpec == HealthInit /\ [][HealthNext]_<<vars, errors>>

-----------------------------------------------------------------------------
\* The two engines of a symbol are judged by the same rules, each by the bars
\* it has committed and how many it needs: `infer` is what Readiness returns.
StatusOf(s, infer, engine, coldUntil) ==
    IF disc[s] THEN "discontinuous"
    ELSE IF ~infer /\ lastAccepted[s] # NoTime THEN "paused"
    ELSE IF errors[s] > 0 THEN "error"
    ELSE IF engine = <<>> THEN "cold"
    ELSE IF Len(engine) < coldUntil THEN "initializing"
    ELSE "ready"

SymbolHealth(s, infer) == StatusOf(s, infer, adaptive[s], ActionableAfter)
pricingSymbolStatus(s, infer) == StatusOf(s, infer, pricing[s], WarmupBars + 1)

\* allFailed and allPricingFailed, given the statuses of the symbols.
AllFailed(status) ==
    Symbols # {} /\ \A s \in Symbols : status[s] \in {"error", "discontinuous"}

\* Health and PricingHealth judge the symbols' statuses alike, but for the
\* detail of what is merely starting or paused.
Judged(status) ==
    LET some(st) == \E s \in Symbols : status[s] = st
    IN IF some("error") /\ AllFailed(status)
       THEN [state |-> "UNAVAILABLE", detail |-> "error"]
       ELSE IF some("discontinuous") \/ some("error")
       THEN [state |-> "DEGRADED", detail |-> "discontinuous"]
       ELSE IF some("cold") \/ some("initializing") \/ some("paused")
       THEN [state |-> "DEGRADED", detail |-> "waiting"]
       ELSE [state |-> "HEALTHY", detail |-> "on"]

Health(infer) == Judged([s \in Symbols |-> SymbolHealth(s, infer)])

PricingHealth(infer) ==
    IF PricingOn THEN Judged([s \in Symbols |-> pricingSymbolStatus(s, infer)])
    ELSE [state |-> "HEALTHY", detail |-> "off"]

\* GetHealth: the worse of pipeline and model; pricing can degrade the whole
\* but not make it unavailable, and does not count while it only waits.
GetHealth(pipeline, infer) ==
    LET model == Health(infer)
        pricingHealth == PricingHealth(infer)
        degrading == \/ model.state = "DEGRADED"
                     \/ pricingHealth.state = "UNAVAILABLE"
                     \/ pricingHealth.detail = "discontinuous"
    IN IF model.state = "UNAVAILABLE" THEN "UNAVAILABLE"
       ELSE IF pipeline = "HEALTHY" /\ degrading THEN "DEGRADED"
       ELSE pipeline

-----------------------------------------------------------------------------
\* "Unavailable: Host failed to start, baseline/config invalid, or every
\* enabled engine is terminally failed" (P03_ADAPTIVE_MODEL_HOST, section 8.2):
\* with a good feed the whole is not reported unavailable when a symbol that
\* is neither latched nor being reset has committed bars with its engines.
UnavailableMeansFailed ==
    GetHealth("HEALTHY", TRUE) = "UNAVAILABLE" =>
        \A s \in Symbols :
            disc[s] \/ rpc[s] # "none" \/ adaptive[s] = <<>>
=============================================================================
