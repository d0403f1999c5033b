---------------------------- MODULE MCSequential ----------------------------
(* The parts whose operations come one at a time, for TLC: the bar window    *)
(* and the model path, each under one lock, the adaptive model and the three *)
(* engines, which the symbol's worker calls one bar at a time, and the       *)
(* semantic dictionary.  They share no variable; a behaviour is of one of    *)
(* them, and the others keep still.                                          *)
EXTENDS WindowStore, ModelPath, AdaptiveModel, AdaptiveEngine, PriceEngine,
        VolumeEngine, Semantics, TLC

VARIABLE part

storeVars == <<windowVars, pathVars, semanticsVars>>
engineVars == <<modelVars, adaptiveVars, priceVars, volumeVars>>
all == <<storeVars, engineVars, part>>

Init ==
    /\ part \in {"window", "path", "semantics",
                 "model", "adaptive", "price", "volume"}
    /\ WindowInit /\ PathInit /\ SemanticsInit
    /\ ModelInit /\ AdaptiveInit /\ PriceInit /\ VolumeInit

StoreNext ==
    \/ part = "window" /\ WindowNext /\ UNCHANGED <<pathVars, semanticsVars>>
    \/ part = "path" /\ PathNext /\ UNCHANGED <<windowVars, semanticsVars>>
    \/ part = "semantics" /\ SemanticsNext /\ UNCHANGED <<windowVars, pathVars>>

EngineNext ==
    \/ part = "model" /\ ModelNext
       /\ UNCHANGED <<adaptiveVars, priceVars, volumeVars>>
    \/ part = "adaptive" /\ AdaptiveNext
       /\ UNCHANGED <<modelVars, priceVars, volumeVars>>
    \/ part = "price" /\ PriceNext
       /\ UNCHANGED <<modelVars, adaptiveVars, volumeVars>>
    \/ part = "volume" /\ VolumeNext
       /\ UNCHANGED <<modelVars, adaptiveVars, priceVars>>

Next ==
    /\ UNCHANGED part
    /\ \/ StoreNext /\ UNCHANGED engineVars
       \/ EngineNext /\ UNCHANGED storeVars

Spec == Init /\ [][Next]_all

\* What the engines say, with whose word it is and of what kind.
EngineWords ==
    ({"ADAPTIVE_EMITTER"} \X {"DECISION"} \X Sides) \cup
    ({"ADAPTIVE_EMITTER"} \X {"STATE"} \X Positions) \cup
    ({"PRICE_ENGINE"} \X {"STATUS"} \X PriceStatuses) \cup
    ({"PRICE_ENGINE"} \X {"CLASSIFICATION"} \X Colors) \cup
    ({"PRICE_ENGINE"} \X {"STATE"} \X {phase(t) : t \in Trajectory})

\* Each of these words, also one that is stored under an old name, is
\* explained by exactly one active term of the shipped dictionary.
ASSUME EveryWordExplained ==
    \A spoken \in EngineWords :
        Cardinality({i \in DOMAIN V1 :
            /\ V1[i].component = spoken[1] /\ V1[i].type = spoken[2]
            /\ spoken[3] \in {V1[i].term} \cup V1[i].aliases
            /\ V1[i].lifecycleStatus = "ACTIVE"}) = 1

\* The state of each part is one its code can hold: channels, windows,
\* histories and contexts aligned and within their limits, the bar window in
\* the order that Add's binary search relies on, confirmation counts within
\* theirs, a dictionary that can answer for every id it names, and from the
\* model only evaluations that the adaptive engine is prepared for.
SequentialTypeOK ==
    /\ WindowTypeOK /\ Chronological /\ PathTypeOK /\ SemanticsTypeOK
    /\ ModelTypeOK /\ AdaptiveTypeOK /\ PriceTypeOK /\ VolumeTypeOK
    /\ evaluation.refusal = "none" =>
          \E r \in Record : r.path = evaluation.path /\ r.h = evaluation.h
=============================================================================
