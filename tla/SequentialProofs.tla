-------------------------- MODULE SequentialProofs --------------------------
(***************************************************************************)
(* The dictionary, whatever terms it has, and the parts of MCSequential    *)
(* together.                                                               *)
(*                                                                         *)
(* Of the shipped catalogue's content nothing is used: a document that     *)
(* validate accepts names its terms apart and refers to its own terms      *)
(* only, and this is all a client needs.                                   *)
(***************************************************************************)
EXTENDS MCSequential, EngineProofs, WindowStoreProofs, ModelPathProofs

\* The terms of a document, of which no two have one id.
Apart(terms) ==
    \A i, j \in DOMAIN terms : terms[i].id = terms[j].id => i = j

LEMMA ValidIsApart ==
    ASSUME NEW doc, Validate(doc)
    PROVE  Apart(doc.terms)
<1>1. PICK ids : ids = [i \in DOMAIN doc.terms |-> doc.terms[i].id]
  OBVIOUS
<1>2. IsInjective(ids)
  BY <1>1 DEF Validate
<1>3. \A i, j \in DOMAIN doc.terms : ids[i] = ids[j] => i = j
  BY <1>1, <1>2 DEF IsInjective
<1> QED
  BY <1>1, <1>3 DEF Apart

\* The index has the term itself, for every id.
LEMMA IndexHasTerm ==
    ASSUME NEW terms, Apart(terms), NEW i \in DOMAIN terms
    PROVE  GetTerm(terms, terms[i].id) = terms[i]
<1>1. PICK id : id = terms[i].id
  OBVIOUS
<1>2. id \in Ids(terms)
  BY <1>1 DEF Ids
<1>3. PICK named : named = {j \in DOMAIN terms : terms[j].id = id}
  OBVIOUS
<1>4. named = {i}
  BY <1>1, <1>3 DEF Apart
<1>5. (CHOOSE k \in named : \A j \in named \ {k} : j < k) = i
  BY <1>4
<1>6. byID(terms)[id] = terms[i]
  BY <1>2, <1>3, <1>5 DEF byID
<1> QED
  BY <1>1, <1>2, <1>6 DEF GetTerm

\* A document that validate accepts answers for every id that its answers name,
\* for any shipped catalogue and any of its terms edited (validator.go 13-71,
\* loader.go 21-34, server/semantics.go 17-43).
THEOREM ValidIsSelfContained == Valid \subseteq SelfContained
<1> SUFFICES ASSUME NEW e \in Edits, Validate(Document(e))
             PROVE  e \in SelfContained
  BY DEF Valid
<1>1. PICK terms : terms = Document(e).terms
  OBVIOUS
<1>2. Apart(terms)
  BY <1>1, ValidIsApart
<1>3. \A i \in DOMAIN terms : References(terms[i]) \subseteq Ids(terms)
  BY <1>1 DEF Validate
<1>4. ASSUME NEW id \in Ids(terms)
      PROVE  GetTerm(terms, id).id = id
  <2>1. PICK i \in DOMAIN terms : terms[i].id = id
    BY DEF Ids
  <2>2. GetTerm(terms, terms[i].id) = terms[i]
    BY <1>2, IndexHasTerm
  <2> QED
    BY <2>1, <2>2
<1>5. ASSUME NEW i \in ListTerms(terms, "", "")
      PROVE  /\ GetTerm(terms, terms[i].id) = terms[i]
             /\ \A id \in References(terms[i]) : GetTerm(terms, id).id = id
  <2>1. i \in DOMAIN terms
    BY DEF ListTerms
  <2>2. GetTerm(terms, terms[i].id) = terms[i]
    BY <1>2, <2>1, IndexHasTerm
  <2>3. References(terms[i]) \subseteq Ids(terms)
    BY <1>3, <2>1
  <2> QED
    BY <1>4, <2>2, <2>3
<1> QED
  BY <1>1, <1>5 DEF SelfContained

-----------------------------------------------------------------------------
LEMMA SemanticsInitOK == SemanticsInit => SemanticsTypeOK
  BY DEF SemanticsInit, SemanticsTypeOK, Edits

LEMMA SemanticsNextOK ==
    SemanticsTypeOK /\ [SemanticsNext]_semanticsVars => SemanticsTypeOK'
<1> SUFFICES ASSUME SemanticsTypeOK, [SemanticsNext]_semanticsVars
             PROVE  SemanticsTypeOK'
  OBVIOUS
<1> USE DEF SemanticsTypeOK
<1>1. CASE EditCatalogue
  BY <1>1 DEF EditCatalogue
<1>2. CASE Build
  BY <1>2 DEF Build, Valid
<1>3. CASE EditJSON
  BY <1>3 DEF EditJSON
<1>4. CASE Compile
  BY <1>4 DEF Compile
<1>5. CASE Start
  BY <1>5, ValidIsSelfContained DEF Start
<1>6. CASE Stop
  BY <1>6 DEF Stop
<1>7. CASE UNCHANGED semanticsVars
  BY <1>7 DEF semanticsVars
<1> QED
  BY <1>1, <1>2, <1>3, <1>4, <1>5, <1>6, <1>7 DEF SemanticsNext

\* What the parts keep, together.
PartsInv ==
    /\ WindowInv /\ PathInv /\ SemanticsTypeOK
    /\ ModelInv /\ AdaptiveInv /\ PriceInv /\ VolumeInv

LEMMA PartsKeepStill ==
    [Next]_all =>
        /\ [WindowNext]_windowVars /\ [PathNext]_pathVars
        /\ [SemanticsNext]_semanticsVars
        /\ [ModelNext]_modelVars /\ [AdaptiveNext]_adaptiveVars
        /\ [PriceNext]_priceVars /\ [VolumeNext]_volumeVars
  BY DEF Next, StoreNext, EngineNext, all, storeVars, engineVars

LEMMA PartsInvInductive ==
    /\ Init => PartsInv
    /\ PartsInv /\ [Next]_all => PartsInv'
<1>1. Init => PartsInv
  BY InitWindowInv, PathInitInv, SemanticsInitOK, ModelInvInitially,
     AdaptiveInvHolds, PriceInvHolds, VolumeInitInv DEF Init, PartsInv
<1>2. PartsInv /\ [Next]_all => PartsInv'
  BY PartsKeepStill, NextWindowInv, PathNextInv, SemanticsNextOK,
     ModelInvPreserved, AdaptiveInvHolds, PriceInvHolds, VolumeInvInductive
     DEF PartsInv
<1> QED
  BY <1>1, <1>2

\* What the model yields is what the adaptive engine is prepared for.
LEMMA EvaluationIsRecord ==
    ModelInv => (evaluation.refusal = "none" =>
        \E r \in Record : r.path = evaluation.path /\ r.h = evaluation.h)
<1> SUFFICES ASSUME ModelInv, evaluation.refusal = "none"
             PROVE  \E r \in Record : /\ r.path = evaluation.path
                                      /\ r.h = evaluation.h
  OBVIOUS
<1>1. evaluation.path \in {-1, 0, 1} /\ evaluation.h = 1
  BY DEF ModelInv, PathIsDirection, LaterBarsEvaluated
<1>2. PICK score : score \in Scores
  BY AdaptiveAssumption
<1>3. [path |-> evaluation.path, h |-> evaluation.h, c |-> score] \in Record
  BY <1>1, <1>2 DEF Record
<1> QED
  BY <1>3

LEMMA PartsTyped == PartsInv => SequentialTypeOK
<1>1. WindowInv => WindowTypeOK /\ Chronological
  BY WindowInvTyped, WindowInvChronological
<1>2. /\ PathInv => PathTypeOK
      /\ ModelInv => ModelTypeOK
      /\ AdaptiveInv => AdaptiveTypeOK
      /\ PriceInv => PriceTypeOK
      /\ VolumeInv => VolumeTypeOK
  BY DEF PathInv, ModelInv, AdaptiveInv, PriceInv, VolumeInv
<1> QED
  BY <1>1, <1>2, EvaluationIsRecord DEF PartsInv, SequentialTypeOK

-----------------------------------------------------------------------------
(* The results.                                                            *)

\* Each part is in a state its code can hold at any time, and what the model
\* yields is an evaluation its engine takes.
THEOREM SequentialTypeCorrect == Spec => []SequentialTypeOK
<1> QED
  BY PartsInvInductive, PartsTyped, PTL DEF Spec
=============================================================================
