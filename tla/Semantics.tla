----------------------------- MODULE Semantics -----------------------------
(***************************************************************************)
(* The semantic dictionary from its author to a client: the catalogue in   *)
(* the Go source, the JSON published from it (internal/semantics/tooling), *)
(* the copy compiled into a binary, and the dictionary a server has loaded *)
(* and answers from (internal/semantics, internal/server/semantics.go).    *)
(* People change the catalogue and, as nothing prevents it, the JSON; a    *)
(* changed document is the shipped one with one edit.                      *)
(***************************************************************************)
EXTENDS Naturals, SequencesExt, Catalog

CONSTANT EditedTerms    \* bound: the ids whose terms are edited

ASSUME SemanticsAssumption ==
    EditedTerms \subseteq {V1[i].id : i \in DOMAIN V1}

VARIABLES
    catalogue,   \* catalog/v1.go
    published,   \* data/quantram_semantics_v1.json
    embedded,    \* the JSON compiled into the binary
    dictionary   \* the running server's, or Unavailable; Stopped: no server

semanticsVars == <<catalogue, published, embedded, dictionary>>

Unavailable == [change |-> "unavailable"]
Stopped == [change |-> "stopped"]

-----------------------------------------------------------------------------
(* Documents.                                                              *)
NoEdit == [change |-> "none"]
Garbage == [change |-> "garbage"]      \* a JSON file that does not parse
Changes == {"removed", "doubled", "renamed", "reworded", "mistyped",
            "unexplained", "dangling", "unsourced", "missourced"}
Edits == {NoEdit, [change |-> "unversioned"]}
         \cup {[change |-> c, id |-> i] : c \in Changes, i \in EditedTerms}

Contract == [name |-> "given", version |-> "1.0",
             persistencePolicy |-> "PERSIST_CANONICAL_RENDER_PRESENTATION"]

\* The terms of V1 with the one called id changed.
EditedV1(change, id) ==
    LET at == CHOOSE i \in DOMAIN V1 : V1[i].id = id
        other == V1[(at % Len(V1)) + 1]
    IN CASE change = "removed"     -> RemoveAt(V1, at)
         [] change = "doubled"     -> [V1 EXCEPT ![at].id = other.id]
         [] change = "renamed"     -> [V1 EXCEPT ![at].id = "NEW"]
         [] change = "reworded"    -> [V1 EXCEPT ![at].term = "NEW"]
         [] change = "mistyped"    -> [V1 EXCEPT ![at].type = "NEW"]
         [] change = "unexplained" -> [V1 EXCEPT ![at].meaning = "UNRESOLVED"]
         [] change = "dangling"    -> [V1 EXCEPT ![at].relatedTerms = {"NEW"}]
         [] change = "unsourced"   ->
               [V1 EXCEPT ![at].canonicalSourceIDs = {}]
         [] change = "missourced"  ->
               [V1 EXCEPT ![at].canonicalSourceIDs = {"NEW"}]

Document(e) ==
    [contract |-> IF e.change = "unversioned"
                  THEN [Contract EXCEPT !.version = ""] ELSE Contract,
     terms |-> IF e.change \in Changes THEN EditedV1(e.change, e.id) ELSE V1]

-----------------------------------------------------------------------------
(* Validation.                                                             *)
AllowedTypes == {"NOUN", "VERB", "STATE", "MEASURE", "EVENT", "REASON",
                 "DECISION", "STATUS", "CLASSIFICATION"}
AllowedComponents ==
    {"INGESTION", "RUNTIME", "D01", "D02", "D04", "ADAPTIVE_EMITTER",
     "PRICE_ENGINE", "VOLUME_ENGINE", "MODEL_HOST", "OPERATIONS", "VIEWER"}
AllowedLifecycle == {"ACTIVE", "RESERVED", "TEST_ONLY", "LEGACY", "UNREACHABLE"}
AllowedPersistence == {"PERSIST", "RENDER_ONLY"}

Ids(terms) == {terms[i].id : i \in DOMAIN terms}

WellFormed(t) ==
    /\ t.id # "" /\ t.term # "" /\ t.meaning = "given"
    /\ t.type \in AllowedTypes
    /\ t.component \in AllowedComponents
    /\ t.lifecycleStatus \in AllowedLifecycle
    /\ t.persistencePolicy \in AllowedPersistence
    /\ t.presentationOnly => t.canonicalSourceIDs # {}

References(t) == t.relatedTerms \cup t.canonicalSourceIDs

Validate(doc) ==
    /\ doc.contract.name # "" /\ doc.contract.version # ""
    /\ doc.terms # <<>>
    /\ IsInjective([i \in DOMAIN doc.terms |-> doc.terms[i].id])
    /\ doc.contract.persistencePolicy = Contract.persistencePolicy
    /\ \A i \in DOMAIN doc.terms :
          WellFormed(doc.terms[i])
          /\ References(doc.terms[i]) \subseteq Ids(doc.terms)

Valid == {e \in Edits : Validate(Document(e))}

-----------------------------------------------------------------------------
SemanticsInit ==
    /\ catalogue = NoEdit /\ published = NoEdit /\ embedded = NoEdit
    /\ dictionary = Stopped

\* Somebody changes the catalogue, or takes the change back.
EditCatalogue ==
    /\ \E e \in Edits : catalogue' = e
    /\ UNCHANGED <<published, embedded, dictionary>>

\* quantram-semantics build: an invalid catalogue is not published.
Build ==
    /\ catalogue \in Valid
    /\ published' = catalogue
    /\ UNCHANGED <<catalogue, embedded, dictionary>>

\* Somebody changes the JSON itself.
EditJSON ==
    /\ \E e \in Edits \cup {Garbage} : published' = e
    /\ UNCHANGED <<catalogue, embedded, dictionary>>

\* go build takes the JSON as it is.
Compile ==
    /\ embedded' = published
    /\ UNCHANGED <<catalogue, published, dictionary>>

\* LoadEmbedded and Parse, as the server starts: without a valid document it
\* serves the rest and has no dictionary.
Start ==
    /\ dictionary = Stopped
    /\ dictionary' = IF embedded \in Valid THEN embedded ELSE Unavailable
    /\ UNCHANGED <<catalogue, published, embedded>>

Stop ==
    /\ dictionary # Stopped /\ dictionary' = Stopped
    /\ UNCHANGED <<catalogue, published, embedded>>

SemanticsNext ==
    EditCatalogue \/ Build \/ EditJSON \/ Compile \/ Start \/ Stop

-----------------------------------------------------------------------------
(* The server's answers, of a loaded document.                             *)
\* Parse's index: of two terms with one id, the later.
byID(terms) ==
    [id \in Ids(terms) |->
        LET named == {i \in DOMAIN terms : terms[i].id = id}
        IN terms[CHOOSE i \in named : \A j \in named \ {i} : j < i]]

GetTerm(terms, id) ==
    IF id \in Ids(terms) THEN byID(terms)[id] ELSE [id |-> "NotFound"]

\* The terms of the answer, by their places in the document, whose order it
\* keeps.  An empty component or type is no filter.
ListTerms(terms, component, type) ==
    {i \in DOMAIN terms : /\ component \in {"", terms[i].component}
                          /\ type \in {"", terms[i].type}}

\* The documents of which a client that has listed the terms can look up each
\* of them, gets the term that was listed, and finds every id it names.
SelfContained ==
    {e \in Edits :
        LET terms == Document(e).terms
        IN \A i \in ListTerms(terms, "", "") :
              /\ GetTerm(terms, terms[i].id) = terms[i]
              /\ \A id \in References(terms[i]) :
                    GetTerm(terms, id).id = id}

\* A server that has a dictionary answers from a self-contained one, whatever
\* became of the catalogue and of the JSON before it was built (validator.go
\* 13-71, loader.go 21-34, server/semantics.go 17-43).
SemanticsTypeOK ==
    /\ {catalogue, embedded, published} \subseteq Edits \cup {Garbage}
    /\ dictionary \in SelfContained \cup {Unavailable, Stopped}
=============================================================================
