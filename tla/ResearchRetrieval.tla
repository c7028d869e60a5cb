------------------------- MODULE ResearchRetrieval --------------------------
(***************************************************************************)
(* The retrieval events of a run and what the rebuilt research state       *)
(* credits them with (normalize_retrieval_events): a search by the server  *)
(* registers references and records them, an assessment by the generator   *)
(* names registered ones.                                                  *)
(***************************************************************************)
EXTENDS Naturals, Sequences, FiniteSets

CONSTANTS
    Sources,             \* the references the research service can find
    MaxRetrievals        \* bound: events

ASSUME RetrievalSizes == IsFiniteSet(Sources) /\ MaxRetrievals \in Nat

VARIABLES retrievals, registered

retrievalVars == <<retrievals, registered>>

(* One set of known references for searches and assessments alike.         *)
CreditShared(acc, e) ==
    [seen |-> acc.seen \cup e.refs,
     assessed |-> acc.assessed,
     novel |-> acc.novel + Cardinality(e.refs \ acc.seen),
     repeated |-> acc.repeated + Cardinality(e.refs \cap acc.seen),
     evidence |-> Append(acc.evidence, e.refs \ acc.seen)]

(* What the events so far have met, and one more is credited with: the     *)
(* references no event has met, or for an assessment those that no earlier *)
(* assessment has named.                                                   *)
Credit(acc, e) ==
    LET known == IF e.type = "search" THEN acc.seen ELSE acc.assessed
    IN  [seen |-> acc.seen \cup e.refs,
         assessed |-> IF e.type = "search" THEN acc.assessed ELSE acc.assessed \cup e.refs,
         novel |-> acc.novel + Cardinality(e.refs \ acc.seen),
         repeated |-> acc.repeated + Cardinality(e.refs \cap acc.seen),
         evidence |-> Append(acc.evidence, e.refs \ known)]

Uncredited == [seen |-> {}, assessed |-> {}, novel |-> 0, repeated |-> 0, evidence |-> <<>>]

Retrieval ==
    LET credited[n \in 0 .. Len(retrievals)] ==
            IF n = 0 THEN Uncredited ELSE Credit(credited[n - 1], retrievals[n])
    IN  credited[Len(retrievals)]

MakesProgress(i) == retrievals[i].outcome = "new_material" /\ Retrieval.evidence[i] # {}

Record(type, refs, outcome) ==
    /\ Len(retrievals) < MaxRetrievals
    /\ retrievals' = Append(retrievals, [type |-> type, refs |-> refs, outcome |-> outcome])

SearchReferences ==
    \E found \in SUBSET Sources :
        /\ registered' = registered \cup found
        /\ Record("search", found, "new_material")

AssessReferences ==
    \E refs \in SUBSET registered : \E outcome \in {"new_material", "inconclusive"} :
        /\ outcome = "new_material" => refs # {}
        /\ Record("assessment", refs, outcome)
        /\ UNCHANGED registered

RetrievalInit == retrievals = <<>> /\ registered = {}

RetrievalNext == SearchReferences \/ AssessReferences

RetrievalSpec == RetrievalInit /\ [][RetrievalNext]_retrievalVars

Assessments == {i \in DOMAIN retrievals : retrievals[i].type = "assessment"}

(* A reference is new once, whoever meets it first, and is evidence of     *)
(* progress in one assessment at most; its discovery does not use it up    *)
(* for its first assessment (normalize_retrieval_events).                  *)
EvidenceCountsOnce ==
    /\ Retrieval.novel = Cardinality(UNION {retrievals[i].refs : i \in DOMAIN retrievals})
    /\ \A i, j \in DOMAIN retrievals :
        (i # j /\ retrievals[i].type = retrievals[j].type) =>
            Retrieval.evidence[i] \cap Retrieval.evidence[j] = {}
    /\ \A i \in Assessments :
        retrievals[i].outcome = "new_material" =>
            \/ MakesProgress(i)
            \/ \A s \in retrievals[i].refs : \E j \in Assessments : j < i /\ s \in retrievals[j].refs
=============================================================================
