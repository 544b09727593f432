----------------------------- MODULE Retrieval -----------------------------
(***************************************************************************)
(* What a search of a memory store may hand to the model, and the gravity  *)
(* wells built from it (Retrieve in internal/memory/retrieval.go,          *)
(* BuildGravityWells in internal/memory/gravity.go).  The scores rank and  *)
(* the budgets cut what is eligible; decay, feedback and keywords scale    *)
(* the strength of a well: none of them adds a record or evidence, and     *)
(* they are left out.                                                      *)
(***************************************************************************)
EXTENDS Naturals, FiniteSetsExt, SequencesExt

CONSTANTS
    Missing,            \* an empty category or correlation group
    CaseOf(_),          \* the case of a record's provenance
    CategoryOf(_),      \* a record's category
    Evidence(_),        \* how many distinct measurements a record cites
    Reveals(_, _)       \* the record's text contains the answer of the case

\* retrievalEligible: the search is for a question, under the identifier its
\* evaluation has in the dataset.  The default configuration admits
\* every tier and age.
Eligible(r, evaluation) ==
    /\ r.status \notin {"superseded", "stale"}
    /\ CaseOf(r) # evaluation
    /\ ~ Reveals(r, evaluation)

EligibleRecords(store, evaluation) ==
    FlattenSeq([i \in DOMAIN store |->
                    IF Eligible(store[i], evaluation) THEN <<store[i]>> ELSE <<>>])

\* A foundation anchor attracts without evidence, everything else by the
\* measurements it cites; a pattern, made of episodes that count, adds none.
Anchor(r) == r.tier = "foundation" /\ ~ r.derived

Attracts(r) == CategoryOf(r) # Missing /\ (Evidence(r) > 0 \/ Anchor(r))

Correlation(r) == IF r.group # Missing THEN r.group ELSE r.id

\* Faulty: correlated records count one by one.
CountedEach(store, category) ==
    {i \in DOMAIN store : Attracts(store[i]) /\ CategoryOf(store[i]) = category}

\* Of correlated records of a category the first one in the store counts.
Counted(store, category) ==
    LET Of(i) == Attracts(store[i]) /\ CategoryOf(store[i]) = category
    IN  {i \in DOMAIN store :
            /\ Of(i)
            /\ \A j \in 1 .. i - 1 :
                   Of(j) => Correlation(store[j]) # Correlation(store[i])}

Weight(store, counted) ==
    MapThenSumSet(LAMBDA i : Evidence(store[i]), counted)

SupportingEvidence(store, category) ==
    Weight(store, {i \in Counted(store, category) :
                       store[i].status = "supported" /\ ~ store[i].derived})

ContradictingEvidence(store, category) ==
    Weight(store, {i \in Counted(store, category) :
                       store[i].status \in {"contradicted", "stale"}})
=============================================================================
