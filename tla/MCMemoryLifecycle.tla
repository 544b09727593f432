------------------------- MODULE MCMemoryLifecycle -------------------------
(***************************************************************************)
(* A small instance of MemoryLifecycle.                                    *)
(***************************************************************************)
EXTENDS MemoryLifecycle, TLC

CONSTANTS n1, n2, n3, g1, g2, a, b, x, y

Result(o, au, ind, id) ==
    [outcome |-> o, authority |-> au, independence |-> ind, identified |-> id]

\* An independent authoritative result of either outcome, a contradiction by
\* observation, one by the model, and a support without an identifier.
MCMeasured ==
    {Result("SUPPORTED", "FORMAL", "INDEPENDENT", TRUE),
     Result("CONTRADICTED", "DETERMINISTIC_RUNTIME", "INDEPENDENT", TRUE),
     Result("CONTRADICTED", "OBSERVATIONAL", "INDEPENDENT", TRUE),
     Result("CONTRADICTED", "MODEL_ESTIMATE", "MODEL_DERIVED", TRUE),
     Result("SUPPORTED", "FORMAL", "INDEPENDENT", FALSE)}

MCSeeds ==
    {[id |-> n, tier |-> "foundation", content |-> x, valid |-> TRUE, derived |-> FALSE,
      status |-> "active", strategy |-> Missing, group |-> Missing, by |-> NoRecord,
      from |-> {}, results |-> <<>>, born |-> "active"] : n \in Names}

Experience(s, g, ind, o) ==
    [strategy |-> s, group |-> g, independence |-> ind, outcome |-> o]

\* Support for a strategy from either group; what may not count: the model's
\* word, a claim of independence, an error; and another strategy's failure.
MCExperiences ==
    {Experience(a, g, "PARTIALLY_INDEPENDENT", "SUPPORTED") : g \in Groups}
    \cup {Experience(a, g2, "MODEL_DERIVED", "SUPPORTED"),
          Experience(a, g2, "INDEPENDENT", "SUPPORTED"),
          Experience(a, g1, "PARTIALLY_INDEPENDENT", "ERROR"),
          Experience(b, g1, "PARTIALLY_INDEPENDENT", "CONTRADICTED")}

\* Refused for a foundation record; an episode stops being one.
MCEdits    == {<<"domain", y>>}
MCOrder    == <<a, b>>
MCSymmetry == Permutations(Names)
=============================================================================
