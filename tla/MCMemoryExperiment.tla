------------------------ MODULE MCMemoryExperiment ------------------------
(***************************************************************************)
(* Two cases of one category, asked twice; a foundation anchor, a seed of  *)
(* guidance and a misleading one.                                          *)
(***************************************************************************)
EXTENDS MemoryExperiment

MCSchedule == << <<"c1", 1>>, <<"c2", 1>>, <<"c1", 2>>, <<"c2", 2>> >>

MCCases == {"c1", "c2"}

MCEvaluationID == [c \in MCCases |-> IF c = "c1" THEN "e1" ELSE "e2"]

Seed(id, tier, status) ==
    [id |-> id, tier |-> tier, content |-> Missing, valid |-> TRUE, derived |-> FALSE,
     status |-> status, strategy |-> Missing, group |-> Missing, by |-> NoRecord,
     from |-> {}, results |-> <<>>, born |-> status]

MCExposure == [c \in MCCases |->
    <<Seed(<< <<"all", 0>>, "anchor">>, "foundation", "active"), Seed(<< <<c, 0>>, "guide">>, "domain", "supported")>>]

MCMisleading == [c \in MCCases |-> <<Seed(<< <<c, 0>>, "stale">>, "domain", "stale")>>]

\* The route that answered the second case shows the answer of the first.
MCReveals(r, evaluation) == CaseOf(r) = "c2" /\ evaluation = "e1"
=============================================================================
