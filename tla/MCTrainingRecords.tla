------------------------- MODULE MCTrainingRecords -------------------------
(***************************************************************************)
(* Two runs over two problems, two turns of the loop, two commands.        *)
(***************************************************************************)
EXTENDS TrainingRecords

CONSTANTS r1, r2, p1, p2

MCRuns == {r1, r2}
MCProblems == {p1, p2}

Measured(outcome, authority) ==
    <<[outcome |-> outcome, authority |-> authority,
       independence |-> "INDEPENDENT", identified |-> TRUE]>>

Node(selected, measurements) == [selected |-> selected, measurements |-> measurements]

\* What a run may leave: its answer verified after a rejected branch, its answer
\* accepted without a verifier, every branch rejected, its answer supported under
\* a contract without authority, which ValidateContract takes.
MCTraces ==
    { <<Node(FALSE, Measured("CONTRADICTED", "DETERMINISTIC_RUNTIME")),
        Node(TRUE, Measured("SUPPORTED", "DETERMINISTIC_RUNTIME"))>>,
      <<Node(TRUE, <<>>)>>,
      <<Node(FALSE, Measured("CONTRADICTED", "DETERMINISTIC_RUNTIME")),
        Node(FALSE, Measured("ERROR", "DETERMINISTIC_RUNTIME"))>>,
      <<Node(TRUE, Measured("SUPPORTED", "OBSERVATIONAL"))>> }
=============================================================================
