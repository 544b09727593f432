--------------------------- MODULE CognitiveLoop ---------------------------
(***************************************************************************)
(* One turn of the cognitive loop (Loop.Run in internal/cognitive/loop.go):*)
(* the model predicts what its actions lead to, a bounded executor carries *)
(* them out, and the comparison is kept twice: as a record of the memory,  *)
(* then as a training candidate that names the record.  Both stores refuse *)
(* an identifier they have, and the two identifiers are made of different  *)
(* things, so a request may be asked again and be stopped half-way.        *)
(***************************************************************************)
EXTENDS Naturals, Sequences, SequencesExt

CONSTANTS
    Problems,    \* the inputs of a request
    Thoughts     \* the identifiers of the thoughts the model answers with

VARIABLES
    observed,    \* the records of the memory store
    candidates   \* training.MemoryStore.Items

loopVars == <<observed, candidates>>

\* A request, by its run, node and input; the tests and the command line have
\* one node for each run.
LoopRun == "loop"

LoopNode == 1

\* What the model's answer leads to.  One that is neither a thought nor a
\* mutation, or a call that fails, ends the turn before it has any effect; a
\* mutation gives an empty thought, without actions or predictions.  A thought
\* predicts "nothing" when it has no prediction to compare with the effect.
Answers ==
    [thought   : Thoughts,
     execution : {"fails", "ends"},
     predicts  : {"nothing", "the final state", "another state"}]

Mutation == [thought |-> "", execution |-> "ends", predicts |-> "nothing"]

\* compare, on the execution of the proposed actions.
Compared(answer) ==
    CASE answer.execution = "fails"              -> "ERROR"
      [] answer.execution = "ends" /\ answer.predicts = "nothing"
                                                 -> "INCONCLUSIVE"
      [] answer.execution = "ends" /\ answer.predicts = "the final state"
                                                 -> "SUPPORTED"
      [] OTHER                                   -> "CONTRADICTED"

\* The record of the memory is told apart by the thought that was tried.
Observation(answer) ==
    [id |-> <<LoopRun, LoopNode, answer.thought>>, outcome |-> Compared(answer)]

\* The candidate is told apart by the input.  Nothing the loop has measured is
\* a W1 candidate.
LoopCandidate(input, answer) ==
    [id       |-> <<LoopRun, LoopNode, input>>,
     run      |-> LoopRun,
     input    |-> input,
     outcome  |-> Compared(answer),
     target   |-> IF Compared(answer) \in {"CONTRADICTED", "ERROR"}
                  THEN "REJECTED" ELSE "MEMORY_ONLY",
     memory   |-> <<Observation(answer).id>>,
     selected |-> FALSE,
     from     |-> {},
     count    |-> 0]

Ids(records) == {records[i].id : i \in DOMAIN records}

-----------------------------------------------------------------------------

LoopInit == observed = <<>> /\ candidates = <<>>

\* Faulty: the candidate is recorded before the memory accepts its record.
RememberAndRecordFirst(input, answer) ==
    /\ LoopCandidate(input, answer).id \notin Ids(candidates)
    /\ candidates' = Append(candidates, LoopCandidate(input, answer))
    /\ observed' = IF Observation(answer).id \in Ids(observed) THEN observed
                   ELSE Append(observed, Observation(answer))

\* A turn that succeeds.
RememberAndRecord(input, answer) ==
    /\ Observation(answer).id \notin Ids(observed)
    /\ observed' = Append(observed, Observation(answer))
    /\ LoopCandidate(input, answer).id \notin Ids(candidates)
    /\ candidates' = Append(candidates, LoopCandidate(input, answer))

\* The request has a candidate already, made of another thought: the turn ends
\* with an error and leaves its record behind.  A record the memory has already
\* ends the turn with nothing changed.
RememberOnly(input, answer) ==
    /\ Observation(answer).id \notin Ids(observed)
    /\ observed' = Append(observed, Observation(answer))
    /\ LoopCandidate(input, answer).id \in Ids(candidates)
    /\ UNCHANGED candidates

LoopRunNext ==
    \E input \in Problems, answer \in Answers \cup {Mutation} :
        RememberAndRecord(input, answer) \/ RememberOnly(input, answer)

-----------------------------------------------------------------------------

\* A candidate says of a turn what the memory says of it: the record it names is
\* there and has its outcome, however often the request was asked, with whatever
\* answers, and wherever a turn was stopped.
CandidateTellsItsObservation ==
    \A i \in DOMAIN candidates : \E j \in DOMAIN observed :
        /\ candidates[i].memory = <<observed[j].id>>
        /\ candidates[i].outcome = observed[j].outcome
=============================================================================
