-------------------------- MODULE TrainingRecords --------------------------
(***************************************************************************)
(* Training candidates (internal/training, CandidatesFromBANTrace in       *)
(* internal/cognitive/fromban.go and the training commands of              *)
(* cmd/ban/runtime.go).  Every run of the engine leaves a file of          *)
(* candidates, one of each node of its graph.  The commands read any files,*)
(* in any order and more than once, their own output included, and write a *)
(* W1 dataset, W2 promotions, or an export and its manifest.               *)
(***************************************************************************)
EXTENDS CognitiveLoop, Measurement, FiniteSets

CONSTANTS
    Runs,          \* identifiers of engine runs
    Traces,        \* the nodes of a finished run: selected, measurements
    Threshold,     \* -threshold of w2-promote
    MaxTurns,      \* bound: records of the loop
    MaxPaths,      \* bound: files given to a command
    MaxCommands    \* bound: training commands

\* The run that promotions are filed under.
Promotions == "w2-promotion"

ASSUME TrainingAssumption ==
    /\ Threshold \in Nat \ {0}
    /\ MaxPaths \in Nat
    /\ IsFiniteSet(Runs)
    /\ {LoopRun, Promotions} \cap Runs = {}
    /\ \A trace \in Traces :
           trace \in Seq([selected : BOOLEAN, measurements : Seq(Results)])

VARIABLES
    files,       \* the candidate files; one without lines is not there
    dataset,     \* w1-training.jsonl: the candidates it was made of
    export,      \* candidates.jsonl and its manifest.json, of the export
    exporting,   \* the candidates of the export under way, or None
    commands     \* commands so far

vars == <<loopVars, files, dataset, export, exporting, commands>>

\* There is no candidate file without lines, and no export of one.
None == <<>>

\* What AggregateResults makes of a node's measurements decides.
TargetOf(node) ==
    LET outcome == AggregateOutcome(node.measurements)
    IN  CASE outcome \in {"CONTRADICTED", "ERROR"}         -> "REJECTED"
          [] outcome = "SUPPORTED" /\ node.selected        -> "W1_CANDIDATE"
          [] OTHER                                         -> "MEMORY_ONLY"

\* The graph node's text, score and retrieved memory come along unread.  The
\* line names its measurements; what they said is in the trace of the run.
CandidatesOf(run, problem, trace) ==
    [i \in DOMAIN trace |->
        [id       |-> <<run, i, problem>>,
         run      |-> run,
         input    |-> problem,
         outcome  |-> AggregateOutcome(trace[i].measurements),
         target   |-> TargetOf(trace[i]),
         memory   |-> <<>>,
         selected |-> trace[i].selected,
         measurements |-> trace[i].measurements,
         from     |-> {},
         count    |-> 0]]

\* W1DatasetFromCandidates: one example of each identifier, in their order.
DatasetOf(list) == {c.id : c \in {d \in Range(list) : d.target = "W1_CANDIDATE"}}

Confirming(list, input) ==
    {i \in DOMAIN list : list[i].target = "W1_CANDIDATE" /\ list[i].input = input}

\* Faulty: the repetitions are counted by candidate.
RepetitionsEach(list, input) == Cardinality(Confirming(list, input))

Repetitions(list, input) ==
    Cardinality({list[i].run : i \in Confirming(list, input)})

\* The promoted record has the text of the latest of its candidates.  PromotedFrom
\* is a sorted list with an identifier for every line that was read; which ones
\* are in it is kept, how often is not.
PromotionOf(list, input) ==
    [id       |-> <<Promotions, "", input>>,
     run      |-> Promotions,
     input    |-> input,
     outcome  |-> "SUPPORTED",
     target   |-> "W2_CANDIDATE",
     memory   |-> <<>>,
     selected |-> FALSE,
     from     |-> {list[i].id : i \in Confirming(list, input)},
     count    |-> Repetitions(list, input)]

\* W2PromotionCandidates, in the order of the inputs.
PromotionsOf(list) ==
    LET inputs == {p \in Problems : Repetitions(list, p) >= Threshold}
    IN  [i \in 1 .. Cardinality(inputs) |-> PromotionOf(list, SetToSeq(inputs)[i])]

-----------------------------------------------------------------------------

Init ==
    /\ LoopInit
    /\ files = [name \in Runs \cup {Promotions} |-> <<>>]
    /\ dataset = {}
    /\ export = [lines |-> None, manifest |-> None]
    /\ exporting = None
    /\ commands = 0

\* Nothing in the program writes the loop's candidates to a file; who owns the
\* store may, and the loop's items are read here as a file would be.
Lines(path) == IF path = LoopRun THEN candidates ELSE files[path]

Paths == {path \in Runs \cup {Promotions, LoopRun} : Lines(path) # <<>>}

Command == commands < MaxCommands /\ exporting = None /\ commands' = commands + 1

Turn ==
    /\ Len(observed) < MaxTurns
    /\ LoopRunNext
    /\ UNCHANGED <<files, dataset, export, exporting, commands>>

\* writeTrainingCandidates, after a run: a write that fails is a warning, and
\* the run has no file.
RecordRun(run, problem, trace) ==
    /\ files[run] = <<>>
    /\ files' = [files EXCEPT ![run] = CandidatesOf(run, problem, trace)]
    /\ UNCHANGED <<loopVars, dataset, export, exporting, commands>>

\* The files a command names are read one after the other.
Lists == UNION {{FlattenSeq([i \in 1 .. n |-> Lines(paths[i])]) : paths \in [1 .. n -> Paths]} :
                    n \in 1 .. MaxPaths}

\* WriteW1Dataset: renamed into place, or left alone without an example.
WriteDataset(list) ==
    /\ Command
    /\ DatasetOf(list) # {}
    /\ dataset' = DatasetOf(list)
    /\ UNCHANGED <<loopVars, files, export, exporting>>

\* w2-promote: the file of an earlier call is replaced, if there is any input
\* that reached the threshold.
Promote(list) ==
    /\ Command
    /\ PromotionsOf(list) # <<>>
    /\ files' = [files EXCEPT ![Promotions] = PromotionsOf(list)]
    /\ UNCHANGED <<loopVars, dataset, export, exporting>>

\* ExportDirectory truncates the file it is about to write.
StartExport(path) ==
    /\ Command
    /\ exporting' = Lines(path)
    /\ export' = [export EXCEPT !.lines = <<>>]
    /\ UNCHANGED <<loopVars, files, dataset>>

WriteLine ==
    /\ exporting # None
    /\ export.lines # exporting
    /\ export' = [export EXCEPT !.lines = SubSeq(exporting, 1, Len(@) + 1)]
    /\ UNCHANGED <<loopVars, files, dataset, exporting, commands>>

\* Faulty: the manifest is written whatever became of the lines.
WriteManifestAnyway ==
    /\ exporting # None
    /\ export' = [export EXCEPT !.manifest = exporting]
    /\ exporting' = None
    /\ UNCHANGED <<loopVars, files, dataset, commands>>

\* The manifest has the counts and the hash of the lines.
WriteManifest ==
    /\ exporting # None
    /\ export.lines = exporting
    /\ export' = [export EXCEPT !.manifest = exporting]
    /\ exporting' = None
    /\ UNCHANGED <<loopVars, files, dataset, commands>>

\* A write fails or the process is killed: what was written stays, and a
\* manifest cut short while it is written is no manifest.
ExportFails ==
    /\ exporting # None
    /\ exporting' = None
    /\ \/ UNCHANGED export
       \/ export.lines = exporting /\ export' = [export EXCEPT !.manifest = None]
    /\ UNCHANGED <<loopVars, files, dataset, commands>>

Next ==
    \/ Turn
    \/ \E run \in Runs, problem \in Problems, trace \in Traces :
           RecordRun(run, problem, trace)
    \/ \E list \in Lists : WriteDataset(list) \/ Promote(list)
    \/ \E path \in Paths : StartExport(path)
    \/ WriteLine
    \/ WriteManifest
    \/ ExportFails

Spec == Init /\ [][Next]_vars

-----------------------------------------------------------------------------
(***************************************************************************)
(* Properties.                                                             *)
(***************************************************************************)

\* A selected answer that a measurement supports and no authoritative one
\* contradicts.  The support may be of any authority (EligibleIsAuthoritative).
Verified(line) ==
    /\ line.selected
    /\ Reports(line.measurements, {"SUPPORTED"})
    /\ ~ AuthoritativelyContradicted(line.measurements)

VerifiedRuns(problem) ==
    {run \in Runs : \E i \in DOMAIN files[run] :
        files[run][i].input = problem /\ Verified(files[run][i])}

\* README.md:58: a promotion stands for as many runs as the threshold asks for,
\* each of which selected an answer to its input that measured SUPPORTED, and
\* names their candidates, whatever files it was given, how often, and whether
\* they held rejected candidates, the loop's, or earlier promotions.
PromotionsAreReconfirmed ==
    \A i \in DOMAIN files[Promotions] :
        LET p == files[Promotions][i]
        IN  /\ Cardinality(VerifiedRuns(p.input)) >= Threshold
            /\ p.count = Cardinality({id[1] : id \in p.from})
            /\ \A id \in p.from : id[1] \in VerifiedRuns(p.input)

\* The dataset holds answers that were selected and measured SUPPORTED only.
DatasetIsVerified ==
    \A id \in dataset : id[1] \in Runs /\ id[1] \in VerifiedRuns(id[3])

\* Whatever is eligible for training was found SUPPORTED as often as its tier
\* asks for (internal/training/w1dataset.go, w2promotion.go), by measurements
\* of some authority or of none.
EligibleIsVerified == PromotionsAreReconfirmed /\ DatasetIsVerified

\* README.md:56, fromban.go:13-16, w1dataset.go:34-37: a W1 candidate has an
\* authoritative SUPPORTED measurement.  The code asks AggregateResults, to which
\* any supporting result will do: it does not hold.
EligibleIsAuthoritative ==
    \A run \in Runs : \A i \in DOMAIN files[run] :
        LET line == files[run][i]
        IN  line.target = "W1_CANDIDATE"
                => \E j \in DOMAIN line.measurements :
                       /\ line.measurements[j].outcome = "SUPPORTED"
                       /\ Authoritative(line.measurements[j])

\* A manifest is written for the lines that are there: it may go stale when a
\* later export is cut short, but it never vouches for a file that was not
\* written out.
ManifestTellsTheFile ==
    [][export'.manifest \notin {export.manifest, None}
          => export'.manifest = export'.lines]_vars
=============================================================================
