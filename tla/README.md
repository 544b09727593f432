# zdx-ban in TLA+

Specifications, model-checking configurations and machine-checked proofs for
zdx-ban, a branch-and-navigate (BAN) reasoning engine over a local language
model. Paths such as `internal/ban/engine.go` are relative to the root of the
repository. `PROJECT.json` holds the index: which definition models which
lines, what each run checks, and which hazard each property is about.

Contents: 1 the system, 2 the modules, 3 what the runs check, 4 what is proved,
5 where code and documents disagree, 6 what is not modelled, 7 the plan,
8 how to run everything.

## 1. The system

| Component | State | Operations | Hard part | Correct means |
|---|---|---|---|---|
| Reasoning graph (`internal/ban/graph.go`) | nodes by name, by fingerprint, by answer; edges | AddNode, AddEdge, Get, Nodes, Edges, Prune | callers race; duplicates and convergence in any order | acyclic, bounded, no twins, flat convergence |
| Branch search (`internal/ban/engine.go`) | the locals of `Run`, node statuses, measurements, trace flags | generate, evaluate, retain, expand, challenge, verify, recover, select | seven loops rewrite the same statuses; every call can fail; duplicates lead back to old branches | only a verified branch is selected, a rejection is final, nothing viable is left untried, it ends |
| Gravity (`internal/ban/gravity.go`) | wells with counters | ApplyGravity, UpdateGravityOutcome | trained from four places after four status writes | learns each independent authoritative outcome once |
| Scheduler (`internal/ban/scheduler.go`) | channel of jobs, slots, error channel | Parallel | goroutines, errors, cancellation | all slots or an error; nothing outlives the call; it returns |
| Measurement (`internal/measurement`) | - | AggregateResults, ValidateContract | authority beats counts | authoritative contradiction dominates |
| Objective verifiers (`internal/experiment/verifier.go`, `adapter.go`) | - | Measure, BranchVerifier.Verify | five kinds of outcome mapped to pass or fail | only support passes |
| Paired experiment (`internal/experiment/runner.go`, `stats.go`) | result file on disk, rows | Run, runPair, loadOrCreate, persist, Summarize | a signal in any call; five artifacts, one after the other; resumption | a row reports what happened; an interrupted pair leaves no row; every pair is run once, in order |
| Provider accounting (`trackedProvider`) | call log, deadline | invoke | three nested deadlines; retries below; calls after the first failure | a side's outcome agrees with the calls it counts; every call ends |
| Memory store (`internal/memory/store.go`) | index and JSON-lines file | Append, Replace, Reset, OpenJSONL | torn writes, memory ahead of file | reopening yields what was acknowledged |
| Memory lifecycle (`update.go`, `episode.go`) | record statuses and links | ApplyCurrentMeasurement, Supersede, RecordEpisode, Consolidate | read-modify-replace without a lock; two writes per operation | evidence changes a status only with authority |
| Retrieval and wells (`retrieval.go`, `gravity.go`) | - | Retrieve, BuildGravityWells | correlated records, ineligible records | repetition is not evidence |
| Memory experiment (`memory_runner.go`) | learned stores, cases | Run, runCase | two conditions that learn side by side; interruption; stores rebuilt from rows | conditions learn apart; a resumed run knows what the interrupted one knew |
| Cognitive loop (`internal/cognitive/loop.go`) | memory and training stores | Run | the second of two writes is refused; the request is asked again | a candidate tells what the memory tells |
| Training (`internal/training`, `fromban.go`) | candidate lists and files | candidates, W1, W2, export | any files in any order, a file twice, its own output; exports cut short | what is eligible was verified as often as its tier asks |
| Ollama transport (`internal/inference/ollama`, `internal/model`) | one stream | generate, call | failures at every point of a stream, retries, a context that ends at any moment | one answer or one failure with the right code |
| Trace writer (`internal/trace`) | a file | WriteAtomic | crash between write and rename | old or new, never half |
| Configuration, command line, benchmark, telemetry, model state | - | parsing, printing, sampling | - | - |

How they interact. `Engine.Run` owns a graph and calls the model through
`Generator` and `Evaluator`; `evaluate` fans the evaluations of a batch out over
`Parallel` and applies the answers itself, in the calling goroutine. The
verifier is a callback: `AcceptVerifier` passes everything, `BranchVerifier`
measures the branch's answer and appends the result to the branch. `runPair`
builds an engine for one case and turns its trace into a row; the runners loop
over cases, append rows and persist them. Memory supplies guidance and gravity
wells to a run and records episodes after it.

The hazards of each part are listed, with their lines, in `PROJECT.json`.

## 2. The modules

    Measurement           outcomes, authority, aggregation       (operators)
      |
    BanEngine  --INSTANCE-->  BanGraph                           (implements it)
      |                          |
    PairedRow                 BanGraph_proofs
      |                          |
    Selection_proofs  -----------+                               (uses its theorems)

    Scheduler  --INSTANCE-->  ParallelCall                       (implements it)
      |
    Scheduler_proofs

    MemoryStore           the rules of a store                   (operators)
      |          \
    JSONLStore   MemoryLifecycle  (also extends Measurement)
      |                     |
    JSONLStore_proofs       |  \
                            |   MemoryLifecycle_proofs
                            |  (INSTANCE: episodes and patterns)
                            v
    Retrieval  <----  MemoryExperiment  --INSTANCE-->  PairedLedger
    (eligible records, wells)  |                            ^
                    MemoryExperiment_proofs                 | (both implement it)
    ProviderCall  <----  PairedExperiment  -----INSTANCE----+
    (one model call)           |
                         PairedExperiment_proofs

    CognitiveLoop  <----  TrainingRecords  (also extends Measurement)
    (one turn)           |
                         TrainingRecords_proofs

**Measurement.** The vocabulary of `internal/measurement/types.go` and two scans
as declarative definitions: `AggregateOutcome` (`AggregateResults`) and
`IndependentOutcome` (`independentMeasuredOutcome`). A result keeps its outcome,
authority, independence and whether it has an ID: all the rules read.

**BanGraph.** The graph with its mutex: `AddNode` and `AddEdge` hold it for their
whole body and are one step each, with the checks in the code's order
(`AddNodeResult`, `AddEdgeResult`). The two fingerprint indexes are derived from
the nodes: `HolderOf` and `FirstWithAnswer`. A node is returned as a pointer, so
whoever holds one may write its status at any time (`WriteStatus`, `Prune`); the
graph's callers are otherwise unconstrained. `Reaches` states the depth-first
search by closed sets; this is the form the proofs use. BanGraph is also the
abstract specification of the search.

**BanEngine.** One `Engine.Run`. `pc` is the statement reached; an action is one
iteration of a loop or the straight code between two calls that can fail.

| Code (`engine.go`) | Actions |
|---|---|
| 68-96 first proposals | `GenerateInitial`, `StoreInitial`, `InitialStored`, `InitialRefused` |
| 97-131 regeneration | `Regenerate`, `StoreRegenerated`, `Regenerated`, `InitialRefused` |
| 132-157 evaluation, retention | `EvaluateInitial`, `Retain` |
| 158-203 expansion | `ExpandLeader`, `SkipDeepLeader`, `StoreChild`, `DropChild`, `LinkChild`, `LinkRefused`, `LeaderExpanded`, `ExpansionDone`, `EvaluateChildren` |
| 204-234 candidates, executor, challenges | `Collect`, `Execute`, `NothingToExecute`, `Challenge` |
| 235-261 verification | `PassCandidate`, `RejectCandidate`, `CandidatesRejected` |
| 262-322 recovery | `GenerateRecovery`, `StoreRecovery`, `SkipRecoveryDuplicate`, `RecoveryRefused`, `LinkRecovery`, `RecoveryLinked`, `RecoveryStored`, `EvaluateRecovery`, `RankRecovery`, `PassRecovery`, `RejectRecovery`, `RecoveryRejected` |
| 323-354 result | `Select`, `WriteTrace` |

Names are numbers: branch `b03` is 3. The initial loop names by position, all
later ones by the number of stored nodes plus one (`NextId`), as in the code. A
proposal is its fingerprint, drawn freely, so a model may repeat itself, its
parent or a rejected branch. An evaluation is a hard violation or a score in
`0..MaxScore` with the well that routed it, drawn freely: whatever the weights
and the lexical similarity compute is among the choices. `Evaluate` is one step
because `evaluate` applies no answer before all have come, and the goroutine
that runs `Run` is the only one that touches the branches then (see ParallelCall
below). `Return` ends the run with the name of its error and forgets its
locals. `dropped` is a history variable: proposals skipped at line 178. The metrics
counters, log lines and time stamps are left out.

**PairedRow.** Extends BanEngine by the row `runPair` builds from a run:
`ReportFailure` is the early return of a failed run, `ReportSelection` the rest.
The second verification of the answer and of the top branch gives the outcome
the engine saw when it saw one, since the verifiers are deterministic; a top
branch never tried may have any.

**Scheduler.** `Parallel` as a caller and workers. The unbuffered send is a
rendezvous (`Dispatch`); `NoticeCancel` may be taken even when a worker is ready,
as Go's `select` chooses freely; `errCh` has room for one error; `Exit` models a
worker that finds the channel closed. A function call is `Succeed` or `Fail`.
**ParallelCall** is what the engine relies on: slots fill one by one, then the call
returns once, with every slot or with an error.

**MemoryStore.** What `MemoryStore` refuses and changes, as operators on a
sequence of records: the code's map and its order slice are one sequence with
distinct identifiers. A record is what the rules read of it; whether
`validateRecord` takes it is its field `valid`.

**JSONLStore.** The index in memory and the file under it. A file is its lines and whether
the last one lacks its newline; a line is a record, or `NoRecord` when
`OpenJSONL` cannot read it. The code changes the index before the file, so a call is
two steps or more (`Begin...`, `Finish...`, `Fail...`; `WriteTemporary` and `Rename` inside a
rewrite), and `Stop` may come between any two. A write that fails or is cut off
leaves nothing, part of the line, the line without its newline or all of it;
what follows an unfinished line is lost with it (`Written`). Readers take no lock
of the writers and see the index as it is. Two history variables say what was promised:
`promised` maps an identifier to what may be found under it later (the last
acknowledged record, and those of later calls that were not acknowledged), `clean`
that nothing has failed since the file was last read or written whole. The
temporary file of an interrupted rewrite stays on disk and is read by nobody.

| Code (`store.go`) | Actions |
|---|---|
| 122-157 `OpenJSONL` | `Open`, `OpenRefused` |
| 158-181 `Append` | `BeginAppend`, `FinishAppend`, `FailAppend`; `Refuse` |
| 186-192, 203-236 `Replace`, `rewrite` | `BeginReplace`, `WriteTemporary`, `Rename`, `FailReplace`; `Refuse` |
| 194-201 `Reset` | `BeginReset`, `FinishReset`, `FailReset` |

**MemoryLifecycle.** The operations of `update.go` and `episode.go` over the
interface of a store, by callers that act one at a time as the code's callers
do. `Supersede` is one step with two results, since it may be cut off between its two
writes. `Consolidate` appends the patterns of the strategies in alphabetical order and
stops at the first that exists. A pattern is named by its strategy and its
contributing records, which is what the code hashes. A record carries one
history, `born`, its first status.

**ProviderCall.** One model call: `trackedProvider.invoke` around `Engine.generate`
and `call`. `ctx` holds the error of the contexts of the run, of the case and of the
call, each a child of the one before; `EndContext` ends one and its live descendants.
A call connects, streams and backs off; every way the code has of failing is an
action, with the code the failure is given and whether it wraps a context error,
which is what ends the retries. `FailureCodeOf` and the classification of `call`
look at the context when the error has arrived, not when it arose, so the code of an
attempt depends on what ended meanwhile. What the server sends is free.

| Code | Actions |
|---|---|
| `runner.go` 47-75 `invoke` | `Invoke`, `Return`, `CallDeadline` |
| `ollama/engine.go` 93-119 `generate` | `Fail`, `Retry`, `GiveUp` |
| `ollama/engine.go` 188-216 connecting | `Refused`, `Aborted`, `DialTimesOut`, `BadStatus`, `OpenStream` |
| `ollama/engine.go` 221-282 streaming | `BadChunk`, `StreamBreaks`, `StreamEnds` |

**PairedExperiment.** `Runner.Run` over a schedule of pairs, with `runPair` as the calls
of its two sides and `persist` as one step per artifact. `MaxBANCalls` bounds the calls
of the engine's run on a pair; the run may end after any of them, with the verdicts
`Endings` allows: a failed generation ends it, a failed evaluation does not keep
the next one from being made (`Parallel` hands out what is left), and a case whose time is up
between two evaluations ends with the context's error. The evaluations of a batch are
made one after the other, which is the default (`MaxConcurrentEvaluations` 1).
`Crash` may come at any moment and `WriteFails` at any artifact; both leave the
artifact old, except the report, which is written in place and may be cut short.
`Start` is `loadOrCreate`: the summary is the only artifact read back. A side's `interrupted` is history:
whether the run's context had ended when the side was accounted for.

| Code (`runner.go`) | Actions |
|---|---|
| 141-160, 351-376 | `Start` |
| 160-201 the loop | `Skip`, `StopAtHead`, `StartPair`, `Finish`, `Persisted` |
| 202-245 baseline | `CallBaseline`, `BaselineDone` |
| 246-343, 178-188 engine, row | `CallBAN`, `BANDone` |
| 377-420 `persist` | `Write`, `WriteFails` |

**PairedLedger** is what both experiments promise of their rows: pairs are recorded in
schedule order, each once, none is taken back, and the experiment is finished when it has
them all (until it is resumed and interrupted again).

**Retrieval.** Which records `Retrieve` may return (`Eligible`) and what a gravity
well counts (`Counted`, `SupportingEvidence`, `ContradictingEvidence`). What a record's text, category
and provenance say enters as constant operators, to which MemoryExperiment gives their
meaning for its records (`CaseOf`, `CategoryOf`, `Evidence`): an episode cites its case and its measurement, a seed neither.

**MemoryExperiment.** `MemoryRunner.Run` and `runCase`. A run of the engine is its
outcome; what the module follows is which records each of the three conditions is answered with, what
the last two teach, and where it is kept: the two learned stores in memory, the
rows, and the summary on disk from which `Start` rebuilds the stores. Episodes and patterns
are those of MemoryLifecycle (`Store(records) == INSTANCE MemoryLifecycle ...`), so the early
return of `Consolidate` and its pattern identifiers come along. `ended` says whether the run's or
only the case's context has ended; under either a run of the engine ends in an error, but `runCase` goes on
to its end and the row is recorded, as in the code. A row's `interrupted` and `start`
are history. The identifiers of the seeds are taken to be distinct (see section 5).

**CognitiveLoop.** One turn of `Loop.Run` over its two stores: the record of the
memory first, then the training candidate. The identifier of the first is made
of the thought that was tried, that of the second of the input, so the same request may be
refused by either store: `RememberAndRecord` and `RememberOnly`; a record the memory already has
changes nothing. **TrainingRecords** adds the candidates a finished run leaves and the
training commands over any list of files, the loop's candidates and the promotions
themselves among them. An export is cut up as the code writes it: truncate, line by
line, manifest; `ExportFails` stops it anywhere.

The definitions introduced by a comment `Faulty:` are used by no specification.
Each is a plausible slip in the definition that follows it, and the mutants of
`PROJECT.json` put it in that definition's place to show that a property
notices.

The `MC*` modules name the values of small instances; the `.cfg` files set the
bounds.

## 3. What the runs check

| Run (`PROJECT.json`) | Configuration | Distinct states | Properties |
|---|---|---|---|
| `graph` | `MCBanGraph.cfg` | 15 thousand | `TypeOK`, `Acyclic`, `DistinctFingerprints`, `ConvergenceIsFlat` |
| `engine` | `MCBanEngineBounds.cfg` | 3.5 million | `SelectionIsVerified`, `NothingUntried`, `BestFirst`, `GravityLearnsFromEvidence`, `RejectionIsFinal`, `VerifiedOnce` |
| `row` | `MCPairedRow.cfg` | 1.1 million | `TypeOK`, `AnsweredRecoveries`, `ImplementsGraph`, `Terminates` |
| `scheduler` | `MCScheduler.cfg` | 4 thousand | `TypeOK`, `ResultsAreComplete`, `NoWorkerOutlivesTheCall`, `ImplementsCall`, `Returns` |
| `store` | `MCJSONLStore.cfg` | 321 thousand | `TypeOK`, `NothingForgotten`, `MirroredWhileClean` |
| `lifecycle` | `MCMemoryLifecycle.cfg` | 320 thousand | `StatusFollowsEvidence`, `SupersessionLeadsOn`, `PatternsHaveDistinctSupport` |
| `experiment` | `MCPairedExperiment.cfg` | 583 thousand | `TypeOK`, `InterruptedNotRecorded`, `ArtifactsFollowSummary`, `SidesAgreeWithCalls`, `ImplementsLedger`, `RunReturns` |
| `memory_experiment` | `MCMemoryExperiment.cfg` | 613 thousand | `TypeOK`, `ConditionsAreIsolated`, `RowsTellTheMemory`, `RepetitionIsNotEvidence`, `InterruptedIsLast`, `ImplementsLedger` |
| `training` | `MCTrainingRecords.cfg` | 1.6 million | `CandidateTellsItsObservation`, `EligibleIsVerified`, `ManifestTellsTheFile` |

What they show.

- *Graph.* Any order of calls from any number of callers keeps the graph acyclic
  and within its budget, stores one node per fingerprint, and keeps the answer
  index with the first node of each answer.
- *Search.* A selected branch is the only one that passed, and its measurements
  support it; a pruned or failed branch never returns; no branch is measured twice, not
  even when a recovery proposal repeats it; the error "no candidate passed
  verification" is only returned when every branch that was not pruned had its
  turn, minority branches among them; nothing untried outranks the winner. Under a contract with
  authority a well learns the outcome of each branch it routed once, and not before it was measured, though a
  recovery proposal repeats it; under one that grants none it learns nothing, whatever the outcomes and however
  the names collide.
- *Rows.* With the goroutine scheduled and model calls returning, a run ends and is
  reported; every step of it is a step of the graph. In a row with a verified answer, "recovered" and "the top branch failed"
  coincide, whichever of the three places set the flag.
- *Scheduler.* No slot is written twice or lost, no worker outlives the call, and
  the call always returns.
- *Store.* Whatever fails and wherever the process stops, a file that opens
  holds what was acknowledged last, or what a later call was given that
  was not acknowledged; it may refuse to open after a torn line, a failed reset or a record
  that is too long. While nothing has failed and no record was too long, the file is the index.
- *Lifecycle.* Only the last independent authoritative measurement makes a
  record supported or contradicted; supersession leads to a stored, later record
  even when it is cut off; the support of a pattern comes from distinct groups of
  stored episodes and never from the model's word or from another pattern.
- *Paired experiment.* A pair on either side of which the run ended, by the signal or its deadline, has no
  result, in memory or in any artifact, whichever call that caught and whatever outcome its error was
  given, for a side's history `interrupted` tells it apart where the outcome says a timeout or a failure. After any failed
  write or crash each artifact holds a prefix of the summary's results, so a report may be
  old and is never ahead of what a resumed run starts from. What a result says of a side agrees
  with the calls it counts: an engine that lost a call is never reported as answering nor as a
  search that found nothing. The summary is a ledger of the schedule, and `Run` returns
  even when the server never answers.
- *Memory experiment.* Nothing a misleading run left reaches the useful store, alone or in a pattern,
  before or after a restart; a resumed experiment goes on with the memory the interrupted one had;
  asking a case again adds nothing to the pull of a well. An interrupted case is recorded as
  done, but at most one in each start of the process.
- *Training.* A promotion stands for as many runs as the threshold asks for, each of which selected
  an answer to its input that measured `SUPPORTED`, and the W1 dataset holds such answers only, whatever files
  the commands were given (the measurement's authority is another matter: section 5); a manifest is only ever written for the lines that are there; a candidate of the loop
  names a record that exists and says the same.

Bounds. Three fingerprints with one answer and one with another are enough to
have duplicates, convergence and distinct proposals at once (the three are
interchangeable and declared symmetric where no liveness is checked). In the `engine` run one of two initial
branches is retained as the leader, and with room for two active branches the other goes on as a minority
branch; four nodes leave room for two of a child, the executor's answer and a recovery branch beside them, and
never for all three. With `MaxDepth` 1 there are children and recovery branches at the depth limit. The same run
may instead take a second configuration, which `MCBanEngineBounds` instantiates (`Shallow`, chosen at the start):
`MaxDepth` 0, the limit itself, and three initial branches, of which a duplicate second one makes
regeneration ask for a name in use. The `row` run has more initial branches than nodes. Three or four nodes make the
budget bite in every loop that inserts; two score levels make ranking matter, one makes ties. Contracts: `Deterministic` is what all
built-in verifiers declare, `Estimated`, of the second configuration, one that may train nothing. `MCBanGraph` has four
names for at most three nodes, so both a name and a fingerprint can be taken.
Four inputs on three workers let inputs wait for workers, several fail and a
cancel arrive at every point.
`Ids` ends at `InitialBranches` or `MaxNodes + 1`, the largest name a run can ask for.

Store: one identifier has two contents and a foundation record, so that replacements
are accepted and refused; the other an ordinary record, one too long and one
that validation refuses. Three lines are one more than the identifiers, so a failed reset
can leave a duplicate behind, and rewrites write two lines, so they can be cut off
inside. Lifecycle: three chosen identifiers are enough for a chain of two supersessions and for
two patterns of one strategy (from two episodes, then from three), for which there is room. Two
measurements, on one record or on two, show every order of two results; a
third would repeat them, since a status depends on the last decisive one. The
identifiers are interchangeable and declared symmetric.

Paired experiment: two pairs, so that one is recorded while the other is interrupted; one
retry; an engine that generates and evaluates a branch on the first pair, so a call may fail
after another has completed, and only generates on the second; two starts, so every
stop is resumed once. More starts repeat the second: a start depends on the summary only.
Memory experiment: two cases of one category, each asked twice, which is the least for a
pattern (`MinDistinctEpisodes` 2) and for a repetition; one foundation anchor, one seed of guidance and
one misleading seed; two starts. Training: two runs, two problems, a
threshold of 2, the four traces a run may leave (one is supported under a contract without authority), two turns of the loop, two files to a command and two
commands, so that the second may read what the first wrote; `CHECK_DEADLOCK FALSE`, since the
user may stop giving commands.

Fairness. `RowFairSpec` (PairedRow) is weak fairness of the whole next-state relation:
the run is one goroutine, and each of its model calls carries a deadline, so it
returns. It forces no particular answer. `Scheduler!FairSpec` is weak fairness of the caller and of each
worker, which is what the Go scheduler gives to runnable goroutines; cancelling
is never forced. `PairedExperiment!FairSpec` is weak fairness of the steps of the process (`Work`), of
the call's deadline, which is a timer, and of the client noticing that its context has ended;
the server is asked for nothing.  Nothing is strongly fair.

Deadlock is checked in every other run; `Returned`, `Reported`, `Done` and `AtRest` are the steps of
what has ended.

## 4. What is proved

TLAPS checks these for every value of the constants that meets the assumptions
`GraphAssumption`, `SearchAssumption`, `RowAssumption`, `SchedulerAssumption`, `StoreAssumption`,
`LifecycleAssumption`, `RetriesAssumption`, `ScheduleAssumption`, `BoundsAssumption`,
`TrainingAssumption` and `MemoryExperimentAssumption`; TLC evaluates each of them in a run. What they rest on:

- The search's bounds are any natural numbers, related in no way: `internal/appconfig/config.go:200-214`
  relates those of a configuration file, but the flags of `cmd/ban/main.go:113-120`
  replace each of them unchecked.
- `RowAssumption`: a row's engine has the branch verifier, which `internal/experiment/runner.go:258`
  gives it whatever the configuration says. Only what reads a row needs it.
- `LifecycleAssumption`: a seed is stored before anything was measured; strategies come in one
  alphabetical list (`Consolidate` sorts the keys of a map); and no caller chooses an identifier
  that is the hash of a pattern or the empty one (`NoRecord`). The third is an idealisation: a caller
  who knew a pattern's hash could take it as the name of an episode.
- `TrainingAssumption`: a trace is a list of nodes with their results, there are finitely many runs, and
  no run of the engine has the identifier the loop or the promotions file theirs under
  (`internal/cognitive/fromban.go`, `internal/training/w2promotion.go`). `MaxPaths` is a bound of the model.
- `MemoryExperimentAssumption`: no pair comes twice in a schedule, since the loader refuses a case
  identifier that comes twice (`internal/experiment/memory_dataset.go:125`) and `Run` asks
  each case once in a repetition; a case's seeds are lists; and the identifiers of seeds, of
  episodes (hashes of a run) and of patterns (hashes of a strategy and its contributors) are of different kinds.
  The last is an idealisation like the third one above: the dataset could name a seed after a hash.

- `BanGraph_proofs`: `TypeOK`, `NodeBound`, `DistinctFingerprints` and
  `ConvergenceIsFlat` follow from their conjunction `NodeInv`, which is inductive:
  the bound needs that the stored set is finite, flat convergence needs both of its
  halves (a mark points to an unmarked node; an answer has one unmarked node).
  `Acyclic` needs more than itself: adding an edge from `a` to `b` must not make
  any old edge part of a cycle. Lemma `SeparatedOrReached` gives, for two nodes that
  do not reach one another, a closed set that separates them, and `EdgeKeepsAcyclic`
  combines the separating sets of the old edge and of the new one.
- `Selection_proofs`: `EngineImplementsGraph`, every behaviour of the search is a
  behaviour of the graph. The invariant is `EngineInv == GraphInv /\ LoopInv`:
  the graph's invariant, and that the lists and indices of `Run` hold stored
  branches wherever they are read (`pc` decides which). It is needed because a link
  or a status write is a graph step only for stored nodes, and because `NextId` is
  a name only while the budget holds. The graph's theorems then carry over:
  `EngineGraphIsAcyclic` and `EngineGraphIsBounded`.
  The rest of the module is about what a run selects: `TypeOK`, `SelectionIsVerified`, `RejectionIsFinal`, `VerifiedOnce`,
  `NothingUntried`, `BestFirst` and `GravityLearnsFromEvidence` for every size of the search, and
  `AnsweredRecoveries` of its row. None is inductive; `RunInv` builds on `EngineInv` in layers, each needed by
  the next. `ListInv`: no branch is listed twice, in one list or in both, and one that awaits its evaluation is
  still proposed. So a loop that works through a list meets every branch once, and a verdict given at one
  place of the list says nothing of the others. `CaseInv`: while the run is open the rejected branches
  are exactly those in front of the loop's position and the lists already worked through (`VerdictInv`), no
  status contradicts a verdict (`StatusInv`), and every stored branch is pruned or listed
  (`AccountInv`): this is why "no candidate passed" is said only when nothing is left. It makes
  `RejectionIsFinal` and `VerifiedOnce` properties of a step. `OrderInv`: the lists are tried
  in descending order, which a sort establishes and an unscored branch at the end keeps, and what is left behind the winner
  is below it. `GravityLearnsFromEvidence` is inductive over these, and `ResultInv` ties
  a recovery to a winner that did not lead at first. `RowRunsEngine` shows that a row takes the engine's steps
  and no other, so that it inherits all of it and the refinement (`RowImplementsGraph`).
- `Scheduler_proofs`: `CallInv` conjoins the four safety invariants with what the
  caller's phase says of the workers; each is a theorem for any number of inputs
  and workers, and `Refinement` proves that `Parallel` implements `ParallelCall`.
- `JSONLStore_proofs`: `TypeOK`, `NothingForgotten` and `MirroredWhileClean`. The last two
  speak of a store at rest, so `StoreInv` adds what holds inside a call: in an
  append the index is the file and one record more, and that record is among the
  promised ones; in a rewrite the temporary file is a beginning of the index, so that the
  rename, which is taken when their lengths agree, publishes the index itself; in a reset
  every identifier may be empty. Lemma `WrittenLeaves` says what a write that fails can
  leave: a file that does not open, the old contents, or the old contents and the
  record. The proof rests on two assumptions of the model: a rename and a truncation last
  once they return, and one process uses the file.
- `MemoryLifecycle_proofs`: `TypeOK`, `SupersessionLeadsOn`, `StatusFollowsEvidence` and
  `PatternsHaveDistinctSupport`, for all seeds, experiences, results and any number of records. The invariant `Sound` speaks
  of a list of records with distinct identifiers: a superseded record is followed by the one that
  replaces it, a status follows from the results stored with it, and a pattern rests on contributors
  that are stored before it, are none of them derived, and are of two groups at least. "Before it" is what
  makes it inductive: no later record can take the name of a contributor, and an
  update keeps a record's place, group and source. Every operation is a record put at the end, a
  record changed where it stands, or a consolidation, and one lemma shows for each that `Sound` lasts; a
  supersession is the first after the second.
- `PairedExperiment_proofs`: `TypeOK`, `InterruptedNotRecorded`, `SidesAgreeWithCalls`, `ArtifactsFollowSummary` and the
  refinement `ImplementsLedger`, for every schedule and any number of calls, retries and
  starts. Three invariants are inductive over the types. `SignalInv` follows a cancellation from
  the context it ended to the error of a call and from there to the outcome and the history of a side; it needs
  that a case or a call is cancelled by nothing but the run above it, and says that wherever a trace of a
  cancellation, or a side stamped `interrupted`, is found the run has ended, so that `runPair`'s row is dropped. `RowsInv` says where `Run` is in
  the schedule (the pairs it skips have results, and the results ahead of it are skipped) and how far the summary is
  behind the results in memory: nothing between two persists, in one by one result or by `FinishedAt`,
  never by both. `AgreeInv` gives `SidesAgreeWithCalls`: a baseline has one call and it decides the
  side's outcome, and no call ends as a search that found nothing, so a side without failed calls has an answer or
  an exhausted search; it leans on `SignalInv`, for a cancelled call counts as failed but its pair
  leaves no row. The artifacts follow because the summary is the first to be
  written; the ledger, because only that write is a step of it. The distinct pairs of
  `ScheduleAssumption` are needed at a start alone, where a row tells which pair to skip.
- `TrainingRecords_proofs`: `EligibleIsVerified`, `CandidateTellsItsObservation` and `ManifestTellsTheFile`, for
  any number of runs and files and any threshold. A file is changed after it was read, so the
  invariant of the files, `FilesSound`, cannot speak of one file: a line that asks for training names a
  run whose file says that it selected an answer to its input and measured it `SUPPORTED`, by a result of whatever
  authority, wherever the line has been copied to, and this lasts because
  a run's file is written once (`Grows`). A promotion counts distinct runs, so
  reading a file twice counts nothing twice. A command reads
  the lines of a list of files, joined by `FlattenSeq`, a recursive function, that is, a choice among the functions that meet an
  equation. `FlatteningExists` shows that there is one, by the least counterexample
  (`SetInduction`, which needs no theorem with an operator for a parameter), and `Joined` that
  what comes out is a list of the files' lines.

- `MemoryExperiment_proofs`: the six properties of the memory experiment that its run checks, for every
  schedule, all seeds and any number of starts. The invariant `ExperimentInv` has four layers. `TypeInv`
  says what a row may teach: the episodes of its pair under the condition they were made in, and patterns that
  rest on seeds and useful episodes; `ConditionsAreIsolated` is read off it, because it speaks of both stores
  and of the rows on disk at once, and a start takes the store from the rows. `PlaceInv` says
  where `Run` is in the schedule, which pairs it skips, and that the rows are those of the schedule's first
  pairs; from it come the ledger (`LedgerStep`) and that no pair is asked twice. `LearnInv` is
  `RowsTellTheMemory` everywhere a process runs, and that no store has an identifier twice:
  a lesson's episode is new because its pair is, and a pattern because `Consolidate`
  refuses it otherwise (`Lessons`). It rests on `JoinedWithOneMore`: what the rows have learned is a
  flattened list, and a row more adds its lessons at the end, so appending to the row and to the store is the same
  thing. `LateInv` gives `InterruptedIsLast`: rows of this start that
  were interrupted exist only when the run has ended, and then no case is begun. For `RepetitionIsNotEvidence`,
  `Weighed` shows that the fold by which a well weighs its records, a recursive function, counts the records of runs (by
  induction over the size of a set, again with `SetInduction`); of those of one correlation group one counts,
  the group of an episode is its case, and seeds and patterns are of no run (`HeldGrouped`), so
  the counted positions map one to one into the cases (`PullOfCases`).

Only model-checked: the liveness properties `Terminates`, `Returns` and `RunReturns`. Liveness under
fairness and ENABLED are out of the prover's reach. Every other property of a passing run has a theorem.

## 5. Where code and documents disagree

Three have a run that TLC ends with a counterexample.

- `RecoveredRowsPassed` (run `row_recovered`): a run that fails
  after its top branch was contradicted reports a successful recovery
  (`internal/experiment/runner.go:317`), against `EXPERIMENTS.md:58`.
- `RepetitionsAreIsolated` (run `repetitions`): with online learning the second repetition of a
  case is answered with what the first one learned
  (`internal/experiment/memory_runner.go:154`, `216-219`), against `EXPERIMENTS.md:32`.
- `EligibleIsAuthoritative` (run `training_authority`): a selected answer becomes a W1 candidate when any
  measurement supports it (`internal/cognitive/fromban.go:41`, `internal/measurement/aggregate.go:51-53`), also
  under a contract whose authority is not authoritative, which `ValidateContract` takes; `README.md:56`,
  `internal/cognitive/fromban.go:13-16` and `internal/training/w1dataset.go:34-37` ask for an
  authoritative one. Every contract of the shipped datasets is
  authoritative; a user's own dataset need not be.

Three more have a property and a configuration to be run by hand, and TLC violates each:

- `NoVerifiedCandidateIsExhaustion` (`MCPairedRow_NoVerifiedCandidateIsExhaustion.cfg`):
  `FailureCodeOf` labels any untyped error as exhaustion
  (`internal/inference/engine.go:56`), against its comment at line 23.
- `InconclusivePreserves` (`MCBanEngine_InconclusivePreserves.cfg`): the recovery round
  fails inconclusive branches (`internal/ban/engine.go:305`), against
  `MEASUREMENT.md:32` and against the main loop.
- `DistinctProposalsStored` (`MCBanEngine_DistinctProposalsStored.cfg`): after a duplicate
  initial proposal a distinct child is dropped for a name in use
  (`internal/ban/engine.go:176-180`), against `README.md:7`.

The rest was noticed while modelling. It has no run, because what the documents say
leaves room for the code, or no caller takes the step. In the memory:

- `Replace` guards the content of a foundation record by its stored tier, and
  takes any tier (`internal/memory/store.go:81`), so three replacements rewrite
  one; `MEMORY.md:7` calls its mutation "explicit and historically traceable".
- A weaker contradiction after an authoritative one makes a record uncertain
  (`internal/memory/update.go:42`), and its strategy may be promoted again;
  `MEMORY.md:38` asks for "no contradicted record for that pattern".
- An empty correlation group counts as a distinct one
  (`internal/memory/episode.go:75`); `MEMORY.md:38` asks for "complete provenance".
- `Consolidate` returns at the first pattern that exists already
  (`internal/memory/episode.go:89`), strategies later in the alphabet are left for good,
  and its caller drops the error (`internal/experiment/memory_runner.go:327`).
- Of correlated records a gravity well counts the first in the store, whatever the later ones say
  (`internal/memory/gravity.go:111`).
- A measurement overwrites the status of a superseded record (`internal/memory/update.go:15-52`): one that was
  replaced becomes supported again, and retrieval offers it beside its replacement. `SupersessionLeadsOn` says
  that its link still leads on, not that its status stays.
- A record whose line exceeds the 4 MiB that `OpenJSONL` reads (`internal/memory/store.go:133`) is written and
  acknowledged, and the file does not open again. `NothingForgotten` speaks of files that open, and `clean`
  leaves a file with such a line out of `MirroredWhileClean`.
- `memory reset` opens the store first (`cmd/ban/memory.go:16`), so it cannot reset one that does not open.

In the memory experiment (`internal/experiment/memory_runner.go`):

- An interrupted case is recorded as done (no look at the context between 186 and 191), while the paired
  runner discards it; `EXPERIMENTS.md:50` speaks of the paired rows. `InterruptedIsLast` bounds the damage.
- Retrieval excludes by `c.Evaluation.ID` (223) what episodes carry as `c.ID` (424). In the shipped
  datasets the two differ, so the exclusion of a case's own episodes never applies; only the
  search for the answer in the text does. `MCEvaluationID` keeps them different.
- Without online learning consolidation runs on the case's own store: the patterns of two repetitions
  made of one episode each differ, but seeds that complete a pattern by themselves give
  it the same name twice, and the resumption then stops at "restore useful gravity memory".
- The errors of `SeedStore` are dropped at 141 and 261: a duplicate seed identifier leaves a nil store
  that is used at once. The model assumes distinct identifiers.
- The read-only policy still lets a measurement change the status of a misleading record in the case's
  own store (303); the store ends with the case.

In the transport and the runner:

- A structured answer that does not decode is not retried (`internal/inference/ollama/engine.go:106`), a chunk
  that does not decode is.
- A call's retries are hidden from the accounting: one entry for each call, with the last error.
- A case whose deadline passes between two evaluations is reported as a timeout in which no call failed
  or timed out (`internal/ban/scheduler.go:37-41`).
- `report.md` is not written aside, unlike the other artifacts, and `WriteCandidatesJSONL` leaves an
  older file alone when there is nothing to write (`internal/training/write.go:15`).

In the search:

- A child proposal that repeats its parent or an ancestor closes a cycle; `AddEdge` refuses the edge and the run
  ends in that error (`internal/ban/engine.go:181-183`, `LinkRefused`). The refinement allows it.

In the loop and the training records:

- A request that is asked again and answered with another thought leaves its record in the memory and ends in an
  error, for the candidate's identifier leaves the thought out (`internal/cognitive/loop.go:114`, `128`).
- A crash during an export leaves the old manifest beside the new lines
  (`internal/training/candidate.go:186`); the manifest's hash tells.
- `W2PromotionCandidates` does not look at the runs that contradicted the same input
  (`internal/training/w2promotion.go:38`).

## 6. What is not modelled

Text processing (fingerprints, prompts, lexical similarity, answer matching),
floating-point scores and averages, metrics, logging, command-line parsing,
telemetry, the benchmark harness and the Python and shell training scripts. They
have no state machine, or none that the properties tell apart. The baseline side of
an experiment row is part of PairedExperiment and left out of PairedRow, which looks into the search.

Of the memory experiment the labels of `classifyMemoryEffects`, the raw rows and their validation
(`memory_raw.go`, `memory_validation.go`) are left out: they are functions of a finished row.
Of retrieval the scores, budgets and the guidance text are left out: they choose among
eligible records. Concurrent evaluations (`MaxConcurrentEvaluations` above 1) are in Scheduler and
not in PairedExperiment, where the order of the log would become free. The engine's own
search inside a pair is PairedRow's; PairedExperiment has its calls and verdicts.

The heartbeat goroutine of `runStage` only logs. `MaxConcurrentModelCalls` is read by no
code, so there is nothing to model.

## 7. Plan

Done: the modules of section 2 and the proofs of section 4. Next, in this order:

1. The safety half of the three liveness properties: measures that every step of the search, of a call of
   `Parallel` and of the paired run lowers or leaves alone, proved as action properties, so that only
   fairness remains for TLC.
2. `GraphSearch`: the recursion of `reaches` with its shared `seen` map as an
   executable definition, checked equal to `Reaches` on every graph of the
   instance (model checking only: it is recursive).
3. The budgets of `Retrieve` as an operator over eligible records, with the guidance a run is given.
4. PairedExperiment with concurrent evaluations.

## 8. Running

    tlc -workers 2 -config MCBanGraph.cfg MCBanGraph
    tlapm Scheduler_proofs.tla

Every run ends within four minutes on two workers, the proofs of `Selection_proofs` take about three
and those of any other module about one.
