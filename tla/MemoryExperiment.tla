-------------------------- MODULE MemoryExperiment --------------------------
(***************************************************************************)
(* The memory experiment (internal/experiment/memory_runner.go).  A case   *)
(* is answered without memory, with the memory of what it was exposed to   *)
(* and of what earlier cases taught, and with misleading memories added;   *)
(* what the last two taught is kept in a store each, and rebuilt from the  *)
(* rows when an interrupted experiment is resumed.  A run of the engine is *)
(* its outcome here, and the ids of the seeds are distinct.                *)
(***************************************************************************)
EXTENDS MemoryStore, Measurement, FiniteSetsExt, SequencesExt

CONSTANTS
    Missing,             \* an empty category, strategy or correlation group
    Reveals(_, _),       \* a record's text contains the answer of a case
    Schedule,            \* the pairs <<case, repetition>>, repetition by repetition
    Category,            \* the cases' category, and with it their strategy
    EvaluationID,        \* the identifier a case's evaluation has
    Exposure, Misleading,\* the seeds of a case, with its foundation anchor first
    SideOutcomes,        \* the outcomes a run of the engine may have
    Writable,            \* WritePolicy is not read-only
    OnlineLearning,      \* MemoryOnlineLearning
    MinDistinctEpisodes,
    MaxStarts            \* bound: starts of the process

Conditions == {"memory", "misleading"}

\* An episode is named after its run, and a seed by the dataset.
RunIds(condition) == Range(Schedule) \X {condition}

SeedsOf(c) == Range(Exposure[c]) \cup Range(Misleading[c])

SeedIds == UNION {{r.id : r \in SeedsOf(c)} : c \in DOMAIN Exposure}

ASSUME MemoryExperimentAssumption ==
    /\ Schedule \in Seq((DOMAIN Exposure) \X Nat)
    /\ \A i, j \in DOMAIN Schedule : Schedule[i] = Schedule[j] => i = j
    /\ DOMAIN Misleading = DOMAIN Exposure
    /\ \A c \in DOMAIN Exposure : {Exposure[c], Misleading[c]} \subseteq Seq(SeedsOf(c))
    /\ Missing \notin DOMAIN Exposure
    /\ EvaluationID \in [DOMAIN Exposure -> STRING]
    /\ SideOutcomes \subseteq Outcomes
    /\ {Writable, OnlineLearning} \subseteq BOOLEAN
    /\ MaxStarts \in Nat
    \* Episodes, seeds and patterns have identifiers of different kinds.
    /\ \A condition \in Conditions : SeedIds \cap RunIds(condition) = {}
    /\ Category \notin Range(Schedule)

VARIABLES
    pc,          \* where Run is
    at,          \* the loops' position in the schedule
    skip,        \* the pairs that have a row already
    ended,       \* "live", or what has ended: "run" or only "case"
    memory,      \* the outcome of the case with its memory
    rows,        \* MemoryExperiment.Cases
    finished,    \* FinishedAt is set
    useful, misleading,  \* usefulLearned, misleadingLearned
    disk,        \* memory-summary.json
    starts       \* starts of the process so far

vars == <<pc, at, skip, ended, memory, rows, finished, useful, misleading, disk, starts>>

Case == Schedule[at][1]

Empty == [rows |-> <<>>, finished |-> FALSE]

Pairs(rs) == [i \in DOMAIN rs |-> rs[i].pair]

Learned(rs) == FlattenSeq([i \in DOMAIN rs |-> rs[i].learned])

LearnedMisleading(rs) == FlattenSeq([i \in DOMAIN rs |-> rs[i].misled])

\* RecordEpisode and Consolidate, on the store they are given.
Store(records) == INSTANCE MemoryLifecycle WITH
    Names <- Range(Schedule) \X Conditions,
    Contents <- {}, Groups <- DOMAIN Exposure, Strategies <- <<Category>>,
    Seeds <- {}, Experiences <- {}, Edits <- {}, Measured <- {},
    MaxRecords <- 0, MaxResults <- 0

\* episodeFromPair and episodeProvenance: an experience is told apart by the
\* moment it was made, and correlated with every other one of its case.
EpisodeOf(condition, outcome) ==
    Store(<<>>)!Episode(<<Schedule[at], condition>>,
        [strategy |-> Category, group |-> Case,
         independence |-> "PARTIALLY_INDEPENDENT", outcome |-> outcome])

\* What a search reads of a record.  An episode cites its case and the
\* measurement of its run, a seed neither; a pattern has no category.
Recorded(r) == \E condition \in Conditions : r.id \in RunIds(condition)

CaseOf(r) == IF Recorded(r) THEN r.id[1][1] ELSE Missing

CategoryOf(r) == IF r.from # {} THEN Missing ELSE Category

Evidence(r) == IF Recorded(r) THEN 1 ELSE 0

Search == INSTANCE Retrieval

\* The stores a case is answered with.
SeededWith(seeds, learned) == IF OnlineLearning THEN seeds \o learned ELSE seeds

MemoryStoreOf == SeededWith(Exposure[Case], useful)

MisleadingStoreOf == SeededWith(Exposure[Case] \o Misleading[Case], misleading)

-----------------------------------------------------------------------------
(***************************************************************************)
(* The process.                                                            *)
(***************************************************************************)

Stopped ==
    /\ pc' = "stopped" /\ at' = 1 /\ skip' = {} /\ ended' = "live"
    /\ memory' = "ERROR" /\ rows' = <<>> /\ finished' = FALSE
    /\ useful' = <<>> /\ misleading' = <<>>

\* Faulty: the pairs that have a row are not skipped.
StartForgetsDone ==
    /\ pc = "stopped"
    /\ starts < MaxStarts
    /\ Distinct(Learned(disk.rows)) /\ Distinct(LearnedMisleading(disk.rows))
    /\ starts' = starts + 1
    /\ rows' = disk.rows
    /\ finished' = disk.finished
    /\ skip' = {}
    /\ useful' = Learned(disk.rows)
    /\ misleading' = LearnedMisleading(disk.rows)
    /\ pc' = "loop"
    /\ UNCHANGED <<at, ended, memory, disk>>

\* Faulty: both conditions are restored into the useful store.
StartInOneStore ==
    /\ pc = "stopped"
    /\ starts < MaxStarts
    /\ Distinct(Learned(disk.rows)) /\ Distinct(LearnedMisleading(disk.rows))
    /\ starts' = starts + 1
    /\ rows' = disk.rows
    /\ finished' = disk.finished
    /\ skip' = Range(Pairs(disk.rows))
    /\ useful' = Learned(disk.rows) \o LearnedMisleading(disk.rows)
    /\ misleading' = LearnedMisleading(disk.rows)
    /\ pc' = "loop"
    /\ UNCHANGED <<at, ended, memory, disk>>

\* Faulty: the misleading condition starts afresh.
StartUsefulOnly ==
    /\ pc = "stopped"
    /\ starts < MaxStarts
    /\ Distinct(Learned(disk.rows)) /\ Distinct(LearnedMisleading(disk.rows))
    /\ starts' = starts + 1
    /\ rows' = disk.rows
    /\ finished' = disk.finished
    /\ skip' = Range(Pairs(disk.rows))
    /\ useful' = Learned(disk.rows)
    /\ misleading' = <<>>
    /\ pc' = "loop"
    /\ UNCHANGED <<at, ended, memory, disk>>

\* The learned memory is restored from the rows.  An identifier that comes
\* twice is refused and the run does not start.
Start ==
    /\ pc = "stopped"
    /\ starts < MaxStarts
    /\ Distinct(Learned(disk.rows)) /\ Distinct(LearnedMisleading(disk.rows))
    /\ starts' = starts + 1
    /\ rows' = disk.rows
    /\ finished' = disk.finished
    /\ skip' = Range(Pairs(disk.rows))
    /\ useful' = Learned(disk.rows)
    /\ misleading' = LearnedMisleading(disk.rows)
    /\ pc' = "loop"
    /\ UNCHANGED <<at, ended, memory, disk>>

Crash ==
    /\ pc # "stopped"
    /\ Stopped
    /\ UNCHANGED <<disk, starts>>

\* A signal or the run's deadline; the case's deadline.
RunEnds ==
    /\ pc # "stopped"
    /\ ended # "run"
    /\ ended' = "run"
    /\ UNCHANGED <<pc, at, skip, memory, rows, finished, useful, misleading, disk, starts>>

CaseEnds ==
    /\ pc \in {"cold", "memory", "misleading"}
    /\ ended = "live"
    /\ ended' = "case"
    /\ UNCHANGED <<pc, at, skip, memory, rows, finished, useful, misleading, disk, starts>>

-----------------------------------------------------------------------------
(***************************************************************************)
(* The loop of Run.                                                        *)
(***************************************************************************)

\* persistMemory: the summary is renamed into place or left as it was.  The
\* reports that follow are made of the same rows, and nothing reads them back.
PersistOrFail(summary) == disk' \in {disk, summary}

Skip ==
    /\ pc = "loop"
    /\ at <= Len(Schedule)
    /\ Schedule[at] \in skip
    /\ at' = at + 1
    /\ UNCHANGED <<pc, skip, ended, memory, rows, finished, useful, misleading, disk, starts>>

\* Faulty: the run's context is looked at by the model calls only.
StartCaseAnyway ==
    /\ pc = "loop"
    /\ at <= Len(Schedule)
    /\ Schedule[at] \notin skip
    /\ ended' = IF ended = "run" THEN "run" ELSE "live"
    /\ pc' = "cold"
    /\ UNCHANGED <<at, skip, memory, rows, finished, useful, misleading, disk, starts>>

StartCase ==
    /\ pc = "loop"
    /\ at <= Len(Schedule)
    /\ Schedule[at] \notin skip
    /\ ended # "run"
    /\ ended' = "live"
    /\ pc' = "cold"
    /\ UNCHANGED <<at, skip, memory, rows, finished, useful, misleading, disk, starts>>

\* Faulty: an interrupted run is finished too.
ReturnFinished ==
    /\ pc = "loop"
    /\ \/ /\ at <= Len(Schedule)
          /\ Schedule[at] \notin skip
          /\ ended = "run"
          /\ PersistOrFail([rows |-> rows, finished |-> TRUE])
       \/ /\ at > Len(Schedule)
          /\ PersistOrFail([rows |-> rows, finished |-> TRUE])
    /\ Stopped
    /\ UNCHANGED starts

\* The run has ended between two cases, or there is none left.
Return ==
    /\ pc = "loop"
    /\ \/ /\ at <= Len(Schedule)
          /\ Schedule[at] \notin skip
          /\ ended = "run"
          /\ PersistOrFail([rows |-> rows, finished |-> finished])
       \/ /\ at > Len(Schedule)
          /\ PersistOrFail([rows |-> rows, finished |-> TRUE])
    /\ Stopped
    /\ UNCHANGED starts

-----------------------------------------------------------------------------
(***************************************************************************)
(* runCase.                                                                *)
(***************************************************************************)

\* Every run of the engine calls the model; under a context that has ended the
\* call fails, and the run with it.
MayEndWith(outcome) == outcome \in SideOutcomes /\ (ended # "live" => outcome = "ERROR")

RunCold ==
    /\ pc = "cold"
    /\ pc' = "memory"
    /\ UNCHANGED <<at, skip, ended, memory, rows, finished, useful, misleading, disk, starts>>

RunWithMemory ==
    /\ pc = "memory"
    /\ \E outcome \in SideOutcomes : MayEndWith(outcome) /\ memory' = outcome
    /\ pc' = "misleading"
    /\ UNCHANGED <<at, skip, ended, rows, finished, useful, misleading, disk, starts>>

\* What a condition teaches: a failed run teaches nothing, a read-only
\* experiment neither.
Teaches(outcome) == Writable /\ outcome # "ERROR"

\* The episode and the patterns it completes.  Without online learning they go
\* to the case's own store and only the patterns to the row.
LessonOf(outcome) ==
    IF ~ Teaches(outcome) THEN <<>>
    ELSE LET episode  == <<EpisodeOf("memory", outcome)>>
             store    == (IF OnlineLearning THEN useful ELSE Exposure[Case]) \o episode
             created  == Store(store)!Consolidated
             patterns == [k \in DOMAIN created |-> Store(store)!Pattern(created[k])]
         IN  IF OnlineLearning THEN episode \o patterns ELSE patterns

MisleadingLessonOf(outcome) ==
    IF Teaches(outcome) /\ OnlineLearning
    THEN <<EpisodeOf("misleading", outcome)>> ELSE <<>>

\* The case with misleading memories, then what it leaves: the row, appended and
\* persisted whether or not the run has ended meanwhile.
RunMisleading ==
    /\ pc = "misleading"
    /\ \E outcome \in SideOutcomes :
          LET lesson == LessonOf(memory)
              misled == MisleadingLessonOf(outcome)
          IN  /\ MayEndWith(outcome)
              /\ useful' = IF OnlineLearning THEN useful \o lesson ELSE useful
              /\ misleading' = misleading \o misled
              /\ rows' = Append(rows, [pair        |-> Schedule[at],
                                       learned     |-> lesson,
                                       misled      |-> misled,
                                       interrupted |-> ended = "run",
                                       start       |-> starts])
    /\ finished' = finished
    /\ pc' = "persist"
    /\ memory' = "ERROR"
    /\ UNCHANGED <<at, skip, ended, disk, starts>>

Persisted ==
    /\ pc = "persist"
    /\ disk' = [rows |-> rows, finished |-> finished]
    /\ pc' = "loop"
    /\ at' = at + 1
    /\ UNCHANGED <<skip, ended, memory, rows, finished, useful, misleading, starts>>

\* An error ends the run; the summary may have been replaced before it.
PersistFails ==
    /\ pc = "persist"
    /\ PersistOrFail([rows |-> rows, finished |-> finished])
    /\ Stopped
    /\ UNCHANGED starts

-----------------------------------------------------------------------------

Init ==
    /\ pc = "stopped" /\ at = 1 /\ skip = {} /\ ended = "live"
    /\ memory = "ERROR" /\ rows = <<>> /\ finished = FALSE
    /\ useful = <<>> /\ misleading = <<>>
    /\ disk = Empty /\ starts = 0

AtRest == pc = "stopped" /\ starts = MaxStarts /\ UNCHANGED vars

Next ==
    \/ Start \/ Crash \/ RunEnds \/ CaseEnds
    \/ Skip \/ StartCase \/ Return
    \/ RunCold \/ RunWithMemory \/ RunMisleading
    \/ Persisted \/ PersistFails
    \/ AtRest

Spec == Init /\ [][Next]_vars

-----------------------------------------------------------------------------
(***************************************************************************)
(* Properties.                                                             *)
(***************************************************************************)

TypeOK ==
    /\ pc \in {"stopped", "loop", "cold", "memory", "misleading", "persist"}
    /\ at \in 1 .. Len(Schedule) + 1
    /\ skip \subseteq Range(Schedule)
    /\ ended \in {"live", "run", "case"}
    /\ memory \in Outcomes
    /\ Pairs(rows) \in Seq(Range(Schedule))
    /\ finished \in BOOLEAN
    /\ Distinct(useful) /\ Distinct(misleading)
    /\ starts \in 0 .. MaxStarts

\* The condition with useful memory is taught by its own runs only: nothing a
\* misleading run left, before or after a restart, reaches its store, whether as
\* an episode or through a pattern made of one.
ConditionsAreIsolated ==
    \A i \in DOMAIN useful :
        /\ useful[i].id \notin RunIds("misleading")
        /\ useful[i].from \cap RunIds("misleading") = {}

\* A resumed experiment goes on with the memory the interrupted one had: at the
\* head of the loop the rows tell all that the stores have learned.
RowsTellTheMemory ==
    pc = "loop" => (OnlineLearning =>
        useful = Learned(rows) /\ misleading = LearnedMisleading(rows))

\* Asking a case again adds no evidence: the pull of a gravity well, for what is
\* known and against it, is at most that of the distinct cases whose episodes
\* the search may see.
PullIsBounded(store) ==
    LET found == Search!EligibleRecords(store, EvaluationID[Case])
        cases == {CaseOf(found[i]) : i \in {j \in DOMAIN found : Recorded(found[j])}}
    IN  Search!SupportingEvidence(found, Category) + Search!ContradictingEvidence(found, Category)
            <= Cardinality(cases)

RepetitionIsNotEvidence ==
    /\ pc = "memory" => PullIsBounded(MemoryStoreOf)
    /\ pc = "misleading" => PullIsBounded(MisleadingStoreOf)

\* A case the user interrupted is recorded all the same, but only one of each
\* start of the process: no case is begun once the run has ended.
InterruptedIsLast ==
    \A i, j \in DOMAIN rows :
        i < j /\ rows[i].interrupted => rows[j].start # rows[i].start

\* EXPERIMENTS.md:32, "Stores are isolated by condition and repetition.": no
\* repetition finds what another one learned.
RepetitionsAreIsolated ==
    pc = "memory" =>
        LET found == Search!EligibleRecords(MemoryStoreOf, EvaluationID[Case])
        IN  \A i \in DOMAIN found :
                Recorded(found[i]) => found[i].id[1][2] = Schedule[at][2]

\* The summary is a ledger of the schedule.
Ledger == INSTANCE PairedLedger WITH recorded <- Pairs(disk.rows),
                                     finished <- disk.finished

ImplementsLedger == Ledger!Spec
=============================================================================
