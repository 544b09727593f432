-------------------------- MODULE PairedExperiment --------------------------
(***************************************************************************)
(* The paired experiment (Runner.Run, runPair and persist of               *)
(* internal/experiment/runner.go): every pair of case and repetition is    *)
(* answered twice, by one model call and by a run of the engine, and after *)
(* each pair five artifacts are rewritten, one after the other.  The user  *)
(* or a deadline may end the run at any moment, a write may fail, the      *)
(* process may be killed; the experiment is then resumed from its summary. *)
(***************************************************************************)
EXTENDS ProviderCall, FiniteSets, SequencesExt

CONSTANTS
    Schedule,       \* the pairs, repetition by repetition, in dataset order
    MaxBANCalls,    \* bound: calls of the engine's run on a pair
    MaxStarts       \* bound: starts of the process

ASSUME ScheduleAssumption ==
    /\ Schedule \in Seq(Range(Schedule))
    /\ \A i, j \in 1 .. Len(Schedule) : Schedule[i] = Schedule[j] => i = j

ASSUME BoundsAssumption ==
    /\ MaxBANCalls \in [Range(Schedule) -> Nat \ {0}]
    /\ MaxStarts \in Nat \ {0}

VARIABLES
    pc,         \* where Run is
    at,         \* the loops' position in the schedule
    row,        \* the sides of the pair in progress
    state,      \* ResultFile: the rows and whether FinishedAt is set
    skip,       \* done: the pairs a resumed run has results of already
    disk,       \* the artifacts
    written,    \* how many of them this persist has replaced
    then,       \* where Run goes from persist
    starts      \* starts of the process so far

runVars == <<pc, at, row, state, skip, disk, written, then, starts>>
vars == <<callVars, runVars>>

Outcomes == {"ANSWERED", "MALFORMED_OUTPUT", "TIMEOUT", "INTERRUPTED",
             "NO_VERIFIED_CANDIDATE", "PROVIDER_FAILURE"}

\* A side's outcome, how many of the calls it made the accounting counts as
\* failed, and, as history, whether the run had ended when the side had.
Sides == [outcome : Outcomes, failed : Nat, interrupted : BOOLEAN]

NoSide == [outcome |-> "ANSWERED", failed |-> 0, interrupted |-> FALSE]

Results == [pair : Range(Schedule), baseline : Sides, ban : Sides,
            candidates : BOOLEAN]

\* Faulty: the summary is written once the rest is.
ArtifactsSummaryLast == <<"manifest", "paired-results", "candidates", "report", "summary">>

\* The order in which persist replaces its artifacts.
Artifacts == <<"summary", "manifest", "paired-results", "candidates", "report">>

Files == [rows : Seq(Results), finished : BOOLEAN]

Empty == [rows |-> <<>>, finished |-> FALSE]

Pairs(rows) == [i \in DOMAIN rows |-> rows[i].pair]

FailedCalls == {i \in DOMAIN log : log[i] # "NONE"}

\* errorVerification: how a failure code is reported.
ErrorOutcome(code) ==
    CASE code = "NONE"                   -> "ANSWERED"
      [] code = "MODEL_OUTPUT_MALFORMED" -> "MALFORMED_OUTPUT"
      [] code = "PROVIDER_TIMEOUT"       -> "TIMEOUT"
      [] code = "PROVIDER_CANCELLED"     -> "INTERRUPTED"
      [] code = "NO_VERIFIED_CANDIDATE"  -> "NO_VERIFIED_CANDIDATE"
      [] OTHER                           -> "PROVIDER_FAILURE"

\* accounting, and the outcome of the error the side ended with.
Account(code) == [outcome     |-> ErrorOutcome(code),
                  failed      |-> Cardinality(FailedCalls),
                  interrupted |-> ctx["run"] \in Ended]

-----------------------------------------------------------------------------
(***************************************************************************)
(* The process: started, resumed, killed.                                  *)
(***************************************************************************)

Stopped == /\ pc' = "stopped" /\ at' = 1 /\ row' = NoSide /\ state' = Empty
           /\ skip' = {} /\ written' = 0 /\ then' = "stopped"
           /\ ctx' = Fresh /\ call' = Idle /\ log' = <<>>

\* Faulty: a resumed run starts from its results but does not skip their pairs.
StartForgetsDone ==
    /\ pc = "stopped"
    /\ starts < MaxStarts
    /\ starts' = starts + 1
    /\ state' = disk["summary"]
    /\ skip' = {}
    /\ pc' = "loop" /\ at' = 1
    /\ UNCHANGED <<callVars, row, disk, written, then>>

\* loadOrCreate: a run that is resumed reads the summary; the configuration and
\* the dataset are those it was started with.  A summary is there once the
\* first persist has written it: until then there is nothing to resume, and the
\* experiment starts as a new one.
Start ==
    /\ pc = "stopped"
    /\ starts < MaxStarts
    /\ starts' = starts + 1
    /\ state' = disk["summary"]
    /\ skip' = Range(Pairs(disk["summary"].rows))
    /\ pc' = "loop" /\ at' = 1
    /\ UNCHANGED <<callVars, row, disk, written, then>>

\* A write that does not end leaves the artifact as it was, except the report,
\* which is not renamed into place and may be cut short.
Unwritten ==
    \/ UNCHANGED disk
    \/ /\ pc = "persist"
       /\ written = Len(Artifacts) - 1
       /\ disk' = [disk EXCEPT !["report"] = Empty]

\* The process is killed: only the artifacts are left.
Crash ==
    /\ pc # "stopped"
    /\ Stopped
    /\ Unwritten
    /\ UNCHANGED starts

-----------------------------------------------------------------------------
(***************************************************************************)
(* The loop of Run.                                                        *)
(***************************************************************************)

\* Faulty: only the signal is looked at, not the run's deadline.
RunEndedBySignal == ctx["run"] = "cancelled"

RunEnded == ctx["run"] \in Ended

Persist(next) == pc' = "persist" /\ written' = 0 /\ then' = next

Skip ==
    /\ pc = "loop"
    /\ at <= Len(Schedule)
    /\ Schedule[at] \in skip
    /\ at' = at + 1
    /\ UNCHANGED <<callVars, pc, row, state, skip, disk, written, then, starts>>

\* The run has ended between two pairs.
StopAtHead ==
    /\ pc = "loop"
    /\ at <= Len(Schedule)
    /\ Schedule[at] \notin skip
    /\ RunEnded
    /\ state' = [state EXCEPT !.finished = FALSE]
    /\ Persist("interrupted")
    /\ UNCHANGED <<callVars, at, row, skip, disk, starts>>

StartPair ==
    /\ pc = "loop"
    /\ at <= Len(Schedule)
    /\ Schedule[at] \notin skip
    /\ ~ RunEnded
    /\ Derive("case", "run")
    /\ pc' = "baseline"
    /\ UNCHANGED <<call, log, at, row, state, skip, disk, written, then, starts>>

Finish ==
    /\ pc = "loop"
    /\ at > Len(Schedule)
    /\ state' = [state EXCEPT !.finished = TRUE]
    /\ Persist("finished")
    /\ UNCHANGED <<callVars, at, row, skip, disk, starts>>

-----------------------------------------------------------------------------
(***************************************************************************)
(* A pair: one call for the baseline, one or more for the engine.          *)
(***************************************************************************)

CallBaseline ==
    /\ pc = "baseline"
    /\ log = <<>>
    /\ Invoke(FALSE)
    /\ UNCHANGED runVars

BaselineDone ==
    /\ pc = "baseline"
    /\ call = Idle
    /\ log # <<>>
    /\ row' = Account(Last(log))
    /\ log' = <<>>
    /\ pc' = "ban"
    /\ UNCHANGED <<ctx, call, at, state, skip, disk, written, then, starts>>

\* The engine generates first.  A generation that fails ends the run; a branch
\* whose evaluation fails does not keep the next one from being evaluated.
CallBAN ==
    /\ pc = "ban"
    /\ log # <<>> => Head(log) = "NONE"
    /\ Len(log) < MaxBANCalls[Schedule[at]]
    /\ Invoke(TRUE)
    /\ UNCHANGED runVars

\* Verdicts of the engine: the first failure, the end of the case between two
\* evaluations, or, if no call failed, its own.
Endings ==
    (IF FailedCalls = {}
     THEN {"NONE", "NO_VERIFIED_CANDIDATE"}
     ELSE {log[i] : i \in {j \in FailedCalls : \A k \in FailedCalls : j <= k}})
    \cup (IF Head(log) = "NONE" /\ ctx["case"] \in Ended
          THEN {FailureCodeOf(ctx["case"])} ELSE {})

\* runPair has returned.  The row of a run that has ended is dropped, whatever
\* it says; a case that ran out of its own time is a result like any other.
BANDone ==
    /\ pc = "ban"
    /\ call = Idle
    /\ log # <<>>
    /\ log' = <<>>
    /\ row' = NoSide
    /\ IF RunEnded
       THEN /\ Persist("interrupted")
            /\ UNCHANGED state
       ELSE /\ \E code \in Endings, candidates \in BOOLEAN :
                  /\ candidates => Head(log) = "NONE"
                  /\ Len(log) > 1 => candidates
                  /\ \/ candidates
                     \/ Head(log) # "NONE"
                     \/ code = "NO_VERIFIED_CANDIDATE"
                  /\ state' = [state EXCEPT !.rows =
                         Append(@, [pair       |-> Schedule[at],
                                    baseline   |-> row,
                                    ban        |-> Account(code),
                                    candidates |-> candidates])]
            /\ Persist("loop")
    /\ Release("case")
    /\ UNCHANGED <<call, at, skip, disk, starts>>

-----------------------------------------------------------------------------
(***************************************************************************)
(* persist: each artifact but the report is written aside and renamed.     *)
(***************************************************************************)

\* WriteCandidatesJSONL leaves the file alone when there is no candidate.
Written(artifact, file) ==
    IF artifact = "candidates" /\ ~ \E i \in DOMAIN file.rows : file.rows[i].candidates
    THEN disk[artifact]
    ELSE file

Write ==
    /\ pc = "persist"
    /\ written < Len(Artifacts)
    /\ LET artifact == Artifacts[written + 1]
       IN  disk' = [disk EXCEPT ![artifact] = Written(artifact, state)]
    /\ written' = written + 1
    /\ UNCHANGED <<callVars, pc, at, row, state, skip, then, starts>>

\* A write that fails ends the run, which reports the error; the artifacts that
\* follow keep what they held.
WriteFails ==
    /\ pc = "persist"
    /\ written < Len(Artifacts)
    /\ Stopped
    /\ Unwritten
    /\ UNCHANGED starts

Persisted ==
    /\ pc = "persist"
    /\ written = Len(Artifacts)
    /\ IF then = "loop"
       THEN /\ pc' = "loop" /\ at' = at + 1 /\ written' = 0 /\ then' = "stopped"
            /\ UNCHANGED <<callVars, row, state, skip>>
       ELSE Stopped
    /\ UNCHANGED <<disk, starts>>

-----------------------------------------------------------------------------
(***************************************************************************)
(* The specification.                                                      *)
(***************************************************************************)

\* A signal, the run's deadline, the case's or the call's.
ContextEnds ==
    /\ \/ pc # "stopped" /\ \E err \in Ended : EndContext("run", err)
       \/ pc \in {"baseline", "ban"} /\ EndContext("case", "expired")
       \/ CallDeadline
    /\ UNCHANGED runVars

Calling == CallStep /\ UNCHANGED runVars

Init ==
    /\ pc = "stopped" /\ at = 1 /\ row = NoSide /\ state = Empty
    /\ skip = {} /\ written = 0 /\ then = "stopped" /\ starts = 0
    /\ ctx = Fresh /\ call = Idle /\ log = <<>>
    /\ disk = [a \in Range(Artifacts) |-> Empty]

Work == Skip \/ StopAtHead \/ StartPair \/ Finish \/ CallBaseline
        \/ BaselineDone \/ CallBAN \/ BANDone \/ Write \/ Persisted

AtRest == pc = "stopped" /\ starts = MaxStarts /\ UNCHANGED vars

Next == Start \/ Work \/ Calling \/ ContextEnds \/ WriteFails \/ Crash \/ AtRest

\* The program goes on when it can, a call's deadline passes, and a call whose
\* context has ended notices.  Nothing is asked of the server.
Fairness == /\ WF_vars(Work)
            /\ WF_vars(CallDeadline /\ UNCHANGED runVars)
            /\ WF_vars(React /\ UNCHANGED runVars)

Spec == Init /\ [][Next]_vars

FairSpec == Spec /\ Fairness

-----------------------------------------------------------------------------
(***************************************************************************)
(* Properties.                                                             *)
(***************************************************************************)

TypeOK ==
    /\ CallTypeOK
    /\ pc \in {"stopped", "loop", "baseline", "ban", "persist"}
    /\ at \in 1 .. Len(Schedule) + 1
    /\ row \in Sides
    /\ state \in Files
    /\ skip \subseteq Range(Schedule)
    /\ disk \in [Range(Artifacts) -> Files]
    /\ written \in 0 .. Len(Artifacts)
    /\ then \in {"stopped", "loop", "interrupted", "finished"}
    /\ starts \in 0 .. MaxStarts

\* A side that was answered while the run was alive, and does not say otherwise.
Undisturbed(side) == ~ side.interrupted /\ side.outcome # "INTERRUPTED"

\* A pair on either side of which the run ended has no result, in memory or in
\* any artifact, whichever call the end caught and whatever outcome its error
\* was given; nor does a result say INTERRUPTED on its own account: the resumed
\* run asks the pair again.
InterruptedNotRecorded ==
    \A file \in {state} \cup Range(disk) : \A i \in DOMAIN file.rows :
        Undisturbed(file.rows[i].baseline) /\ Undisturbed(file.rows[i].ban)

\* Each artifact reports a prefix of the results the summary has, so what a
\* crash or a failed write leaves behind is old, never ahead of what a resumed
\* run starts from; and one that calls the experiment finished has every pair.
ArtifactsFollowSummary ==
    \A a \in Range(Artifacts) :
        /\ IsPrefix(disk[a].rows, disk["summary"].rows)
        /\ disk[a].finished => Len(disk[a].rows) = Len(Schedule)

\* What a result says of a side agrees with the calls it counts, whichever step
\* of a call failed and with whatever error: the baseline fails with its one
\* call; an engine that lost a call, even one among others that completed, is
\* never reported as answering nor as a search that found nothing; and unless
\* its time was up it has lost one when it is reported to have failed.
SidesAgreeWithCalls ==
    \A i \in DOMAIN state.rows :
        LET baseline == state.rows[i].baseline
            ban      == state.rows[i].ban
        IN  /\ baseline.failed = IF baseline.outcome = "ANSWERED" THEN 0 ELSE 1
            /\ baseline.outcome # "NO_VERIFIED_CANDIDATE"
            /\ ban.outcome # "TIMEOUT" =>
                   (ban.failed = 0 <=> ban.outcome \in {"ANSWERED", "NO_VERIFIED_CANDIDATE"})

\* The summary is a ledger of the schedule.
Ledger == INSTANCE PairedLedger WITH recorded <- Pairs(disk["summary"].rows),
                                     finished <- disk["summary"].finished

ImplementsLedger == Ledger!Spec

\* Run returns, even when the server never answers: every call has a deadline.
RunReturns == pc # "stopped" ~> pc = "stopped"
=============================================================================
