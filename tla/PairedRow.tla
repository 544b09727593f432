----------------------------- MODULE PairedRow -----------------------------
(***************************************************************************)
(* The BAN side of one experiment row (runPair of                          *)
(* internal/experiment/runner.go): one run of the engine under a           *)
(* BranchVerifier, then the row that reports it, from which Summarize      *)
(* counts accuracy and recoveries.                                         *)
(***************************************************************************)
EXTENDS BanEngine

\* runPair sets the engine's verifier to the BranchVerifier of its case.
ASSUME RowAssumption == Verifier = "branch"

VARIABLE row   \* the paired result, or NoRow while the engine runs

rowVars == <<vars, row>>

\* What a typed provider failure carries.
ProviderCodes == {"PROVIDER_CONNECTION_ERROR", "PROVIDER_TIMEOUT",
                  "PROVIDER_CANCELLED", "PROVIDER_RESPONSE_ERROR",
                  "MODEL_OUTPUT_MALFORMED"}

Rows == [attempted  : BOOLEAN,     \* RecoveryAttempted
         successful : BOOLEAN,     \* RecoverySuccessful
         passed     : BOOLEAN,     \* BAN.Verification.Passed
         code       : ProviderCodes \cup {"NONE", "NO_VERIFIED_CANDIDATE"}]

NoRow == [attempted |-> FALSE, successful |-> FALSE, passed |-> FALSE,
          code |-> "NONE"]

\* FailureCodeOf: an error that is neither typed nor a context error has the
\* default code.
CodesOf(error) ==
    IF error = "none"          THEN {"NONE"}
    ELSE IF error = "provider" THEN ProviderCodes
    ELSE {"NO_VERIFIED_CANDIDATE"}

\* initialVerification measures the initial top branch again; the verifiers are
\* deterministic, so a branch the engine measured measures the same.
InitialOutcomes ==
    IF top = NoId                     THEN {"NOT_MEASURED"}
    ELSE IF measurements[top] # <<>>  THEN {measurements[top][1].outcome}
    ELSE VerifierOutcomes

\* The answer of a selected branch is its hypothesis, verified once more.
FinalPassed == measurements[winner][1].outcome = "SUPPORTED"

Search == Next /\ pc \notin {"selected", "failed"} /\ UNCHANGED row

\* An error returns the row early, after the first assignment of
\* RecoverySuccessful.
ReportFailure ==
    /\ pc = "failed"
    /\ row = NoRow
    /\ \E initial \in InitialOutcomes, code \in CodesOf(failure) :
          row' = [attempted  |-> initial = "CONTRADICTED",
                  successful |-> initial = "CONTRADICTED" /\ recovered,
                  passed     |-> FALSE,
                  code       |-> code]
    /\ UNCHANGED vars

ReportSelection ==
    /\ pc = "selected"
    /\ row = NoRow
    /\ \E initial \in InitialOutcomes :
          row' = [attempted  |-> initial = "CONTRADICTED",
                  successful |-> initial = "CONTRADICTED" /\ FinalPassed /\ recovered,
                  passed     |-> FinalPassed,
                  code       |-> "NONE"]
    /\ UNCHANGED vars

Reported == row # NoRow /\ UNCHANGED rowVars

RowInit == Init /\ row = NoRow

RowNext == Search \/ ReportFailure \/ ReportSelection \/ Reported

RowSpec == RowInit /\ [][RowNext]_rowVars

\* The goroutine of the run and of its row is scheduled until it returns, and
\* every model call returns: it carries a context with a deadline.
RowFairSpec == RowSpec /\ WF_rowVars(RowNext)

-----------------------------------------------------------------------------
(***************************************************************************)
(* Properties.                                                             *)
(***************************************************************************)

\* The row of a run that answered counts a recovery exactly when its initial
\* top branch fails the objective verifier: answering then takes a switch to
\* another branch, in the main loop or in gravity recovery.
AnsweredRecoveries ==
    row.passed => (row.successful <=> row.attempted)

\* EXPERIMENTS.md:58, "Recovery rate is successful BAN final verification among
\* cases where BAN's initial top branch fails": a recovery has a verified answer.
RecoveredRowsPassed == row.successful => row.passed

\* The comment of inference/engine.go:22, NO_VERIFIED_CANDIDATE "accurately
\* describes deterministic candidate exhaustion": no branch is left untried.
NoVerifiedCandidateIsExhaustion ==
    row.code = "NO_VERIFIED_CANDIDATE" => ~ \E n \in Stored : Untried(n)
=============================================================================
