----------------------------- MODULE BanEngine -----------------------------
(***************************************************************************)
(* One run of the branch search, Engine.Run of internal/ban/engine.go.     *)
(*                                                                         *)
(* The run is one goroutine: pc names the statement it has reached, and    *)
(* each action is one iteration of a loop or one straight piece of code    *)
(* between two calls that may fail.  A model call that errs (a provider    *)
(* failure, a cancelled context, an undecodable answer) ends the run.      *)
(* Branches are numbered: identifier k stands for "b0k".  A proposal is    *)
(* its semantic fingerprint, an evaluation is a hard violation or a score  *)
(* with the gravity well that moved it.                                    *)
(***************************************************************************)
EXTENDS Naturals, Sequences, FiniteSets, Measurement

CONSTANTS
    Fingerprints, Answers, AnswerOf,
    InitialBranches, RetainBranches, MaxDepth, MaxNodes, MaxActiveBranches,
    GravityRecoveryBranches, MaxChallenges,
    MaxScore,         \* scores are 0..MaxScore
    Wells,            \* gravity wells the run was given
    NoWell,
    Computed,         \* fingerprints the arithmetic executor can produce; empty
                      \* without an executor or without an arithmetic well
    Verifier,         \* "accept" (AcceptVerifier) or "branch" (BranchVerifier)
    Contract,         \* the measurement contract of BranchVerifier's case
    Traced            \* a trace directory is configured

\* The configuration file relates these bounds to one another, the flags of
\* the command line set each of them alone.
ASSUME SearchAssumption ==
    /\ AnswerOf \in [Fingerprints -> Answers]
    /\ InitialBranches \in Nat
    /\ RetainBranches \in Nat
    /\ MaxDepth \in Nat
    /\ MaxNodes \in Nat
    /\ MaxActiveBranches \in Nat
    /\ GravityRecoveryBranches \in Nat
    /\ MaxChallenges \in Nat
    /\ MaxScore \in Nat
    /\ IsFiniteSet(Wells)
    /\ NoWell \notin Wells
    /\ Computed \subseteq Fingerprints
    /\ Computed # {} => Wells # {}
    /\ Verifier \in {"accept", "branch"}
    /\ Contract \in Contracts
    /\ Traced \in BOOLEAN

VARIABLES
    pc,            \* the statement the run has reached
    nodes, edges, status,   \* the graph, see BanGraph
    score,         \* AggregateScore of a branch
    well,          \* GravityWellID of a branch
    measurements,  \* Measurements of a branch
    verdict,       \* the branch's VerificationResults: none, or the last one
    pending,       \* proposals of the current model call not yet stored
    batch,         \* initial, children or recoveryStates
    candidates,    \* retained, then candidates
    at,            \* index of the current loop
    linking,       \* node being linked, and whether this proposal created it
    top,           \* InitialTopBranch
    winner,        \* winner
    recovered,     \* RecoveredFromWrongBranch
    failure,       \* the error Run returns, "none" without one
    wells,         \* counters of the gravity wells
    dropped        \* history: distinct proposals discarded without a trace

evidenceVars == <<score, well, measurements, verdict>>
loopVars     == <<pending, batch, candidates, at, linking>>
resultVars   == <<top, winner, recovered>>

\* Names follow positions in the first answer, then the number of nodes.
Ids == 1..(IF InitialBranches > MaxNodes THEN InitialBranches ELSE MaxNodes + 1)
NoId == 0

Statuses == {"PROPOSED", "EVALUATED", "ACTIVE", "EXPANDED", "PRUNED",
             "VERIFIED", "FAILED", "SELECTED"}

Graph == INSTANCE BanGraph

vars == <<pc, nodes, edges, status, evidenceVars, loopVars, resultVars,
          failure, wells, dropped>>

Stored == DOMAIN nodes
NextId == Cardinality(Stored) + 1
Members(s) == {s[i] : i \in DOMAIN s}
AtMost(m, n) == IF m < n THEN m ELSE n

-----------------------------------------------------------------------------
(***************************************************************************)
(* Ranking, filtering and evidence.                                        *)
(***************************************************************************)

Rejectable == {"PRUNED", "FAILED"}

\* Faulty: an ascending sort.
BeforeAscending(s, i, j) ==
    \/ score[s[i]] < score[s[j]]
    \/ score[s[i]] = score[s[j]] /\ i < j

\* Position i of s comes before position j in rank's stable descending sort.
Before(s, i, j) ==
    \/ score[s[i]] > score[s[j]]
    \/ score[s[i]] = score[s[j]] /\ i < j

\* Faulty: rank alone, without filterViable.
RankedAll(s) ==
    LET size   == Len(s)
        sorted == {q \in [1..size -> DOMAIN s] :
                      \A i, j \in 1..size : i < j => Before(s, q[i], q[j])}
    IN  {[i \in 1..size |-> s[q[i]]] : q \in sorted}

\* rank followed by filterViable: the (single) descending order of the
\* viable members of s.
RankedViable(s) ==
    LET viable == {i \in DOMAIN s : status[s[i]] \notin Rejectable}
        size   == Cardinality(viable)
        sorted == {q \in [1..size -> viable] :
                      \A i, j \in 1..size : i < j => Before(s, q[i], q[j])}
    IN  {[i \in 1..size |-> s[q[i]]] : q \in sorted}

Evaluations ==
    {[hard |-> TRUE, score |-> 0, well |-> NoWell]} \cup
    [hard : {FALSE}, score : 0..MaxScore, well : Wells \cup {NoWell}]

VerifierOutcomes == {"SUPPORTED", "CONTRADICTED", "INCONCLUSIVE", "ERROR"}

\* What the verifier appends to the measurements of a branch for an outcome.
Measured(ms, o) ==
    IF Verifier = "accept"
    THEN ms
    ELSE Append(ms, [outcome |-> o, authority |-> Contract.authority,
                     independence |-> Contract.independence, identified |-> TRUE])

\* UpdateGravityOutcome for a branch that has just become st with measurements ms.
Trained(n, st, ms) ==
    LET decided == \/ st = "VERIFIED" /\ IndependentOutcome(ms) = "SUPPORTED"
                   \/ st = "FAILED" /\ IndependentOutcome(ms) = "CONTRADICTED"
    IN  IF well[n] \in Wells /\ decided
        THEN [wells EXCEPT ![well[n]].outcomes = @ + 1]
        ELSE wells

-----------------------------------------------------------------------------
(***************************************************************************)
(* Steps shared by the phases.                                             *)
(***************************************************************************)

Unlinked == [node |-> NoId, fresh |-> FALSE]

\* The locals of Run are gone when it returns.
Return(error) ==
    /\ pc' = "failed"
    /\ failure' = error
    /\ pending' = <<>>
    /\ batch' = <<>>
    /\ candidates' = <<>>
    /\ at' = 1
    /\ linking' = Unlinked
    /\ UNCHANGED <<nodes, edges, status, evidenceVars, resultVars, wells, dropped>>

\* A call of the generator for exactly n proposals: the provider may fail, and
\* a well-formed answer may hold too few or empty proposals.
Generate(n, next) ==
    \/ Return("provider")
    \/ Return("expected branches")
    \/ /\ pending' \in [1..n -> Fingerprints]
       /\ pc' = next
       /\ UNCHANGED <<nodes, edges, status, evidenceVars, batch, candidates,
                      at, linking, resultVars, failure, wells, dropped>>

\* evaluate: the calls run in parallel, their results are applied together
\* once all have answered; one error discards them all.
Evaluate(next) ==
    \/ Return("provider")
    \/ \E ev \in [Members(batch) -> Evaluations] :
          /\ status' = [n \in Stored |->
                          IF n \notin Members(batch) THEN status[n]
                          ELSE IF ev[n].hard THEN "PRUNED" ELSE "EVALUATED"]
          /\ score' = [n \in Ids |-> IF n \in Members(batch) THEN ev[n].score ELSE score[n]]
          /\ well' = [n \in Ids |-> IF n \in Members(batch) THEN ev[n].well ELSE well[n]]
          /\ wells' = [w \in Wells |->
                         [wells[w] EXCEPT !.applications =
                            @ + Cardinality({n \in Members(batch) : ev[n].well = w})]]
          /\ pc' = next
          /\ UNCHANGED <<nodes, edges, measurements, verdict, loopVars,
                         resultVars, failure, dropped>>

\* Faulty: the proposal is inserted without AddNode's checks.
ProposeUnchecked(id, depth) == Graph!Insert(id, Head(pending), depth)

\* Store the next proposal under an identifier, as one AddNode call.
Propose(id, depth) == Graph!AddNode(id, Head(pending), depth)
Outcome(id, depth) == Graph!AddNodeResult(id, Head(pending), depth)

-----------------------------------------------------------------------------
(***************************************************************************)
(* Initial branches.                                                       *)
(***************************************************************************)

GenerateInitial ==
    /\ pc = "generate"
    /\ Generate(InitialBranches, "store")

\* Faulty: a duplicate proposal joins the batch under the identifier it did not get.
StoreInitialDuplicate ==
    /\ pc = "store"
    /\ pending # <<>>
    /\ Outcome(at, 0) \notin Graph!NodeErrors
    /\ Propose(at, 0)
    /\ batch' = Append(batch, at)
    /\ pending' = Tail(pending)
    /\ at' = at + 1
    /\ UNCHANGED <<pc, evidenceVars, candidates, linking, resultVars, failure,
                   wells, dropped>>

\* Identifiers follow the position of the proposal in the answer.
StoreInitial ==
    /\ pc = "store"
    /\ pending # <<>>
    /\ Outcome(at, 0) \notin Graph!NodeErrors
    /\ Propose(at, 0)
    /\ batch' = IF Outcome(at, 0) = "added" THEN Append(batch, at) ELSE batch
    /\ pending' = Tail(pending)
    /\ at' = at + 1
    /\ UNCHANGED <<pc, evidenceVars, candidates, linking, resultVars, failure,
                   wells, dropped>>

InitialRefused ==
    /\ pc = "store"
    /\ pending # <<>>
    /\ Outcome(at, 0) \in Graph!NodeErrors
    /\ Return(Outcome(at, 0))

InitialStored ==
    /\ pc = "store"
    /\ pending = <<>>
    /\ pc' = IF Len(batch) < RetainBranches THEN "regenerate" ELSE "evaluate"
    /\ UNCHANGED <<nodes, edges, status, evidenceVars, loopVars, resultVars,
                   failure, wells, dropped>>

Regenerate ==
    /\ pc = "regenerate"
    /\ Generate(RetainBranches - Len(batch), "restore")

\* From here on identifiers follow the number of stored nodes.
StoreRegenerated ==
    /\ pc = "restore"
    /\ pending # <<>>
    /\ Outcome(NextId, 0) \notin Graph!NodeErrors
    /\ Propose(NextId, 0)
    /\ batch' = IF Outcome(NextId, 0) = "added" THEN Append(batch, NextId) ELSE batch
    /\ pending' = Tail(pending)
    /\ UNCHANGED <<pc, evidenceVars, candidates, at, linking, resultVars,
                   failure, wells, dropped>>

\* A node the graph refuses ends the run, here and in the first loop.
RegeneratedRefused ==
    /\ pc = "restore"
    /\ pending # <<>>
    /\ Outcome(NextId, 0) \in Graph!NodeErrors
    /\ Return(Outcome(NextId, 0))

Regenerated ==
    /\ pc = "restore"
    /\ pending = <<>>
    /\ \/ /\ Len(batch) < RetainBranches
          /\ Return("insufficient distinct branches")
       \/ /\ Len(batch) >= RetainBranches
          /\ pc' = "evaluate"
          /\ UNCHANGED <<nodes, edges, status, evidenceVars, loopVars,
                         resultVars, failure, wells, dropped>>

EvaluateInitial ==
    /\ pc = "evaluate"
    /\ Evaluate("retain")

\* The leading viable branches and one more, the minority branch, stay active.
Retained(viable) ==
    LET leading == SubSeq(viable, 1, AtMost(RetainBranches, Len(viable)))
    IN  IF Len(viable) > Len(leading) /\ Len(leading) < MaxActiveBranches
        THEN Append(leading, viable[Len(leading) + 1])
        ELSE leading

Retain ==
    /\ pc = "retain"
    /\ \E viable \in RankedViable(batch) :
          \/ /\ viable = <<>>
             /\ Return("all branches rejected")
          \/ /\ viable # <<>>
             /\ top' = viable[1]
             /\ candidates' = Retained(viable)
             /\ status' = [n \in Stored |->
                             IF n \in Members(Retained(viable)) THEN "ACTIVE"
                             ELSE IF n \in Members(batch) THEN "PRUNED"
                             ELSE status[n]]
             /\ batch' = <<>>
             /\ at' = 1
             /\ pc' = "expand"
             /\ UNCHANGED <<nodes, edges, evidenceVars, pending, linking,
                            winner, recovered, failure, wells, dropped>>

-----------------------------------------------------------------------------
(***************************************************************************)
(* Expansion of the leaders.                                               *)
(***************************************************************************)

Leaders == AtMost(RetainBranches, Len(candidates))
Parent == candidates[at]

ExpandLeader ==
    /\ pc = "expand"
    /\ at <= Leaders
    /\ nodes[Parent].depth < MaxDepth
    /\ Generate(2, "child")

SkipDeepLeader ==
    /\ pc = "expand"
    /\ at <= Leaders
    /\ nodes[Parent].depth >= MaxDepth
    /\ at' = at + 1
    /\ UNCHANGED <<pc, nodes, edges, status, evidenceVars, pending, batch,
                   candidates, linking, resultVars, failure, wells, dropped>>

ChildDepth == nodes[Parent].depth + 1

\* The node the proposal stands for: a new one, or the one it duplicates.
StoreChild ==
    /\ pc = "child"
    /\ pending # <<>>
    /\ Outcome(NextId, ChildDepth) \notin Graph!NodeErrors
    /\ Propose(NextId, ChildDepth)
    /\ linking' = [node  |-> Graph!AddNodeReturns(NextId, Head(pending)),
                   fresh |-> Outcome(NextId, ChildDepth) = "added"]
    /\ pending' = Tail(pending)
    /\ pc' = "link"
    /\ UNCHANGED <<evidenceVars, batch, candidates, at, resultVars, failure,
                   wells, dropped>>

\* A child the graph refuses is skipped without a trace.
DropChild ==
    /\ pc = "child"
    /\ pending # <<>>
    /\ Outcome(NextId, ChildDepth) \in Graph!NodeErrors
    /\ dropped' = dropped \cup {Outcome(NextId, ChildDepth)}
    /\ pending' = Tail(pending)
    /\ UNCHANGED <<pc, nodes, edges, status, evidenceVars, batch, candidates,
                   at, linking, resultVars, failure, wells>>

LinkChild ==
    /\ pc = "link"
    /\ Graph!AddEdgeResult(Parent, linking.node) = "ok"
    /\ Graph!AddEdge(Parent, linking.node)
    /\ batch' = IF linking.fresh THEN Append(batch, linking.node) ELSE batch
    /\ linking' = Unlinked
    /\ pc' = "child"
    /\ UNCHANGED <<evidenceVars, pending, candidates, at, resultVars, failure,
                   wells, dropped>>

\* An edge the graph refuses ends the run.
LinkRefused ==
    /\ pc = "link"
    /\ Graph!AddEdgeResult(Parent, linking.node) # "ok"
    /\ Return(Graph!AddEdgeResult(Parent, linking.node))

LeaderExpanded ==
    /\ pc = "child"
    /\ pending = <<>>
    /\ status' = [status EXCEPT ![Parent] = "EXPANDED"]
    /\ at' = at + 1
    /\ pc' = "expand"
    /\ UNCHANGED <<nodes, edges, evidenceVars, pending, batch, candidates,
                   linking, resultVars, failure, wells, dropped>>

ExpansionDone ==
    /\ pc = "expand"
    /\ at > Leaders
    /\ pc' = IF batch = <<>> THEN "collect" ELSE "assess"
    /\ UNCHANGED <<nodes, edges, status, evidenceVars, loopVars, resultVars,
                   failure, wells, dropped>>

EvaluateChildren ==
    /\ pc = "assess"
    /\ Evaluate("collect")

-----------------------------------------------------------------------------
(***************************************************************************)
(* Candidates: verification in rank order, the first that passes wins.     *)
(***************************************************************************)

\* Faulty: only the leaders and their children go on to the verifier.
CollectLeaders ==
    /\ pc = "collect"
    /\ candidates' \in RankedViable(SubSeq(candidates, 1, Leaders) \o batch)
    /\ batch' = <<>>
    /\ at' = 1
    /\ pc' = "execute"
    /\ UNCHANGED <<nodes, edges, status, evidenceVars, pending, linking,
                   resultVars, failure, wells, dropped>>

Collect ==
    /\ pc = "collect"
    /\ candidates' \in RankedViable(candidates \o batch)
    /\ batch' = <<>>
    /\ at' = 1
    /\ pc' = "execute"
    /\ UNCHANGED <<nodes, edges, status, evidenceVars, pending, linking,
                   resultVars, failure, wells, dropped>>

\* The executor's answer joins the candidates last, unranked and unevaluated;
\* one the graph knows or refuses is forgotten.
Execute ==
    /\ pc = "execute"
    /\ \E fp \in Computed :
          /\ Graph!AddNode(NextId, fp, 0)
          /\ candidates' = IF Graph!AddNodeResult(NextId, fp, 0) = "added"
                           THEN Append(candidates, NextId) ELSE candidates
          /\ dropped' = dropped \cup
                          (Graph!NodeErrors \cap {Graph!AddNodeResult(NextId, fp, 0)})
    /\ pc' = "challenge"
    /\ UNCHANGED <<evidenceVars, pending, batch, at, linking, resultVars,
                   failure, wells>>

\* No executor, no arithmetic well, or nothing it can compute.
NothingToExecute ==
    /\ pc = "execute"
    /\ pc' = "challenge"
    /\ UNCHANGED <<nodes, edges, status, evidenceVars, loopVars, resultVars,
                   failure, wells, dropped>>

\* The first MaxChallenges candidates are challenged; only an error shows.
Challenge ==
    /\ pc = "challenge"
    /\ \/ /\ AtMost(MaxChallenges, Len(candidates)) > 0
          /\ Return("provider")
       \/ /\ pc' = "verify"
          /\ UNCHANGED <<nodes, edges, status, evidenceVars, loopVars,
                         resultVars, failure, wells, dropped>>

\* Verify marks branch n with status st after a verdict v and an outcome o.
\* (ApplyMeasurement's own status is overwritten here before anyone reads it.)
Judge(n, v, o, st) ==
    /\ measurements' = [measurements EXCEPT ![n] = Measured(@, o)]
    /\ verdict' = [verdict EXCEPT ![n] = v]
    /\ status' = [status EXCEPT ![n] = st]
    /\ wells' = Trained(n, st, Measured(measurements[n], o))
    /\ UNCHANGED <<nodes, edges, score, well, pending, batch, candidates,
                   linking, top, failure, dropped>>

\* Faulty: whatever is not contradicted passes.
PassUncontradicted ==
    /\ pc = "verify"
    /\ at <= Len(candidates)
    /\ \E o \in VerifierOutcomes \ {"CONTRADICTED"} :
          Judge(candidates[at], "passed", o, "VERIFIED")
    /\ winner' = candidates[at]
    /\ pc' = "select"
    /\ UNCHANGED <<at, recovered>>

PassCandidate ==
    /\ pc = "verify"
    /\ at <= Len(candidates)
    /\ Judge(candidates[at], "passed", "SUPPORTED", "VERIFIED")
    /\ winner' = candidates[at]
    /\ pc' = "select"
    /\ UNCHANGED <<at, recovered>>

\* Only a contradiction fails a candidate, the rest leave it evaluated.
RejectCandidate ==
    /\ pc = "verify"
    /\ at <= Len(candidates)
    /\ Verifier = "branch"
    /\ \E o \in VerifierOutcomes \ {"SUPPORTED"} :
          /\ Judge(candidates[at], "rejected", o,
                   IF o = "CONTRADICTED" THEN "FAILED" ELSE "EVALUATED")
          /\ recovered' = (recovered \/ (o = "CONTRADICTED" /\ candidates[at] = top))
    /\ at' = at + 1
    /\ UNCHANGED <<pc, winner>>

CandidatesRejected ==
    /\ pc = "verify"
    /\ at > Len(candidates)
    /\ \/ /\ Wells # {} /\ GravityRecoveryBranches > 0
          /\ pc' = "recover"
          /\ UNCHANGED <<nodes, edges, status, evidenceVars, loopVars,
                         resultVars, failure, wells, dropped>>
       \/ /\ Wells = {} \/ GravityRecoveryBranches = 0
          /\ Return("no candidate passed verification")

-----------------------------------------------------------------------------
(***************************************************************************)
(* Gravity recovery: one more round of branches below the rejected ones.   *)
(***************************************************************************)

GenerateRecovery ==
    /\ pc = "recover"
    /\ Generate(GravityRecoveryBranches, "recoverNode")

StoreRecovery ==
    /\ pc = "recoverNode"
    /\ pending # <<>>
    /\ Outcome(NextId, 1) = "added"
    /\ Propose(NextId, 1)
    /\ linking' = [node |-> NextId, fresh |-> TRUE]
    /\ pending' = Tail(pending)
    /\ at' = 1
    /\ pc' = "recoverLink"
    /\ UNCHANGED <<evidenceVars, batch, candidates, resultVars, failure, wells,
                   dropped>>

\* Faulty: a duplicate leads back to the branch it duplicates.
ReuseRecoveryDuplicate ==
    /\ pc = "recoverNode"
    /\ pending # <<>>
    /\ Outcome(NextId, 1) = "duplicate"
    /\ batch' = Append(batch, Graph!HolderOf(Head(pending)))
    /\ pending' = Tail(pending)
    /\ UNCHANGED <<pc, nodes, edges, status, evidenceVars, candidates,
                   at, linking, resultVars, failure, wells, dropped>>

SkipRecoveryDuplicate ==
    /\ pc = "recoverNode"
    /\ pending # <<>>
    /\ Outcome(NextId, 1) = "duplicate"
    /\ pending' = Tail(pending)
    /\ UNCHANGED <<pc, nodes, edges, status, evidenceVars, batch, candidates,
                   at, linking, resultVars, failure, wells, dropped>>

RecoveryRefused ==
    /\ pc = "recoverNode"
    /\ pending # <<>>
    /\ Outcome(NextId, 1) \in Graph!NodeErrors
    /\ Return(Outcome(NextId, 1))

LinkRecovery ==
    /\ pc = "recoverLink"
    /\ at <= Len(candidates)
    /\ Graph!AddEdgeResult(candidates[at], linking.node) = "ok"
    /\ Graph!AddEdge(candidates[at], linking.node)
    /\ at' = at + 1
    /\ UNCHANGED <<pc, evidenceVars, pending, batch, candidates, linking,
                   resultVars, failure, wells, dropped>>

RecoveryLinked ==
    /\ pc = "recoverLink"
    /\ at > Len(candidates)
    /\ batch' = Append(batch, linking.node)
    /\ linking' = Unlinked
    /\ pc' = "recoverNode"
    /\ UNCHANGED <<nodes, edges, status, evidenceVars, pending, candidates, at,
                   resultVars, failure, wells, dropped>>

\* Faulty: a round of duplicates is asked for again.
RecoveryStoredOrRetried ==
    /\ pc = "recoverNode"
    /\ pending = <<>>
    /\ pc' = IF batch = <<>> THEN "recover" ELSE "recoverEvaluate"
    /\ UNCHANGED <<nodes, edges, status, evidenceVars, loopVars, resultVars,
                   failure, wells, dropped>>

RecoveryStored ==
    /\ pc = "recoverNode"
    /\ pending = <<>>
    /\ \/ /\ batch = <<>>
          /\ Return("no candidate passed verification")
       \/ /\ batch # <<>>
          /\ pc' = "recoverEvaluate"
          /\ UNCHANGED <<nodes, edges, status, evidenceVars, loopVars,
                         resultVars, failure, wells, dropped>>

EvaluateRecovery ==
    /\ pc = "recoverEvaluate"
    /\ Evaluate("recoverRank")

RankRecovery ==
    /\ pc = "recoverRank"
    /\ batch' \in RankedViable(batch)
    /\ at' = 1
    /\ pc' = "recoverVerify"
    /\ UNCHANGED <<nodes, edges, status, evidenceVars, pending, candidates,
                   linking, resultVars, failure, wells, dropped>>

PassRecovery ==
    /\ pc = "recoverVerify"
    /\ at <= Len(batch)
    /\ Judge(batch[at], "passed", "SUPPORTED", "VERIFIED")
    /\ winner' = batch[at]
    /\ recovered' = TRUE
    /\ pc' = "select"
    /\ UNCHANGED at

\* Every rejected recovery branch fails, whatever its measurement said.
RejectRecovery ==
    /\ pc = "recoverVerify"
    /\ at <= Len(batch)
    /\ Verifier = "branch"
    /\ \E o \in VerifierOutcomes \ {"SUPPORTED"} :
          Judge(batch[at], "rejected", o, "FAILED")
    /\ at' = at + 1
    /\ UNCHANGED <<pc, winner, recovered>>

RecoveryRejected ==
    /\ pc = "recoverVerify"
    /\ at > Len(batch)
    /\ Return("no candidate passed verification")

-----------------------------------------------------------------------------
\* Faulty: only the verification loop notes a switch of branches.
SelectWithoutRecovery ==
    /\ pc = "select"
    /\ status' = [status EXCEPT ![winner] = "SELECTED"]
    /\ pc' = "trace"
    /\ UNCHANGED <<nodes, edges, evidenceVars, loopVars, resultVars, failure,
                   wells, dropped>>

Select ==
    /\ pc = "select"
    /\ status' = [status EXCEPT ![winner] = "SELECTED"]
    /\ recovered' = (recovered \/ winner # top)
    /\ pc' = "trace"
    /\ UNCHANGED <<nodes, edges, evidenceVars, loopVars, top, winner, failure,
                   wells, dropped>>

\* The result stands, but a trace that cannot be written makes it an error.
WriteTrace ==
    /\ pc = "trace"
    /\ \/ Traced /\ Return("trace")
       \/ /\ pc' = "selected"
          /\ UNCHANGED <<nodes, edges, status, evidenceVars, loopVars,
                         resultVars, failure, wells, dropped>>

Returned ==
    /\ pc \in {"selected", "failed"}
    /\ UNCHANGED vars

Init ==
    /\ pc = "generate"
    /\ Graph!Init
    /\ score = [n \in Ids |-> 0]
    /\ well = [n \in Ids |-> NoWell]
    /\ measurements = [n \in Ids |-> <<>>]
    /\ verdict = [n \in Ids |-> "none"]
    /\ pending = <<>>
    /\ batch = <<>>
    /\ candidates = <<>>
    /\ at = 1
    /\ linking = Unlinked
    /\ top = NoId
    /\ winner = NoId
    /\ recovered = FALSE
    /\ failure = "none"
    /\ wells = [w \in Wells |-> [applications |-> 0, outcomes |-> 0]]
    /\ dropped = {}

InitialPhase ==
    GenerateInitial \/ StoreInitial \/ InitialRefused \/ InitialStored
    \/ Regenerate \/ StoreRegenerated \/ RegeneratedRefused \/ Regenerated
    \/ EvaluateInitial \/ Retain

ExpansionPhase ==
    ExpandLeader \/ SkipDeepLeader \/ StoreChild \/ DropChild \/ LinkChild
    \/ LinkRefused \/ LeaderExpanded \/ ExpansionDone \/ EvaluateChildren

VerificationPhase ==
    Collect \/ Execute \/ NothingToExecute \/ Challenge \/ PassCandidate
    \/ RejectCandidate \/ CandidatesRejected

RecoveryPhase ==
    GenerateRecovery \/ StoreRecovery \/ SkipRecoveryDuplicate
    \/ RecoveryRefused \/ LinkRecovery \/ RecoveryLinked \/ RecoveryStored
    \/ EvaluateRecovery \/ RankRecovery \/ PassRecovery \/ RejectRecovery
    \/ RecoveryRejected

Next ==
    \/ InitialPhase
    \/ ExpansionPhase
    \/ VerificationPhase
    \/ RecoveryPhase
    \/ Select
    \/ WriteTrace
    \/ Returned

Spec == Init /\ [][Next]_vars

-----------------------------------------------------------------------------
(***************************************************************************)
(* Properties.                                                             *)
(***************************************************************************)

Lists == UNION {[1..n -> Stored] : n \in 0..Cardinality(Stored)}

Statements ==
    {"generate", "store", "regenerate", "restore", "evaluate", "retain",
     "expand", "child", "link", "assess", "collect", "execute", "challenge",
     "verify", "recover", "recoverNode", "recoverLink", "recoverEvaluate",
     "recoverRank", "recoverVerify", "select", "trace", "selected", "failed"}

\* Every list and every index of Run refers to branches the graph stores.
TypeOK ==
    /\ pc \in Statements
    /\ Graph!TypeOK
    /\ score \in [Ids -> 0..MaxScore]
    /\ well \in [Ids -> Wells \cup {NoWell}]
    /\ measurements \in [Ids -> Seq(Results)]
    /\ verdict \in [Ids -> {"none", "passed", "rejected"}]
    /\ pending \in Seq(Fingerprints)
    /\ batch \in Lists
    /\ candidates \in Lists
    /\ at \in Nat
    /\ linking \in [node : Stored \cup {NoId}, fresh : BOOLEAN]
    /\ {top, winner} \subseteq Stored \cup {NoId}
    /\ recovered \in BOOLEAN
    /\ wells \in [Wells -> [applications : Nat, outcomes : Nat]]
    /\ dropped \subseteq Graph!NodeErrors

\* Whatever the model proposes and wherever a call fails, Run only ever
\* changes its graph by AddNode, AddEdge and status writes.
ImplementsGraph == Graph!Spec

\* The run selects one branch, the only one that passed its verifier, and its
\* measurements support it: no authoritative contradiction is overridden by
\* rank, by gravity or by the recovery round (MEASUREMENT.md:32).
SelectionIsVerified ==
    pc \in {"trace", "selected"} =>
        /\ {n \in Stored : status[n] = "SELECTED"} = {winner}
        /\ {n \in Stored : verdict[n] = "passed"} = {winner}
        /\ Verifier = "branch" => AggregateOutcome(measurements[winner]) = "SUPPORTED"

\* A branch that was pruned or failed never comes back, although later loops
\* rewrite statuses wholesale and duplicates lead back to old branches.
RejectionIsFinal ==
    [][\A n \in Stored : status[n] \in Rejectable => status'[n] = status[n]]_vars

\* No branch is put to the verifier twice, in the main or the recovery round:
\* once it has a verdict, its verdict and its measurements stand.
VerifiedOnce ==
    [][\A n \in Stored : verdict[n] # "none" =>
          /\ verdict'[n] = verdict[n]
          /\ measurements'[n] = measurements[n]]_vars

\* Branch n still has a claim to be selected: nothing pruned it and the
\* verifier has not turned it down.
Untried(n) == status[n] # "PRUNED" /\ verdict[n] = "none"

\* "no candidate passed verification" means it: minority branches, children,
\* the executor's answer and recovery branches were all put to the verifier.
NothingUntried ==
    failure = "no candidate passed verification" =>
        ~ \E n \in Stored : Untried(n)

\* Candidates are tried best first across the leaders, their children and the
\* executor's answer: no branch left untried outranks the winner.
BestFirst ==
    pc \in {"trace", "selected"} =>
        \A n \in Stored : Untried(n) => score[n] <= score[winner]

\* Gravity learns from each independently measured, authoritative outcome of
\* a branch it routed exactly once, and from nothing else (MEASUREMENT.md:46).
GravityLearnsFromEvidence ==
    \A w \in Wells :
        wells[w].outcomes =
            Cardinality({n \in Stored : /\ well[n] = w
                                        /\ IndependentOutcome(measurements[n])
                                             \in {"SUPPORTED", "CONTRADICTED"}})

\* A run ends: it selects a branch or returns an error.
Terminates == <>(pc \in {"selected", "failed"})

\* MEASUREMENT.md:32, "Inconclusive evidence preserves the branch": a branch
\* that was only measured inconclusively is not failed.
InconclusivePreserves ==
    \A n \in Stored :
        AggregateOutcome(measurements[n]) = "INCONCLUSIVE" => status[n] # "FAILED"

\* README.md:7, "generates distinct semantic hypotheses, stores them as typed
\* nodes": a distinct proposal within the bounds of the search is stored.
DistinctProposalsStored == "duplicate id" \notin dropped
=============================================================================
