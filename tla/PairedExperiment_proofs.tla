---------------------- MODULE PairedExperiment_proofs ----------------------
(***************************************************************************)
(* The paired experiment for every schedule, any number of retries, calls  *)
(* and starts of the process.                                              *)
(*                                                                         *)
(* Three invariants, over the types.  SignalInv follows a cancellation     *)
(* from the context it ended to the error of a call, and from there to the *)
(* outcome of a side: each of them says that the run has ended, so the row *)
(* is dropped.  AgreeInv, which needs it, says of the calls of the pair    *)
(* under way what their results will say of them.  RowsInv says where Run  *)
(* is in the schedule and how far the artifacts are behind the results in  *)
(* memory.                                                                 *)
(***************************************************************************)
EXTENDS PairedExperiment, FiniteSetTheorems, SequenceTheorems, TLAPS

\* A retry is left while an attempt waits for it.
RetryLeft == call.phase = "backoff" => call.attempt < Retries

\* A pair that is asked or being stored is one of the schedule.
InSchedule ==
    pc \in {"baseline", "ban"} \/ (pc = "persist" /\ then = "loop") => at <= Len(Schedule)

Types == TypeOK /\ RetryLeft /\ InSchedule

RunGone == ctx["run"] \in Ended

\* A case or a call that was cancelled was so by the run it belongs to.
CancelledByRun ==
    /\ pc \in {"baseline", "ban"} => (ctx["case"] = "cancelled" => RunGone)
    /\ call.phase # "idle" => /\ pc \in {"baseline", "ban"}
                              /\ ctx["call"] = "cancelled" => RunGone

\* So was what was made of it.
TracedToRun ==
    /\ \A i \in DOMAIN log : log[i] = "PROVIDER_CANCELLED" => RunGone
    /\ row.outcome = "INTERRUPTED" => RunGone
    /\ row.interrupted => RunGone

SignalInv == CancelledByRun /\ TracedToRun /\ InterruptedNotRecorded

\* s is a beginning of t.
Follows(s, t) ==
    /\ Len(s) <= Len(t)
    /\ \A i \in 1 .. Len(s) : s[i] = t[i]

\* Results of the schedule's first pairs, of all of them in a finished file.
WellFormed(file) ==
    /\ Len(file.rows) <= Len(Schedule)
    /\ \A i \in 1 .. Len(file.rows) : file.rows[i].pair = Schedule[i]
    /\ file.finished => Len(file.rows) = Len(Schedule)

\* The pairs Run skips have results, and the results ahead of it are skipped.
AtPlace ==
    /\ \A i \in 1 .. Len(Schedule) : Schedule[i] \in skip => i <= Len(state.rows)
    /\ pc = "loop" =>
           /\ at <= Len(state.rows) + 1
           /\ \A i \in at .. Len(state.rows) : Schedule[i] \in skip
    /\ pc \in {"baseline", "ban"} => at = Len(state.rows) + 1 /\ at <= Len(Schedule)

\* Between two persists the summary is the memory; a persist may bring it one
\* result, or say that the experiment is finished or is not, never both.
SummaryBehind ==
    /\ pc \in {"loop", "baseline", "ban"} => disk["summary"] = state
    /\ pc = "persist" =>
           /\ written > 0 => disk["summary"] = state
           /\ Follows(disk["summary"].rows, state.rows)
           /\ then \in {"loop", "interrupted", "finished"}
           /\ then = "loop" => /\ ~ state.finished
                               /\ at = Len(state.rows)
                               /\ written = 0 => Len(disk["summary"].rows) + 1 = at
           /\ then # "loop" => Len(disk["summary"].rows) = Len(state.rows)
           /\ then = "interrupted" => ~ state.finished
           /\ then = "finished" => state.finished

RowsInv ==
    /\ pc # "stopped" => WellFormed(state)
    /\ \A a \in Range(Artifacts) : /\ WellFormed(disk[a])
                                   /\ Follows(disk[a].rows, disk["summary"].rows)
    /\ pc # "stopped" => AtPlace
    /\ SummaryBehind

-----------------------------------------------------------------------------
(***************************************************************************)
(* Facts of the constants and of sequences.                                *)
(***************************************************************************)

LEMMA ArtifactNames ==
    /\ Range(Artifacts) = {"summary", "manifest", "paired-results", "candidates", "report"}
    /\ Len(Artifacts) = 5
    /\ \A i \in 1 .. 5 : Artifacts[i] \in Range(Artifacts)
    /\ Artifacts[1] = "summary"
    /\ \A i \in 2 .. 5 : Artifacts[i] # "summary"
<1>1. /\ DOMAIN Artifacts = 1 .. 5
      /\ Len(Artifacts) = 5
      /\ Artifacts[1] = "summary" /\ Artifacts[2] = "manifest"
      /\ Artifacts[3] = "paired-results" /\ Artifacts[4] = "candidates"
      /\ Artifacts[5] = "report"
    BY DEF Artifacts
<1>2. \A i \in 1 .. 5 : i = 1 \/ i = 2 \/ i = 3 \/ i = 4 \/ i = 5
    OBVIOUS
<1>3. Range(Artifacts) = {Artifacts[i] : i \in 1 .. 5}
    BY <1>1 DEF Range
<1> QED
    BY <1>1, <1>2, <1>3

LEMMA ScheduleFacts ==
    /\ Schedule \in Seq(Range(Schedule))
    /\ Len(Schedule) \in Nat
    /\ \A i \in 1 .. Len(Schedule) : Schedule[i] \in Range(Schedule)
    /\ \A i, j \in 1 .. Len(Schedule) : Schedule[i] = Schedule[j] => i = j
<1>1. Schedule \in Seq(Range(Schedule))
    BY ScheduleAssumption
<1> QED
    BY <1>1, ScheduleAssumption DEF Range

LEMMA EmptyIsFile == Empty \in Files /\ Empty.rows = <<>> /\ ~ Empty.finished
BY DEF Empty, Files

\* Len of a comprehension over a sequence.
LEMMA PairsLength ==
    ASSUME NEW S, NEW rows \in Seq(S)
    PROVE  /\ Len(Pairs(rows)) = Len(rows)
           /\ Pairs(rows) \in Seq({rows[i].pair : i \in 1 .. Len(rows)})
           /\ \A i \in 1 .. Len(rows) : Pairs(rows)[i] = rows[i].pair
BY DEF Pairs

\* What a prefix of the community modules says.
LEMMA FollowsIsPrefix ==
    ASSUME NEW S, NEW s \in Seq(S), NEW t \in Seq(S), Follows(s, t)
    PROVE  IsPrefix(s, t)
<1>1. SubSeq(s, 1, Len(s)) = SubSeq(t, 1, Len(s))
    BY DEF Follows
<1> QED
    BY <1>1 DEF Follows, IsPrefix

LEMMA FollowsItself == ASSUME NEW s PROVE Len(s) \in Nat => Follows(s, s)
BY DEF Follows

LEMMA FollowsTransitive ==
    ASSUME NEW S, NEW r \in Seq(S), NEW s \in Seq(S), NEW t \in Seq(S),
           Follows(r, s), Follows(s, t)
    PROVE  Follows(r, t)
BY DEF Follows

-----------------------------------------------------------------------------
(***************************************************************************)
(* A call: each step returns one entry of the log or leaves it alone.      *)
(***************************************************************************)

Entries == Codes \cup {"NONE"}

\* A call that ends as cancelled had a context that was. None ends with the
\* verdict of a search.
Returns == \E code \in Entries \ {"NO_VERIFIED_CANDIDATE"} :
               /\ Return(code)
               /\ code = "PROVIDER_CANCELLED" => ctx["call"] = "cancelled"

GoesOn == /\ UNCHANGED <<ctx, log>>
          /\ call' \in Calls
          /\ call'.phase # "idle"
          /\ RetryLeft'

LEMMA FailShape ==
    ASSUME CallTypeOK, call.phase # "idle", NEW isContextError,
           NEW code \in Entries \ {"NO_VERIFIED_CANDIDATE"},
           Fail(code, isContextError),
           code = "PROVIDER_CANCELLED" => ctx["call"] = "cancelled"
    PROVE  Returns \/ GoesOn
<1>1. CASE isContextError \/ call.attempt = Retries
    BY <1>1 DEF Fail, Returns
<1>2. CASE ~ (isContextError \/ call.attempt = Retries)
  <2>1. call' = [call EXCEPT !.phase = "backoff"] /\ UNCHANGED <<ctx, log>>
    BY <1>2 DEF Fail
  <2>2. call \in Calls /\ call.attempt \in 0 .. Retries /\ call.attempt # Retries
    BY <1>2 DEF CallTypeOK, Calls, Attempts
  <2>3. call' \in Calls /\ call'.phase = "backoff" /\ call'.attempt = call.attempt
    BY <2>1, <2>2 DEF Calls
  <2> QED
    BY <2>1, <2>2, <2>3, RetriesAssumption DEF GoesOn, RetryLeft
<1> QED
    BY <1>1, <1>2

LEMMA CodeOfContext ==
    ASSUME CallTypeOK
    PROVE  /\ FailureCodeOf(ctx["call"]) \in Entries
           /\ FailureCodeOf(ctx["call"]) = "PROVIDER_CANCELLED" => ctx["call"] = "cancelled"
           /\ ctx["call"] # "live" => FailureCodeOf(ctx["call"]) # "NO_VERIFIED_CANDIDATE"
BY DEF FailureCodeOf, Entries, Codes, CallTypeOK, Levels, Ended

LEMMA CallShape ==
    ASSUME CallTypeOK, RetryLeft, CallStep
    PROVE  call.phase # "idle" /\ (Returns \/ GoesOn)
<1> USE CodeOfContext
<1>0. /\ {"PROVIDER_ERROR", "PROVIDER_TIMEOUT", "MODEL_OUTPUT_MALFORMED", "NONE"}
             \subseteq Entries \ {"NO_VERIFIED_CANDIDATE"}
      /\ "live" \notin Ended
    BY DEF Entries, Codes, Ended
<1>1. CASE Refused
    BY <1>0, <1>1, FailShape DEF Refused
<1>2. CASE Aborted
    BY <1>0, <1>2, FailShape DEF Aborted
<1>3. CASE DialTimesOut
    BY <1>0, <1>3, FailShape DEF DialTimesOut
<1>4. CASE BadStatus
    BY <1>0, <1>4, FailShape DEF BadStatus
<1>5. CASE OpenStream
    BY <1>5 DEF OpenStream, GoesOn, RetryLeft, CallTypeOK, Calls
<1>6. ASSUME NEW code \in Codes, BadChunk(code) PROVE call.phase # "idle" /\ (Returns \/ GoesOn)
    BY <1>0, <1>6, FailShape DEF BadChunk
<1>7. CASE StreamBreaks
    BY <1>0, <1>7, FailShape DEF StreamBreaks
<1>8. ASSUME NEW decodes \in BOOLEAN, StreamEnds(decodes)
      PROVE  call.phase # "idle" /\ (Returns \/ GoesOn)
  <2>1. CASE Fail("PROVIDER_ERROR", FALSE)
    BY <1>0, <1>8, <2>1, FailShape DEF StreamEnds
  <2>2. CASE Return(IF decodes THEN "NONE" ELSE "MODEL_OUTPUT_MALFORMED")
    BY <1>0, <1>8, <2>2 DEF StreamEnds, Returns
  <2> QED
    BY <1>8, <2>1, <2>2 DEF StreamEnds
<1>9. CASE GiveUp
    BY <1>0, <1>9 DEF GiveUp, Returns
<1>10. CASE Retry
  <2>1. call \in Calls /\ call.attempt \in Nat /\ call.attempt < Retries
    BY <1>10 DEF Retry, RetryLeft, CallTypeOK, Calls, Attempts
  <2>2. call.attempt + 1 \in 0 .. Retries
    BY <2>1, RetriesAssumption
  <2> QED
    BY <1>10, <2>1, <2>2 DEF Retry, GoesOn, RetryLeft, Calls, Attempts
<1> QED
    BY <1>1, <1>2, <1>3, <1>4, <1>5, <1>6, <1>7, <1>8, <1>9, <1>10 DEF CallStep

-----------------------------------------------------------------------------
(***************************************************************************)
(* Types.                                                                  *)
(***************************************************************************)

LEMMA EntriesAreTyped == ASSUME CallTypeOK PROVE log \in Seq(Entries)
BY DEF CallTypeOK, Entries

\* Whatever an error is, a side has an outcome for it.
LEMMA AccountIsSide ==
    ASSUME CallTypeOK, NEW code
    PROVE  Account(code) \in Sides
<1>1. FailedCalls \subseteq 1 .. Len(log) /\ Len(log) \in Nat
    BY DEF FailedCalls, CallTypeOK
<1>2. Cardinality(FailedCalls) \in Nat
  <2>1. IsFiniteSet(1 .. Len(log))
    BY <1>1, FS_Interval
  <2>2. IsFiniteSet(FailedCalls)
    BY <1>1, <2>1, FS_Subset
  <2> QED
    BY <2>2, FS_CardinalityType
<1>3. ErrorOutcome(code) \in Outcomes
    BY DEF ErrorOutcome, Outcomes
<1> QED
    BY <1>2, <1>3 DEF Account, Sides

LEMMA FileUpdates ==
    ASSUME NEW file \in Files
    PROVE  /\ \A finished \in BOOLEAN : [file EXCEPT !.finished = finished] \in Files
           /\ \A r \in Results : [file EXCEPT !.rows = Append(@, r)] \in Files
BY DEF Files

LEMMA PairsInSchedule ==
    ASSUME NEW rows \in Seq(Results)
    PROVE  Range(Pairs(rows)) \subseteq Range(Schedule)
<1>1. \A r \in Results : r.pair \in Range(Schedule)
    BY DEF Results
<1>2. \A i \in DOMAIN rows : rows[i].pair \in Range(Schedule)
  <2>1. \A i \in DOMAIN rows : rows[i] \in Results
    OBVIOUS
  <2> QED
    BY <1>1, <2>1
<1>3. \A x \in Range(Pairs(rows)) : \E i \in DOMAIN rows : x = rows[i].pair
    BY DEF Pairs, Range
<1> QED
    BY <1>2, <1>3

LEMMA NoSideIsSide == NoSide \in Sides
BY DEF NoSide, Sides, Outcomes

LEMMA InitTypes == Init => Types
<1> SUFFICES ASSUME Init PROVE Types
    OBVIOUS
<1>1. CallTypeOK
  <2>1. ctx \in [Levels -> {"live"} \cup Ended]
    BY DEF Init, Fresh, Ended, Levels
  <2>2. call \in Calls
    BY RetriesAssumption DEF Init, Idle, Calls, Attempts
  <2> QED
    BY <2>1, <2>2 DEF Init, CallTypeOK
<1>2. RetryLeft
    BY DEF Init, Idle, RetryLeft
<1>3. disk \in [Range(Artifacts) -> Files]
    BY EmptyIsFile DEF Init
<1>4. written \in 0 .. Len(Artifacts) /\ starts \in 0 .. MaxStarts /\ at \in 1 .. Len(Schedule) + 1
    BY ArtifactNames, ScheduleFacts, BoundsAssumption DEF Init
<1> QED
    BY <1>1, <1>2, <1>3, <1>4, EmptyIsFile, NoSideIsSide DEF Init, Types, InSchedule, TypeOK

\* A context that is ended, derived or released stays a context.
LEMMA CallTypesKept ==
    ASSUME CallTypeOK, RetryLeft
    PROVE  /\ CallStep => CallTypeOK' /\ RetryLeft'
           /\ \A s \in BOOLEAN : Invoke(s) => CallTypeOK' /\ RetryLeft'
           /\ \A level \in Levels, err \in Ended :
                  EndContext(level, err) => CallTypeOK' /\ RetryLeft'
<1>0. Idle \in Calls /\ Idle.phase = "idle"
    BY RetriesAssumption DEF Idle, Calls, Attempts
<1>1. ASSUME CallStep PROVE CallTypeOK' /\ RetryLeft'
  <2>1. CASE Returns
    BY <2>1, <1>0 DEF Returns, Return, Release, CallTypeOK, RetryLeft, Entries, Ended, Levels
  <2>2. CASE GoesOn
    BY <2>2 DEF GoesOn, CallTypeOK
  <2> QED
    BY <1>1, <2>1, <2>2, CallShape
<1>2. ASSUME NEW s \in BOOLEAN, Invoke(s) PROVE CallTypeOK' /\ RetryLeft'
  <2>1. call' \in Calls /\ call'.phase = "connect"
    BY <1>2, <1>0 DEF Invoke, Calls
  <2>2. ctx' \in [Levels -> {"live"} \cup Ended]
    BY <1>2 DEF Invoke, Derive, CallTypeOK, Levels
  <2> QED
    BY <1>2, <2>1, <2>2 DEF Invoke, CallTypeOK, RetryLeft
<1>3. ASSUME NEW level \in Levels, NEW err \in Ended, EndContext(level, err)
      PROVE  CallTypeOK' /\ RetryLeft'
    BY <1>3 DEF EndContext, CallTypeOK, RetryLeft
<1> QED
    BY <1>1, <1>2, <1>3

LEMMA StoppedTypes ==
    ASSUME TypeOK, Stopped, disk' \in [Range(Artifacts) -> Files], starts' \in 0 .. MaxStarts
    PROVE  Types'
<1>1. CallTypeOK' /\ RetryLeft'
  <2>1. ctx' \in [Levels -> {"live"} \cup Ended]
    BY DEF Stopped, Fresh, Ended
  <2>2. call' \in Calls /\ call'.phase = "idle"
    BY RetriesAssumption DEF Stopped, Idle, Calls, Attempts
  <2> QED
    BY <2>1, <2>2 DEF Stopped, CallTypeOK, RetryLeft
<1> QED
    BY <1>1, EmptyIsFile, NoSideIsSide, ArtifactNames, ScheduleFacts DEF Stopped, Types, InSchedule, TypeOK

LEMMA UnwrittenTypes ==
    ASSUME TypeOK, Unwritten PROVE disk' \in [Range(Artifacts) -> Files]
BY EmptyIsFile DEF TypeOK, Unwritten

LEMMA TypesKept == Types /\ [Next]_vars => Types'
<1> SUFFICES ASSUME TypeOK, RetryLeft, InSchedule, CallTypeOK, [Next]_vars PROVE Types'
    BY DEF Types, InSchedule, TypeOK
<1> USE ArtifactNames, ScheduleFacts, BoundsAssumption
<1>1. CASE Start
  <2>1. disk["summary"] \in Files /\ disk["summary"].rows \in Seq(Results)
    BY DEF TypeOK, Files
  <2>2. Range(Pairs(disk["summary"].rows)) \subseteq Range(Schedule)
    BY <2>1, PairsInSchedule
  <2> QED
    BY <1>1, <2>1, <2>2 DEF Start, Types, InSchedule, TypeOK, CallTypeOK, RetryLeft, callVars
<1>2. CASE Skip
    BY <1>2 DEF Skip, Types, InSchedule, TypeOK, CallTypeOK, RetryLeft, callVars
<1>3. CASE StopAtHead
  <2>1. state' \in Files
    BY <1>3, FileUpdates DEF StopAtHead, TypeOK
  <2> QED
    BY <1>3, <2>1 DEF StopAtHead, Persist, Types, InSchedule, TypeOK, CallTypeOK, RetryLeft, callVars
<1>4. CASE StartPair
    BY <1>4 DEF StartPair, Derive, Types, InSchedule, TypeOK, CallTypeOK, RetryLeft, Levels
<1>5. CASE Finish
  <2>1. state' \in Files
    BY <1>5, FileUpdates DEF Finish, TypeOK
  <2> QED
    BY <1>5, <2>1 DEF Finish, Persist, Types, InSchedule, TypeOK, CallTypeOK, RetryLeft, callVars
<1>6. CASE CallBaseline
    BY <1>6, CallTypesKept DEF CallBaseline, runVars, Types, InSchedule, TypeOK
<1>7. CASE BaselineDone
  <2>1. row' \in Sides
    BY <1>7, AccountIsSide DEF BaselineDone
  <2> QED
    BY <1>7, <2>1 DEF BaselineDone, Types, InSchedule, TypeOK, CallTypeOK, RetryLeft
<1>8. CASE CallBAN
    BY <1>8, CallTypesKept DEF CallBAN, runVars, Types, InSchedule, TypeOK
<1>9. CASE BANDone
  <2>1. ctx' \in [Levels -> {"live"} \cup Ended]
    BY <1>9 DEF BANDone, Release, CallTypeOK, Ended, Levels
  <2>2. log' = <<>> /\ call' = call /\ row' = NoSide /\ UNCHANGED <<at, skip, disk, starts>>
    BY <1>9 DEF BANDone
  <2>3. pc' = "persist" /\ written' = 0 /\ then' \in {"loop", "interrupted"}
    BY <1>9 DEF BANDone, Persist
  <2>4. state' \in Files
    <3>1. CASE RunEnded
      BY <1>9, <3>1 DEF BANDone, TypeOK
    <3>2. CASE ~ RunEnded
      <4>1. PICK code \in Endings, candidates \in BOOLEAN :
                state' = [state EXCEPT !.rows = Append(@, [pair       |-> Schedule[at],
                                                           baseline   |-> row,
                                                           ban        |-> Account(code),
                                                           candidates |-> candidates])]
        BY <1>9, <3>2 DEF BANDone
      <4> DEFINE r == [pair |-> Schedule[at], baseline |-> row,
                       ban |-> Account(code), candidates |-> candidates]
      <4>2. r \in Results
        <5>1. at \in 1 .. Len(Schedule)
          BY <1>9 DEF BANDone, InSchedule, TypeOK
        <5> QED
          BY <5>1, AccountIsSide DEF Results, TypeOK
      <4> QED
        BY <4>1, <4>2, FileUpdates DEF TypeOK
    <3> QED
      BY <3>1, <3>2
  <2> QED
    <3>1. CallTypeOK' /\ RetryLeft'
      BY <2>1, <2>2 DEF CallTypeOK, RetryLeft
    <3>2. at \in 1 .. Len(Schedule)
      BY <1>9 DEF BANDone, InSchedule, TypeOK
    <3> QED
      BY <2>2, <2>3, <2>4, <3>1, <3>2, NoSideIsSide DEF Types, InSchedule, TypeOK
<1>10. CASE Write
  <2>1. \A a \in Range(Artifacts), f \in Files : Written(a, f) \in Files
    BY DEF Written, TypeOK
  <2>2. disk' \in [Range(Artifacts) -> Files]
    BY <1>10, <2>1 DEF Write, TypeOK
  <2> QED
    BY <1>10, <2>2 DEF Write, Types, InSchedule, TypeOK, CallTypeOK, RetryLeft, callVars
<1>11. CASE Persisted
  <2>1. CASE then = "loop"
    BY <1>11, <2>1 DEF Persisted, Types, InSchedule, TypeOK, CallTypeOK, RetryLeft, callVars
  <2>2. CASE then # "loop"
    BY <1>11, <2>2, StoppedTypes DEF Persisted, TypeOK
  <2> QED
    BY <2>1, <2>2
<1>12. CASE Calling
    BY <1>12, CallTypesKept DEF Calling, runVars, Types, InSchedule, TypeOK
<1>13. CASE ContextEnds
  <2>1. \E level \in Levels, err \in Ended : EndContext(level, err)
    BY <1>13 DEF ContextEnds, CallDeadline, Levels, Ended
  <2> QED
    BY <1>13, <2>1, CallTypesKept DEF ContextEnds, runVars, Types, InSchedule, TypeOK
<1>14. CASE WriteFails
    BY <1>14, StoppedTypes, UnwrittenTypes DEF WriteFails, TypeOK
<1>15. CASE Crash
    BY <1>15, StoppedTypes, UnwrittenTypes DEF Crash, TypeOK
<1>16. CASE AtRest \/ UNCHANGED vars
    BY <1>16 DEF AtRest, vars, callVars, runVars, Types, InSchedule, TypeOK, CallTypeOK, RetryLeft
<1> QED
    BY <1>1, <1>2, <1>3, <1>4, <1>5, <1>6, <1>7, <1>8, <1>9, <1>10, <1>11, <1>12,
       <1>13, <1>14, <1>15, <1>16 DEF Next, Work

\* The variables of the experiment keep their types.
THEOREM TypeCorrect == Spec => []TypeOK
<1>1. Spec => []Types
    BY InitTypes, TypesKept, PTL DEF Spec
<1> QED
    BY <1>1, PTL DEF Types

-----------------------------------------------------------------------------
(***************************************************************************)
(* An interrupted pair is not recorded.                                    *)
(***************************************************************************)

Clean(file) == \A i \in DOMAIN file.rows :
    Undisturbed(file.rows[i].baseline) /\ Undisturbed(file.rows[i].ban)

LEMMA NotRecordedIsClean ==
    ASSUME disk \in [Range(Artifacts) -> Files]
    PROVE  InterruptedNotRecorded <=> Clean(state) /\ \A a \in Range(Artifacts) : Clean(disk[a])
<1>1. \A f : f \in {state} \cup Range(disk) <=> f = state \/ \E a \in Range(Artifacts) : f = disk[a]
    BY DEF Range
<1>2. InterruptedNotRecorded <=> \A f \in {state} \cup Range(disk) : Clean(f)
    BY DEF InterruptedNotRecorded, Clean
<1> QED
    BY <1>1, <1>2

\* A file with one result more, on neither side of which the run had ended.
LEMMA CleanAppended ==
    ASSUME NEW file \in Files, Clean(file), NEW r \in Results,
           Undisturbed(r.baseline), Undisturbed(r.ban)
    PROVE  Clean([file EXCEPT !.rows = Append(@, r)])
<1> DEFINE rows == Append(file.rows, r)
<1>1. file.rows \in Seq(Results)
    BY DEF Files
<1>2. \A i \in DOMAIN rows : (i \in DOMAIN file.rows /\ rows[i] = file.rows[i]) \/ rows[i] = r
    BY <1>1
<1>3. [file EXCEPT !.rows = Append(@, r)].rows = rows
    BY DEF Files
<1> HIDE DEF rows
<1> QED
    BY <1>2, <1>3 DEF Clean

\* A process that stops leaves nothing to trace.
LEMMA StoppedSignal ==
    ASSUME Types, Types', SignalInv, Stopped,
           \A a \in Range(Artifacts) : disk'[a] = disk[a] \/ disk'[a] = Empty
    PROVE  SignalInv'
<1>1. Clean(Empty)
    BY EmptyIsFile DEF Clean
<1>2. \A a \in Range(Artifacts) : Clean(disk[a])
    BY NotRecordedIsClean DEF SignalInv, Types, TypeOK
<1>3. InterruptedNotRecorded'
  <2>1. disk' \in [Range(Artifacts) -> Files] /\ state' = Empty
    BY DEF Types, TypeOK, Stopped
  <2>2. \A a \in Range(Artifacts) : Clean(disk'[a])
    BY <1>1, <1>2
  <2>3. \A f : f \in {state'} \cup Range(disk') => Clean(f)
    BY <1>1, <2>1, <2>2 DEF Range
  <2> QED
    BY <2>3 DEF InterruptedNotRecorded, Clean
<1>4. CancelledByRun'
    BY DEF Stopped, CancelledByRun, Idle
<1>5. TracedToRun'
    BY DEF Stopped, TracedToRun, NoSide
<1> QED
    BY <1>3, <1>4, <1>5 DEF SignalInv

LEMMA UnwrittenFiles ==
    ASSUME TypeOK, Unwritten
    PROVE  \A a \in Range(Artifacts) : /\ disk'[a] = disk[a] \/ disk'[a] = Empty
                                       /\ a = "summary" => disk'[a] = disk[a]
BY DEF TypeOK, Unwritten

LEMMA InitSignal == Init => SignalInv
<1> SUFFICES ASSUME Init PROVE SignalInv
    OBVIOUS
<1>1. disk \in [Range(Artifacts) -> Files] /\ \A a \in Range(Artifacts) : disk[a] = Empty
    BY EmptyIsFile DEF Init
<1>2. Clean(Empty)
    BY EmptyIsFile DEF Clean
<1>3. InterruptedNotRecorded
    BY <1>1, <1>2, NotRecordedIsClean DEF Init
<1> QED
    BY <1>3 DEF Init, SignalInv, CancelledByRun, TracedToRun, Idle, NoSide

\* The steps of a call keep the trace, and leave the rows alone.
LEMMA CallSignal ==
    ASSUME Types, CancelledByRun, TracedToRun, Calling
    PROVE  CancelledByRun' /\ TracedToRun'
<1>1. UNCHANGED <<pc, row>>
    BY DEF Calling, runVars
<1>2. call.phase # "idle" /\ (Returns \/ GoesOn)
    BY CallShape DEF Calling, Types, TypeOK
<1>3. CASE GoesOn
    BY <1>1, <1>2, <1>3 DEF GoesOn, CancelledByRun, TracedToRun, RunGone
<1>4. CASE Returns
  <2>1. PICK code \in Entries : /\ Return(code)
                                /\ code = "PROVIDER_CANCELLED" => ctx["call"] = "cancelled"
    BY <1>4 DEF Returns
  <2>2. /\ ctx'["run"] = ctx["run"] /\ ctx'["case"] = ctx["case"]
        /\ call' = Idle /\ log' = Append(log, code)
    BY <2>1 DEF Return, Release, Types, TypeOK, CallTypeOK, Levels
  <2>3. code = "PROVIDER_CANCELLED" => RunGone
    BY <1>2, <2>1 DEF CancelledByRun
  <2>4. log \in Seq(Entries)
    BY EntriesAreTyped DEF Types, TypeOK
  <2>5. \A i \in DOMAIN log' : (i \in DOMAIN log /\ log'[i] = log[i]) \/ log'[i] = code
    BY <2>2, <2>4
  <2>6. TracedToRun'
    BY <1>1, <2>2, <2>3, <2>5 DEF TracedToRun, RunGone
  <2>7. CancelledByRun'
    BY <1>1, <2>2 DEF CancelledByRun, RunGone, Idle
  <2> QED
    BY <2>6, <2>7
<1> QED
    BY <1>2, <1>3, <1>4

\* Nor does the end of a context: what is cancelled is so by the run.
LEMMA ContextSignal ==
    ASSUME Types, CancelledByRun, TracedToRun, ContextEnds
    PROVE  CancelledByRun' /\ TracedToRun'
<1>1. UNCHANGED <<pc, row, log, call>> /\ ctx \in [Levels -> {"live"} \cup Ended]
    BY DEF ContextEnds, CallDeadline, EndContext, runVars, Types, TypeOK, CallTypeOK
<1>2. RunGone' \/ (/\ RunGone => RunGone'
                   /\ ctx'["case"] = "cancelled" => ctx["case"] = "cancelled"
                   /\ ctx'["call"] = "cancelled" => ctx["call"] = "cancelled")
  <2>1. CASE \E err \in Ended : EndContext("run", err)
    BY <1>1, <2>1 DEF EndContext, Below, RunGone, Levels
  <2>2. CASE EndContext("case", "expired") \/ EndContext("call", "expired")
    BY <1>1, <2>2 DEF EndContext, Below, RunGone, Levels
  <2> QED
    BY <2>1, <2>2 DEF ContextEnds, CallDeadline
<1> QED
    BY <1>1, <1>2 DEF CancelledByRun, TracedToRun

LEMMA InterruptedIsCancelled ==
    ASSUME NEW code, ErrorOutcome(code) = "INTERRUPTED" PROVE code = "PROVIDER_CANCELLED"
BY DEF ErrorOutcome

\* A run that has not ended ends its engine with no cancellation.
LEMMA EndingsOfLiveRun ==
    ASSUME Types, CancelledByRun, TracedToRun, ~ RunGone, pc = "ban", NEW code \in Endings
    PROVE  ErrorOutcome(code) # "INTERRUPTED"
<1>1. \A i \in DOMAIN log : log[i] # "PROVIDER_CANCELLED"
    BY DEF TracedToRun
<1>2. FailureCodeOf(ctx["case"]) # "PROVIDER_CANCELLED"
    BY DEF CancelledByRun, FailureCodeOf
<1>3. \A i \in FailedCalls : i \in DOMAIN log
    BY DEF FailedCalls
<1>4. code # "PROVIDER_CANCELLED"
    BY <1>1, <1>2, <1>3 DEF Endings
<1> QED
    BY <1>4, InterruptedIsCancelled

LEMMA SignalKept == Types /\ Types' /\ SignalInv /\ [Next]_vars => SignalInv'
<1> SUFFICES ASSUME Types, Types', SignalInv, CancelledByRun, TracedToRun,
                    InterruptedNotRecorded, [Next]_vars
             PROVE  SignalInv'
    BY DEF SignalInv
<1>0. /\ disk \in [Range(Artifacts) -> Files] /\ state \in Files
      /\ disk' \in [Range(Artifacts) -> Files] /\ state' \in Files
    BY DEF Types, TypeOK
<1>a. Clean(state) /\ \A a \in Range(Artifacts) : Clean(disk[a])
    BY <1>0, NotRecordedIsClean
<1>b. SUFFICES \/ SignalInv'
               \/ /\ CancelledByRun' /\ TracedToRun' /\ Clean(state')
                  /\ \A a \in Range(Artifacts) : Clean(disk'[a])
  <2>1. \A f : f \in {state'} \cup Range(disk') <=>
                   f = state' \/ \E a \in Range(Artifacts) : f = disk'[a]
    BY <1>0 DEF Range
  <2> QED
    BY <1>b, <2>1 DEF InterruptedNotRecorded, SignalInv, Clean
<1>1. CASE Start
  <2>1. "summary" \in Range(Artifacts)
    BY ArtifactNames
  <2> QED
    BY <1>1, <1>a, <2>1 DEF Start, callVars, CancelledByRun, TracedToRun, RunGone
<1>2. CASE Skip \/ Write
  <2>1. Clean(state') /\ \A a \in Range(Artifacts) : disk'[a] = disk[a] \/ disk'[a] = state
    BY <1>0, <1>2, <1>a DEF Skip, Write, Written
  <2> QED
    BY <1>2, <1>a, <2>1 DEF Skip, Write, callVars, CancelledByRun, TracedToRun, RunGone
<1>3. CASE StopAtHead \/ Finish
  <2>1. state'.rows = state.rows
    BY <1>0, <1>3 DEF StopAtHead, Finish, Files
  <2> QED
    BY <1>3, <1>a, <2>1 DEF StopAtHead, Finish, Persist, callVars, CancelledByRun,
                            TracedToRun, RunGone, Clean
<1>4. CASE StartPair
  <2>1. ctx'["run"] = ctx["run"] /\ ctx'["case"] = ctx["run"]
    BY <1>4 DEF StartPair, Derive, Types, TypeOK, CallTypeOK, Levels
  <2>2. call.phase = "idle"
    BY <1>4 DEF StartPair, CancelledByRun
  <2> QED
    BY <1>4, <1>a, <2>1, <2>2 DEF StartPair, CancelledByRun, TracedToRun, RunGone, Ended
<1>5. CASE CallBaseline \/ CallBAN
  <2>1. /\ ctx'["run"] = ctx["run"] /\ ctx'["case"] = ctx["case"] /\ ctx'["call"] = ctx["case"]
        /\ pc \in {"baseline", "ban"} /\ UNCHANGED <<log, pc, row, state, disk>>
    BY <1>5 DEF CallBaseline, CallBAN, Invoke, Derive, runVars, Types, TypeOK, CallTypeOK, Levels
  <2> QED
    BY <1>a, <2>1 DEF CancelledByRun, TracedToRun, RunGone
<1>6. CASE BaselineDone
  <2>1. Last(log) = "PROVIDER_CANCELLED" => RunGone
    <3>1. log \in Seq(Entries) /\ log # <<>>
      BY <1>6, EntriesAreTyped DEF BaselineDone, Types, TypeOK
    <3>2. Len(log) \in DOMAIN log
      BY <3>1
    <3> QED
      BY <3>2 DEF TracedToRun, Last
  <2>2. (row'.outcome = "INTERRUPTED" => RunGone) /\ (row'.interrupted => RunGone)
    BY <1>6, <2>1, InterruptedIsCancelled DEF BaselineDone, Account, RunGone
  <2> QED
    BY <1>6, <1>a, <2>2 DEF BaselineDone, CancelledByRun, TracedToRun, RunGone, Idle
<1>7. CASE BANDone
  <2>1. /\ ctx'["run"] = ctx["run"] /\ call' = call /\ call.phase = "idle" /\ log' = <<>>
        /\ row' = NoSide /\ pc' = "persist" /\ disk' = disk
    BY <1>7 DEF BANDone, Persist, Release, Idle, Types, TypeOK, CallTypeOK, Levels
  <2>2. CancelledByRun' /\ TracedToRun'
    BY <2>1 DEF CancelledByRun, TracedToRun, NoSide
  <2>3. CASE RunEnded
    BY <1>7, <1>a, <2>1, <2>2, <2>3 DEF BANDone
  <2>4. CASE ~ RunEnded
    <3>1. PICK code \in Endings, candidates \in BOOLEAN :
              state' = [state EXCEPT !.rows = Append(@, [pair       |-> Schedule[at],
                                                         baseline   |-> row,
                                                         ban        |-> Account(code),
                                                         candidates |-> candidates])]
      BY <1>7, <2>4 DEF BANDone
    <3> DEFINE r == [pair |-> Schedule[at], baseline |-> row,
                     ban |-> Account(code), candidates |-> candidates]
    <3>2. pc = "ban" /\ ~ RunGone
      BY <1>7, <2>4 DEF BANDone, RunEnded, RunGone
    <3>3. Undisturbed(r.baseline)
      BY <3>2 DEF TracedToRun, Undisturbed
    <3>4. Undisturbed(r.ban)
      BY <3>2, EndingsOfLiveRun DEF Account, Undisturbed, RunGone
    <3>5. r \in Results
      <4>1. at \in 1 .. Len(Schedule)
        BY <3>2 DEF Types, TypeOK, InSchedule
      <4> QED
        BY <4>1, ScheduleFacts, AccountIsSide DEF Results, Types, TypeOK
    <3>6. Clean(state')
      BY <1>0, <1>a, <3>1, <3>3, <3>4, <3>5, CleanAppended
    <3> QED
      BY <1>a, <2>1, <2>2, <3>6
  <2> QED
    BY <2>3, <2>4
<1>8. CASE Persisted
  <2>1. CASE then = "loop"
    BY <1>8, <1>a, <2>1 DEF Persisted, callVars, CancelledByRun, TracedToRun, RunGone
  <2>2. CASE then # "loop"
    BY <1>8, <2>2, StoppedSignal DEF Persisted
  <2> QED
    BY <2>1, <2>2
<1>9. CASE Calling
    BY <1>9, <1>a, CallSignal DEF Calling, runVars
<1>10. CASE ContextEnds
    BY <1>10, <1>a, ContextSignal DEF ContextEnds, runVars
<1>11. CASE WriteFails
    BY <1>11, StoppedSignal, UnwrittenFiles DEF WriteFails, Types
<1>12. CASE Crash
    BY <1>12, StoppedSignal, UnwrittenFiles DEF Crash, Types
<1>13. CASE AtRest \/ UNCHANGED vars
    BY <1>13, <1>a DEF AtRest, vars, callVars, runVars, CancelledByRun, TracedToRun, RunGone
<1> QED
    BY <1>1, <1>2, <1>3, <1>4, <1>5, <1>6, <1>7, <1>8, <1>9, <1>10, <1>11, <1>12, <1>13
    DEF Next, Work

\* A pair on either side of which the run ended has no result, in memory or in
\* any artifact, whichever call the end caught and whatever outcome its error was
\* given: the history of a side tells, not its outcome alone.
THEOREM InterruptedPairsAreAskedAgain == Spec => []InterruptedNotRecorded
<1>1. Spec => [](Types /\ SignalInv)
    BY InitTypes, TypesKept, InitSignal, SignalKept, PTL DEF Spec
<1> QED
    BY <1>1, PTL DEF SignalInv

-----------------------------------------------------------------------------
(***************************************************************************)
(* The sides of a result and the calls they count.                         *)
(***************************************************************************)

BaselineAgrees(side) ==
    /\ side.failed = IF side.outcome = "ANSWERED" THEN 0 ELSE 1
    /\ side.outcome # "NO_VERIFIED_CANDIDATE"

BANAgrees(side) ==
    side.outcome # "TIMEOUT" =>
        (side.failed = 0 <=> side.outcome \in {"ANSWERED", "NO_VERIFIED_CANDIDATE"})

Agrees(file) == \A i \in DOMAIN file.rows :
    BaselineAgrees(file.rows[i].baseline) /\ BANAgrees(file.rows[i].ban)

\* The calls of a pair: one for the baseline, and none outside of a pair.
OneBaselineCall ==
    /\ pc \notin {"baseline", "ban"} => log = <<>>
    /\ pc = "baseline" => /\ Len(log) <= 1
                          /\ call.phase # "idle" => log = <<>>
    /\ \A i \in DOMAIN log : log[i] # "NO_VERIFIED_CANDIDATE"

AgreeInv ==
    /\ OneBaselineCall
    /\ pc = "ban" => BaselineAgrees(row)
    /\ Agrees(state)
    /\ Agrees(disk["summary"])

\* The calls that failed are counted.
LEMMA FailuresCounted ==
    ASSUME CallTypeOK
    PROVE  Cardinality(FailedCalls) = 0 <=> FailedCalls = {}
<1>1. FailedCalls \subseteq 1 .. Len(log) /\ Len(log) \in Nat
    BY DEF FailedCalls, CallTypeOK
<1>2. IsFiniteSet(1 .. Len(log))
    BY <1>1, FS_Interval
<1>3. IsFiniteSet(FailedCalls)
    BY <1>1, <1>2, FS_Subset
<1> QED
    BY <1>3, FS_EmptySet

\* A call is answered exactly when it has not failed, and no call finds nothing.
LEMMA EntryOutcome ==
    ASSUME NEW code \in Entries \ {"NO_VERIFIED_CANDIDATE"}
    PROVE  /\ ErrorOutcome(code) = "ANSWERED" <=> code = "NONE"
           /\ ErrorOutcome(code) # "NO_VERIFIED_CANDIDATE"
BY DEF ErrorOutcome, Entries, Codes

LEMMA BaselineAccount ==
    ASSUME CallTypeOK, log # <<>>, Len(log) <= 1,
           \A i \in DOMAIN log : log[i] # "NO_VERIFIED_CANDIDATE"
    PROVE  BaselineAgrees(Account(Last(log)))
<1>1. log \in Seq(Entries)
    BY EntriesAreTyped
<1>2. Len(log) = 1 /\ DOMAIN log = {1} /\ Last(log) = log[1]
  <2>1. Len(log) \in Nat /\ DOMAIN log = 1 .. Len(log) /\ (Len(log) = 0 => log = <<>>)
    BY <1>1, LenProperties, EmptySeq
  <2>2. Len(log) = 1
    BY <2>1
  <2> QED
    BY <2>1, <2>2 DEF Last
<1>3. log[1] \in Entries \ {"NO_VERIFIED_CANDIDATE"}
    BY <1>1, <1>2
<1>4. Cardinality(FailedCalls) = IF log[1] = "NONE" THEN 0 ELSE 1
  <2>1. CASE log[1] = "NONE"
    <3>1. FailedCalls = {}
      BY <1>2, <2>1 DEF FailedCalls
    <3> QED
      BY <2>1, <3>1, FS_EmptySet
  <2>2. CASE log[1] # "NONE"
    <3>1. FailedCalls = {1}
      BY <1>2, <2>2 DEF FailedCalls
    <3>2. Cardinality({1}) = 1
      BY FS_Singleton
    <3> QED
      BY <2>2, <3>1, <3>2
  <2> QED
    BY <2>1, <2>2
<1> QED
    BY <1>2, <1>3, <1>4, EntryOutcome DEF Account, BaselineAgrees

\* The engine's verdict is that of its first failed call or, where no call
\* failed, its own; its time may be up in either case.
LEMMA BANAccount ==
    ASSUME Types, CancelledByRun, OneBaselineCall, ~ RunGone, pc = "ban", NEW code \in Endings
    PROVE  BANAgrees(Account(code))
<1>1. log \in Seq(Entries)
    BY EntriesAreTyped DEF Types, TypeOK
<1>2. Account(code).failed = 0 <=> FailedCalls = {}
    BY FailuresCounted DEF Account, Types, TypeOK
<1>3. CASE ctx["case"] \in Ended /\ code = FailureCodeOf(ctx["case"])
  <2>1. ctx["case"] = "expired"
    BY <1>3 DEF CancelledByRun, Ended
  <2> QED
    BY <1>3, <2>1 DEF FailureCodeOf, ErrorOutcome, Account, BANAgrees
<1>4. CASE FailedCalls = {} /\ code \in {"NONE", "NO_VERIFIED_CANDIDATE"}
    BY <1>2, <1>4 DEF ErrorOutcome, Account, BANAgrees
<1>5. CASE FailedCalls # {} /\ \E i \in FailedCalls : code = log[i]
  <2>1. code \in Entries \ {"NO_VERIFIED_CANDIDATE"} /\ code # "NONE"
    BY <1>1, <1>5 DEF FailedCalls, OneBaselineCall
  <2> QED
    BY <1>2, <1>5, <2>1, EntryOutcome DEF Account, BANAgrees
<1> QED
    BY <1>3, <1>4, <1>5 DEF Endings

LEMMA AgreesAppended ==
    ASSUME NEW file \in Files, Agrees(file), NEW r \in Results,
           BaselineAgrees(r.baseline), BANAgrees(r.ban)
    PROVE  Agrees([file EXCEPT !.rows = Append(@, r)])
<1> DEFINE rows == Append(file.rows, r)
<1>1. file.rows \in Seq(Results)
    BY DEF Files
<1>2. \A i \in DOMAIN rows : (i \in DOMAIN file.rows /\ rows[i] = file.rows[i]) \/ rows[i] = r
    BY <1>1
<1>3. [file EXCEPT !.rows = Append(@, r)].rows = rows
    BY DEF Files
<1> HIDE DEF rows
<1> QED
    BY <1>2, <1>3 DEF Agrees

LEMMA InitAgrees == Init => AgreeInv
<1> SUFFICES ASSUME Init PROVE AgreeInv
    OBVIOUS
<1>1. Agrees(Empty)
    BY EmptyIsFile DEF Agrees
<1>2. disk["summary"] = Empty
    BY ArtifactNames DEF Init
<1> QED
    BY <1>1, <1>2 DEF Init, AgreeInv, OneBaselineCall

\* A process that stops has made no calls and keeps the summary.
LEMMA StoppedAgrees ==
    ASSUME AgreeInv, Stopped, disk'["summary"] = disk["summary"]
    PROVE  AgreeInv'
<1>1. Agrees(Empty)
    BY EmptyIsFile DEF Agrees
<1> QED
    BY <1>1 DEF Stopped, AgreeInv, OneBaselineCall

\* The steps of a call add at most its entry.
LEMMA CallAgrees ==
    ASSUME Types, CancelledByRun, OneBaselineCall, Calling
    PROVE  OneBaselineCall'
<1>1. UNCHANGED pc
    BY DEF Calling, runVars
<1>2. call.phase # "idle" /\ (Returns \/ GoesOn)
    BY CallShape DEF Calling, Types, TypeOK
<1>3. CASE GoesOn
    BY <1>1, <1>2, <1>3 DEF GoesOn, OneBaselineCall
<1>4. CASE Returns
  <2>1. PICK code \in Entries \ {"NO_VERIFIED_CANDIDATE"} : Return(code)
    BY <1>4 DEF Returns
  <2>2. call' = Idle /\ log' = Append(log, code) /\ log \in Seq(Entries)
    BY <2>1, EntriesAreTyped DEF Return, Types, TypeOK
  <2>3. \A i \in DOMAIN log' : (i \in DOMAIN log /\ log'[i] = log[i]) \/ log'[i] = code
    BY <2>2
  <2>4. pc = "baseline" => Len(log') <= 1
    BY <1>2, <2>2 DEF OneBaselineCall
  <2>5. pc \in {"baseline", "ban"}
    BY <1>2 DEF CancelledByRun
  <2> QED
    BY <1>1, <2>2, <2>3, <2>4, <2>5 DEF OneBaselineCall, Idle
<1> QED
    BY <1>2, <1>3, <1>4

LEMMA AgreeKept == Types /\ SignalInv /\ AgreeInv /\ [Next]_vars => AgreeInv'
<1> SUFFICES ASSUME Types, CancelledByRun, TracedToRun, AgreeInv, OneBaselineCall, [Next]_vars
             PROVE  AgreeInv'
    BY DEF SignalInv, AgreeInv
<1>0. /\ state \in Files /\ disk["summary"] \in Files /\ "summary" \in Range(Artifacts)
      /\ disk \in [Range(Artifacts) -> Files]
    BY ArtifactNames DEF Types, TypeOK
<1>1. CASE Start
    BY <1>1 DEF Start, callVars, AgreeInv, OneBaselineCall
<1>2. CASE Skip
    BY <1>2 DEF Skip, callVars, AgreeInv, OneBaselineCall
<1>3. CASE Write
  <2>1. disk'["summary"] \in {disk["summary"], state}
    BY <1>0, <1>3 DEF Write, Written
  <2> QED
    BY <1>3, <2>1 DEF Write, callVars, AgreeInv, OneBaselineCall
<1>4. CASE StopAtHead \/ Finish
  <2>1. state'.rows = state.rows
    BY <1>0, <1>4 DEF StopAtHead, Finish, Files
  <2> QED
    BY <1>4, <2>1 DEF StopAtHead, Finish, Persist, callVars, AgreeInv, OneBaselineCall, Agrees
<1>5. CASE StartPair
  <2>1. call.phase = "idle" /\ log = <<>>
    BY <1>5 DEF StartPair, CancelledByRun, OneBaselineCall
  <2> QED
    BY <1>5, <2>1 DEF StartPair, AgreeInv, OneBaselineCall
<1>6. CASE CallBaseline
    BY <1>6 DEF CallBaseline, Invoke, runVars, AgreeInv, OneBaselineCall
<1>7. CASE BaselineDone
  <2>1. BaselineAgrees(row')
    BY <1>7, BaselineAccount DEF BaselineDone, OneBaselineCall, Types, TypeOK
  <2> QED
    BY <1>7, <2>1 DEF BaselineDone, AgreeInv, OneBaselineCall
<1>8. CASE CallBAN
    BY <1>8 DEF CallBAN, Invoke, runVars, AgreeInv, OneBaselineCall
<1>9. CASE BANDone
  <2>1. pc = "ban" /\ pc' = "persist" /\ log' = <<>> /\ disk' = disk
    BY <1>9 DEF BANDone, Persist
  <2>2. OneBaselineCall'
    BY <2>1 DEF OneBaselineCall
  <2>3. CASE RunEnded
    BY <1>9, <2>1, <2>2, <2>3 DEF BANDone, AgreeInv
  <2>4. CASE ~ RunEnded
    <3>1. PICK code \in Endings, candidates \in BOOLEAN :
              state' = [state EXCEPT !.rows = Append(@, [pair       |-> Schedule[at],
                                                         baseline   |-> row,
                                                         ban        |-> Account(code),
                                                         candidates |-> candidates])]
      BY <1>9, <2>4 DEF BANDone
    <3> DEFINE r == [pair |-> Schedule[at], baseline |-> row,
                     ban |-> Account(code), candidates |-> candidates]
    <3>2. BaselineAgrees(r.baseline) /\ BANAgrees(r.ban)
      BY <2>1, <2>4, BANAccount DEF AgreeInv, RunEnded, RunGone
    <3>3. r \in Results
      <4>1. at \in 1 .. Len(Schedule)
        BY <2>1 DEF Types, TypeOK, InSchedule
      <4> QED
        BY <4>1, ScheduleFacts, AccountIsSide DEF Results, Types, TypeOK
    <3>4. Agrees(state')
      BY <1>0, <3>1, <3>2, <3>3, AgreesAppended DEF AgreeInv
    <3> QED
      BY <2>1, <2>2, <3>4 DEF AgreeInv
  <2> QED
    BY <2>3, <2>4
<1>10. CASE Persisted
  <2>1. CASE then = "loop"
    BY <1>10, <2>1 DEF Persisted, callVars, AgreeInv, OneBaselineCall
  <2>2. CASE then # "loop"
    BY <1>10, <2>2, StoppedAgrees DEF Persisted
  <2> QED
    BY <2>1, <2>2
<1>11. CASE Calling
    BY <1>11, CallAgrees DEF Calling, runVars, AgreeInv
<1>12. CASE ContextEnds
    BY <1>12 DEF ContextEnds, CallDeadline, EndContext, runVars, AgreeInv, OneBaselineCall
<1>13. CASE WriteFails
    BY <1>0, <1>13, StoppedAgrees, UnwrittenFiles DEF WriteFails, Types
<1>14. CASE Crash
    BY <1>0, <1>14, StoppedAgrees, UnwrittenFiles DEF Crash, Types
<1>15. CASE AtRest \/ UNCHANGED vars
    BY <1>15 DEF AtRest, vars, callVars, runVars, AgreeInv, OneBaselineCall
<1> QED
    BY <1>1, <1>2, <1>3, <1>4, <1>5, <1>6, <1>7, <1>8, <1>9, <1>10, <1>11, <1>12,
       <1>13, <1>14, <1>15 DEF Next, Work

\* Whichever call failed and with whatever error, what a result says of a side
\* agrees with the calls it counts.
THEOREM ResultsAgreeWithCalls == Spec => []SidesAgreeWithCalls
<1>1. AgreeInv => SidesAgreeWithCalls
    BY DEF AgreeInv, Agrees, BaselineAgrees, BANAgrees, SidesAgreeWithCalls
<1>2. Spec => [](Types /\ SignalInv /\ AgreeInv)
    BY InitTypes, TypesKept, InitSignal, SignalKept, InitAgrees, AgreeKept, PTL DEF Spec
<1> QED
    BY <1>1, <1>2, PTL

-----------------------------------------------------------------------------
(***************************************************************************)
(* The artifacts and the ledger.                                           *)
(***************************************************************************)

LEMMA EmptyFile == WellFormed(Empty) /\ \A f \in Files : Follows(Empty.rows, f.rows)
BY EmptyIsFile, ScheduleFacts DEF WellFormed, Follows, Files

LEMMA FilesAreSequences == ASSUME NEW f \in Files PROVE f.rows \in Seq(Results) /\ f.finished \in BOOLEAN
BY DEF Files

\* One result more, of the schedule's next pair.
LEMMA OneMore ==
    ASSUME NEW file \in Files, WellFormed(file), NEW r \in Results,
           Len(file.rows) < Len(Schedule), r.pair = Schedule[Len(file.rows) + 1],
           NEW more, more = [file EXCEPT !.rows = Append(@, r)]
    PROVE  /\ WellFormed(more)
           /\ Follows(file.rows, more.rows)
           /\ Len(more.rows) = Len(file.rows) + 1
           /\ ~ more.finished
<1>1. more \in Files /\ more.rows = Append(file.rows, r) /\ more.finished = file.finished
    BY FileUpdates DEF Files
<1>2. file.rows \in Seq(Results)
    BY FilesAreSequences
<1>3. /\ Len(more.rows) = Len(file.rows) + 1
      /\ \A i \in 1 .. Len(file.rows) : more.rows[i] = file.rows[i]
      /\ more.rows[Len(file.rows) + 1] = r
    BY <1>1, <1>2
<1>4. ~ file.finished
    BY <1>2 DEF WellFormed
<1>5. Len(file.rows) \in Nat
    BY <1>2
<1>6. WellFormed(more)
    BY <1>1, <1>3, <1>4, <1>5, ScheduleFacts DEF WellFormed
<1>7. Follows(file.rows, more.rows)
    BY <1>3, <1>5 DEF Follows
<1> QED
    BY <1>1, <1>3, <1>4, <1>6, <1>7

LEMMA InitRows == Init => RowsInv
<1> SUFFICES ASSUME Init PROVE RowsInv
    OBVIOUS
<1>1. \A a \in Range(Artifacts) : disk[a] = Empty
    BY DEF Init
<1> QED
    BY <1>1, ArtifactNames, EmptyFile, EmptyIsFile DEF Init, RowsInv, SummaryBehind

\* What a stop leaves is a summary as it was, and files that follow it.
LEMMA StoppedRows ==
    ASSUME Types, RowsInv, Stopped,
           \A a \in Range(Artifacts) : /\ disk'[a] = disk[a] \/ disk'[a] = Empty
                                       /\ a = "summary" => disk'[a] = disk[a]
    PROVE  RowsInv'
<1>1. "summary" \in Range(Artifacts) /\ disk'["summary"] = disk["summary"]
    BY ArtifactNames
<1>2. disk["summary"] \in Files
    BY <1>1 DEF Types, TypeOK
<1> QED
    BY <1>1, <1>2, EmptyFile DEF RowsInv, Stopped, SummaryBehind

\* A step that writes nothing keeps what is said of the artifacts.
LEMMA UnwrittenRows ==
    ASSUME RowsInv, UNCHANGED disk,
           pc' # "stopped" => WellFormed(state') /\ AtPlace', SummaryBehind'
    PROVE  RowsInv'
BY DEF RowsInv

LEMMA StartRows == Types /\ RowsInv /\ Start => RowsInv'
<1> SUFFICES ASSUME Types, RowsInv, Start PROVE RowsInv'
    OBVIOUS
<1> DEFINE rows == disk["summary"].rows
<1>1. "summary" \in Range(Artifacts)
    BY ArtifactNames
<1>2. WellFormed(disk["summary"]) /\ rows \in Seq(Results)
    BY <1>1, FilesAreSequences DEF RowsInv, Types, TypeOK
<1>3. /\ state' = disk["summary"] /\ pc' = "loop" /\ at' = 1 /\ UNCHANGED disk
      /\ skip' = Range(Pairs(rows))
    BY DEF Start
<1>4. \A x : x \in skip' <=> \E i \in 1 .. Len(rows) : x = Schedule[i]
  <2>1. DOMAIN rows = 1 .. Len(rows) /\ \A i \in 1 .. Len(rows) : rows[i].pair = Schedule[i]
    BY <1>2 DEF WellFormed
  <2>2. skip' = {rows[i].pair : i \in DOMAIN rows}
    BY <1>3 DEF Pairs, Range
  <2> QED
    BY <2>1, <2>2
<1> HIDE DEF rows
<1>5. Len(rows) \in Nat /\ Len(rows) <= Len(Schedule)
    BY <1>2 DEF WellFormed, rows
<1>6. \A i \in 1 .. Len(Schedule) : Schedule[i] \in skip' => i <= Len(rows)
  <2> SUFFICES ASSUME NEW i \in 1 .. Len(Schedule), Schedule[i] \in skip' PROVE i <= Len(rows)
    OBVIOUS
  <2>1. PICK j \in 1 .. Len(rows) : Schedule[i] = Schedule[j]
    BY <1>4
  <2>2. i = j
    BY <1>5, <2>1, ScheduleFacts
  <2> QED
    BY <1>5, <2>2
<1>7. AtPlace'
    BY <1>3, <1>4, <1>5, <1>6 DEF AtPlace, rows
<1>8. SummaryBehind'
    BY <1>3 DEF SummaryBehind
<1> QED
    BY <1>2, <1>3, <1>7, <1>8, UnwrittenRows

\* The loop: at a pair that is not skipped it stands behind its results, and
\* at the end of the schedule it has them all.
LEMMA LoopPlace ==
    ASSUME Types, RowsInv, pc = "loop"
    PROVE  /\ at <= Len(Schedule) /\ Schedule[at] \notin skip => at = Len(state.rows) + 1
           /\ at > Len(Schedule) => Len(state.rows) = Len(Schedule)
<1>1. /\ at \in Nat \ {0} /\ Len(state.rows) \in Nat /\ Len(state.rows) <= Len(Schedule)
      /\ at <= Len(state.rows) + 1
      /\ \A i \in at .. Len(state.rows) : Schedule[i] \in skip
    BY FilesAreSequences, ScheduleFacts DEF RowsInv, AtPlace, WellFormed, Types, TypeOK
<1>2. ASSUME at <= Len(Schedule), Schedule[at] \notin skip PROVE at = Len(state.rows) + 1
  <2>1. at \notin at .. Len(state.rows)
    BY <1>1, <1>2
  <2> QED
    BY <1>1, <2>1
<1>3. ASSUME at > Len(Schedule) PROVE Len(state.rows) = Len(Schedule)
    BY <1>1, <1>3, ScheduleFacts
<1> QED
    BY <1>2, <1>3

LEMMA LoopRows == Types /\ RowsInv /\ (Skip \/ StopAtHead \/ StartPair \/ Finish) => RowsInv'
<1> SUFFICES ASSUME Types, RowsInv, Skip \/ StopAtHead \/ StartPair \/ Finish PROVE RowsInv'
    OBVIOUS
<1>1. /\ pc = "loop" /\ WellFormed(state) /\ AtPlace /\ disk["summary"] = state
      /\ UNCHANGED <<skip, disk>>
    BY DEF Skip, StopAtHead, StartPair, Finish, RowsInv, SummaryBehind
<1>2. /\ at \in 1 .. Len(Schedule) + 1 /\ Len(Schedule) \in Nat
      /\ state \in Files /\ Len(state.rows) \in Nat
    BY FilesAreSequences, ScheduleFacts DEF Types, TypeOK
<1>3. CASE Skip
  <2>1. at <= Len(state.rows)
    BY <1>1, <1>2, <1>3 DEF Skip, AtPlace
  <2>2. AtPlace'
    BY <1>1, <1>2, <1>3, <2>1 DEF Skip, AtPlace
  <2> QED
    BY <1>1, <1>3, <2>2, UnwrittenRows DEF Skip, SummaryBehind
<1>4. CASE StopAtHead \/ Finish
  <2>1. /\ state' \in Files /\ state'.rows = state.rows
        /\ StopAtHead => ~ state'.finished
        /\ Finish => state'.finished
    <3>1. /\ StopAtHead => state' = [state EXCEPT !.finished = FALSE]
          /\ Finish => state' = [state EXCEPT !.finished = TRUE]
          /\ StopAtHead => ~ Finish
      BY <1>2, ScheduleFacts DEF StopAtHead, Finish, Types, TypeOK
    <3>2. \A finished \in BOOLEAN :
              /\ [state EXCEPT !.finished = finished].rows = state.rows
              /\ [state EXCEPT !.finished = finished].finished = finished
              /\ [state EXCEPT !.finished = finished] \in Files
      BY <1>2 DEF Files
    <3> QED
      BY <1>4, <3>1, <3>2
  <2>2. Finish => Len(state.rows) = Len(Schedule)
    BY <1>2, LoopPlace DEF Finish
  <2>3. WellFormed(state')
    BY <1>1, <1>4, <2>1, <2>2 DEF WellFormed
  <2>4. /\ pc' = "persist" /\ written' = 0 /\ UNCHANGED at
        /\ StopAtHead => then' = "interrupted"
        /\ Finish => then' = "finished"
    BY <1>4 DEF StopAtHead, Finish, Persist
  <2>5. AtPlace'
    BY <1>1, <2>1, <2>4 DEF AtPlace
  <2>6. Follows(state.rows, state.rows)
    BY <1>2, FollowsItself
  <2>7. SummaryBehind'
    BY <1>1, <1>4, <2>1, <2>4, <2>6 DEF SummaryBehind
  <2> QED
    BY <1>1, <2>3, <2>5, <2>7, UnwrittenRows
<1>5. CASE StartPair
  <2>1. at = Len(state.rows) + 1 /\ at <= Len(Schedule)
    BY <1>5, LoopPlace DEF StartPair
  <2>2. AtPlace'
    BY <1>1, <1>5, <2>1 DEF StartPair, AtPlace
  <2> QED
    BY <1>1, <1>5, <2>2, UnwrittenRows DEF StartPair, SummaryBehind
<1> QED
    BY <1>3, <1>4, <1>5

LEMMA BANDoneRows == Types /\ RowsInv /\ BANDone => RowsInv'
<1> SUFFICES ASSUME Types, RowsInv, BANDone PROVE RowsInv'
    OBVIOUS
<1>1. /\ pc = "ban" /\ WellFormed(state) /\ AtPlace /\ disk["summary"] = state
      /\ pc' = "persist" /\ written' = 0 /\ UNCHANGED <<at, skip, disk>>
    BY DEF BANDone, Persist, RowsInv, SummaryBehind
<1>2. /\ state \in Files /\ Len(state.rows) \in Nat /\ Len(Schedule) \in Nat
      /\ at = Len(state.rows) + 1 /\ at <= Len(Schedule)
    BY <1>1, FilesAreSequences, ScheduleFacts DEF Types, TypeOK, AtPlace
<1>3. CASE RunEnded
  <2>1. UNCHANGED state /\ then' = "interrupted"
    BY <1>3 DEF BANDone, Persist
  <2>2. ~ state.finished
    BY <1>1, <1>2 DEF WellFormed
  <2>3. AtPlace'
    BY <1>1, <2>1 DEF AtPlace
  <2>4. Follows(state.rows, state.rows)
    BY <1>2, FollowsItself
  <2>5. SummaryBehind'
    BY <1>1, <2>1, <2>2, <2>4 DEF SummaryBehind
  <2> QED
    BY <1>1, <2>1, <2>3, <2>5, UnwrittenRows
<1>4. CASE ~ RunEnded
  <2>1. PICK code \in Endings, candidates \in BOOLEAN :
            state' = [state EXCEPT !.rows = Append(@, [pair       |-> Schedule[at],
                                                       baseline   |-> row,
                                                       ban        |-> Account(code),
                                                       candidates |-> candidates])]
    BY <1>4 DEF BANDone
  <2> DEFINE r == [pair |-> Schedule[at], baseline |-> row,
                   ban |-> Account(code), candidates |-> candidates]
  <2>2. then' = "loop"
    BY <1>4 DEF BANDone, Persist
  <2>3. r \in Results /\ r.pair = Schedule[Len(state.rows) + 1]
    BY <1>2, ScheduleFacts, AccountIsSide DEF Results, Types, TypeOK
  <2>4. /\ WellFormed(state') /\ Follows(state.rows, state'.rows)
        /\ Len(state'.rows) = Len(state.rows) + 1 /\ ~ state'.finished
    <3>1. Len(state.rows) < Len(Schedule)
      BY <1>2
    <3>2. state' = [state EXCEPT !.rows = Append(@, r)]
      BY <2>1
    <3> HIDE DEF r
    <3> QED
      BY <1>1, <1>2, <2>3, <3>1, <3>2, OneMore
  <2>5. AtPlace'
    BY <1>1, <1>2, <2>4 DEF AtPlace
  <2>6. SummaryBehind'
    BY <1>1, <1>2, <2>2, <2>4 DEF SummaryBehind
  <2> QED
    BY <1>1, <2>4, <2>5, <2>6, UnwrittenRows
<1> QED
    BY <1>3, <1>4

LEMMA WriteRows == Types /\ RowsInv /\ Write => RowsInv'
<1> SUFFICES ASSUME Types, RowsInv, Write PROVE RowsInv'
    OBVIOUS
<1> DEFINE artifact == Artifacts[written + 1]
<1>1. /\ pc = "persist" /\ written \in 0 .. 4 /\ written' = written + 1
      /\ disk \in [Range(Artifacts) -> Files] /\ state \in Files
      /\ artifact \in Range(Artifacts) /\ "summary" \in Range(Artifacts)
      /\ artifact = "summary" <=> written = 0
      /\ UNCHANGED <<pc, at, state, skip, then>>
      /\ disk' = [disk EXCEPT ![artifact] = Written(artifact, state)]
    BY ArtifactNames DEF Write, Types, TypeOK
<1> HIDE DEF artifact
<1>2. /\ \A a \in Range(Artifacts) : disk'[a] = disk[a] \/ disk'[a] = state
      /\ written = 0 => disk'["summary"] = state
      /\ written > 0 => disk'["summary"] = disk["summary"]
    BY <1>1 DEF Written
<1>3. /\ WellFormed(state) /\ AtPlace /\ SummaryBehind
      /\ Follows(disk["summary"].rows, state.rows)
      /\ written > 0 => disk["summary"] = state
      /\ \A a \in Range(Artifacts) : /\ WellFormed(disk[a])
                                     /\ Follows(disk[a].rows, disk["summary"].rows)
    BY <1>1 DEF RowsInv, SummaryBehind
<1>4. disk'["summary"] = state
    BY <1>1, <1>2, <1>3
<1>5. state.rows \in Seq(Results) /\ Len(state.rows) \in Nat
      /\ \A a \in Range(Artifacts) : disk[a].rows \in Seq(Results)
    BY <1>1, FilesAreSequences
<1>6. Follows(state.rows, state.rows)
    BY <1>5, FollowsItself
<1>7. \A a \in Range(Artifacts) : Follows(disk[a].rows, state.rows)
    BY <1>1, <1>3, <1>5, FollowsTransitive
<1>8. \A a \in Range(Artifacts) : /\ WellFormed(disk'[a])
                                  /\ Follows(disk'[a].rows, disk'["summary"].rows)
    BY <1>2, <1>3, <1>4, <1>6, <1>7
<1>9. AtPlace'
    BY <1>1, <1>3 DEF AtPlace
<1>10. SummaryBehind'
    BY <1>1, <1>3, <1>4, <1>6 DEF SummaryBehind
<1> QED
    BY <1>1, <1>3, <1>8, <1>9, <1>10 DEF RowsInv

LEMMA PersistedRows == Types /\ RowsInv /\ Persisted => RowsInv'
<1> SUFFICES ASSUME Types, RowsInv, Persisted PROVE RowsInv'
    OBVIOUS
<1>1. UNCHANGED disk /\ pc = "persist" /\ written = 5 /\ AtPlace /\ WellFormed(state)
    BY ArtifactNames DEF Persisted, RowsInv
<1>2. CASE then = "loop"
  <2>1. /\ UNCHANGED <<state, skip>> /\ pc' = "loop" /\ at' = at + 1
        /\ at = Len(state.rows) /\ disk["summary"] = state /\ Len(state.rows) \in Nat
    BY <1>1, <1>2, FilesAreSequences DEF Persisted, RowsInv, SummaryBehind, Types, TypeOK
  <2>2. AtPlace'
    BY <1>1, <2>1 DEF AtPlace
  <2>3. SummaryBehind'
    BY <1>1, <2>1 DEF SummaryBehind
  <2> QED
    BY <1>1, <2>1, <2>2, <2>3, UnwrittenRows
<1>3. CASE then # "loop"
    BY <1>1, <1>3, StoppedRows DEF Persisted
<1> QED
    BY <1>2, <1>3

LEMMA RowsKept == Types /\ RowsInv /\ [Next]_vars => RowsInv'
<1> SUFFICES ASSUME Types, RowsInv, [Next]_vars PROVE RowsInv'
    OBVIOUS
<1>1. CASE Start \/ Skip \/ StopAtHead \/ StartPair \/ Finish \/ BANDone \/ Write \/ Persisted
    BY <1>1, StartRows, LoopRows, BANDoneRows, WriteRows, PersistedRows
<1>2. CASE CallBaseline \/ CallBAN \/ Calling \/ ContextEnds \/ AtRest \/ UNCHANGED vars
  <2>1. UNCHANGED runVars
    BY <1>2 DEF CallBaseline, CallBAN, Calling, ContextEnds, AtRest, vars
  <2> QED
    BY <2>1 DEF runVars, RowsInv, AtPlace, SummaryBehind
<1>3. CASE BaselineDone
    BY <1>3 DEF BaselineDone, RowsInv, AtPlace, SummaryBehind
<1>4. CASE WriteFails
    BY <1>4, StoppedRows, UnwrittenFiles DEF WriteFails, Types
<1>5. CASE Crash
    BY <1>5, StoppedRows, UnwrittenFiles DEF Crash, Types
<1> QED
    BY <1>1, <1>2, <1>3, <1>4, <1>5 DEF Next, Work

LEMMA Invariants == Spec => [](Types /\ RowsInv)
BY InitTypes, TypesKept, InitRows, RowsKept, PTL DEF Spec

\* What a crash or a failed write leaves behind is old, and never ahead of the
\* summary a resumed run starts from.
THEOREM ArtifactsStayBehind == Spec => []ArtifactsFollowSummary
<1>1. Types /\ RowsInv => ArtifactsFollowSummary
  <2> SUFFICES ASSUME Types, RowsInv, NEW a \in Range(Artifacts)
               PROVE  /\ IsPrefix(disk[a].rows, disk["summary"].rows)
                      /\ disk[a].finished => Len(disk[a].rows) = Len(Schedule)
    BY DEF ArtifactsFollowSummary
  <2>1. disk[a].rows \in Seq(Results) /\ disk["summary"].rows \in Seq(Results)
    BY ArtifactNames, FilesAreSequences DEF Types, TypeOK
  <2>2. WellFormed(disk[a]) /\ Follows(disk[a].rows, disk["summary"].rows)
    BY DEF RowsInv
  <2> QED
    BY <2>1, <2>2, FollowsIsPrefix DEF WellFormed
<1> QED
    BY <1>1, Invariants, PTL

LEMMA LedgerInit == Init => Ledger!Init
<1> SUFFICES ASSUME Init PROVE Ledger!Init
    OBVIOUS
<1>1. disk["summary"] = Empty
    BY ArtifactNames DEF Init
<1>2. Pairs(<<>>) = <<>>
    BY DEF Pairs
<1> QED
    BY <1>1, <1>2, EmptyIsFile DEF Ledger!Init

\* Writing the summary records a result, or finishes or reopens the experiment.
LEMMA LedgerWrite ==
    ASSUME Types, RowsInv, Write, written = 0
    PROVE  [Ledger!Next]_(Ledger!ledgerVars)
<1> DEFINE old == disk["summary"]
<1>1. /\ pc = "persist" /\ "summary" \in Range(Artifacts) /\ old \in Files /\ state \in Files
      /\ disk'["summary"] = state
    BY ArtifactNames DEF Write, Written, Types, TypeOK
<1>2. /\ old.rows \in Seq(Results) /\ state.rows \in Seq(Results)
      /\ old.finished \in BOOLEAN /\ state.finished \in BOOLEAN
    BY <1>1, FilesAreSequences
<1>3. /\ WellFormed(old) /\ WellFormed(state) /\ Follows(old.rows, state.rows)
      /\ then \in {"loop", "interrupted", "finished"}
      /\ then = "loop" => ~ state.finished /\ at = Len(state.rows) /\ Len(old.rows) + 1 = at
      /\ then # "loop" => Len(old.rows) = Len(state.rows)
      /\ then = "interrupted" => ~ state.finished
      /\ then = "finished" => state.finished
    BY <1>1 DEF RowsInv, SummaryBehind
<1> HIDE DEF old
<1>4. /\ Len(Pairs(old.rows)) = Len(old.rows) /\ Len(Pairs(state.rows)) = Len(state.rows)
      /\ Len(old.rows) \in Nat /\ Len(state.rows) \in Nat /\ Len(Schedule) \in Nat
  <2>1. Len(Pairs(old.rows)) = Len(old.rows)
    BY <1>2, PairsLength
  <2>2. Len(Pairs(state.rows)) = Len(state.rows)
    BY <1>2, PairsLength
  <2> QED
    BY <1>2, <2>1, <2>2, ScheduleFacts
<1>5. CASE then = "loop"
  <2>1. Pairs(state.rows) = Append(Pairs(old.rows), Schedule[Len(old.rows) + 1])
    <3>1. DOMAIN old.rows = 1 .. Len(old.rows) /\ DOMAIN state.rows = 1 .. Len(old.rows) + 1
      BY <1>2, <1>3, <1>4, <1>5
    <3>2. \A i \in 1 .. Len(old.rows) + 1 :
              state.rows[i].pair = IF i <= Len(old.rows) THEN old.rows[i].pair
                                   ELSE Schedule[Len(old.rows) + 1]
      BY <1>3, <1>4, <1>5 DEF WellFormed
    <3>3. Pairs(old.rows) \in Seq({old.rows[i].pair : i \in 1 .. Len(old.rows)})
      BY <1>2, PairsLength
    <3>4. Pairs(state.rows) = [i \in 1 .. Len(old.rows) + 1 |->
                                   IF i <= Len(old.rows) THEN old.rows[i].pair
                                   ELSE Schedule[Len(old.rows) + 1]]
      BY <3>1, <3>2 DEF Pairs
    <3>5. \A i \in 1 .. Len(old.rows) : Pairs(old.rows)[i] = old.rows[i].pair
      BY <3>1 DEF Pairs
    <3> QED
      BY <1>4, <3>3, <3>4, <3>5
  <2>2. ~ old.finished
    BY <1>3, <1>4, <1>5 DEF WellFormed
  <2>3. Ledger!Record
    BY <1>1, <1>2, <1>3, <1>4, <1>5, <2>1, <2>2 DEF Ledger!Record, WellFormed, old
  <2> QED
    BY <2>3 DEF Ledger!Next
<1>6. CASE then # "loop"
  <2>1. Pairs(state.rows) = Pairs(old.rows)
    <3>1. DOMAIN old.rows = DOMAIN state.rows /\ DOMAIN old.rows = 1 .. Len(old.rows)
      BY <1>2, <1>3, <1>6
    <3>2. \A i \in DOMAIN old.rows : state.rows[i] = old.rows[i]
      BY <1>3, <3>1 DEF Follows
    <3> QED
      BY <3>1, <3>2 DEF Pairs
  <2>2. CASE then = "finished"
    <3>1. Ledger!Finish
      BY <1>1, <1>2, <1>3, <1>4, <1>6, <2>1, <2>2 DEF Ledger!Finish, WellFormed, old
    <3> QED
      BY <3>1 DEF Ledger!Next
  <2>3. CASE then = "interrupted"
    <3>1. Ledger!Reopen
      BY <1>1, <1>2, <1>3, <2>1, <2>3 DEF Ledger!Reopen, old
    <3> QED
      BY <3>1 DEF Ledger!Next
  <2> QED
    BY <1>3, <1>6, <2>2, <2>3
<1> QED
    BY <1>5, <1>6

LEMMA LedgerStep == Types /\ RowsInv /\ [Next]_vars => [Ledger!Next]_(Ledger!ledgerVars)
<1> SUFFICES ASSUME Types, RowsInv, [Next]_vars PROVE [Ledger!Next]_(Ledger!ledgerVars)
    OBVIOUS
<1>1. CASE Write /\ written = 0
    BY <1>1, LedgerWrite
<1>2. CASE ~ (Write /\ written = 0)
  <2>1. disk'["summary"] = disk["summary"]
    <3>1. CASE Write
      <4>1. /\ disk \in [Range(Artifacts) -> Files] /\ written + 1 \in 2 .. 5
            /\ "summary" \in Range(Artifacts)
        BY <1>2, <3>1, ArtifactNames DEF Write, Types, TypeOK
      <4>2. Artifacts[written + 1] # "summary"
        BY <4>1, ArtifactNames
      <4> QED
        BY <3>1, <4>1, <4>2 DEF Write
    <3>2. CASE WriteFails \/ Crash
      BY <3>2, ArtifactNames, UnwrittenFiles DEF WriteFails, Crash, Types
    <3>3. CASE UNCHANGED disk
      BY <3>3
    <3> QED
      BY <3>1, <3>2, <3>3 DEF Next, Work, Start, Skip, StopAtHead, StartPair, Finish,
         CallBaseline, BaselineDone, CallBAN, BANDone, Persisted, Calling, ContextEnds,
         AtRest, vars, runVars
  <2> QED
    BY <2>1 DEF Ledger!ledgerVars
<1> QED
    BY <1>1, <1>2

\* The summary is a ledger of the schedule, whatever fails and however often the
\* experiment is resumed.
THEOREM ExperimentImplementsLedger == Spec => ImplementsLedger
<1>1. Spec => Ledger!Spec
    BY Invariants, LedgerInit, LedgerStep, PTL DEF Spec, Ledger!Spec
<1> QED
    BY <1>1 DEF ImplementsLedger
=============================================================================
