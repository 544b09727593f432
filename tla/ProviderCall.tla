---------------------------- MODULE ProviderCall ----------------------------
(***************************************************************************)
(* One model call of an experiment: trackedProvider.invoke                 *)
(* (internal/experiment/runner.go) around the Ollama engine                *)
(* (internal/inference/ollama/engine.go), which streams an answer over     *)
(* HTTP and retries, under a context that is a child of the case's, itself *)
(* a child of the run's.  Any of the three may end at any moment.          *)
(***************************************************************************)
EXTENDS Naturals, Sequences

CONSTANTS
    Retries          \* Engine.Retries

ASSUME RetriesAssumption == Retries \in Nat

VARIABLES
    ctx,    \* the Err() of the run's, the case's and the call's context
    call,   \* the call in progress
    log     \* trackedProvider.calls: the failure code of each, NONE if completed

callVars == <<ctx, call, log>>

Levels == {"run", "case", "call"}

Ended == {"cancelled", "expired"}

\* "PROVIDER_ERROR" is PROVIDER_CONNECTION_ERROR or PROVIDER_RESPONSE_ERROR:
\* nothing tells the two apart once the call has returned.
Codes == {"PROVIDER_ERROR", "PROVIDER_TIMEOUT", "PROVIDER_CANCELLED",
          "MODEL_OUTPUT_MALFORMED", "NO_VERIFIED_CANDIDATE"}

Attempts == 0 .. Retries

Calls == [phase      : {"idle", "connect", "stream", "backoff"},
          structured : BOOLEAN,
          attempt    : Attempts]

Idle == [phase |-> "idle", structured |-> FALSE, attempt |-> 0]

-----------------------------------------------------------------------------
(***************************************************************************)
(* Contexts: the end of one ends its descendants that are still live, with *)
(* the same error.                                                         *)
(***************************************************************************)

Below(level) == CASE level = "run"  -> Levels
                  [] level = "case" -> {"case", "call"}
                  [] level = "call" -> {"call"}

EndContext(level, err) ==
    /\ ctx[level] = "live"
    /\ ctx' = [l \in Levels |-> IF l \in Below(level) /\ ctx[l] = "live"
                                THEN err ELSE ctx[l]]
    /\ UNCHANGED <<call, log>>

\* WithTimeout: a child of an ended context is ended from the start.
Derive(child, parent) == ctx' = [ctx EXCEPT ![child] = ctx[parent]]

-----------------------------------------------------------------------------
(***************************************************************************)
(* The steps of a call.                                                    *)
(***************************************************************************)

\* Faulty: a deadline the retry loop reports is an untyped error.
FailureCodeOfCancelOnly(error) ==
    IF error = "cancelled" THEN "PROVIDER_CANCELLED" ELSE "NO_VERIFIED_CANDIDATE"

\* FailureCodeOf an untyped error: a context error, or the default.
FailureCodeOf(error) == CASE error = "expired"   -> "PROVIDER_TIMEOUT"
                          [] error = "cancelled" -> "PROVIDER_CANCELLED"
                          [] OTHER               -> "NO_VERIFIED_CANDIDATE"

\* The deferred cancel: nobody looks at the context again.
Release(level) == ctx' = [ctx EXCEPT ![level] = "cancelled"]

Fresh == [l \in Levels |-> IF l = "run" THEN "live" ELSE "cancelled"]

Invoke(structured) ==
    /\ call.phase = "idle"
    /\ call' = [Idle EXCEPT !.phase = "connect", !.structured = structured]
    /\ Derive("call", "case")
    /\ UNCHANGED log

\* The tail of invoke: one entry of the log for each call, whatever its retries.
Return(code) ==
    /\ log' = Append(log, code)
    /\ call' = Idle
    /\ Release("call")

\* Faulty: one attempt more than the retries allow.
FailOneMore(code, isContextError) ==
    IF isContextError \/ call.attempt > Retries
    THEN Return(code)
    ELSE /\ call' = [call EXCEPT !.phase = "backoff"]
         /\ UNCHANGED <<ctx, log>>

\* An attempt has failed: errors that wrap a context error end the call.
Fail(code, isContextError) ==
    IF isContextError \/ call.attempt = Retries
    THEN Return(code)
    ELSE /\ call' = [call EXCEPT !.phase = "backoff"]
         /\ UNCHANGED <<ctx, log>>

\* Client.Do fails: a refused connection is a connection error, unless the
\* context has ended by the time the error is classified.
Refused ==
    /\ call.phase = "connect"
    /\ Fail(IF ctx["call"] = "live" THEN "PROVIDER_ERROR"
                                    ELSE FailureCodeOf(ctx["call"]), FALSE)

\* Client.Do reports the end of the context.
Aborted ==
    /\ call.phase = "connect"
    /\ ctx["call"] \in Ended
    /\ Fail(FailureCodeOf(ctx["call"]), TRUE)

\* The transport's own timeouts, whatever the context says: the dialer's counts
\* as a deadline and ends the call, that of the TLS handshake is retried.
DialTimesOut ==
    /\ call.phase = "connect"
    /\ \E isContextError \in BOOLEAN : Fail("PROVIDER_TIMEOUT", isContextError)

BadStatus ==
    /\ call.phase = "connect"
    /\ ctx["call"] = "live"
    /\ Fail("PROVIDER_ERROR", FALSE)

OpenStream ==
    /\ call.phase = "connect"
    /\ ctx["call"] = "live"
    /\ call' = [call EXCEPT !.phase = "stream"]
    /\ UNCHANGED <<ctx, log>>

\* A chunk that does not decode or goes past MaxBytes, or one that reports an
\* error, ends the attempt.
BadChunk(code) ==
    /\ call.phase = "stream"
    /\ code \in {"MODEL_OUTPUT_MALFORMED", "PROVIDER_ERROR"}
    /\ Fail(code, FALSE)

\* The scanner stops on an error of the body; a read the context ended reports
\* the context's error.
StreamBreaks ==
    /\ call.phase = "stream"
    /\ IF ctx["call"] = "live"
       THEN Fail("PROVIDER_ERROR", FALSE)
       ELSE \E isContextError \in BOOLEAN :
                Fail(FailureCodeOf(ctx["call"]), isContextError)

\* The body ends, with or without its done marker.  A structured answer that
\* does not decode is not retried.
StreamEnds(decodes) ==
    /\ call.phase = "stream"
    /\ ~ decodes => call.structured
    /\ \/ Fail("PROVIDER_ERROR", FALSE)
       \/ Return(IF decodes THEN "NONE" ELSE "MODEL_OUTPUT_MALFORMED")

\* The wait before a retry: the context's error is returned as it is, and when
\* the timer has fired too, either case of the select may be taken.
GiveUp ==
    /\ call.phase = "backoff"
    /\ ctx["call"] \in Ended
    /\ Return(FailureCodeOf(ctx["call"]))

Retry ==
    /\ call.phase = "backoff"
    /\ call' = [call EXCEPT !.phase = "connect", !.attempt = @ + 1]
    /\ UNCHANGED <<ctx, log>>

\* Faulty: structured calls bypass the tracker's timeout.
CallDeadlineForText == ~ call.structured /\ call.phase # "idle"
                       /\ EndContext("call", "expired")

\* The inference timeout that invoke sets for every call.
CallDeadline == call.phase # "idle" /\ EndContext("call", "expired")

\* What the engine does once the context has ended, whatever the server does.
React == ctx["call"] \in Ended /\ (Aborted \/ StreamBreaks \/ GiveUp)

CallStep ==
    \/ Refused
    \/ Aborted
    \/ DialTimesOut
    \/ BadStatus
    \/ OpenStream
    \/ \E code \in Codes : BadChunk(code)
    \/ StreamBreaks
    \/ \E decodes \in BOOLEAN : StreamEnds(decodes)
    \/ GiveUp
    \/ Retry

-----------------------------------------------------------------------------

CallTypeOK ==
    /\ ctx \in [Levels -> {"live"} \cup Ended]
    /\ call \in Calls
    /\ log \in Seq(Codes \cup {"NONE"})
=============================================================================
