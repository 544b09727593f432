----------------------------- MODULE Scheduler -----------------------------
(***************************************************************************)
(* Parallel of internal/ban/scheduler.go: the calling goroutine hands the  *)
(* inputs over an unbuffered channel to a fixed set of workers, closes the *)
(* channel, waits for the workers and returns the slots, the error kept in *)
(* a channel of capacity one, or the error of a cancelled context.         *)
(***************************************************************************)
EXTENDS Naturals, FiniteSets

CONSTANTS Inputs, Workers

ASSUME SchedulerAssumption ==
    /\ Inputs \in Nat
    /\ IsFiniteSet(Workers)
    /\ Workers # {}

VARIABLES
    caller,     \* "dispatch", "wait", "waitCancelled" or "returned"
    next,       \* next input to hand over
    worker,     \* input each worker runs, Idle or Exited
    out,        \* filled result slots
    errCh,      \* the input whose error is kept, or NoError
    ctx,        \* "live" or "done"
    result      \* what the call returned

vars == <<caller, next, worker, out, errCh, ctx, result>>

Slots   == 1..Inputs
NoError == 0
Idle    == 0              \* waiting to receive from jobs
Exited  == Inputs + 1     \* wg.Done

Running == {worker[w] : w \in Workers} \cap Slots

\* jobs is closed once the caller has left its loop.
Closed == caller # "dispatch"

Init ==
    /\ caller = "dispatch"
    /\ next = 1
    /\ worker = [w \in Workers |-> Idle]
    /\ out = {}
    /\ errCh = NoError
    /\ ctx = "live"
    /\ result = "none"

\* Faulty: the loop runs one input too far.
DispatchBeyond(w) ==
    /\ caller = "dispatch"
    /\ next \in 1..(Inputs + 1)
    /\ worker[w] = Idle
    /\ worker' = [worker EXCEPT ![w] = next]
    /\ next' = next + 1
    /\ UNCHANGED <<caller, out, errCh, ctx, result>>

\* The unbuffered send meets a worker that waits to receive.
Dispatch(w) ==
    /\ caller = "dispatch"
    /\ next \in Slots
    /\ worker[w] = Idle
    /\ worker' = [worker EXCEPT ![w] = next]
    /\ next' = next + 1
    /\ UNCHANGED <<caller, out, errCh, ctx, result>>

\* The select may take ctx.Done even when a worker is ready to receive.
NoticeCancel ==
    /\ caller = "dispatch"
    /\ next \in Slots
    /\ ctx = "done"
    /\ caller' = "waitCancelled"
    /\ UNCHANGED <<next, worker, out, errCh, ctx, result>>

AllDispatched ==
    /\ caller = "dispatch"
    /\ next \notin Slots
    /\ caller' = "wait"
    /\ UNCHANGED <<next, worker, out, errCh, ctx, result>>

Succeed(w) ==
    /\ worker[w] \in Slots
    /\ out' = out \cup {worker[w]}
    /\ worker' = [worker EXCEPT ![w] = Idle]
    /\ UNCHANGED <<caller, next, errCh, ctx, result>>

\* Faulty: a failed input is dispatched again.
FailAndRetry(w) ==
    /\ worker[w] \in Slots
    /\ errCh' = IF errCh = NoError THEN worker[w] ELSE errCh
    /\ next' = worker[w]
    /\ worker' = [worker EXCEPT ![w] = Idle]
    /\ UNCHANGED <<caller, out, ctx, result>>

\* Faulty: a worker gives up at its first error.
FailAndExit(w) ==
    /\ worker[w] \in Slots
    /\ errCh' = IF errCh = NoError THEN worker[w] ELSE errCh
    /\ worker' = [worker EXCEPT ![w] = Exited]
    /\ UNCHANGED <<caller, next, out, ctx, result>>

\* Only the first error finds room; the worker goes on with the next input.
Fail(w) ==
    /\ worker[w] \in Slots
    /\ errCh' = IF errCh = NoError THEN worker[w] ELSE errCh
    /\ worker' = [worker EXCEPT ![w] = Idle]
    /\ UNCHANGED <<caller, next, out, ctx, result>>

Exit(w) ==
    /\ Closed
    /\ worker[w] = Idle
    /\ worker' = [worker EXCEPT ![w] = Exited]
    /\ UNCHANGED <<caller, next, out, errCh, ctx, result>>

Waited == \A w \in Workers : worker[w] = Exited

\* Faulty: a cancelled call does not wait for its workers.
ReturnAtOnce ==
    /\ caller = "waitCancelled"
    /\ caller' = "returned"
    /\ result' = "cancelled"
    /\ UNCHANGED <<next, worker, out, errCh, ctx>>

ReturnCancelled ==
    /\ caller = "waitCancelled"
    /\ Waited
    /\ caller' = "returned"
    /\ result' = "cancelled"
    /\ UNCHANGED <<next, worker, out, errCh, ctx>>

\* Faulty: the kept error is never read.
ReturnIgnoringErrors ==
    /\ caller = "wait"
    /\ Waited
    /\ caller' = "returned"
    /\ result' = "results"
    /\ UNCHANGED <<next, worker, out, errCh, ctx>>

\* Faulty: the slots are read before the workers are done.
ReturnUnwaited ==
    /\ caller = "wait"
    /\ caller' = "returned"
    /\ result' = IF errCh = NoError THEN "results" ELSE "error"
    /\ UNCHANGED <<next, worker, out, errCh, ctx>>

Return ==
    /\ caller = "wait"
    /\ Waited
    /\ caller' = "returned"
    /\ result' = IF errCh = NoError THEN "results" ELSE "error"
    /\ UNCHANGED <<next, worker, out, errCh, ctx>>

\* A deadline or a caller further up cancels the context at any moment.
Cancel ==
    /\ ctx = "live"
    /\ ctx' = "done"
    /\ UNCHANGED <<caller, next, worker, out, errCh, result>>

Done == caller = "returned" /\ UNCHANGED vars

Work(w) == Succeed(w) \/ Fail(w) \/ Exit(w)
Call == (\E w \in Workers : Dispatch(w)) \/ NoticeCancel \/ AllDispatched
        \/ ReturnCancelled \/ Return

Next == Call \/ (\E w \in Workers : Work(w)) \/ Cancel \/ Done

Spec == Init /\ [][Next]_vars

\* The runtime schedules every goroutine; an input's function returns (it
\* carries a deadline).  Nobody is obliged to cancel.
FairSpec == Spec /\ WF_vars(Call) /\ \A w \in Workers : WF_vars(Work(w))

-----------------------------------------------------------------------------
(***************************************************************************)
(* Properties.                                                             *)
(***************************************************************************)

TypeOK ==
    /\ caller \in {"dispatch", "wait", "waitCancelled", "returned"}
    /\ next \in 1..(Inputs + 1)
    /\ worker \in [Workers -> 0..(Inputs + 1)]
    /\ out \subseteq Slots
    /\ errCh \in 0..Inputs
    /\ ctx \in {"live", "done"}
    /\ result \in {"none", "results", "error", "cancelled"}

\* No input is ever handed to two workers or run again after it has a result:
\* two goroutines never write one slot.
SlotsAreExclusive ==
    /\ \A v, w \in Workers : v # w /\ worker[v] \in Slots => worker[v] # worker[w]
    /\ out \cap Running = {}
    /\ \A i \in out \cup Running : i < next

\* The caller only sees slots when every one of them was filled: an error that
\* found errCh full, or an input that was never handed over, is not lost.
ResultsAreComplete == result = "results" => out = Slots

\* When Parallel returns, no worker is left that could still write a slot.
NoWorkerOutlivesTheCall ==
    result # "none" => /\ \A w \in Workers : worker[w] = Exited
                       /\ result = "error" => errCh \in Slots \ out

\* The call implements the abstract one.
Abstract == INSTANCE ParallelCall
                WITH filled <- out,
                     returned <- IF result = "none" THEN "no"
                                 ELSE IF result = "results" THEN "results"
                                 ELSE "error"
ImplementsCall == Abstract!CallSpec

\* The call returns, although a failed input never stops the others and a
\* cancelled context may leave inputs that no worker will take.
Returns == <>(result # "none")
=============================================================================
