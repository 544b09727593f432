------------------------- MODULE Scheduler_proofs -------------------------
(***************************************************************************)
(* Parallel for every number of inputs and every set of workers.           *)
(*                                                                         *)
(* That returned slots are complete follows from NothingIsLost: an input   *)
(* handed over is running or has its result, unless an error is kept.      *)
(***************************************************************************)
EXTENDS Scheduler, TLAPS

\* Without a kept error, every input handed over is running or has a result;
\* a kept error belongs to an input that has neither.
NothingIsLost ==
    /\ errCh = NoError => \A i \in Slots : i < next => i \in out \cup Running
    /\ errCh # NoError => /\ errCh \in Slots \ (out \cup Running)
                          /\ errCh < next

\* The caller waits for results only after handing over every input.
CallerPhases ==
    /\ caller = "wait" => next = Inputs + 1
    /\ caller = "returned" <=> result # "none"

CallInv ==
    /\ TypeOK
    /\ SlotsAreExclusive
    /\ NothingIsLost
    /\ CallerPhases
    /\ NoWorkerOutlivesTheCall
    /\ ResultsAreComplete

\* A fresh call satisfies the invariant.
LEMMA CallInvInit == Init => CallInv
<1> SUFFICES ASSUME Init PROVE CallInv
    OBVIOUS
<1>1. Running = {}
    BY DEF Init, Running, Slots, Idle
<1>2. TypeOK
    BY SchedulerAssumption DEF Init, TypeOK, Slots, NoError, Idle
<1>3. SlotsAreExclusive /\ NothingIsLost
    BY <1>1, SchedulerAssumption
    DEF Init, SlotsAreExclusive, NothingIsLost, Slots, NoError, Idle
<1> QED
    BY <1>2, <1>3 DEF Init, CallInv, CallerPhases, NoWorkerOutlivesTheCall,
                      ResultsAreComplete

\* Steps of the caller and of the context leave the inputs where they are.
LEMMA InputsUntouched ==
    ASSUME CallInv, UNCHANGED <<next, worker, out, errCh>>
    PROVE  SlotsAreExclusive' /\ NothingIsLost'
<1>1. Running' = Running
    BY DEF Running
<1> QED
    BY <1>1 DEF CallInv, SlotsAreExclusive, NothingIsLost

\* Every step of the caller, of a worker and of the context preserves it.
LEMMA CallInvStep == CallInv /\ [Next]_vars => CallInv'
<1> SUFFICES ASSUME CallInv, [Next]_vars PROVE CallInv'
    OBVIOUS
<1> USE SchedulerAssumption DEF CallInv, TypeOK, Slots, NoError, Idle, Exited, Running
<1>1. ASSUME NEW w \in Workers, Dispatch(w) PROVE CallInv'
    <2>1. TypeOK' /\ CallerPhases'
        BY <1>1 DEF Dispatch, CallerPhases
    <2>2. SlotsAreExclusive'
        BY <1>1 DEF Dispatch, SlotsAreExclusive
    <2>3. NothingIsLost'
        <3>1. Running' = Running \cup {next}
            BY <1>1 DEF Dispatch
        <3> QED
            BY <1>1, <3>1 DEF Dispatch, NothingIsLost, SlotsAreExclusive
    <2>4. NoWorkerOutlivesTheCall' /\ ResultsAreComplete'
        BY <1>1 DEF Dispatch, NoWorkerOutlivesTheCall, ResultsAreComplete, CallerPhases
    <2> QED
        BY <2>1, <2>2, <2>3, <2>4
<1>2. ASSUME NEW w \in Workers, Succeed(w) PROVE CallInv'
    <2>1. TypeOK' /\ CallerPhases'
        <3>1. worker' \in [Workers -> 0..(Inputs + 1)]
            BY <1>2 DEF Succeed
        <3>2. out' \subseteq Slots
            BY <1>2 DEF Succeed
        <3> QED
            BY <1>2, <3>1, <3>2 DEF Succeed, CallerPhases
    <2>2. Running' = Running \ {worker[w]}
        <3>1. \A v \in Workers \ {w} : worker'[v] = worker[v] /\ worker[v] # worker[w]
            BY <1>2 DEF Succeed, SlotsAreExclusive
        <3>2. worker'[w] = 0 /\ worker[w] \in 1..Inputs
            BY <1>2 DEF Succeed
        <3> QED
            BY <3>1, <3>2
    <2>3. SlotsAreExclusive'
        BY <1>2, <2>2 DEF Succeed, SlotsAreExclusive
    <2>4. NothingIsLost'
        BY <1>2, <2>2 DEF Succeed, NothingIsLost
    <2>5. NoWorkerOutlivesTheCall' /\ ResultsAreComplete'
        BY <1>2 DEF Succeed, NoWorkerOutlivesTheCall, ResultsAreComplete
    <2> QED
        BY <2>1, <2>3, <2>4, <2>5
<1>3. ASSUME NEW w \in Workers, Fail(w) PROVE CallInv'
    <2>1. TypeOK' /\ CallerPhases'
        BY <1>3 DEF Fail, CallerPhases
    <2>2. Running' = Running \ {worker[w]}
        BY <1>3 DEF Fail, SlotsAreExclusive
    <2>3. SlotsAreExclusive'
        BY <1>3, <2>2 DEF Fail, SlotsAreExclusive
    <2>4. NothingIsLost'
        BY <1>3, <2>2 DEF Fail, NothingIsLost, SlotsAreExclusive
    <2>5. NoWorkerOutlivesTheCall' /\ ResultsAreComplete'
        BY <1>3 DEF Fail, NoWorkerOutlivesTheCall, ResultsAreComplete
    <2> QED
        BY <2>1, <2>3, <2>4, <2>5
<1>4. ASSUME NEW w \in Workers, Exit(w) PROVE CallInv'
    <2>1. Running' = Running
        BY <1>4 DEF Exit
    <2>2. TypeOK' /\ CallerPhases' /\ SlotsAreExclusive'
        BY <1>4, <2>1 DEF Exit, CallerPhases, SlotsAreExclusive
    <2>3. NothingIsLost'
        BY <1>4, <2>1 DEF Exit, NothingIsLost
    <2>4. NoWorkerOutlivesTheCall' /\ ResultsAreComplete'
        BY <1>4 DEF Exit, NoWorkerOutlivesTheCall, ResultsAreComplete
    <2> QED
        BY <2>2, <2>3, <2>4
<1>5. CASE Return
    <2>1. Running = {}
        BY <1>5 DEF Return, Waited
    <2>2. errCh = NoError => out = Slots
        <3>1. next = Inputs + 1
            BY <1>5 DEF Return, CallerPhases
        <3>2. ASSUME errCh = NoError, NEW i \in Slots PROVE i \in out
            <4>1. i < next
                BY <3>1
            <4> QED
                BY <2>1, <3>2, <4>1 DEF NothingIsLost
        <3> QED
            BY <3>2
    <2> QED
        BY <1>5, <2>1, <2>2
        DEF Return, Waited, SlotsAreExclusive, NothingIsLost, CallerPhases,
            NoWorkerOutlivesTheCall, ResultsAreComplete
<1>6. CASE ReturnCancelled
    <2>1. SlotsAreExclusive' /\ NothingIsLost'
        BY <1>6, InputsUntouched DEF ReturnCancelled
    <2> QED
        BY <1>6, <2>1 DEF ReturnCancelled, Waited, CallerPhases,
                          NoWorkerOutlivesTheCall, ResultsAreComplete
<1>7. CASE NoticeCancel \/ AllDispatched
    <2>1. SlotsAreExclusive' /\ NothingIsLost'
        BY <1>7, InputsUntouched DEF NoticeCancel, AllDispatched
    <2>2. TypeOK'
        BY <1>7 DEF NoticeCancel, AllDispatched
    <2>3. CallerPhases'
        BY <1>7 DEF NoticeCancel, AllDispatched, CallerPhases
    <2>4. NoWorkerOutlivesTheCall' /\ ResultsAreComplete'
        BY <1>7 DEF NoticeCancel, AllDispatched, NoWorkerOutlivesTheCall,
                    ResultsAreComplete
    <2> QED
        BY <2>1, <2>2, <2>3, <2>4
<1>8. CASE Cancel \/ UNCHANGED vars
    <2>1. SlotsAreExclusive' /\ NothingIsLost'
        BY <1>8, InputsUntouched DEF Cancel, vars
    <2>2. TypeOK'
        BY <1>8 DEF Cancel, vars
    <2> QED
        BY <1>8, <2>1, <2>2 DEF Cancel, vars, CallerPhases,
                          NoWorkerOutlivesTheCall, ResultsAreComplete
<1> QED
    BY <1>1, <1>2, <1>3, <1>4, <1>5, <1>6, <1>7, <1>8 DEF Next, Call, Work, Done

\* The call's state stays well-formed.
THEOREM TypeCorrect == Spec => []TypeOK
<1>1. CallInv => TypeOK
    BY DEF CallInv
<1> QED
    BY <1>1, CallInvInit, CallInvStep, PTL DEF Spec

\* Two workers never write one slot, and no input is run twice.
THEOREM SlotsStayExclusive == Spec => []SlotsAreExclusive
<1>1. CallInv => SlotsAreExclusive
    BY DEF CallInv
<1> QED
    BY <1>1, CallInvInit, CallInvStep, PTL DEF Spec

\* Slots are returned only when each one holds its input's result.
THEOREM CompleteResults == Spec => []ResultsAreComplete
<1>1. CallInv => ResultsAreComplete
    BY DEF CallInv
<1> QED
    BY <1>1, CallInvInit, CallInvStep, PTL DEF Spec

\* No worker is left to write a slot the caller already reads.
THEOREM WorkersAreDone == Spec => []NoWorkerOutlivesTheCall
<1>1. CallInv => NoWorkerOutlivesTheCall
    BY DEF CallInv
<1> QED
    BY <1>1, CallInvInit, CallInvStep, PTL DEF Spec

\* Parallel is the atomic-looking call that the engine takes it for.
THEOREM Refinement == Spec => ImplementsCall
<1>1. Init => Abstract!CallInit
    BY DEF Init, Abstract!CallInit
<1>2. CallInv /\ [Next]_vars =>
          [Abstract!Fill \/ Abstract!ReturnResults \/ Abstract!ReturnError]_(Abstract!callVars)
    <2> SUFFICES ASSUME CallInv, [Next]_vars
                 PROVE  [Abstract!Fill \/ Abstract!ReturnResults \/ Abstract!ReturnError]_(Abstract!callVars)
        OBVIOUS
    <2> USE DEF CallInv, Abstract!callVars
    <2>1. ASSUME NEW w \in Workers, Succeed(w) PROVE Abstract!Fill
        <3>1. worker[w] \in Slots \ out
            BY <2>1 DEF Succeed, SlotsAreExclusive, Running
        <3>2. result = "none"
            BY <3>1, SchedulerAssumption DEF NoWorkerOutlivesTheCall, Slots, Exited
        <3> QED
            BY <2>1, <3>1, <3>2 DEF Succeed, Abstract!Fill, Abstract!Slots, Slots
    <2>2. CASE Return
        <3>1. result = "none"
            BY <2>2 DEF Return, CallerPhases
        <3>2. errCh = NoError => out = Slots
            <4>1. ResultsAreComplete'
                BY <2>2, CallInvStep DEF Next, Call
            <4> QED
                BY <2>2, <4>1 DEF Return, ResultsAreComplete, Slots
        <3> QED
            BY <2>2, <3>1, <3>2 DEF Return, Abstract!ReturnResults, Abstract!ReturnError,
                                    Abstract!Slots, Slots
    <2>3. CASE ReturnCancelled
        BY <2>3 DEF ReturnCancelled, CallerPhases, Abstract!ReturnError
    <2>4. CASE UNCHANGED <<out, result>>
        BY <2>4
    <2> QED
        BY <2>1, <2>2, <2>3, <2>4
        DEF Next, Call, Work, Dispatch, NoticeCancel, AllDispatched, Fail, Exit,
            Cancel, Done, vars
<1> QED
    BY <1>1, <1>2, CallInvInit, CallInvStep, PTL DEF Spec, ImplementsCall, Abstract!CallSpec
=============================================================================
