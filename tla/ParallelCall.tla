---------------------------- MODULE ParallelCall ----------------------------
(***************************************************************************)
(* What a caller of Parallel relies on (internal/ban/scheduler.go, called  *)
(* by Engine.evaluate): results appear slot by slot while the call runs,   *)
(* then the call returns once, with every slot filled or with an error.    *)
(* BanEngine takes an evaluation in one step on the strength of this.      *)
(***************************************************************************)
EXTENDS Naturals

CONSTANT Inputs   \* the number of inputs, a natural number

VARIABLES filled,    \* slots of the result that hold their input's result
          returned   \* "no", "results" or "error"

callVars == <<filled, returned>>

Slots == 1..Inputs

CallInit == filled = {} /\ returned = "no"

Fill ==
    /\ returned = "no"
    /\ \E i \in Slots \ filled : filled' = filled \cup {i}
    /\ UNCHANGED returned

ReturnResults ==
    /\ returned = "no"
    /\ filled = Slots
    /\ returned' = "results"
    /\ UNCHANGED filled

\* The caller gets no slots with an error, whatever has been filled.
ReturnError ==
    /\ returned = "no"
    /\ returned' = "error"
    /\ UNCHANGED filled

CallSpec == CallInit /\ [][Fill \/ ReturnResults \/ ReturnError]_callVars
=============================================================================
