---------------------------- MODULE PairedLedger ----------------------------
(***************************************************************************)
(* What a paired experiment promises of its results: the pairs of case and *)
(* repetition are recorded in schedule order, each of them once, no result *)
(* is ever taken back, and the experiment is finished when it has them all.*)
(***************************************************************************)
EXTENDS Naturals, Sequences

CONSTANT Schedule        \* the pairs, repetition by repetition

VARIABLES
    recorded,   \* the pairs that have a result
    finished    \* the experiment says so

ledgerVars == <<recorded, finished>>

Init == recorded = <<>> /\ finished = FALSE

Record ==
    /\ Len(recorded) < Len(Schedule)
    /\ recorded' = Append(recorded, Schedule[Len(recorded) + 1])
    /\ UNCHANGED finished

Finish ==
    /\ Len(recorded) = Len(Schedule)
    /\ finished' = TRUE
    /\ UNCHANGED recorded

\* A finished experiment that is resumed and interrupted says so no more.
Reopen == finished' = FALSE /\ UNCHANGED recorded

Next == Record \/ Finish \/ Reopen

Spec == Init /\ [][Next]_ledgerVars
=============================================================================
