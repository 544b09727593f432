---------------------------- MODULE MCScheduler ----------------------------
(***************************************************************************)
(* Four inputs on three workers: inputs wait for a worker, workers compete   *)
(* for inputs, and two can fail before the caller notices a cancel.        *)
(***************************************************************************)
EXTENDS Scheduler, TLC

MCSymmetry == Permutations(Workers)
=============================================================================
