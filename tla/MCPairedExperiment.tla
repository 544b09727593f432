------------------------- MODULE MCPairedExperiment -------------------------
(***************************************************************************)
(* Two pairs, one retry, the process started twice.  The engine's run on   *)
(* the first pair generates and evaluates a branch, the one on the second  *)
(* generates.                                                              *)
(***************************************************************************)
EXTENDS PairedExperiment

CONSTANTS c1, c2         \* the cases

MCSchedule == << <<c1, 1>>, <<c2, 1>> >>

MCMaxBANCalls == [pair \in Range(MCSchedule) |-> IF pair[1] = c1 THEN 2 ELSE 1]
=============================================================================
