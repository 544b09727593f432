---------------------------- MODULE MCPairedRow ----------------------------
(***************************************************************************)
(* The instances of MCBanEngine, with the row that reports the run.        *)
(***************************************************************************)
EXTENDS MCBanEngine, PairedRow

\* Fewer proposals, two of which converge.
MCFewFingerprints == {f1, f2, f4}
MCFewAnswerOf == (f1 :> "a") @@ (f2 :> "a") @@ (f4 :> "b")
=============================================================================
