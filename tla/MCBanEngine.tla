---------------------------- MODULE MCBanEngine ----------------------------
(***************************************************************************)
(* Small instances of BanEngine.  Every fingerprint of f1..f4 carries the  *)
(* same answer but f4, so that branches converge.                          *)
(***************************************************************************)
EXTENDS BanEngine, TLC

CONSTANTS f1, f2, f3, f4

MCFingerprints == {f1, f2, f3, f4}
MCAnswers == {"a", "b"}
MCAnswerOf == (f1 :> "a") @@ (f2 :> "a") @@ (f3 :> "a") @@ (f4 :> "b")
MCSymmetry == Permutations({f1, f2, f3})

\* What the numeric, exact, constraint and JSON verifiers measure under, and a
\* contract under which nothing measured may train gravity.
Deterministic == [authority |-> "DETERMINISTIC_RUNTIME", independence |-> "INDEPENDENT"]
Estimated == [authority |-> "MODEL_ESTIMATE", independence |-> "MODEL_DERIVED"]
=============================================================================
