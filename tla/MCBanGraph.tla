----------------------------- MODULE MCBanGraph -----------------------------
(***************************************************************************)
(* A small instance of BanGraph: arbitrary callers build a graph of at     *)
(* most three nodes out of four identifiers and four fingerprints that     *)
(* carry two answers.                                                      *)
(***************************************************************************)
EXTENDS BanGraph, TLC

CONSTANTS f1, f2, f3, f4

MCFingerprints == {f1, f2, f3, f4}
MCAnswers == {"a", "b"}
MCAnswerOf == (f1 :> "a") @@ (f2 :> "a") @@ (f3 :> "a") @@ (f4 :> "b")
MCStatuses == {"PROPOSED", "PRUNED"}
MCSymmetry == Permutations(Ids)
=============================================================================
