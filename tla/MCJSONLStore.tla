---------------------------- MODULE MCJSONLStore ----------------------------
(***************************************************************************)
(* Two identifiers: under the first a record with two contents and a       *)
(* foundation record, under the second an ordinary record, one too long to *)
(* read back and one that validation refuses.                              *)
(***************************************************************************)
EXTENDS JSONLStore

MCContents == {"x", "y"}

Rec(i, t, c, v, f) == [id |-> i, tier |-> t, content |-> c, valid |-> v, fits |-> f]

MCInputs == {Rec(1, "other", "x", TRUE, TRUE),
             Rec(1, "other", "y", TRUE, TRUE),
             Rec(1, "foundation", "x", TRUE, TRUE),
             Rec(2, "other", "x", TRUE, TRUE),
             Rec(2, "other", "y", TRUE, FALSE),
             Rec(2, "other", "y", FALSE, TRUE)}
=============================================================================
