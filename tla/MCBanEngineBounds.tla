------------------------- MODULE MCBanEngineBounds -------------------------
(***************************************************************************)
(* One run of BanEngine under either of two configurations: that of the    *)
(* .cfg, and one that may not expand, whose initial branches are more than *)
(* a regeneration can name apart, and whose contract grants no authority.  *)
(***************************************************************************)
EXTENDS MCBanEngine

VARIABLE shallow    \* which of the two, from the start on

Shallow == INSTANCE BanEngine WITH MaxDepth          <- 0,
                                   InitialBranches   <- 3,
                                   RetainBranches    <- 2,
                                   MaxActiveBranches <- 2,
                                   Contract          <- Estimated

BoundsInit ==
    /\ shallow \in BOOLEAN
    /\ IF shallow THEN Shallow!Init ELSE Init

BoundsNext ==
    \/ ~ shallow /\ Next /\ UNCHANGED shallow
    \/ shallow /\ Shallow!Next /\ UNCHANGED shallow

BoundsSpec == BoundsInit /\ [][BoundsNext]_<<vars, shallow>>
=============================================================================
