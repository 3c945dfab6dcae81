--------------------------- MODULE MCGroupCommit ----------------------------
(***************************************************************************)
(* Instances of GroupCommit for TLC.                                       *)
(***************************************************************************)
EXTENDS GroupCommit, TLC

CONSTANTS g1, g2, g3, x1, x2

MCGroupJobs == {g1, g2, g3}
MCTwoGroupJobs == {g1, g2}
MCExclusiveJobs == {x1, x2}
MCOneExclusiveJob == {x1}
MCSize == [j \in Jobs |-> IF j \in {g1, g2} THEN 2 ELSE 1]

=============================================================================
