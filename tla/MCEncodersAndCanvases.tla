----------------------- MODULE MCEncodersAndCanvases -----------------------
(* Instances of EncodersAndCanvases for TLC. *)
EXTENDS EncodersAndCanvases, TLC

CONSTANTS t1, t2, v1, v2, v3, small, edited, large

Setting(group, mode, shared) == [group |-> group, mode |-> mode, shared |-> shared, profile |-> "p"]

TwoTargets  == {t1, t2}
ThreeVideos  == {v1, v2, v3}
\* Targets and videos are only compared with each other.
Symmetry    == Permutations(ThreeVideos) \cup Permutations(TwoTargets)

\* Two layouts of one size, and one of another.
ThreeLayouts == {small, edited, large}
LayoutSizes  == [l \in ThreeLayouts |-> IF l = large THEN "large" ELSE "small"]

\* Outputs on the vertical canvas, on canvases of their own and on the program.
FourConfigs ==
  {Setting("vertical", "FollowObs", TRUE), Setting("horizontal", "FollowObs", FALSE),
   Setting("horizontal", "LinkedScene", FALSE), Setting("horizontal", "LinkedScene", TRUE)}
=============================================================================
