------------------------------ MODULE MCHandles ------------------------------
(* Two variables of each kind, so that objects can be moved and overwritten; *)
(* two objects, of the same kind or not, are enough for a pair of handles,   *)
(* and three submissions for a hazard behind another.                        *)
EXTENDS Handles, TLC

CONSTANTS b1, b2, p1, p2, l1

TwoBuffers == {b1, b2}
TwoPipelines == {p1, p2}
OneList == {l1}

Symmetric == Permutations(TwoBuffers) \cup Permutations(TwoPipelines)
=============================================================================
