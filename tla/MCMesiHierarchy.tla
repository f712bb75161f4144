--------------------------- MODULE MCMesiHierarchy ---------------------------
(* MesiHierarchy with one set per level, so that every block competes with  *)
(* every other and blocks are interchangeable.                              *)
EXTENDS MesiHierarchy, TLC

CONSTANTS b1, b2, b3, b4, o1, o2, v0, v1

OneBlock == {b1}
ThreeBlocks == {b1, b2, b3}
FourBlocks == {b1, b2, b3, b4}
OneSet == [b \in Block |-> 0]

\* Blocks the programs use alike are interchangeable.
Symmetry == Permutations(Written) \cup Permutations(Block \ Written)
=============================================================================
