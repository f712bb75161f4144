-------------------------- MODULE MCExclusiveCache --------------------------
(***************************************************************************)
(* Small instances of ExclusiveCache.  L1 and L2 have one set, L3 has two: *)
(* one bit of the block number, 0 for the blocks of Even and 1 for those   *)
(* of Odd, is its index.  Nothing else tells the blocks of a class apart,  *)
(* nor the values, so that permuting them is a symmetry.                   *)
(***************************************************************************)
EXTENDS ExclusiveCache, TLC

CONSTANTS Even, Odd, Ways1, Ways2, Ways3
Blocks == Even \cup Odd
AssociativityOf == <<Ways1, Ways2, Ways3>>
IndexBits == [l \in 1 .. 3 |->
                [b \in Blocks |-> IF l = 3 /\ b \in Odd THEN 1 ELSE 0]]
Symmetry == Permutations(Even) \cup Permutations(Odd) \cup Permutations(Value)
=============================================================================
