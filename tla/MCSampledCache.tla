--------------------------- MODULE MCSampledCache ---------------------------
(***************************************************************************)
(* A small instance of SampledCache with the hash functions of the code    *)
(* over words of Width bits.                                               *)
(***************************************************************************)
EXTENDS SampledHistory, FiniteSets, TLC

CONSTANTS Width, Even, Odd
Blocks == Even \cup Odd
IndexBits == [b \in Blocks |-> IF b \in Odd THEN 1 ELSE 0]
Symmetry == Permutations(Even) \cup Permutations(Odd) \cup Permutations(Value)

Hash == INSTANCE SkewedHash
CodeHash == INSTANCE SkewedHash WITH Width <- 12
AllOnes == 2 ^ (Width + 3) - 1
\* The two pcs share no counter at this width, as most pairs do not at the
\* real one.  Of two that did, neither could ever be found dead: the access
\* that evicts a block of one takes from the shared counter what it adds.
HashOf == << (4 :> 6) @@ (12 :> 5) @@ (63 :> 2),
             (4 :> 2) @@ (12 :> 0) @@ (63 :> 2),
             (4 :> 1) @@ (12 :> 4) @@ (63 :> 2) >>
ASSUME HashIsTheCodes ==
    /\ HashOf[1] = [q \in PC \cup {NoPC} |-> Hash!predictorhash1(q)]
    /\ HashOf[2] = [q \in PC \cup {NoPC} |-> Hash!predictorhash2(q)]
    /\ HashOf[3] = [q \in PC \cup {NoPC} |-> Hash!predictorhash3(q)]

\* At the width of the code the two shifts undo each other, no hash reaches
\* past its table (the exit() behind it is dead code), and two pcs share at
\* most one of their three counters.
ASSUME ShiftsAreInverse ==
    \A x \in CodeHash!Word : CodeHash!reverseskewh(CodeHash!skewh(x)) = x
ASSUME HashesAreSkewed ==
    LET h1 == [q \in CodeHash!PartialPC |-> CodeHash!predictorhash1(q)]
        h2 == [q \in CodeHash!PartialPC |-> CodeHash!predictorhash2(q)]
        h3 == [q \in CodeHash!PartialPC |-> CodeHash!predictorhash3(q)]
        Pairs(f, g) == Cardinality({<<f[q], g[q]>> : q \in CodeHash!PartialPC})
    IN  /\ \A q \in CodeHash!PartialPC : {h1[q], h2[q], h3[q]} \subseteq CodeHash!Word
        /\ {Pairs(h1, h2), Pairs(h1, h3), Pairs(h2, h3)} = {2 ^ 15}
=============================================================================
