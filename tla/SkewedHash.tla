----------------------------- MODULE SkewedHash -----------------------------
(***************************************************************************)
(* The three hash functions of the dead-block predictor, over words of     *)
(* Width bits (12 in the code) and program counters of Width + 3 bits.     *)
(***************************************************************************)
EXTENDS Integers, Bitwise

CONSTANT Width    \* at least 3

Word == 0 .. 2 ^ Width - 1
PartialPC == 0 .. 2 ^ (Width + 3) - 1
Bit(x, n) == (x \div 2 ^ n) % 2

\* One step of a feedback shift register to the right, and one to the left.
skewh(x) == 2 ^ (Width - 1) * ((Bit(x, 0) + Bit(x, Width - 1)) % 2) + x \div 2
reverseskewh(x) ==
    ((Bit(x, Width - 1) + Bit(x, Width - 2)) % 2) + ((2 * x) % 2 ^ Width)

A1(pc) == pc % 2 ^ Width
A2(pc) == pc \div 8
predictorhash1(pc) == (skewh(A1(pc)) ^^ reverseskewh(A2(pc))) ^^ A2(pc)
predictorhash2(pc) == (skewh(A1(pc)) ^^ reverseskewh(A2(pc))) ^^ A1(pc)
predictorhash3(pc) == (reverseskewh(A1(pc)) ^^ skewh(A2(pc))) ^^ A2(pc)
=============================================================================
