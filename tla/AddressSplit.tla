---------------------------- MODULE AddressSplit ----------------------------
(***************************************************************************)
(* How a cache takes an address of AddrBits bits (32) apart (getTag,       *)
(* getId, getOffset) and puts it together (getAddr), and which sizes its   *)
(* constructor accepts.  p is a Cache::Policy.                             *)
(***************************************************************************)
EXTENDS Integers

CONSTANT AddrBits     \* at least 1

\* The powers of two, as a function of which their laws can be proved.
Two[k \in 0 .. AddrBits] == IF k = 0 THEN 1 ELSE 2 * Two[k - 1]
Addr == 0 .. Two[AddrBits] - 1

isPowerOfTwo(n) == \E k \in 0 .. AddrBits - 1 : n = Two[k]
log2i(val) ==
    CHOOSE k \in 0 .. AddrBits - 1 : Two[k] <= val /\ val < Two[k + 1]

\* The product is one of AddrBits bits.  A policy with no ways divides by
\* zero before it can be refused.
isPolicyValid(p) ==
    /\ isPowerOfTwo(p.cacheSize) /\ isPowerOfTwo(p.blockSize)
    /\ p.cacheSize % p.blockSize = 0
    /\ (p.blockNum * p.blockSize) % Two[AddrBits] = p.cacheSize
    /\ p.blockNum % p.associativity = 0

offsetBits(p) == log2i(p.blockSize)
idBits(p) == log2i(p.blockNum \div p.associativity)

\* The mask of the tag is only defined when some bit is not in the tag.
TagOf(p, addr) ==
    (addr \div Two[offsetBits(p) + idBits(p)])
        % Two[AddrBits - offsetBits(p) - idBits(p)]
IdOf(p, addr) == (addr \div Two[offsetBits(p)]) % Two[idBits(p)]
OffsetOf(p, addr) == addr % Two[offsetBits(p)]
AddrOf(p, tag, id) ==
    (tag * Two[offsetBits(p) + idBits(p)] + id * Two[offsetBits(p)])
        % Two[AddrBits]

\* The bytes that the loop of loadBlockFromLowerLevel reads: its end is
\* computed in AddrBits bits.
LoadedBytes(p, addr) ==
    LET begin == addr - OffsetOf(p, addr)
    IN  {i \in Addr : begin <= i /\ i < (begin + p.blockSize) % Two[AddrBits]}
=============================================================================
