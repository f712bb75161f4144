--------------------------- MODULE MCSetAssocCache ---------------------------
(***************************************************************************)
(* SetAssocCache over block numbers of Width bits, which are split as the  *)
(* code splits an address, and the policies a run allows.                  *)
(***************************************************************************)
EXTENDS SetAssocCache

CONSTANTS BlockNumbers, Width, NumSets

Split == INSTANCE AddressSplit WITH AddrBits <- Width
Geometry == [cacheSize |-> NumSets * Associativity, blockSize |-> 1,
             blockNum |-> NumSets * Associativity,
             associativity |-> Associativity]
TagBits == [b \in BlockNumbers |-> b \div NumSets]
IndexBits == [b \in BlockNumbers |-> b % NumSets]
ASSUME SplitIsTheCodes ==
    /\ Split!isPolicyValid(Geometry)
    /\ TagBits = [b \in BlockNumbers |-> Split!TagOf(Geometry, b)]
    /\ IndexBits = [b \in BlockNumbers |-> Split!IdOf(Geometry, b)]

\* Every policy the constructor accepts, over addresses of six bits, splits
\* an address into parts that give the address back, and into a set of the
\* cache: what SplitAssumption takes for granted, and AddressesSplit proves.
Code == INSTANCE AddressSplit WITH AddrBits <- 6
Policies ==
    {p \in [cacheSize : {1, 2, 3, 4, 8, 16}, blockSize : {1, 2, 3, 4},
            blockNum : 1 .. 8, associativity : 1 .. 4] :
        Code!isPolicyValid(p) /\ Code!offsetBits(p) + Code!idBits(p) > 0}
ASSUME SplitIsExact ==
    /\ Policies # {}
    /\ \A p \in Policies, addr \in Code!Addr :
        /\ Code!IdOf(p, addr) < p.blockNum \div p.associativity
        /\ addr = Code!AddrOf(p, Code!TagOf(p, addr), Code!IdOf(p, addr))
                    + Code!OffsetOf(p, addr)

\* A load reads the whole block, but nothing of the last one of the address
\* space, where the end of the loop wraps to zero.
ASSUME LoadsAllButTheLastBlock ==
    \A p \in Policies, addr \in Code!Addr :
        Code!LoadedBytes(p, addr) =
            IF addr >= Code!Two[6] - p.blockSize THEN {}
            ELSE {i \in Code!Addr : i \div p.blockSize = addr \div p.blockSize}

AllPolicies == BOOLEAN \X BOOLEAN
=============================================================================
