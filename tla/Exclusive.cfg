CONSTANTS
    Even = {e0, e1, e2, e3}
    Odd = {o0}
    Ways1 = 2
    Ways2 = 1
    Ways3 = 1
    Block <- Blocks
    Offset = {0}
    Value = {v0, v1}
    Associativity <- AssociativityOf
    getId <- IndexBits
SPECIFICATION Spec
SYMMETRY Symmetry
INVARIANTS TypeOK Exclusive
PROPERTIES MovesKeepBytes LeavesFromFullL3 MemoryUnlessForgotten
