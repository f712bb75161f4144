CONSTANTS
    b1 = b1
    b2 = b2
    b3 = b3
    b4 = b4
    o1 = o1
    o2 = o2
    v0 = v0
    v1 = v1
    Block <- ThreeBlocks
    Written <- ThreeBlocks
    Offset = {o1}
    Value = {v0, v1}
    Zero = v0
    NoVictim = NoVictim
    L1Ways = 2
    L2Ways = 2
    L1Set <- OneSet
    L2Set <- OneSet
SPECIFICATION Spec
CHECK_DEADLOCK FALSE
SYMMETRY Symmetry
INVARIANT CoresAgree
