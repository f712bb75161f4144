CONSTANTS
    BlockNumbers = {1, 3, 5}
    Width = 3
    NumSets = 2
    Block <- BlockNumbers
    Offset = {0}
    Value = {0, 1}
    Associativity = 2
    WritePolicies <- AllPolicies
    getTag <- TagBits
    getId <- IndexBits
    CounterMod = 7
    MaxReference = 6
SPECIFICATION Spec
CHECK_DEADLOCK FALSE
INVARIANTS TypeOK OneWayPerBlock CleanIsCurrent
PROPERTIES MemoryUnlessUnwritten ReplacesLru
