CONSTANTS
    Width = 3
    Even = {e0, e1, e2, e3}
    Odd = {}
    PC = {4, 12}
    NoPC <- AllOnes
    Associativity = 1
    SamplerAssociativity = 3
    samplesize = 2
    Block <- Blocks
    Offset = {0}
    Value = {v0, v1}
    getId <- IndexBits
    predictorhash <- HashOf
SPECIFICATION HistorySpec
SYMMETRY Symmetry
INVARIANTS TypeOK OnePCPerBlock DeadOnesWereEvicted
PROPERTIES VerdictsStick BypassIsTransparent
