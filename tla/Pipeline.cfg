CONSTANTS
    Reg = {0, 1, 2}
    NumValues = 5
    Programs <- OrderlyPrograms
    Input = {2, 3}
    InitialReg <- SomeReg
    InitialMem <- SomeMem
    Predictions <- TakenUnlessSpaced
SPECIFICATION Spec
CHECK_DEADLOCK FALSE
INVARIANT TypeOK
PROPERTIES ExecutesProgram KeepsExecuting StallsAreShort
