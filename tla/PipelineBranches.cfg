CONSTANTS
    Reg = {0, 1, 2}
    NumValues = 4
    Programs <- Branching
    Input = {2}
    InitialReg <- SomeReg
    InitialMem <- SomeMem
    Predictions <- NotTaken
SPECIFICATION Spec
CHECK_DEADLOCK FALSE
PROPERTY GoesToAnother
