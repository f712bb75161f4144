CONSTANTS
    PC = {0, 1, 2}
    None = None
    NoPC = None
    Backward = {1}
    Programs <- Loops
    PRED_BUF_SIZE = 2
    perceptronnumber = 2
    historylength = 3
    HistoryKept = 2
    threshold = 4
    WeightMod = 32
SPECIFICATION Spec
INVARIANTS TypeOK WeightsStaySmall
PROPERTIES PerceptronLearns TrainingApproaches BufferForgives OvertrainsBehindBranches
