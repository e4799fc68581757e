CONSTANTS
    TopK = 3
    SEQ_LEN = 2
    BUFFER_NUM = 2
    HalfExact = 2
    Word = 64
    MaxBatch = 2
    MaxCoreNum = 1
    RowInputs <- TwoInputs
SPECIFICATION Spec
INVARIANTS
    EveryRowExtended
