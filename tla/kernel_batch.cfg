CONSTANTS
    TopK = 2
    SEQ_LEN = 2
    BUFFER_NUM = 2
    HalfExact = 2
    Word = 64
    MaxBatch = 5
    MaxCoreNum = 4
    RowInputs <- TwoInputs
SPECIFICATION Spec
INVARIANTS
    TypeOK
    NoRowRace
    EveryRowExtended
PROPERTIES
    ImplementsMaskUpdate
    EveryBlockEnds
