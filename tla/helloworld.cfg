CONSTANTS
    Word = 32
    Shapes <- SmallShapes
    BlockDim = 2
    TileNum = 2
    BUFFER_NUM = 2
SPECIFICATION Spec
INVARIANTS
    SumsInPlace
    OnlyRemainderLeftOut
PROPERTIES
    EveryBlockEnds
