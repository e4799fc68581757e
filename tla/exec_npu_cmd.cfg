CONSTANTS
    Tensor = {t1, t2}
    Block = {b1, b2}
    NoBlock = NoBlock
    Content = {0, 1}
    Junk = 0
    Op = {"aclnnAvgPool3d", "copy"}
    Function = {"aclnnAvgPool3d"}
    Result <- FlipOrCopy
    Arg = {"self"}
    Destroyable = {"self"}
    Signature <- Signatures
    QueueLimit = 1
    StreamLimit = 1
    MaxThrows = 2
SPECIFICATION Spec
INVARIANTS
    TypeOK
    HandlesMatchCalls
PROPERTIES
    ImplementsTensorProgram
    EveryCallEnds
