CONSTANTS
    TopK = 2
    ReqStride = 2
    MaxReqs = 1
    Req <- TwoReqs
    Tok <- Tokens2
    PadCounts <- AnyPadding
    PadDiscipline = TRUE
    Registered = FALSE
    RaiseAt <- BeforeHistory
    Junk = 99
SPECIFICATION Spec
INVARIANTS
    SlotsSuffice
