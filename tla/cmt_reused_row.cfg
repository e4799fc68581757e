CONSTANTS
    TopK = 2
    ReqStride = 2
    MaxReqs = 2
    Req <- TwoReqs
    Tok <- Tokens2
    PadCounts <- AnyPadding
    PadDiscipline = FALSE
    Registered = TRUE
    RaiseAt <- BeforeHistory
    Junk = 99
SPECIFICATION Spec
INVARIANTS
    WantedTokensResident
