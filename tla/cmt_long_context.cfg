CONSTANTS
    TopK = 2
    ReqStride = 2
    MaxReqs = 1
    Req <- TwoReqs
    Tok <- Tokens3
    PadCounts <- AnyPadding
    PadDiscipline = TRUE
    Registered = TRUE
    RaiseAt <- BeforeHistory
    Junk = 99
SPECIFICATION Spec
INVARIANTS
    WantedTokensResident
