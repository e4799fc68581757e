CONSTANTS
    TopK = 2
    ReqStride = 2
    MaxReqs = 2
    Req <- TwoReqs
    Tok <- Tokens2
    PadCounts <- AnyPadding
    PadDiscipline = TRUE
    Registered = TRUE
    RaiseAt <- BeforeHistory
    Junk = 99
SPECIFICATION Spec
INVARIANTS
    TypeOK
    WantedTokensResident
    HistoryMirrorsBuffer
    SlotsSuffice
    EachTokenHasOneSlot
PROPERTIES
    ImplementsSlotCache
