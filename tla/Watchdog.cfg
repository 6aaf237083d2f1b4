SPECIFICATION Spec
CONSTANTS
    PollEvery = 1
    FeedEvery = 3
    MaxBlock = 1
    RwdtTimeout = 6
    FetchStall = 7
    CountModulus = 3
INVARIANTS
    TypeOK
    TrueBlame
    BootsCounted
    DeliveredOrPending
    StallsEnd
PROPERTY NoFalseReset
