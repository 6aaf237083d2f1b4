SPECIFICATION FairSpec
CONSTANTS
    TxMax = 3
    TxMin = 0
    Successes = 2
    RetryGap = 1
    SuccessGap = 2
    ConnectTicks = 2
    DhcpTicks = 1
    MirrorTicks = 0
    FetchTicks = 1
    ReportTicks = 1
    BootGrace = 2
    ButtonWindow = 1
    LeaseT1s <- MCLeases
    MinT1 = 1
    Mirror = TRUE
    LogServer = TRUE
    MaxAge = 12
    MaxOkRun = 7
INVARIANTS
    TypeOK
    NapSafe
    TxFollowsHistory
    StatusTracksRadio
    LeaseSound
PROPERTIES
    RestingSamples
    GateSpec
    CyclesForever
