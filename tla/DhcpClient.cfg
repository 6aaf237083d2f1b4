SPECIFICATION FairSpec
CONSTANTS
    Addrs = {a1, a2}
    None = none
    Leases <- MCLeases
    DiscoverTimeout = 1
    RequestTimeout = 3
    Retries = 2
    MinRenew = 2
    MinDelay = 2
    MaxDelay = 2
    Xids = {1, 2, 3, 4, 5}
    MaxAnswers = 2
INVARIANT TypeOK
PROPERTIES AddressHeld Binds
