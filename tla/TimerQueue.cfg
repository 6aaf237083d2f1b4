SPECIFICATION FairSpec
CONSTANTS
    T = {t1, t2}
    Timeouts <- MCTimeouts
    MaxTime = 2
    Never = 5
INVARIANTS
    TypeOK
    QueueSound
    WakesInTime
PROPERTY Fires
