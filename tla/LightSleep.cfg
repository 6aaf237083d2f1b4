SPECIFICATION Spec
CONSTANTS
    MinNap = 2
    MaxNap = 4
    Lead = 1
    BootGrace = 2
    ButtonWindow = 2
    CalSpan = 1
    Unit = 10
    Speed = 8
    CalMin = 8
    CalMax = 12
    Delays <- MCDelays
    MaxDeadlines = 2
    MaxTime = 12
INVARIANTS
    TypeOK
    ClockBound
PROPERTIES
    DeadlinesKept
    AttachWindow
CHECK_DEADLOCK FALSE
