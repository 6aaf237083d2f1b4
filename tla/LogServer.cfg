SPECIFICATION LogSpec
CONSTANTS
    Keep = 2
    MaxLines = 3
    MaxReports = 8
    MaxFaults = 4
INVARIANTS LogTypeOK LossBounded MemoryCoversFile
CHECK_DEADLOCK FALSE
