SPECIFICATION Spec
CONSTANTS
    Ssids = {"s1", "s2"}
    Passwords <- MCPasswords
    Pairs <- MCPairs
    EmptyLine = "empty"
    Yes = "yes"
    No = "no"
    None = "none"
    Fifo = 3
    MaxOut = 4
    MaxRuns = 2
    MaxOrphans = 1
PROPERTY ResumesAfterError
