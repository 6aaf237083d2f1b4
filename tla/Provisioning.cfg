SPECIFICATION Spec
CONSTANTS
    Ssids = {"s1", "s2"}
    Passwords <- MCPasswords
    Pairs <- MCPairs
    EmptyLine = "empty"
    Yes = "yes"
    No = "no"
    None = "none"
    Fifo = 3
    MaxOut = 6
    MaxRuns = 3
    MaxOrphans = 2
INVARIANTS TypeOK SavedAsEntered AppPaired
PROPERTY SuccessAfterSave
