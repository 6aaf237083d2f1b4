SPECIFICATION Spec
CONSTANTS
    Stations = {s1, s2}
    None = none
    Unindexed = {unknown}
    Empty = empty
    Row <- MCRow
    LedIdles = {1}
    MaxFetch = 2
INVARIANT NoPanic
