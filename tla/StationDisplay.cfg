SPECIFICATION FairSpec
CONSTANTS
    Stations = {s1, s2}
    None = none
    Unindexed = {unknown}
    Empty = empty
    Row <- MCRow
    LedIdles = {0, 1, 2}
    MaxFetch = 2
INVARIANTS TypeOK LedsMatchStatus SameFetch
PROPERTIES NewestAtTouch DisplayFollows
