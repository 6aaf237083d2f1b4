SPECIFICATION Spec
CONSTANTS
    Targets = 3
    DataLen = 2
    Objects <- MCObjects
    MaxObjects = 3
    Preambles <- MCPreambles
    KeyLen = 3
    ObjLen = 3
    MaxChunk = 5
    Keep = 2
    RemainderCap = 8
    BufferCap = 13
    MaxResults = 2
    ByteModulus = 4
    TailLen = 2
INVARIANTS TypeOK ParsedPrefix
PROPERTY FeedSpec
