SPECIFICATION Spec
CONSTANTS
    Targets = 3
    DataLen = 3
    Objects <- MCFewObjects
    MaxObjects = 3
    Preambles <- MCPreambles
    KeyLen = 3
    ObjLen = 2
    MaxChunk = 7
    Keep = 2
    RemainderCap = 9
    BufferCap = 16
    MaxResults = 2
    ByteModulus = 4
    TailLen = 2
INVARIANT PublishedExact
