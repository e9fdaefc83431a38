CONSTANTS
    r1 = r1
    w1 = w1
    w2 = w2
    Closer = closer
    Readers = {r1}
    Writers = {w1, w2}
    Size = 0
    Chunk = 2
    Length <- MCLength
    Offsets <- MCOffsets
SPECIFICATION FairSpec
INVARIANTS
    TypeOK
    ReadsRight
    WritesKept
PROPERTIES
    RequestsSpec
    AllAnswered
