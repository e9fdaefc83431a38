CONSTANTS
    r1 = r1
    w1 = w1
    w2 = w2
    Closer = closer
    Readers = {r1}
    Writers = {}
    Size = 3
    Chunk = 2
    Length <- MCLength
    Offsets <- MCWhole
SPECIFICATION Spec
INVARIANT ReadsEntireFile
