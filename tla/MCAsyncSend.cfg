CONSTANTS
    Asyncs = {a1}
    Wq = wq
    Tasks = {k1, k2}
    Loop = loop
    Other = other
    Nobody = nobody
    MaxSends = 2
    MaxCollections = 1
SPECIFICATION FairSpec
INVARIANT TypeOK
PROPERTIES
    NoWriteAfterClose
    WakeupSpec
    NobodyStuck
