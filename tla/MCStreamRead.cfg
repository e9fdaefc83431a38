CONSTANTS
    MaxReads = 3
    MaxBytes = 5
    BufLen = 2
    Burst = 2
SPECIFICATION FairSpec
INVARIANTS
    TypeOK
    EndAfterData
PROPERTIES
    NothingAfterEnd
    ToldWhileReading
    AllArrives
