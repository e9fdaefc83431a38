CONSTANTS
    MaxWrites = 3
    MaxShutdowns = 2
    Length = 2
    Burst = 1
SPECIFICATION FairSpec
INVARIANTS
    TypeOK
    WireInOrder
    AnsweredInOrder
    ClosedMeansAnswered
PROPERTIES
    ShutdownIsLast
    RequestsSpec
    AllAnswered
