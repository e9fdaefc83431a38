CONSTANTS
    Watchers = {w1}
    Child = child
    PipeSize = 2
    Batch = 2
    MaxInts = 2
    Procs = {p1, p2}
    None = none
    Conns = {c1, c2}
    MaxEmfiles = 1
    MaxLost = 1
    MaxHandles = 3
SPECIFICATION FairSpec
INVARIANTS
    TypeOK
    MessagesSafe
    ExitPending
    OneAtATime
PROPERTIES
    AllTold
    AllOffered
    ShedForCause
