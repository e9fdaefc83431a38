CONSTANTS
    Entries = 3
    MaxReads = 5
    Clients = {"reads", "iter"}
    ClosesEarly = FALSE
SPECIFICATION FairSpec
INVARIANTS
    TypeOK
    NamesKept
    OnlyCleanupMisuses
PROPERTIES
    ListingSpec
    IterRunsToEnd
