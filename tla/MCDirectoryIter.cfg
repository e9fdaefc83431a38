CONSTANTS
    Entries = 3
    MaxReads = 5
    Clients = {"iter"}
    ClosesEarly = FALSE
SPECIFICATION Spec
INVARIANT NamesEveryEntry
