CONSTANTS
    Entries = 3
    MaxReads = 5
    Clients = {"iter"}
    ClosesEarly = TRUE
SPECIFICATION Spec
INVARIANT NoReadOutlivesClose
