SPECIFICATION CollectorAlone
CONSTANTS
    b1 = b1  b2 = b2  b3 = b3  b4 = b4  n1 = n1  n2 = n2  n3 = n3  p1 = p1  p2 = p2
    Blob = {b1, b2, b3, b4}
    Action <- MCAction
    Publisher = {p1, p2}
    Sweeper = "sweeper"
    Publishes <- MCPublishes
    Refs <- MCRefs
    Free = Free
    CasLimit = 1  CacheLimit = 1
    Guarded = TRUE
    MaxSweeps = 2  MaxCancels = 1
    SizeOf <- MCSizeOf
    Capacity = 4
    MaxArriving = 2
    H1 <- MCH1  H2 <- MCH2
    HashWidth = 4  BitLen = 6  K = 2  MaxCrashes = 2
    Node = {n1, n2, n3}
    Score <- MCScore
    Factor = 2
    Views <- MCViews
    Router = {"r1"}
    MaxFaults = 2  MaxViews = 1  MaxWrites = 2  MaxRepairs = 1
    Items <- MCItems
    MaxBlobs = 2  MaxBytes = 3
    Keys <- MCKeys
    AcPrefix <- MCAcPrefix
    BadSymbol = 2
    MaxConcurrent = 2  MaxTasks = 3
    Names = {1, 2}
    FileBytes = {1, 2}
PROPERTY CommittedIsKept
CHECK_DEADLOCK FALSE
