SPECIFICATION Spec
CONSTANTS
    s1 = s1
    s2 = s2
    w1 = w1
    w2 = w2
    None = None
    Sales = {s1, s2}
    SideOf <- SideOfSales
    Titles = {"plain", "wanted", "lot"}
    Keyword <- KeywordOf
    Watches <- WatchesOf
    FromDb = {TRUE, FALSE}
    WtbEnabled = TRUE
    PageSize = 1
    MaxPages = 2
    AiCap = 1
    BatchSize = 1
    MaxChanges = 3
    MaxRuns = 3
    MaxFaults = 1
INVARIANTS
    TypeOK
    ChangedAreTested
PROPERTIES
    ImplementsBoard
CHECK_DEADLOCK FALSE
