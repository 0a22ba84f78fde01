SPECIFICATION FairSpec
CONSTANTS
    None = None
    Tools = {"flow", "hunt"}
    Modes = {"real", "mock"}
    Sources <- TwoSources
    MaxRows = 2
    MaxBytes = 3
    Limits = {0, 1}
    Starts <- BeforeTheTop
    Sizes = {1, 2, 4}
    ServerCap = 100
    ReportsTotal = {TRUE, FALSE}
    CatalogFails = TRUE
    MaxTable = 3
    MaxCursor = 4
    MaxFailures = 1
INVARIANTS NothingSkipped 
PROPERTIES NoRowTwice PagingEnds
