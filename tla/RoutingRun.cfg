SPECIFICATION FairRunSpec
CONSTANTS
    Calls = {f1, f2, i1, p1}
    Forward = {f1, f2}
    Incoming = {i1}
    Review = {p1}
    Native = Native
    Inventory = Inventory
    Graph = Graph
    Limit = 1
    MaxAttempts = 2
INVARIANTS
    RunTypeOK
    SuccessIsComplete
    EveryRegionAccounted
    StatusTellsGraph
    NothingOutlivesRun
    CacheIsPerRun
PROPERTIES
    EveryCallEnds
CHECK_DEADLOCK FALSE
