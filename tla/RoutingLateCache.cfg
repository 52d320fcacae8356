SPECIFICATION RunSpec
CONSTANTS
    Calls = {f1, f2}
    Forward = {f1, f2}
    Incoming = {}
    Review = {}
    Native = Native
    Inventory = Inventory
    Graph = Graph
    Limit = 1
    MaxAttempts = 1
INVARIANT CacheNotUsedAfterClose
CHECK_DEADLOCK FALSE
