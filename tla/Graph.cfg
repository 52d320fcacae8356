CONSTANTS
    Ids        = {"s1", "s2"}
    Units      = {"p1", "p2"}
    Regions    = {"r1", "r2"}
    MaxChanges = 2
    Blocks <- Doc
    Natives <- SomeNatives
    Replies <- SomeReplies
    MaxBatches = 2
    MaxQuote = 2
    Items = {1, 2, 3, 4, 5}
    Section <- SomeSections
    Within <- SomeGroups
    Entry = {}
    Conditions = {"p", "q"}
    Observations <- AllObservations
    Activations <- SomeActivations
    Applicable <- SomeApplicable
    MaxObserved = 4
    MaxNotes = 2
    MaxDecisions = 3
    Nodes <- SomeNodes
    NodeKind <- NodeKinds
    Hierarchies <- SomeContainment
    PossibleEdges <- SomeTransitions
    MaxEdges = 4
    Categories = {"a", "b", "c"}
    Branches <- SomeBranches
    MaxBranches = 3
    Vertices <- SomeVertices
    Edges <- SomeGraphs
    Starts = {1, 3}

SPECIFICATION MCSpec
INVARIANTS
    ResultIsOfTheCall
    NothingUnboundIsSent
    StatusIsAsDocumented
    InventoryIsAsked
    ClaimsAreRecorded
    ReconciliationIsFair
    ReviewIsInForce
    ReportsAreTrue
PROPERTIES
    TraversalIsExact
CHECK_DEADLOCK FALSE
