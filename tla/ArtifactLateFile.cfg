SPECIFICATION FairSpec

CONSTANTS
    g1 = g1
    g2 = g2
    g3 = g3
    main = main
    extra = extra
    Gens = {g1, g2}
    Files = {main}
    Pointer = Pointer
    Main = main
    PlanOf <- OwnPlans
    None = None
    Foreign = Foreign
    MaxCrashes = 0
    MaxFaults = 0

PROPERTIES
    NothingReplacedUnasked

CHECK_DEADLOCK FALSE
