SPECIFICATION CrashSpec

CONSTANTS
    g1 = g1
    g2 = g2
    g3 = g3
    main = main
    extra = extra
    Gens = {g1, g2, g3}
    Files = {main, extra}
    Pointer = Pointer
    Main = main
    PlanOf <- MixedPlans
    None = None
    Foreign = Foreign
    MaxCrashes = 3
    MaxFaults = 0

INVARIANTS
    TypeOK
    Repairable

PROPERTIES
    PublishesAtomically

CHECK_DEADLOCK FALSE
