SPECIFICATION FairSpec

CONSTANTS
    g1 = g1
    g2 = g2
    g3 = g3
    main = main
    extra = extra
    Gens = {g1, g2, g3}
    Files = {main, extra}
    Pointer = Pointer
    Main = main
    PlanOf <- MixedPlans
    None = None
    Foreign = Foreign
    MaxCrashes = 1
    MaxFaults = 2

INVARIANTS
    OnlyCommittedReferences
    AbandonedStaysHidden

PROPERTIES
    SuccessIsPublished
    RollbackRestores
    ForeignFilesKept
    WriteEnds
    RecoveryRepairs

CHECK_DEADLOCK FALSE
