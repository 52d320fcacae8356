CONSTANTS
    Files = {"main", "a", "b"}
    Sources <- SomeSources
    MaxBytes = 2
    MaxWrites = 4
    Names = {"n1", "n2"}
    Questions = {"q1", "q2"}
    Similar <- TwoAreSimilar
    MaxChunks = 3
    MaxRecords = 3
    Documents <- SomeDocuments
    Surveys <- SomeSurveys
    NormOf <- SomeNorm

SPECIFICATION MCSpec
INVARIANTS
    ProjectsExactly
CHECK_DEADLOCK FALSE
