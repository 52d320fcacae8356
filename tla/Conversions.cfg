CONSTANTS
    Batches = {"b"}
    SourcesOf <- ThreeSources
    Limit = 2
    CallsNeeded = 1
    Closers = {"c"}
    MaxPages = 2
    PageBound = 3
    LargeAnswers = TRUE
    MaxInterrupts = 2
    MaxChunks = 2
    Surveys = {"s1", "s2"}
    Units = {2}
    Custom = TRUE
    Runs = {"r1", "r2", "long"}
    InputsOf <- RunsOfInputs
    Identities = {"s1", "s2"}
    MaxDeaths = 1
SPECIFICATION MCSpec
INVARIANTS
    PdfAnswerIsTrue
    ExtractionTellsAll
    BatchTellsAll
PROPERTIES
    ClientKeepsItsWord
    EverythingEnds
CHECK_DEADLOCK FALSE
