SPECIFICATION LiveSpec
CONSTANTS
    Calls = {c1, c2, c3}
    Limit = 2
    MaxAttempts = 3
    Sleepers = {c1, c2}
INVARIANTS
    TypeOK
    SlotsConserved
    GivesUpWhenSpent
PROPERTY OthersEnd
CHECK_DEADLOCK FALSE
