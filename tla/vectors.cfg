\* Two index jobs of two attempts, on SQLite and on a server; one change empties the version.
CONSTANTS
    Jobs = {1, 2}
    Invals = {i1}
    MaxAttempts = 2
    MaxEvents = 2
    Batches = 1
    Blank = {1}
SPECIFICATION FairSpec
CHECK_DEADLOCK FALSE
INVARIANTS
    TypeOK
    WinnerSurvives
    RemovedStaysGone
    
PROPERTIES
    CommittedIsCurrent
    ServedIsCurrent
    
