\* A manual-retry answer, two requests, two workers and a failure under READ COMMITTED.
CONSTANTS
    j1 = j1
    p1 = p1
    p2 = p2
    w1 = w1
    w2 = w2
    c1 = c1
    c2 = c2
    NoJob = NoJob
    Jobs = {j1}
    Answers = {j1}
    Manual = {j1}
    Procs = {p1}
    Workers = {w1, w2}
    ProcOf <- Shared
    Clients = {c1, c2}
    Celery = TRUE
    Serial = FALSE
    RetryDelays = 0
    MaxAsked = 2
    MaxUpsets = 1
    MaxModelCalls = 2
SYMMETRY EitherWorker
SPECIFICATION Spec
INVARIANTS
    NoSilentReplay
    TokensUnique
PROPERTIES
    CommitsByNewest
