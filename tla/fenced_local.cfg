\* An index job in the thread pools of two processes, SQLite, with fairness.
CONSTANTS
    j1 = j1
    p1 = p1
    p2 = p2
    w1 = w1
    w2 = w2
    c1 = c1
    c2 = c2
    NoJob = NoJob
    Jobs = {j1}
    Answers = {}
    Manual = {}
    Procs = {p1, p2}
    Workers = {w1, w2}
    ProcOf <- TwoProcs
    Clients = {c1}
    Celery = FALSE
    Serial = TRUE
    RetryDelays = 1
    MaxAsked = 2
    MaxUpsets = 1
    MaxModelCalls = 1
SPECIFICATION FairSpec
PROPERTIES
    Settles
