\* An answer job delivered by celery to two task slots, SQLite.
CONSTANTS
    j1 = j1
    p1 = p1
    p2 = p2
    w1 = w1
    w2 = w2
    c1 = c1
    c2 = c2
    NoJob = NoJob
    Jobs = {j1}
    Answers = {j1}
    Manual = {}
    Procs = {p1}
    Workers = {w1, w2}
    ProcOf <- Shared
    Clients = {c1}
    Celery = TRUE
    Serial = TRUE
    RetryDelays = 1
    MaxAsked = 2
    MaxUpsets = 1
    MaxModelCalls = 1
SYMMETRY EitherWorker
SPECIFICATION Spec
INVARIANTS
    TypeOK
    EffectsOnce
    RunMirrorsJob
PROPERTIES
    CancelStopsBilling
    KeepsPromise
