\* Two sessions, two requests at a time, a stall, crash, expiry or retry, both databases.
CONSTANTS
    u1 = u1
    u2 = u2
    a = a
    b = b
    j1 = j1
    j2 = j2
    c1 = c1
    c2 = c2
    k1 = k1
    k2 = k2
    Nothing = Nothing
    Copied = Copied
    Uploads = {u1, u2}
    Parts = {1}
    Bytes = {a, b}
    Jobs = {j1, j2}
    Clients = {c1, c2}
    Keys = {k1, k2}
    MaxAttempts = 2
    MaxRacing = 1
    MaxRevision = 4
    MaxEvents = 1
SYMMETRY Interchangeable
SPECIFICATION Spec
CHECK_DEADLOCK FALSE
INVARIANTS
    TypeOK
    OriginalAsNamed
    OneSession
    SealedHasScan
    OncePerKey
PROPERTIES
    PeopleFirst
