\* A replacement draft and one session.
CONSTANTS
    u1 = u1
    u2 = u2
    a = a
    b = b
    j1 = j1
    j2 = j2
    c1 = c1
    c2 = c2
    k1 = k1
    k2 = k2
    Nothing = Nothing
    Copied = Copied
    Uploads = {u1}
    Parts = {1}
    Bytes = {a, b}
    Jobs = {j1}
    Clients = {c1}
    Keys = {k1, k2}
    MaxAttempts = 2
    MaxRacing = 1
    MaxRevision = 4
    MaxEvents = 2
SYMMETRY Interchangeable
SPECIFICATION Spec
CHECK_DEADLOCK FALSE
INVARIANTS
    ReplacementAccepted
