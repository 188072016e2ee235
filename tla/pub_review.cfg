\* One page, two versions of which the second may cite the first, two people, two publications and a failure.
CONSTANTS
    law = law
    page = page
    guide = guide
    l1 = l1
    l2 = l2
    p1 = p1
    p2 = p2
    g1 = g1
    k1 = k1
    k2 = k2
    k3 = k3
    k4 = k4
    u1 = u1
    u2 = u2
    plain = plain
    later = later
    onL1 = onL1
    onL2 = onL2
    onP1 = onP1
    NoVersion = NoVersion
    NoUser = NoUser
    NoJob = NoJob
    NoContent = NoContent
    Empty = Empty
    Resources = {page}
    Versions = {p1, p2}
    ResourceOf <- Shelf
    Users = {u1, u2}
    Contents = {Empty, plain, onP1}
    Cites <- Citing
    ValidFrom <- Dated
    Jobs = {k1, k2}
    MaxDepth = 3
    MaxNumber = 2
    MaxDay = 0
    MaxEpoch = 1
    MaxUpsets = 1
    Stalls = TRUE
    Seeds <- Nothing
SPECIFICATION Spec
CHECK_DEADLOCK FALSE
SYMMETRY Anybody
INVARIANTS
    TypeOK
    ActiveIsLatest
    ReleasedOnce
    ReleasedAsApproved
    ReleasedGrounded
PROPERTIES
    KeepsPromise
