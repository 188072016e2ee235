\* A published law, a published page that cites it, and a revision of the law that may cite the page, or be valid from tomorrow.
CONSTANTS
    law = law
    page = page
    guide = guide
    l1 = l1
    l2 = l2
    p1 = p1
    p2 = p2
    g1 = g1
    k1 = k1
    k2 = k2
    k3 = k3
    k4 = k4
    u1 = u1
    u2 = u2
    plain = plain
    later = later
    onL1 = onL1
    onL2 = onL2
    onP1 = onP1
    NoVersion = NoVersion
    NoUser = NoUser
    NoJob = NoJob
    NoContent = NoContent
    Empty = Empty
    Resources = {law, page}
    Versions = {l1, l2, p1}
    ResourceOf <- Shelf
    Users = {u1, u2}
    Contents = {Empty, plain, later, onL1, onP1}
    Cites <- Citing
    ValidFrom <- Dated
    Jobs = {k1, k2, k3}
    MaxDepth = 3
    MaxNumber = 2
    MaxDay = 1
    MaxEpoch = 3
    MaxUpsets = 0
    Stalls = FALSE
    Seeds <- LawAndPage
SPECIFICATION SeededSpec
CHECK_DEADLOCK FALSE
PROPERTIES
    NoWayBack
