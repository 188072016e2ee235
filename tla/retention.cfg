\* One resource with one original, a purge, an invalidation, four days.
CONSTANTS
    Preview = Preview
    None = None
    Resources = {r1}
    Originals = {original}
    Purges = {p1}
    Invals = {i1}
    MinDays = 2
    Terms = {2, 3}
    Dates = {4}
    MaxDay = 4
    MaxOrders = 2
    MaxAttempts = 2
    MaxEvents = 1
SPECIFICATION Spec
INVARIANTS
    TypeOK
    PurgedForGood
PROPERTIES
    ErasedByRight
    NeverShortened
CHECK_DEADLOCK FALSE
