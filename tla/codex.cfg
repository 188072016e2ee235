\* One login, three identity jobs, two threads, a fault.
CONSTANTS
    Nobody = Nobody
    Jobs = {1, 2, 3}
    Calls = {c1, c2}
    MaxWaiting = 1
    MaxAsked = 3
    MaxRev = 2
    MaxGen = 2
    Faults = {"rpc", "cancel", "retry", "close", "crash", "reload", "timeout"}
    MaxFaults = 1
SPECIFICATION FairSpec
INVARIANTS
    TypeOK
    TokensKept
    NoStrayLogin
    OneTextChild
PROPERTIES
    CallsEnd
CHECK_DEADLOCK FALSE
