\* Three calls for one secret, any caller may be dropped.
SPECIFICATION FairSpec
CONSTANTS
    c1 = c1
    c2 = c2
    c3 = c3
    n1 = n1
    None = None
    Calls <- AllCalls
    Names = {n1}
    NameOf <- AllNames
    MayDrop = TRUE
INVARIANTS
    OneFetchPerSecret
    OneSemaphorePerSecret
    NoFetchOfFreshSecret
PROPERTIES
    CallsReturn
    KeepsPromise
CHECK_DEADLOCK FALSE
