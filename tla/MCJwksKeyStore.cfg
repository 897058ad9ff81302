\* Three callers, one rotation, any caller may be dropped.
SPECIFICATION FairSpec
CONSTANTS
    c1 = c1
    c2 = c2
    c3 = c3
    old = old
    new = new
    Nobody = Nobody
    Calls <- AllCalls
    KidOf <- KidsAsked
    Published <- KeysPublished
    Rotations = 1
    MayDrop = TRUE
INVARIANTS
    JoinedKeysAreCached
    OneAttendedFetch
    FetchOnlyIfStale
PROPERTIES
    KeysRegressOnlyAfterDrop
    CallsAnswered
    SpawnedFetchLands
CHECK_DEADLOCK FALSE
