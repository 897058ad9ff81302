\* Three calls of one key, every caller may be dropped, both modes.
SPECIFICATION FairSpec
CONSTANTS
    c1 = c1
    c2 = c2
    c3 = c3
    k1 = k1
    NoCall = NoCall
    Calls <- OneKeyCalls
    Keys = {k1}
    KeyOf <- OneKeyOf
    MaxVersion = 1
    MayDrop = TRUE
INVARIANTS
    OneLeaderPerKey
PROPERTIES
    KeepsPromise
    NoOlderLoadOverNewer
    RegisteredFollowersWake
    CallsSettle
CHECK_DEADLOCK FALSE
