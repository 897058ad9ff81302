\* A dropped leader leaves its entry behind.
SPECIFICATION Spec
CONSTANTS
    c1 = c1
    c2 = c2
    c3 = c3
    k1 = k1
    NoCall = NoCall
    Calls <- OneKeyCalls
    Keys = {k1}
    KeyOf <- OneKeyOf
    MaxVersion = 0
    MayDrop = TRUE
INVARIANT
    NoWaitOnDroppedLeader
CHECK_DEADLOCK FALSE
