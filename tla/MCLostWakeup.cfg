\* No caller goes away: a follower still registers too late.
SPECIFICATION Spec
CONSTANTS
    c1 = c1
    c2 = c2
    c3 = c3
    k1 = k1
    NoCall = NoCall
    Calls <- OneKeyCalls
    Keys = {k1}
    KeyOf <- OneKeyOf
    MaxVersion = 0
    MayDrop = FALSE
INVARIANT
    NoLostWakeup
CHECK_DEADLOCK FALSE
