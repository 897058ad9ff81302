\* Three plugins, two requests, both signals, with and without TLS.
SPECIFICATION FairSpec
CONSTANTS
    r1 = r1
    r2 = r2
    N = 3
    Requests = {r1, r2}
    Signals = {"ctrl_c", "sigterm"}
    MayStop = TRUE
INVARIANTS
    ShutdownInReverse
    NothingLeftPrepared
    ServesOnlyReadyPlugins
PROPERTIES
    StopsUnlessARequestHangs
CHECK_DEADLOCK FALSE
