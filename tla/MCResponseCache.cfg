\* Two memcached servers, times to live of half a second and one and a half.
SPECIFICATION Spec
CONSTANTS
    r1 = r1
    r2 = r2
    None = None
    Requests = {r1, r2}
    Wires <- MCWires
    Policies <- MCPolicies
    Outcomes <- MCOutcomes
    Backends = {"memory", "redis", "memcached"}
    Servers = 2
    KeyHash <- ByMethod
    StableHash <- MCStableHash
    LongPaths = {"long"}
    MaxClock = 2
INVARIANTS
    HitsAreOwnAndFresh
    OwnRepliesUnlessDropped
PROPERTIES
    AnsweredDespiteFaults
CHECK_DEADLOCK FALSE
