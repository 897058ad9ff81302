\* One connection and one token of each bucket: requests compete for both.
SPECIFICATION Spec
CONSTANTS
    r1 = r1
    r2 = r2
    c1 = c1
    None = None
    Fresh = Fresh
    Uuids <- MCUuids
    Jwts <- MCJwts
    Published <- MCPublished
    ApiKeys <- MCApiKeys
    Addresses <- MCAddresses
    Truncated <- MCTruncated
    Requests = {r1, r2}
    Conns = {c1}
    Chains <- MCChains
    Scenarios <- MCScenarios
    ValidIds <- MCValidIds
    LimitConfig <- MCLimitConfig
    LimitKeys <- MCLimitKeys
INVARIANTS
    AdmittedByOwnChain
    IdentitiesAreProven
    OneAccountOfEachRequest
    RejectedHoldNoConnection
    CommittedByItsHandler
    AuthenticatedAreCharged
PROPERTIES
    RequestsSettle
CHECK_DEADLOCK FALSE
