CONSTANTS
    c1 = c1
    c2 = c2
    g1 = g1
    bad = bad
    Callers <- MCCallers
    Grants <- MCGrants
    Malformed <- MCMalformed
    TTL = 1
    Grace = 1
    QueryTimeout = 1
    MaxTime = 3
    MinHold = 1
    NoEntry = NoEntry
    NoCaller = NoCaller
SPECIFICATION Spec
SYMMETRY CallerSymmetry
INVARIANTS
    TypeOK
    VerdictJustified
    SingleFlight
PROPERTIES
    CacheMovesForward
    EvictionSparesUsable
    QueriesAreNeeded
    KeepsPromise
