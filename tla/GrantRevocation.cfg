CONSTANTS
    Callers = {c1}
    Grants = {g1}
    Malformed = {}
    TTL = 1
    Grace = 0
    QueryTimeout = 1
    MaxTime = 3
    MinHold = 1
    NoEntry = NoEntry
    NoCaller = NoCaller
SPECIFICATION Spec
INVARIANTS
    RevokedWithinTTL
