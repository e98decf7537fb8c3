CONSTANTS
    c1 = c1
    c2 = c2
    g1 = g1
    bad = bad
    Callers <- MCCallers
    Grants <- MCGrants
    Malformed <- MCMalformed
    TTL = 1
    Grace = 1
    QueryTimeout = 1
    Tokens <- MCTokens
    Endpoints <- MCEndpoints
    PublicKeys <- MCPublicKeys
    Issuer = "us"
    Audience = "ordering-api"
    Leeway = 1
    NoToken = NoToken
    NoGrant = NoGrant
    NoExpiry = NoExpiry
    MaxTime = 3
    MinHold = 2
    NoEntry = NoEntry
    NoCaller = NoCaller
SPECIFICATION ServiceSpec
SYMMETRY CallerSymmetry
INVARIANTS
    RequestsTypeOK
    HandlersAreEntitled
    RefusalsNameTheFault
    GraceIsForOutages
PROPERTIES
    ImplementsAuthorize
