CONSTANTS
    c1 = c1
    c2 = c2
    c3 = c3
    c4 = c4
    k1 = k1
    k2 = k2
    k3 = k3
    t1 = t1
    Contexts <- MCContexts
    Base = k1
    Loggers <- MCLoggers
    Tenants <- MCTenants
    None = None
SPECIFICATION Spec
SYMMETRY Symmetry
INVARIANTS
    TypeOK
    StaysInTrace
    OperationsNest
    PlainSpansJoin
    LoggersKeepToTheirRequests
