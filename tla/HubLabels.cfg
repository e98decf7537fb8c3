CONSTANTS
    p1 = p1
    p2 = p2
    r1 = r1
    r2 = r2
    n1 = n1
    n2 = n2
    t1 = t1
    Goroutines <- MCGoroutines
    Requests <- MCRequests
    Operations <- MCOperations
    Tenants <- MCTenants
    Current = Current
    None = None
SPECIFICATION OverlapSpec
SYMMETRY Symmetry
INVARIANTS
    LabelsAreOwn
