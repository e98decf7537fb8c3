CONSTANTS
    p1 = p1
    p2 = p2
    v1 = v1
    v2 = v2
    Goroutines <- MCGoroutines
    Builders <- MCBuilders
    Settings <- MCSettings
    Bodies <- MCBodies
    Timeouts <- MCTimeouts
    Methods <- MCMethods
    DefaultTimeout = 30
    Unset = Unset
    NoApi = NoApi
SPECIFICATION Spec
SYMMETRY Symmetry
INVARIANTS
    TypeOK
    BodiesAreSentAsBuilt
    OnlyInternalCallsWaitForEver
    NoBodyStaysOpen
PROPERTIES
    OnlyUnlabelledBuildersCrash
