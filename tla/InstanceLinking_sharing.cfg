SPECIFICATION Spec
CONSTANTS
    a1 = a1
    a2 = a2
    h1 = h1
    h2 = h2
    m1 = m1
    Nil = Nil
    Addr <- MCAddr
    Handles <- MCHandles
    Mems <- MCMems
    Modules <- SharingModules
    Types <- MCTypes
    Bytes <- MCBytes
    InitMem <- MCInitMem
    Limits <- SharingLimits
    MaxLen = 2
    MaxBirths = 2
    RefGlobals = FALSE
SYMMETRY Symm
INVARIANTS
    TypeOK
    OneLiveOwner
    BindingExact
    ResolvedIsOwn
    AllOrNothing
    NoInternalError
PROPERTIES
    GuestTouchesOnlyItsTables
    ImplementsAtomicLinking
CHECK_DEADLOCK FALSE
