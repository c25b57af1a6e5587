SPECIFICATION Spec
CONSTANTS
    a1 = a1
    a2 = a2
    h1 = h1
    h2 = h2
    m1 = m1
    Nil = Nil
    Addr <- OneAddr
    Handles <- MCHandles
    Mems <- MCMems
    Modules <- GuestModules
    Types <- MCTypes
    Bytes <- MCBytes
    InitMem <- MCInitMem
    Limits <- MCLimits
    MaxLen = 2
    MaxBirths = 1
    RefGlobals = TRUE
SYMMETRY Symm
PROPERTIES
    TablesGrowWithinMaximum
CHECK_DEADLOCK FALSE
