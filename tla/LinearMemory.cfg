SPECIFICATION Spec
CONSTANTS
    Base = 2
    I32Bytes = 2
    V128Bytes = 3
    W = 4
    PageSize = 2
    MaxPages = 2
    Mems = {m1, m2}
    Insts = {i1, i2}
    Modules <- MCModules
    Limits = {1, 2}
    HandleTypes <- MCHandleTypes
    Addresses = {0, 1, 15}
    Displacements = {0, 1, 15}
    Values = {13}
    Deltas = {1, 4}
    None = None
INVARIANTS TypeOK LimitsHold BoundsExact StoreThenLoad
PROPERTIES GrowthKeepsContents OwnedConfined
SYMMETRY Symmetry
