SPECIFICATION Spec
CONSTANTS
    a = a  b = b  Nil = Nil
    Names <- TwoNames
    Unsafe <- DotDot
    GuestPaths <- FewPaths
    Preopens <- TwoPreopens
    WritablePre <- Writable3
    Mounted <- ReadOnlyInEach
    DirRights <- AllDir
    FileRights <- WriteOnly
    Payloads = {"empty"}
    Times = {1}
    MaxPath = 2
    MaxEntries = 3
    MaxOpen = 2
    MaxInode = 4
INVARIANTS TypeOK DescriptorsCoherent ReadOnlyFrozen TreeShape LinkCountExact
PROPERTIES InodeIdentity CapabilitiesOnlyShrink
CHECK_DEADLOCK FALSE
