SPECIFICATION Spec
CONSTANTS
    a = a  b = b  Nil = Nil
    Names <- TwoNames
    Unsafe <- DotDot
    GuestPaths <- Nested
    Preopens <- OnePreopen
    WritablePre <- Writable3
    Mounted <- OneFile
    DirRights <- AllDir
    FileRights <- SomeFile
    Payloads = {"written"}
    Times = {}
    MaxPath = 2
    MaxEntries = 3
    MaxOpen = 1
    MaxInode = 3
INVARIANTS OneEntryPerName
CHECK_DEADLOCK FALSE
