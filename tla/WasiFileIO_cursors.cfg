SPECIFICATION Spec
CONSTANTS
    W = 3
    MemSize = 3
    Images <- CursorImages
    Files = {f1}
    Fds = {3, 4}
    Streams = {}
    RightSets <- AnyRights
    Initial <- ShortFile
    Stdin <- NoStdin
    Ptrs = {0}
    ResultPtrs = {0}
    Counts = {1}
    Offsets = {0, 2}
    Deltas <- MCDeltas
    MaxIovs = 1
    MaxBytes = 2
    MaxFileBytes = 2
    MaxOut = 0
    Closed = Closed
INVARIANTS TypeOK SizeBounded
PROPERTIES AppendKeepsContents PollAgreesWithRead ImplementsPosixFile
