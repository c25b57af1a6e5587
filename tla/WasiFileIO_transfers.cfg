SPECIFICATION Spec
CONSTANTS
    W = 8
    MemSize = 6
    Images <- OverlapImages
    Files = {f1}
    Fds = {3}
    Streams = {0, 1}
    RightSets <- TransferRights
    Initial <- OneFile
    Stdin <- MCStdin
    Ptrs = {0, 5}
    ResultPtrs = {3, 6}
    Counts = {1, 2}
    Offsets = {0, 1}
    Deltas = {0}
    MaxIovs = 2
    MaxBytes = 3
    MaxFileBytes = 2
    MaxOut = 0
    Closed = Closed
PROPERTIES FailsClosed ReadDelivers WriteDelivers
