SPECIFICATION FairSpec
CONSTANTS
    host = host
    f = f
    g = g
    Unlimited = Unlimited
    Imports <- MCImports
    Defined <- MCDefined
    Results <- MCResults
    Multi <- MCMulti
    ResultOf <- MCResultOf
    MaxCallDepth = 3
    DepthLimit = 4
    FuelLimit = 6
    HostLimit = 2
INVARIANTS
    TypeOK
    FramesBounded
    DepthIsStackHeight
    ResultsFitCaller
    HostCallsBounded
PROPERTY InvocationsEnd
