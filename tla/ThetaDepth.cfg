CONSTANTS
    Stack = 4
    Word = 16
    Pow2 <- MCPow2
    HalveFrom = 16
    MaxPoints = 1
    MaxRecorded = 17
    Lengths <- MCAllLengths
    PointCounts = {0}
    ReuseCache = FALSE
SPECIFICATION FairSpec
PROPERTIES
    DepthDecided
