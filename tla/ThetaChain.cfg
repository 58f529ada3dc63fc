CONSTANTS
    Stack = 6
    Word = 64
    Pow2 <- MCPow2
    HalveFrom = 16
    MaxPoints = 1
    MaxRecorded = 17
    Lengths <- MCLengths
    PointCounts <- MCPointCounts
    ReuseCache = FALSE
SPECIFICATION FairSpec
INVARIANTS
    StackInv DepthInv KernelInv CheckedInv
    StagesInv CacheInv
PROPERTIES
    ImplementsIsogenyChain
    Termination
