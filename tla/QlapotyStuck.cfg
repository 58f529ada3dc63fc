CONSTANTS
    F = 4
    LimbBits = 3
    Bases <- MCBases
    Scalars <- MCScalars
    Widths <- MCWidths
    Long = 2
    Exponents = {1, 2, 3, 4, 5, 6}
    LeafBits = 2
    MaxBits = 6
    TateBases <- MCTateBases
    Subgroups = {1, 2, 3, 4}
    RADIX = 5
    WORD = 8
    WINDOW_SIZE = 3
    SLIDING <- MCSliding
    SHORT = 6
    JACOBI_BASES <- MCJacobiBases
    SPLIT <- MCSplit
    BATCHES <- MCBatches
    SMALL = 8
    FREE_ROUNDS = 24
    Moduli <- MCModuli
    Questions = {}
    Char = 31
    Norms = {3, 5, 7}
    OddNorms = {3, 5, 9, 15, 25}
    Coefficients = {0, 1, 2, 3, 4}
    Splits <- MCSplits
    Represented = {65, 97, 151, 199}
    Cofactor = 23
    RandomNorms = {3, 5, 9}
    Shifts <- MCShifts
    Challenges <- MCChallenges
    Pairs <- MCPairs
    ResponseBits = 3
    Torsion = 4
    Actions <- MCActions
    LargeChar = 786431
    TwoExp = 16
    Smalls <- MCStuck
SPECIFICATION StuckSpec
PROPERTY QlapotyEnds
CHECK_DEADLOCK FALSE
