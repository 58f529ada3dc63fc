\* A decoded signature with an even determinant is compressed.
CONSTANTS
    R = 7
    Exponents <- MCExponents
    Pow2 <- MCPow2
    Entries <- MCEntries
    Replaced <- MCReplaced
    WireEntries <- MCWireEntries
    WireBits <- MCWireBits
    MaxItems = 3
    Embed = 10
    LimbsWidth = 12
    LowWidth = 9
    SignedWidth = 14
    RootBases = 20
    Lambda = 2
    FullTorsion = 9
    MaxTries = 2
    GluingLimit = 2
    Scalars <- MCHdScalars
    Challenges = {0, 3}
    Logarithms = {1, 5}
    WireDegrees <- MCWireDegrees
    WireScalars = {2, 77, 128}
SPECIFICATION MCSpec
INVARIANT NeverPanics
CHECK_DEADLOCK FALSE
