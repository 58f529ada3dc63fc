CONSTANTS
    Curves <- MCCurves
    Half = 4
    QrWord = 8
    QrCandidates = 8
    NqrCandidates = 10
    NqrWord = 32
    Last = 14
SPECIFICATION Spec
INVARIANTS AdjustedAlways
