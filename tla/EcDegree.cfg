CONSTANTS
    Stack = 5
    Pow2 <- MCPow2
    Lengths <- MCLengths
SPECIFICATION Spec
INVARIANTS
    DegreeInv
