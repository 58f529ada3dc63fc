CONSTANTS
    MaxLength = 12
    TreeLength = 6
SPECIFICATION Spec
INVARIANTS
    WalkInv CostInv
PROPERTIES
    ImplementsIsogenyChain
