SPECIFICATION Spec
CONSTANTS
    PositiveVectors <- MCPositiveVectors
    NegativeVectors <- MCNegativeVectors
    VectorsMax = 2
CHECK_DEADLOCK FALSE
INVARIANT SuccessVouches
