CONSTANTS
    W = 8
    TxGas <- SignedRangeGas
    MaxDepth = 3

SPECIFICATION Spec

INVARIANT
    GasConserved
