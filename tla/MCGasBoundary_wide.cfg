CONSTANTS
    W = 8
    TxGas <- UnsignedRangeGas
    MaxDepth = 3

SPECIFICATION Spec

INVARIANT
    GasConserved
