CONSTANTS
    Word64 = 65536
    Word256 = 1048576
    Heights = {0, 1, 255, 256, 257, 300}
    Numbers <- MCNumbers
    Forks = {0, 256}

SPECIFICATION Spec

INVARIANTS
    BlockHashWindow
    CodeHashPerEIP1052
