CONSTANTS
    Caps = {"EVM1"}
    Code <- OneEngineCode
    NewAddrs = {"n1"}
    Salts <- OneSalt
    Create2Address <- OneSaltAddress
    Conf <- IstanbulConf
    MaxBlock = 0
    CallCreateDepth = 2
    MaxFrames = 4

SPECIFICATION Spec

INVARIANT
    CallKindMatchesOp
