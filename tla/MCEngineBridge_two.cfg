CONSTANTS
    Caps = {"EVM1", "EWASM"}
    Code <- TwoEngineCode
    NewAddrs = {"n1"}
    Salts <- OneSalt
    Create2Address <- OneSaltAddress
    Conf <- IstanbulAtOneConf
    MaxBlock = 1
    CallCreateDepth = 3
    MaxFrames = 5

SPECIFICATION Spec

INVARIANTS
    NoStaleReadOnly
    OutcomeMatchesState
