CONSTANTS
    Caps = {"EVM1"}
    Code <- OneEngineCode
    NewAddrs = {"n1"}
    Salts <- OneSalt
    Create2Address <- OneSaltAddress
    Conf <- IstanbulAtOneConf
    MaxBlock = 1
    CallCreateDepth = 3
    MaxFrames = 5

SPECIFICATION FairSpec

INVARIANTS
    TypeOK
    NoStaleReadOnly
    OutcomeMatchesState

PROPERTIES
    StaticDiscipline
    BridgeAtRest
