CONSTANTS
    Caps = {"EVM1"}
    Code <- WideSaltCode
    NewAddrs = {"n1"}
    Salts <- WideSalts
    Create2Address <- WideSaltAddress
    Conf <- IstanbulConf
    MaxBlock = 0
    CallCreateDepth = 2
    MaxFrames = 4

SPECIFICATION Spec

INVARIANT
    Create2AddressesDistinct
