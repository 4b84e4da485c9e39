CONSTANTS
    a1 = a1
    a2 = a2
    k1 = k1
    Accounts <- MCAccounts
    Keys <- MCKeys
    Values <- MCValues
    Conf <- MCConf
    InitBalance = 1
    MaxBlock = 1
    MaxDepth = 2
    MaxOps = 4
    SstoreRefundGas = 15000
    NetSstoreClearRefund = 15000
    NetSstoreResetClearRefund = 19800
    NetSstoreResetRefund = 4800
    SstoreSetGasEIP2200 = 20000
    SstoreResetGasEIP2200 = 5000
    SloadGasEIP2200 = 800
    SelfdestructRefundGas = 24000

SPECIFICATION Spec

INVARIANTS
    TypeOK
    ClearRefundBacked
    NetGasAccounting
    NoEtherCreated
