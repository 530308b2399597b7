SPECIFICATION FairSpec
CONSTANTS
    Top = 3
    NumTxs <- MCNumTxs
    OutCap = 2
    Faults = {"expire"}
    BatchLimit = 2
    CtrlCap = 1
    Workers = {w1, w2}
    PerPage = 2
    ToGetCap = 1
    TxInCap = 1
    Requests <- TwoPages
    BadPayload = BadPayload
    BigPage = 2
PROPERTY HandlerReturns
CHECK_DEADLOCK FALSE
