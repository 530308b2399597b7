SPECIFICATION Spec
CONSTANTS
    Top = 5
    NumTxs <- MCNumTxs
    OutCap = 2
    Faults = {}
    BatchLimit = 2
    CtrlCap = 2
    Workers = {w1, w2}
    PerPage = 2
    ToGetCap = 1
    TxInCap = 1
    LastHeights <- TwoBatches
    BadPayload = BadPayload
    MaxHeights = 4
    Word = 256
INVARIANT NoGap
