SPECIFICATION FairSpec
CONSTANTS
    Top = 5
    NumTxs <- MCNumTxs
    OutCap = 2
    Faults = {"expire", "disconnect"}
    BatchLimit = 2
    CtrlCap = 2
    Workers = {w1, w2}
    PerPage = 2
    ToGetCap = 1
    TxInCap = 1
    LastHeights <- FewLastHeights
    BadPayload = BadPayload
    MaxHeights = 4
    Word = 256
INVARIANTS TypeOK ChannelsSafe CompleteAnswer ErrorMeansFailure OneFinal
PROPERTIES ImplementsRangeAnswer EndsWithFinal
CHECK_DEADLOCK FALSE
