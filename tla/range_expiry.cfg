SPECIFICATION FairSpec
CONSTANTS
    Top = 3
    NumTxs <- MCNumTxs
    OutCap = 5
    Faults = {"expire"}
    BatchLimit = 2
    CtrlCap = 1
    Workers = {w1, w2}
    PerPage = 2
    ToGetCap = 1
    TxInCap = 1
    Requests <- FewRequests
    BadPayload = BadPayload
    BigPage = 2
INVARIANTS CompleteAnswer ErrorMeansFailure
PROPERTIES ImplementsRangeAnswer NoGoroutineLeft GetsFinal
CHECK_DEADLOCK FALSE
