SPECIFICATION Spec
CONSTANTS
    Top = 4
    NumTxs <- MCNumTxs
    OutCap = 2
    Faults = {"fetch", "search"}
    BatchLimit = 2
    CtrlCap = 1
    Workers = {w1, w2}
    PerPage = 2
    ToGetCap = 1
    TxInCap = 1
    Requests <- AllRequests
    BadPayload = BadPayload
    BigPage = 3
INVARIANTS TypeOK ChannelsSafe CompleteAnswer ErrorMeansFailure Numbering SummaryCounts
PROPERTY ImplementsRangeAnswer
