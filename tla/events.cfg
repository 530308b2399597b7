SPECIFICATION Spec
CONSTANTS
    AmountTexts <- MCAmountTexts
    Raws <- MCRaws
    MaxRaws = 3
INVARIANTS
    OneEventPerIndex
    TransfersOfOwnEntry
    ErrorEventIffUndecodable
    FailureTold
    NestedPrefix
    OrdinaryNeverPanics
CHECK_DEADLOCK FALSE
