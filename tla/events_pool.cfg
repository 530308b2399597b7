SPECIFICATION Spec
CONSTANTS
    AmountTexts <- MCAmountTexts
    Raws <- MCRaws
    MaxRaws = 3
INVARIANTS
    ListedTypesSupported
CHECK_DEADLOCK FALSE
