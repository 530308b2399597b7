SPECIFICATION Spec
CONSTANTS
    OutCap = 1
    MaxRetries = 3
    Precision = 3
    Bodies <- MCBodies
    Faults = {"expire", "disconnect"}
INVARIANTS TypeOK OneFinal AnswerMatchesLastTry AmountsExact RetriesOnlyTransient
PROPERTY GetsFinal
