SPECIFICATION Spec
CONSTANTS
    ADDRESSES <- MCAddresses
    REQUEST <- MCRequest
    TIMEOUT <- MCTimeout
    DESCRIPTORS <- MCDescriptors
    MaxRequests <- MCRequests
    SETBACK <- MCSetback
    MaxStumbles <- MCStumbles
    MayClose = TRUE
INVARIANTS
    TypeOK
    QuietEnds
    FalseOkOnlyFromOldStatus
    AnswerInTimeIsTaken
    RequestIntact
    LeaksOnlyOnFailure
PROPERTIES
    ExchangeEnds
    ImplementsPutItem
CHECK_DEADLOCK FALSE
