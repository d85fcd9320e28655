\* The service answers every request it gets; the disk does not fail.
SPECIFICATION Spec
CONSTANTS
    NO_INTERNET_CHECK_FREQUENCY = 2
    PutOutcomes <- AnsweringOutcomes
    CheckMayHang = FALSE
    DbFaults = FALSE
    MaxReadings = 7
    MaxCrashes = 1
INVARIANTS SyncedIsInCloud NothingLostBeforeALeak
PROPERTIES SuccessLeavesNoBacklog EveryReadingIsHandled ImplementsOutbox
CHECK_DEADLOCK FALSE
