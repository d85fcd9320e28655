\* Requests and answers may be lost.
SPECIFICATION Spec
CONSTANTS
    NO_INTERNET_CHECK_FREQUENCY = 2
    PutOutcomes <- SilentOutcomes
    CheckMayHang = FALSE
    DbFaults = FALSE
    MaxReadings = 3
    MaxCrashes = 0
INVARIANT SyncedIsInCloud
CHECK_DEADLOCK FALSE
