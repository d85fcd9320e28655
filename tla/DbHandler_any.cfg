\* Every outcome of a request, faults of the database, restarts.
SPECIFICATION Spec
CONSTANTS
    NO_INTERNET_CHECK_FREQUENCY = 2
    PutOutcomes <- Outcomes
    CheckMayHang = TRUE
    DbFaults = TRUE
    MaxReadings = 6
    MaxCrashes = 2
INVARIANTS TypeOK UploadInOrder AtMostOneUnmarkedUpload StoredInOrder RetryBudget
CHECK_DEADLOCK FALSE
