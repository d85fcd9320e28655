\* One upload that is rejected or cannot be sent; disk and network are sound
\* otherwise and the process does not die.
SPECIFICATION Spec
CONSTANTS
    NO_INTERNET_CHECK_FREQUENCY = 2
    PutOutcomes <- AnsweringOutcomes
    CheckMayHang = FALSE
    DbFaults = FALSE
    MaxReadings = 3
    MaxCrashes = 0
INVARIANT EveryReadingIsSaved
CHECK_DEADLOCK FALSE
