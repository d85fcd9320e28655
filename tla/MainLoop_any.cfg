SPECIFICATION Spec
CONSTANTS
    SECOND = 3
    interval = 2
    Horizon = 19
    MaxSets = 1
INVARIANTS TypeOK OneRoundPerTime MissedArePaidFor
CHECK_DEADLOCK FALSE
