SPECIFICATION Spec
CONSTANTS
    m1 = m1
    m2 = m2
    Modules <- MCModules
    MaxVersion = 2
    MaxEdits = 1
    MaxStarts = 2
INVARIANTS TypeOK UpToDate RunsOnFileOrNothing OwnSensors
PROPERTIES VersionNeverFalls WholeFileIsKept StartEnds
CHECK_DEADLOCK FALSE
