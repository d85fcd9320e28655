\* Faults of the link at every point, each kind of core module.
SPECIFICATION Spec
CONSTANTS
    Probes <- MixedProbes
    Chars <- UsualChars
    FAST_RETRY_TIMES = 3
    LinkFaults = TRUE
    CoreModules <- AllKinds
    MaxRounds = 2
INVARIANTS
    TypeOK HandlesKnown ErrorIffSentinel OwnReading FreshIfCleared
    SocketClosedBetweenRounds NothingReadAfterLoss
PROPERTIES RoundEnds
CHECK_DEADLOCK FALSE
