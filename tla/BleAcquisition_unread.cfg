\* The link fails during the discovery of the handles.
SPECIFICATION Spec
CONSTANTS
    Probes <- TwoProbes
    Chars <- UsualChars
    FAST_RETRY_TIMES = 2
    LinkFaults = TRUE
    CoreModules = {{"clears"}}
    MaxRounds = 2
INVARIANT OkMeansMeasured
CHECK_DEADLOCK FALSE
