\* A core module that keeps its last answer; the link is sound.
SPECIFICATION Spec
CONSTANTS
    Probes <- TwoProbes
    Chars <- UsualChars
    FAST_RETRY_TIMES = 2
    LinkFaults = FALSE
    CoreModules = {{}}
    MaxRounds = 2
INVARIANT ResponseIsToCommand
CHECK_DEADLOCK FALSE
