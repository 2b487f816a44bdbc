SPECIFICATION Spec
CONSTANTS
    Pipeline <- ShortPipeline
    Reloads = 1
    MaxFaults = 1
INVARIANT VerifiedMeansEmpty
CHECK_DEADLOCK FALSE
