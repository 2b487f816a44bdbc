SPECIFICATION Spec
CONSTANTS
    Pipeline <- ShortPipeline
    Reloads = 1
    MaxFaults = 1
INVARIANT CompletedIsStored
CHECK_DEADLOCK FALSE
