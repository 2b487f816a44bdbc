SPECIFICATION Spec
CONSTANTS
    Pipeline <- ShortPipeline
    Reloads = 1
    MaxFaults = 0
INVARIANT InterruptedIsRemembered
CHECK_DEADLOCK FALSE
