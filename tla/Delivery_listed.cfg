SPECIFICATION Spec
CONSTANTS
    Pipeline <- ShortPipeline
    Reloads = 1
    MaxFaults = 1
INVARIANT ListedIsReadable
CHECK_DEADLOCK FALSE
