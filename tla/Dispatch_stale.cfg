SPECIFICATION Spec
CONSTANTS
    Attempts = {a1}
    Workers = {w1, w2}
    Publishers = {p1}
    Reconcilers = {r1}
    None = None
    MaxToken = 3
    MaxFaults = 1
    PromptRead = FALSE
INVARIANT FallbackNeedsRefusal
CHECK_DEADLOCK FALSE
