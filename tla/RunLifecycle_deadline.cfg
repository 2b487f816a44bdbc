SPECIFICATION Spec
CONSTANTS
    Handlers = {h1}
    Cleaners = {c1}
    Claims = {k1, k2}
    Snapshots = {q1}
    Keys = {key}
    Packets = {p}
    None = None
    Inactivity = 1
    Absolute = 2
    MaxFaults = 1
PROPERTY DeadlineEndsRuns
