SPECIFICATION FairSpec
CONSTANTS
    Handlers = {h1}
    Cleaners = {c1}
    Claims = {k1, k2, k3}
    Snapshots = {q1, q2}
    Keys = {key}
    Packets = {p}
    None = None
    Inactivity = 1
    Absolute = 2
    MaxFaults = 2
INVARIANTS
    OneCleanupClaim
    CleanedMeansGone
    OpenRunsKeepContent
    OneSnapshot
PROPERTIES
    EndedIsFinal
    RunsAreCleaned
    KeepsItsContracts
