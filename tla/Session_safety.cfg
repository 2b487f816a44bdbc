SPECIFICATION Spec
CONSTANTS
    Runs = {r1}
    Scopes = {s1, s2}
    Demo = Demo
    Elsewhere = Elsewhere
    None = None
    Slots = {t1, t2}
    MaxEpoch = 0
SYMMETRY Symmetry
INVARIANTS
    ShownIsSaved
    SourcesFitScope
    OneThingAtATime
PROPERTIES
    AcknowledgedWasShown
