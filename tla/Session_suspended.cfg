SPECIFICATION Spec
CONSTANTS
    Runs = {r1, r2}
    Scopes = {s1}
    Demo = Demo
    Elsewhere = Elsewhere
    None = None
    Slots = {t1, t2}
    MaxEpoch = 1
PROPERTY SuspendedStaysRemembered
