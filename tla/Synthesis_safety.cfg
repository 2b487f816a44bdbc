SPECIFICATION Spec
CONSTANTS
    Tactics = {t1}
    Unknown = unknown
    Misshapen = misshapen
    None = none
    Written <- MCWritten
    MaxClaims = 2
    MaxRetries = 2
    Densities = {29, 60}
    Integrities = {69, 70}
INVARIANTS
    ActionableOnlyWhenPassed
    RequiredTacticsSettled
    DeliveredIsVetted
PROPERTIES
    RepairsImprove
    DraftIsDelivered
