SPECIFICATION BootFairSpec
CONSTANTS
    NumKeys = 2
    NumCounterSlots = 2
    CounterMod = 8
    MaxVersion = 3
    NonSecure = TRUE
    ResetAfterCopy = TRUE
    ApisUnmet = FALSE
    MaxUpdates = 2
    MaxLosses = 2
    MaxServices = 1
INVARIANTS
    BootTypeOK
    NoDowngrade
    RevokedNeverBoots
    AlwaysBoots
PROPERTIES
    UpdatesTakeEffect
