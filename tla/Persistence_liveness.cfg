SPECIFICATION FairSpec
CONSTANTS
    Delayed = TRUE
    CloseIn = {"up"}
    MayFail = FALSE
    MayCrash = FALSE
    MayDamage = FALSE
    MayExpire = TRUE
    Concurrent = TRUE
    Followed = {}
    ErrCap = 1
    MaxVersion = 1
    MaxHooks = 1
INVARIANTS NoLostChange
PROPERTIES EventuallySaved CloseReturns
