SPECIFICATION Spec
CONSTANTS
    Delayed = TRUE
    CloseIn = {"up"}
    MayFail = FALSE
    MayCrash = FALSE
    MayDamage = FALSE
    MayExpire = FALSE
    Concurrent = FALSE
    Followed = {"manager"}
    ErrCap = 1
    MaxVersion = 1
    MaxHooks = 1
INVARIANTS ManagerCloseFlushes
