SPECIFICATION Spec
CONSTANTS
    Delayed = FALSE
    CloseIn = {"start", "up"}
    MayFail = TRUE
    MayCrash = TRUE
    MayDamage = TRUE
    MayExpire = FALSE
    Concurrent = TRUE
    Followed = {"templates", "sampling-rates"}
    ErrCap = 1
    MaxVersion = 1
    MaxHooks = 1
INVARIANTS TypeOK CloseSaves NeverPanics NoLostChange
PROPERTIES NeverTears ImplementsDurable
