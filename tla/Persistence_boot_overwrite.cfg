SPECIFICATION Spec
CONSTANTS
    Delayed = TRUE
    CloseIn = {"up", "failed"}
    MayFail = FALSE
    MayCrash = FALSE
    MayDamage = TRUE
    MayExpire = FALSE
    Concurrent = FALSE
    Followed = {}
    ErrCap = 1
    MaxVersion = 1
    MaxHooks = 1
PROPERTIES SavedSurvivesRestart
