CONSTANTS
    v1 = v1
    Router = router
    Pool = pool
    Users = {u1, router, pool}
    Validators = {v1}
    DecimalOne = 1000
    Commission = 500
    EpochPeriod = 1
    UnbondPeriod = 2
    MaxConcurrentUnbondings = 1
    SafetyMargin = 1
    SlashingThreshold = 500
    InitialValset <- Single
    Valsets = {}
    Deposits = {2, 4}
    UnbondAmounts = {}
    Rewards = {2}
    SlashKeeps = {500}
    ChainMaxEntries = 3
    MaxTime = 2
    MaxTokens = 8
    MaxSlashes = 1
    MaxSlashings = 1
    InitialShares = 3
    Gifts = {}
SPECIFICATION RouterSpec
INVARIANTS BestPrice
CHECK_DEADLOCK FALSE
