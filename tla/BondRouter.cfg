CONSTANTS
    v1 = v1
    Router = router
    Pool = pool
    Users = {u1, router, pool}
    Validators = {v1}
    DecimalOne = 100
    Commission = 50
    EpochPeriod = 1
    UnbondPeriod = 1
    MaxConcurrentUnbondings = 1
    SafetyMargin = 1
    SlashingThreshold = 50
    InitialValset <- Single
    Valsets = {}
    Deposits = {2, 4}
    UnbondAmounts = {}
    Rewards = {2}
    SlashKeeps = {}
    ChainMaxEntries = 3
    MaxTime = 3
    MaxTokens = 5
    MaxSlashes = 0
    MaxSlashings = 1
    InitialShares = 3
    Gifts = {1}
SPECIFICATION RouterSpec
INVARIANTS CirculationIsIssued BestPriceAtPar SimulationKept SimulationClose
PROPERTIES RouterPassesOn
CHECK_DEADLOCK FALSE
