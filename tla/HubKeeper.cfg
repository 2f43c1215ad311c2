CONSTANTS
    u1 = u1
    u2 = u2
    v1 = v1
    v2 = v2
    Users = {u1, u2}
    Validators = {v1}
    DecimalOne = 1000
    Commission = 0
    EpochPeriod = 1
    UnbondPeriod = 3
    MaxConcurrentUnbondings = 2
    SafetyMargin = 1
    SlashingThreshold = 500
    InitialValset <- First
    Valsets = {}
    Deposits = {5}
    UnbondAmounts = {}
    Rewards = {1}
    SlashKeeps = {}
    ChainMaxEntries = 3
    MaxTime = 13
    MaxTokens = 26
    MaxSlashes = 0
    MaxSlashings = 1
    KeeperDelay = 1
    LastRequest = 3
    MaxBonded = 10
    Prudent = TRUE
SPECIFICATION KeeperSpec
INVARIANTS ReleasedClaimsComing
PROPERTIES ClaimsSettle
CHECK_DEADLOCK FALSE
