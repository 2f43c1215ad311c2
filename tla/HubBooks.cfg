CONSTANTS
    u1 = u1
    u2 = u2
    v1 = v1
    v2 = v2
    Users = {u1, u2}
    Validators = {v1, v2}
    DecimalOne = 1000
    Commission = 500
    EpochPeriod = 1
    UnbondPeriod = 2
    MaxConcurrentUnbondings = 1
    SafetyMargin = 1
    SlashingThreshold = 500
    InitialValset <- Even
    Valsets <- Nobody
    Deposits = {5}
    UnbondAmounts = {}
    Rewards = {2}
    SlashKeeps = {}
    ChainMaxEntries = 3
    MaxTime = 5
    MaxTokens = 14
    MaxSlashes = 0
    MaxSlashings = 1
SPECIFICATION Spec
INVARIANTS TypeOK UnbondingAccounted UnbondingIsQueued ClaimsAreOwed Solvent
PROPERTIES RateKept UndelegationCovers
SYMMETRY UserSymmetry
CHECK_DEADLOCK FALSE
