CONSTANTS
    u1 = u1
    u2 = u2
    v1 = v1
    v2 = v2
    Users = {u1}
    Validators = {v1, v2}
    DecimalOne = 1000
    Commission = 500
    EpochPeriod = 1
    UnbondPeriod = 2
    MaxConcurrentUnbondings = 1
    SafetyMargin = 1
    SlashingThreshold = 300
    InitialValset <- Even
    Valsets = {}
    Deposits = {12}
    UnbondAmounts = {8}
    Rewards = {2}
    SlashKeeps = {500}
    ChainMaxEntries = 3
    MaxTime = 8
    MaxTokens = 30
    MaxSlashes = 1
    MaxSlashings = 2
SPECIFICATION Spec
INVARIANTS UnbondingIsClaimed
CHECK_DEADLOCK FALSE
