CONSTANTS
    Users = {"delegator1", "delegator2"}
    Validators = {"v1", "v2", "v3", "v4"}
    DecimalOne = 10000
    Commission = 500
    EpochPeriod = 82800
    UnbondPeriod = 2419200
    MaxConcurrentUnbondings = 7
    SafetyMargin = 600
    SlashingThreshold = 1
    InitialValset <- Whole
    Valsets = {}
    Deposits = {}
    UnbondAmounts = {}
    Rewards = {}
    SlashKeeps = {}
    ChainMaxEntries = 7
    MaxTime = 20000000
    MaxTokens = 40000
    MaxSlashes = 1
    MaxSlashings = 2
    Accounts = {owner, anyone}
    Owner = owner
    Anyone = anyone
    LsdToken = lsd_token
    OtherToken = other_token
    HubContract = hub
    ChainAdmin = admin
    Funds = 20000
SPECIFICATION ScenarioSpec
INVARIANTS AssertionsHold
