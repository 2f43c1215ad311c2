CONSTANTS
    v1 = v1
    v2 = v2
    v3 = v3
    Users = {u1}
    Validators = {v1, v2, v3}
    DecimalOne = 10
    Commission = 0
    EpochPeriod = 3600
    UnbondPeriod = 3600
    MaxConcurrentUnbondings = 1
    SafetyMargin = 0
    SlashingThreshold = 0
    InitialValset <- First
    Valsets = {}
    Deposits = {}
    UnbondAmounts = {}
    Rewards = {}
    SlashKeeps = {}
    ChainMaxEntries = 1
    MaxTime = 0
    MaxTokens = 0
    MaxSlashes = 0
    MaxSlashings = 0
    Accounts = {gauge, council}
    Orchestrator = gauge
    LsdToken = token
    HubContract = hub
    ChainAdmin = council
    Weights = {0, 2, 3, 5, 8, 10}
    RoundingError = 1
    Stakes = {0, 1, 6}
    Commissions <- CommissionOf
    MaxCommissions = {0, 3}
    GaugeEpoch = 3600
    BlockTimes = {1800}
    FirstMessage <- Message
SPECIFICATION GaugeSpec
INVARIANTS ExecutionAccepted BalancesFollowMessages WeightsReached RedelegationsFew
CHECK_DEADLOCK FALSE
