CONSTANTS
    u1 = u1
    u2 = u2
    v1 = v1
    v2 = v2
    Users = {u1}
    Validators = {v1, v2}
    DecimalOne = 1000
    Commission = 500
    EpochPeriod = 1
    UnbondPeriod = 2
    MaxConcurrentUnbondings = 2
    SafetyMargin = 1
    SlashingThreshold = 300
    InitialValset <- Even
    Valsets <- Elsewhere
    Deposits = {7}
    UnbondAmounts = {5}
    Rewards = {2}
    SlashKeeps = {500}
    ChainMaxEntries = 3
    MaxTime = 4
    MaxTokens = 9
    MaxSlashes = 1
    MaxSlashings = 1
SPECIFICATION Spec
INVARIANTS HubInv BondedIsDelegated
PROPERTIES SlashIsBooked SlashCostsBonded FreshClaimsWhole ImplementsLedger ImplementsSchedule
CHECK_DEADLOCK FALSE
