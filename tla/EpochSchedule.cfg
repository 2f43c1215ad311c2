CONSTANTS
    EpochPeriod = 2
    UnbondPeriod = 8
    MaxConcurrentUnbondings = 3
    MaxTime = 40
SPECIFICATION Spec
INVARIANTS RhythmKept OnePerCell QueueBounded
CHECK_DEADLOCK FALSE
