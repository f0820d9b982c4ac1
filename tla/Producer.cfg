SPECIFICATION Spec
CONSTANTS
    Files <- MCFiles
    RowLimit = 2
    Interval = 1
    QueueSize = 2
    Infinity = 1000
    MaxRuns = 2
    MaxFailures = 2
    MaxSynthetic = 3
    Behind = 4
INVARIANTS
    ProducerInv
    StatsAreExact
    LedgerBalances
    BurstIsBounded
CHECK_DEADLOCK FALSE
