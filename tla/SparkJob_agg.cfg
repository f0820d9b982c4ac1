\* One aggregating query over two partitions: late events, eviction, replay.
CONSTANTS
    d1 = d1
    d2 = d2
    p1 = p1
    p2 = p2
    AlphaInverse = 2
    SigmaN = 2
    Ceiling = 40
    SeedMean <- OneSeason
    Devices = {d1, d2}
    Partitions = {p1, p2}
    PartitionOf <- TwoPartitions
    Queries = {"agg_1m"}
    Windowed = {"agg_1m"}
    Width <- AggWidth
    Delay <- AggDelay
    Values = {20}
    Kinds = {"good"}
    MaxOffsetsPerTrigger = 2
    MaxEvents = 3
    MaxClock = 2
    MaxCrashes = 2
SPECIFICATION Spec
INVARIANTS
    CountsExact
    OnlyLateIsDropped
CHECK_DEADLOCK FALSE
