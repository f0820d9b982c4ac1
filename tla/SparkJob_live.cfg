\* A raw and an aggregating query side by side, with fairness, and every kind
\* of record on the wire.
CONSTANTS
    d1 = d1
    d2 = d2
    p1 = p1
    p2 = p2
    AlphaInverse = 2
    SigmaN = 2
    Ceiling = 40
    SeedMean <- OneSeason
    Devices = {d1}
    Partitions = {p1}
    PartitionOf <- OnePartition
    Queries = {"raw_events", "agg_1m"}
    Windowed = {"agg_1m"}
    Width <- AggWidth
    Delay <- AggDelay
    Values = {20, 41}
    Kinds = {"good", "unusable", "gap"}
    MaxOffsetsPerTrigger = 2
    MaxEvents = 2
    MaxClock = 2
    MaxCrashes = 1
SPECIFICATION FairSpec
INVARIANTS
    TablesAgree
PROPERTIES
    RawIsEventStore
    JobGoesOn
CHECK_DEADLOCK FALSE
