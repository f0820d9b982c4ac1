\* The raw_events query alone: two devices on one partition, two seasons,
\* crashes at every point of a batch.
CONSTANTS
    d1 = d1
    d2 = d2
    p1 = p1
    p2 = p2
    AlphaInverse = 2
    SigmaN = 2
    Ceiling = 40
    SeedMean <- TwoSeasons
    Devices = {d1, d2}
    Partitions = {p1}
    PartitionOf <- OnePartition
    Queries = {"raw_events"}
    Windowed = {}
    Width <- NoWindows
    Delay <- NoWindows
    Values = {20, 28}
    Kinds = {"good", "unusable", "gap"}
    MaxOffsetsPerTrigger = 2
    MaxEvents = 3
    MaxClock = 0
    MaxCrashes = 2
SPECIFICATION Spec
INVARIANTS
    TypeOK
    CommittedIsStored
    FlagsAreExplained
CHECK_DEADLOCK FALSE
