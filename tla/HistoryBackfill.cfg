\* Crashes, re-runs with another span, a dropped keyspace, a lagging Spark job.
CONSTANTS
    Absent = Absent
    Live = Live
    Torn = Torn
    Spans = {1, 2}
    FirstHour = 2
    LastHour = 4
    MaxLag = 1
    BackoffLimit = 1
    MaxRuns = 3
    MaxDrops = 1
SPECIFICATION FairSpec
INVARIANTS
    TypeOK
    RecordIsTrue
PROPERTIES
    CompleteIsFinal
    SeenLiveIsKept
    RunEnds
CHECK_DEADLOCK FALSE
