\* Not one of the runs: FR-H2 as written is refuted, by a live row that comes
\* after the Job has looked (README, section 5).
CONSTANTS
    Absent = Absent
    Live = Live
    Torn = Torn
    Spans = {1, 2}
    FirstHour = 2
    LastHour = 4
    MaxLag = 1
    BackoffLimit = 1
    MaxRuns = 3
    MaxDrops = 1
SPECIFICATION FairSpec
PROPERTIES
    LiveIsNeverOverwritten
CHECK_DEADLOCK FALSE
