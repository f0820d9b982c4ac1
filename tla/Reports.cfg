SPECIFICATION StoredSpec
CONSTANTS
    None = None
    d1 = d1
    d2 = d2
    Curve <- MCCurve
    TempAmplitude = 10
    HumidityAmplitude = 12
    Unit = 60
    Source <- MCSource
    Recorded = {"co", "temp", "humidity"}
    CycleDays = 2
    CeilingPercent = 110
    SigmaN = 3
    Locations <- MCLocations
    FactSheetDays = 30
    HeatmapMonths = 2
    TopEpisodes = 5
    DerivedAt <- MCDerivedAt
    Noise <- MCNoise
    Anchor <- MCAnchor
    Clock <- MCClock
    LiveChoices <- MCLiveChoices
INVARIANTS
    PeriodsLoseNothing
    FiguresAreExact
    ViewsAgree
    ReadsAreComplete
    HistoryIsPlausible
CHECK_DEADLOCK FALSE
