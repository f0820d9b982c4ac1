\* Up to three requests, two of them together; anything fails, the backend dies
\* once.
CONSTANTS
    InFlight = 2
    Nothing = Nothing
    MaxRequests = 3
    MaxCrashes = 1
SPECIFICATION FairSpec
INVARIANTS
    TypeOK
    OneDeploy
PROPERTIES
    DisplayIsTrue
    DeployEnds
CHECK_DEADLOCK FALSE
