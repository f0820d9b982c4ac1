\* Not one of the runs: two requests that arrive together both start a deploy
\* (README, section 5).
CONSTANTS
    InFlight = 2
    Nothing = Nothing
    MaxRequests = 2
    MaxCrashes = 0
SPECIFICATION Spec
INVARIANTS
    NeverTwo
CHECK_DEADLOCK FALSE
