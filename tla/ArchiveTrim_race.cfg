\* One request, a Spark job that writes late; nothing fails.
CONSTANTS
    Devices = {d}
    RowIds = {x, y}
    Requests = {r1}
    NoCutoff = NoCutoff
    Cutoffs = {1}
    MaxLag = 1
    Faults = {}
    MaxClock = 2
    MaxCrashes = 0
SPECIFICATION Spec
INVARIANTS
    Lossless
CHECK_DEADLOCK FALSE
