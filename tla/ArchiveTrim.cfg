\* Two requests at once, and everything that can go wrong.
CONSTANTS
    Devices = {d}
    RowIds = {x}
    Requests = {r1, r2}
    NoCutoff = NoCutoff
    Cutoffs = {NoCutoff, 0, 1}
    MaxLag = 1
    Faults = {"refused", "timeout", "write"}
    MaxClock = 2
    MaxCrashes = 1
SPECIFICATION FairSpec
INVARIANTS
    TypeOK
    RowsAreAccounted
PROPERTIES
    OnlyOldIsTrimmed
    RequestEnds
CHECK_DEADLOCK FALSE
