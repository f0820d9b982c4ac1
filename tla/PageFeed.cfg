SPECIFICATION FairSpec
CONSTANTS
    Loops = {"fast", "deployment"}
    MaxContent = 1
    Contents <- MCContents
    Nothing = Nothing
    Others = {"other"}
    WireSize = 1
    MaxPolls = 1
    MaxLost = 1
INVARIANTS
    PageInv
PROPERTIES
    LoopsGoOn
    PageCatchesUp
