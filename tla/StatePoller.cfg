SPECIFICATION FairSpec
CONSTANTS
    Partitions = {1}
    Nothing = Nothing
    Pending = Pending
    MaxEvents = 1
    MaxOutages = 1
    Together = {{"producer"}, {"producer", "kafka"}, {"spark"}, {"cassandra"}, {"api"}}
INVARIANTS
    PollerInv
PROPERTIES
    KeepsPromise
    OutageIsShown
