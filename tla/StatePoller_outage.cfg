\* Not one of the runs: the producer and Kafka go down together and stay away
\* (README, section 5).
SPECIFICATION FairSpec
CONSTANTS
    Partitions = {1}
    Nothing = Nothing
    Pending = Pending
    MaxEvents = 1
    MaxOutages = 1
    Together = {{"producer"}, {"producer", "kafka"}, {"spark"}, {"cassandra"}, {"api"}}
PROPERTIES
    SourceIsCurrent
