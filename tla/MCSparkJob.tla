----------------------------- MODULE MCSparkJob -----------------------------
(* Constants of the SparkJob runs. *)
EXTENDS SparkJob

CONSTANTS d1, d2, p1, p2

Raw == "raw_events"
Agg == "agg_1m"

TwoPartitions == [d \in Devices |-> IF d = d1 THEN p1 ELSE p2]
OnePartition  == [d \in Devices |-> p1]

AggWidth  == [q \in {Agg} |-> 1]
AggDelay  == [q \in {Agg} |-> 1]
NoWindows == [q \in {} |-> 1]

\* The seasonal curve: the seed mean of each season.
OneSeason  == <<20>>
TwoSeasons == <<20, 28>>
=============================================================================
