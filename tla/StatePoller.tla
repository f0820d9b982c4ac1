---------------------------- MODULE StatePoller ----------------------------
(***************************************************************************)
(* The state poller of the web app (src/backend/app/state_poller.py), with *)
(* what it asks: the producer's and the Spark job's /state, the broker's   *)
(* watermarks, Cassandra, and the health of each.  The fast loop polls the *)
(* pipeline, the deployment loop the services; an exception ends a poll,   *)
(* never a loop.                                                           *)
(*                                                                         *)
(* The asked change between any two steps: events are produced and         *)
(* consumed, Spark reports its progress, services go down and come back.   *)
(* One streaming query stands for all; "up" means answering within the     *)
(* timeout.  What a section only passes on (recent events, rows, rates,    *)
(* latencies) is left out.                                                 *)
(***************************************************************************)
EXTENDS Integers, FiniteSetsExt

CONSTANTS
    Partitions,     \* of the Kafka topic
    Nothing,        \* None
    Pending,        \* an answer still awaited
    (* bounds *)
    MaxEvents,      \* events per partition
    MaxOutages,     \* outages
    Together        \* sets of services that go down together

Services == {"producer", "spark", "kafka", "cassandra"}
Asked    == Services \cup {"api"}      \* the Kubernetes API, for extra nodes
Loops    == {"fast", "deployment"}

\* What the sections of a loop can say.
Numbers  == 0 .. Cardinality(Partitions) * MaxEvents
Sections == [sent : Numbers \cup {Nothing}, reachable : BOOLEAN, lag : Numbers \cup {Nothing}]
                \cup [healthy : SUBSET Services, nodes : BOOLEAN]

ASSUME StatePollerAssumption ==
    /\ IsFiniteSet(Partitions)
    /\ MaxEvents \in Nat /\ MaxOutages \in Nat
    /\ Nothing \notin [Loops -> Sections \cup {Nothing}]

VARIABLES
    up,             \* which of those asked answer
    outages,        \* how many outages there were
    high,           \* the broker's high watermark, per partition
    sent,           \* the producer's events_sent_total
    consumed,       \* the offset the query has read to, per partition
    progress,       \* QueryProgressTracker: offsets reported, or Nothing
    fast,           \* locals of _refresh_fast
    lastProducer, lastSpark,    \* last-known-good answers
    health,         \* locals of _refresh_deployment
    snapshot, outbox,
    (* what the properties compare with *)
    trueLag,        \* the query's lag when the watermarks were read
    wasUp           \* the producer was up at some time of this fast poll

pipeline == <<up, outages, high, sent, consumed, progress>>
vars     == <<pipeline, fast, lastProducer, lastSpark, health, snapshot, outbox, trueLag, wasUp>>

Zero        == [p \in Partitions |-> 0]
NewPoll     == [step |-> "fetch", producer |-> Pending, spark |-> Pending,
                watermarks |-> Pending, rows |-> Pending]
NewCheck    == [step |-> "kafka", asked |-> {}, seen |-> {}]

Init ==
    /\ up = Asked /\ outages = 0
    /\ high = Zero /\ sent = 0 /\ consumed = Zero /\ progress = Nothing
    /\ fast = NewPoll /\ lastProducer = Nothing /\ lastSpark = Nothing
    /\ health = NewCheck
    /\ snapshot = [l \in Loops |-> Nothing] /\ outbox = [l \in Loops |-> Nothing]
    /\ trueLag = 0 /\ wasUp = TRUE

-----------------------------------------------------------------------------
(* The pipeline that is watched *)

poller == <<fast, lastProducer, lastSpark, health, snapshot, outbox, trueLag>>

Produce ==
    /\ {"producer", "kafka"} \subseteq up
    /\ \E p \in Partitions : high[p] < MaxEvents /\ high' = [high EXCEPT ![p] = @ + 1]
    /\ sent' = sent + 1
    /\ UNCHANGED <<up, outages, consumed, progress, poller, wasUp>>

Consume ==
    /\ {"spark", "kafka"} \subseteq up /\ consumed # high
    /\ consumed' = high
    /\ UNCHANGED <<up, outages, high, sent, progress, poller, wasUp>>

\* onQueryProgress, after the batch: one record per query, replaced.
Report ==
    /\ "spark" \in up /\ progress # consumed
    /\ progress' = consumed
    /\ UNCHANGED <<up, outages, high, sent, consumed, poller, wasUp>>

\* The producer's and the tracker's numbers live in their processes.
GoDown(group) ==
    /\ group \subseteq up /\ outages < MaxOutages
    /\ up' = up \ group /\ outages' = outages + 1
    /\ sent' = IF "producer" \in group THEN 0 ELSE sent
    /\ progress' = IF "spark" \in group THEN Nothing ELSE progress
    /\ UNCHANGED <<high, consumed, poller, wasUp>>

ComeBack(s) ==
    /\ s \notin up
    /\ up' = up \cup {s}
    /\ wasUp' = (wasUp \/ s = "producer")
    /\ UNCHANGED <<outages, high, sent, consumed, progress, poller>>

-----------------------------------------------------------------------------
(* _refresh_fast *)

\* The sleep between two polls is a delay as any other.
EndFast == fast' = NewPoll /\ trueLag' = 0 /\ wasUp' = ("producer" \in up)

\* fetch_json never raises: None for a service that does not answer.
FetchProducer ==
    /\ fast.step = "fetch" /\ fast.producer = Pending
    /\ fast' = [fast EXCEPT !.producer = IF "producer" \in up THEN sent ELSE Nothing]
    /\ UNCHANGED <<pipeline, lastProducer, lastSpark, health, snapshot, outbox, trueLag, wasUp>>

FetchSpark ==
    /\ fast.step = "fetch" /\ fast.spark = Pending
    /\ fast' = [fast EXCEPT !.spark = IF "spark" \in up THEN [queries |-> progress] ELSE Nothing]
    /\ UNCHANGED <<pipeline, lastProducer, lastSpark, health, snapshot, outbox, trueLag, wasUp>>

\* An answer replaces the last-known-good one, no answer leaves it.
Adopt ==
    /\ fast.step = "fetch" /\ fast.producer # Pending /\ fast.spark # Pending
    /\ lastProducer' = IF fast.producer = Nothing THEN lastProducer ELSE fast.producer
    /\ lastSpark' = IF fast.spark = Nothing THEN lastSpark ELSE fast.spark
    /\ fast' = [fast EXCEPT !.step = "read"]
    /\ UNCHANGED <<pipeline, health, snapshot, outbox, trueLag, wasUp>>

QueryLag(offsets) == SumFunction([p \in Partitions |-> high[p] - offsets[p]])

\* Mutant of ReadWatermarks: in one gather with the /state requests.
ReadWatermarksEarly ==
    /\ fast.step \in {"fetch", "read"} /\ fast.watermarks = Pending /\ "kafka" \in up
    /\ fast' = [fast EXCEPT !.watermarks = high]
    /\ trueLag' = QueryLag(consumed)
    /\ UNCHANGED <<pipeline, lastProducer, lastSpark, health, snapshot, outbox, wasUp>>

ReadWatermarks ==
    /\ fast.step = "read" /\ fast.watermarks = Pending /\ "kafka" \in up
    /\ fast' = [fast EXCEPT !.watermarks = high]
    /\ trueLag' = QueryLag(consumed)
    /\ UNCHANGED <<pipeline, lastProducer, lastSpark, health, snapshot, outbox, wasUp>>

ReadRows ==
    /\ fast.step = "read" /\ fast.rows = Pending /\ "cassandra" \in up
    /\ fast' = [fast EXCEPT !.rows = "read"]
    /\ UNCHANGED <<pipeline, lastProducer, lastSpark, health, snapshot, outbox, trueLag, wasUp>>

\* Either read raises: gather raises at once, and _loop logs it and sleeps.
FastFails ==
    /\ fast.step = "read"
    /\ \/ fast.watermarks = Pending /\ "kafka" \notin up
       \/ fast.rows = Pending /\ "cassandra" \notin up
    /\ EndFast
    /\ UNCHANGED <<pipeline, lastProducer, lastSpark, health, snapshot, outbox>>

\* _compute_kafka_step for the one query, Nothing when none was reported.
KafkaLag(watermarks, spark) ==
    IF spark = Nothing \/ spark.queries = Nothing THEN Nothing
    ELSE SumFunction([p \in Partitions |-> Max({watermarks[p] - spark.queries[p], 0})])

FastSections ==
    [sent |-> lastProducer, reachable |-> fast.producer # Nothing,
     lag  |-> KafkaLag(fast.watermarks, lastSpark)]

StoreFast ==
    /\ fast.step = "read" /\ fast.watermarks # Pending /\ fast.rows # Pending
    /\ snapshot' = [snapshot EXCEPT !.fast = FastSections]
    /\ outbox' = [outbox EXCEPT !.fast = snapshot']
    /\ fast' = [NewPoll EXCEPT !.step = "broadcast"]
    /\ UNCHANGED <<pipeline, lastProducer, lastSpark, health, trueLag, wasUp>>

BroadcastFast ==
    /\ fast.step = "broadcast"
    /\ outbox' = [outbox EXCEPT !.fast = Nothing]
    /\ EndFast
    /\ UNCHANGED <<pipeline, lastProducer, lastSpark, health, snapshot>>

-----------------------------------------------------------------------------
(* _refresh_deployment: Kafka, then Cassandra, then the others at once; the *)
(* probes return False where the fast poll's reads raise.                   *)

Probe(s, next) ==
    /\ health' = [step |-> next, asked |-> health.asked \cup {s}, seen |-> health.seen \cup ({s} \cap up)]
    /\ UNCHANGED <<pipeline, fast, lastProducer, lastSpark, snapshot, outbox, trueLag, wasUp>>

CheckKafka     == health.step = "kafka" /\ Probe("kafka", "cassandra")
CheckCassandra == health.step = "cassandra" /\ Probe("cassandra", "others")

CheckOther ==
    /\ health.step = "others"
    /\ \E s \in Services \ health.asked :
        Probe(s, IF Services = health.asked \cup {s} THEN "store" ELSE "others")

\* The pods of extra nodes; when the API cannot be asked none are listed.
DeploymentSections == [healthy |-> health.seen, nodes |-> "api" \in up]

\* Mutant of StoreDeployment: not without the extra nodes.
StoreDeploymentWhole ==
    /\ health.step = "store" /\ "api" \in up
    /\ snapshot' = [snapshot EXCEPT !.deployment = DeploymentSections]
    /\ outbox' = [outbox EXCEPT !.deployment = snapshot']
    /\ health' = [NewCheck EXCEPT !.step = "broadcast"]
    /\ UNCHANGED <<pipeline, fast, lastProducer, lastSpark, trueLag, wasUp>>

\* Mutant of StoreDeployment: the message holds this loop's sections only.
StoreDeploymentAlone ==
    /\ health.step = "store"
    /\ snapshot' = [snapshot EXCEPT !.deployment = DeploymentSections]
    /\ outbox' = [outbox EXCEPT !.deployment = [fast |-> Nothing, deployment |-> DeploymentSections]]
    /\ health' = [NewCheck EXCEPT !.step = "broadcast"]
    /\ UNCHANGED <<pipeline, fast, lastProducer, lastSpark, trueLag, wasUp>>

StoreDeployment ==
    /\ health.step = "store"
    /\ snapshot' = [snapshot EXCEPT !.deployment = DeploymentSections]
    /\ outbox' = [outbox EXCEPT !.deployment = snapshot']
    /\ health' = [NewCheck EXCEPT !.step = "broadcast"]
    /\ UNCHANGED <<pipeline, fast, lastProducer, lastSpark, trueLag, wasUp>>

BroadcastDeployment ==
    /\ health.step = "broadcast"
    /\ outbox' = [outbox EXCEPT !.deployment = Nothing] /\ health' = NewCheck
    /\ UNCHANGED <<pipeline, fast, lastProducer, lastSpark, snapshot, trueLag, wasUp>>

-----------------------------------------------------------------------------

FastStep == FetchProducer \/ FetchSpark \/ Adopt \/ ReadWatermarks \/ ReadRows \/ FastFails
                \/ StoreFast \/ BroadcastFast

DeploymentStep == CheckKafka \/ CheckCassandra \/ CheckOther
                      \/ StoreDeployment \/ BroadcastDeployment

Pipeline == Produce \/ Consume \/ Report \/ (\E group \in Together : GoDown(group)) \/ \E s \in Asked : ComeBack(s)

Next == FastStep \/ DeploymentStep \/ Pipeline

Spec == Init /\ [][Next]_vars

\* The two asyncio tasks run; nothing is asked of the pipeline.
FairSpec == Spec /\ WF_vars(FastStep) /\ WF_vars(DeploymentStep)

-----------------------------------------------------------------------------
(* Properties *)

TypeOK ==
    /\ up \subseteq Asked /\ outages \in 0 .. MaxOutages
    /\ high \in [Partitions -> 0 .. MaxEvents] /\ consumed \in [Partitions -> 0 .. MaxEvents]
    /\ fast.step \in {"fetch", "read", "broadcast"}
    /\ DOMAIN snapshot = Loops /\ DOMAIN outbox = Loops

\* The lag a snapshot shows is never below the query's lag when the broker
\* was asked, with Spark's answer from just before, or one kept from before
\* it went away (state_poller.py:119-135): reading the broker first, or
\* together with Spark, would show a query as caught up that is not.
LagIsNotUnderstated ==
    fast.step = "broadcast" =>
        snapshot.fast.lag = Nothing \/ snapshot.fast.lag >= trueLag

\* A snapshot that says the producer was reachable comes from a poll during
\* which it was up: an echo of its last answer is marked as one.
EchoIsMarked ==
    fast.step = "broadcast" => (snapshot.fast.reachable => wasUp)

\* A snapshot is honest of how far behind the pipeline is, and of who spoke.
PollerInv == TypeOK /\ LagIsNotUnderstated /\ EchoIsMarked

\* The poller keeps the promise its followers rely on.
Promise == INSTANCE Feed WITH Contents <- Sections
KeepsPromise == Promise!FeedSpec

\* What the snapshot shows once the pipeline has settled.
DeploymentIsTrue == snapshot.deployment = [healthy |-> up \cap Services, nodes |-> "api" \in up]

FastIsTrue ==
    /\ snapshot.fast # Nothing
    /\ snapshot.fast.reachable = ("producer" \in up)
    /\ "producer" \in up => snapshot.fast.sent = sent
    /\ ("spark" \in up /\ progress # Nothing) => snapshot.fast.lag = QueryLag(progress)

\* What the snapshot itself says of the services that the fast poll reads.
ReadsAreHealthy == {"kafka", "cassandra"} \subseteq snapshot.deployment.healthy

\* Whatever went down, and came back or not: the deployment section ends up
\* true, and the others do too or stand beside a deployment section that shows
\* Kafka or Cassandra down (without them a fast poll ends before it stores).
OutageIsShown ==
    /\ <>[]DeploymentIsTrue
    /\ <>[](FastIsTrue \/ ~ReadsAreHealthy)

\* What state_poller.py:112 says: source_reachable reflects the current poll.
\* The code does not keep this: a poll that raises throws away its answers.
SourceIsCurrent ==
    <>[](snapshot.fast # Nothing => snapshot.fast.reachable = ("producer" \in up))
=============================================================================
