# Formal models of the IoT environmental-data pipeline

This directory holds TLA+ models of the pipeline in this repository: the parts
whose correctness depends on the order of steps of several actors, on crashes,
retries and replays, and the calculations behind the charts and reports, which
must agree with the readings and with one another. Each model is read off the source, not off the
documentation; `PROJECT.json` ties every definition to the lines it stands for.
TLC checks the models on small instances; TLAPS proves the main safety
properties for every value of the constants.

    tlc -config SparkJob_raw.cfg MCSparkJob      # a run
    tlapm SparkJobProofs.tla                     # the proofs of a module

## 1. The system

A producer sends synthetic or replayed sensor events to a Kafka topic. A Spark
job reads the topic with several independent streaming queries, flags
anomalies, and upserts raw events and windowed aggregates into Cassandra. A
backend (FastAPI) serves Cassandra's tables, a dataset file, the state of the
pipeline and a few admin actions to a React page. A Kubernetes Job derives two
years of history once. Scripts bring the whole thing up and down.

    producer --Kafka--> spark job --CQL--> Cassandra <--CQL-- backend --HTTP/WS--> page
                           ^                  ^   ^              |
      source CSV ----------+                  |   +-- archive ---+--> archive volume
                                              |                  |
                    history-backfill Job -----+--> derived CSV --+
                                                                 +--> Kubernetes API

| component | state it keeps | operations | what is hard | what makes it correct |
|---|---|---|---|---|
| Spark job (`spark_job/`) | offsets, EWMA state and windows in one checkpoint per query; rows in Cassandra | plan, run, write and commit a batch; restart | crash between any two steps and replay; late events; rows written one by one; several queries with their own state | no event skipped, none counted twice, flags independent of batching and crashes, tables that agree, no crash loop |
| anomaly rule (`anomaly_state.py`, `baseline.py`, `seasonal.py`) | mean and variance per device and metric | judge a reading, fold it in | seed shifted by the season the job starts in; floor of the variance | a reading is judged before it is folded in; state survives restarts |
| producer (`producer/`) | counters, running statistics, clock of the rate limiter | read the file's statistics, replay its last rows, generate, pace, publish | full client queue; killed at any time; delivery failures reported later and only logged; handover from replay to synthetic | order per device; counts that balance with what was stored, queued or refused; no burst after a stall |
| history-backfill (`history_backfill.py`) | record in `history_backfill`, rows in `agg_1h`, CSV and sidecar | one Job, retried and re-run | dies anywhere; re-run with other settings; Spark writes the same table; files outlive the keyspace | complete means filled, one history only, live rows win, file and record agree |
| archive (`archive.py`) | archive file, its buffer | export and delete partitions | Spark writes the partition meanwhile; two requests; dies after the DELETE | no row lost |
| dataset reader (`dataset_reader.py`) | cached rows, timestamps, summary, mtime | query, summary, reload | threads of a pool; file replaced at any time | answers of one version of the file, never of an old one |
| node deploy (`cassandra_nodes.py`) | flag, replicas | scale, wait, report | check-then-act, several deploys, backend dies, waits | one at a time, truthful display, display that ends |
| Cassandra reads (`cassandra_client.py`) | none | bucketed queries | bucket and month bounds | every bucket of the range read once |
| state poller, sockets, page (`state_poller.py`, `ws_manager.py`, `routers/ws.py`, `usePipelineState.ts`) | snapshot, connections, page's state | poll fast and slow, broadcast, fall back to polling | slow answers, two rhythms, order at the page | an open socket misses no refresh; a page ends up showing what the pipeline settled on, and says when it is an echo |
| sessions, alerts (`auth.py`, `alert_store.py`) | none (signed token); ring of 200 alerts | log in, verify, push | expiry, full ring | role only as granted |
| environment rules, reports (`environment.py`, `reports.py`) | none | pure functions | local time, month and hour bounds, roll-up, thresholds | each agrees with the readings it sums up, and with the others |
| deploy.sh, init Jobs (`k8s/`) | cluster objects | up, update, down | one step of several fails; order of Jobs | a second `up` repairs a failed one |
| frontend pages, Grafana/Prometheus/Loki, docs | layout and configuration | | | |

How they interact: producer and Spark job share only the Kafka log; the Spark
queries share only Cassandra and the log; backfill Job and Spark job share the
table `agg_1h`; the archive action and the Spark job share `raw_events`; backfill
Job and dataset reader share the derived CSV; the backend's handlers, tasks and
thread pool share its objects; pages share the backend's broadcasts.

`PROJECT.json` lists the hazards of this code at the lines where they bite, with
the property that catches each.

## 2. The modules

| module | models | lines stay close to |
|---|---|---|
| `AnomalyRule` | seed, judgement and fold of a reading | `anomaly_state.py`, `baseline.py` |
| `SparkJob` | log, driver, checkpoints, Cassandra, queries | `spark_job/*.py` |
| `EventStore` | what a table of events promises, abstractly | (specification of `raw_events`) |
| `MCSparkJob` | constants of the `SparkJob` runs | |
| `SparkJobProofs` | its theorems | |
| `HistoryBackfill` | the Job, Spark beside it, volume, operator | `history_backfill.py`, the Job's manifest |
| `DatasetReader` | threads in `query` and `summary`, lock, file | `dataset_reader.py` |
| `DatasetReaderProofs` | its theorems | |
| `ArchiveTrim` | requests, partitions, buffer, volume, Spark beside it | `archive.py`, `cassandra_client.py` |
| `ArchiveTrimProofs` | its theorems | |
| `NodeDeploy` | event loop, tasks, cluster, page | `cassandra_admin.py`, `cassandra_nodes.py` |
| `NodeDeployProofs` | its theorems | |
| `LocalTime` | calendar, zone, buckets of time | `reports.py`, `environment.py`, `series.py` |
| `Environment` | thresholds, status, score, trend, roll-up | `environment.py`, `baseline.py`, `seasonal.py` |
| `Derivation` | the derived row of an instant | `history_backfill.py`, `seasonal.py` |
| `Timeline` | partitioned reads and the charts, log and overlay built on them | `cassandra_client.py`, `routers/sensors.py`, `series.py` |
| `Reports` | episodes, fact sheet, monthly report, inquiry, heatmap, extract | `reports.py`, `report_xlsx.py` |
| `Observations` | the readings stored so far, and what all of these must say of them | (composition of the five above) |
| `HistoryProofs` | the theorems of `HistoryBackfill` and `Observations` | |
| `MCReports` | constants of the run `reports` | |
| `Producer` | the process, its client queue, the broker | `producer/*.py` |
| `MCProducer` | constants of the run `producer` | |
| `ProducerProofs` | the theorems of `Producer` | |
| `StatePoller` | both polling loops, and what they poll | `state_poller.py`, `kafka_client.py` |
| `StatePollerProofs` | its theorems | |
| `Feed` | what the poller promises its followers, abstractly | (specification of `StatePoller`, base of `PageFeed`) |
| `PageFeed` | broadcasts, the socket's handler, the page's state | `ws_manager.py`, `routers/ws.py`, `usePipelineState.ts` |
| `MCPageFeed` | constants of the run `page` | |
| `PageFeedProofs` | the theorems of `PageFeed` | |

Definitions called "Mutant of ..." are deliberate bugs that no specification
uses: putting one in the place of the definition it mutates must break the
property it is listed with in `PROJECT.json`. They show that the property
depends on the code.

### SparkJob and AnomalyRule

State: `log` is the topic, a sequence per partition, only ever appended to by
`Publish` (messages are keyed by device, so a device stays on its partition).
`boot`, `up`, `seed`, `ran`, `todo` are the driver's memory and vanish in `Stopped`.
`committed`, `wal`, `ewma`, `windows`, `maxTs`, `watermark` are the checkpoint
of each query; `table` is the query's Cassandra table and `thresholds`
whether `device_thresholds` was written. `late` and `crashes` are history.

Actions: `main()` is three steps (`Boot`), and the driver may die between any two:
`WriteThresholds`, `ShiftSeed` by the season of the moment, and `Start` of the
queries. `PlanBatch` logs how far the next batch reads and
the watermark it uses; `RunBatch` computes the rows (`parse_and_cast`, EWMA
pass, window counts) and enters `foreachBatch`; `WriteRow` upserts one of them;
`CommitBatch` makes offsets and state the new checkpoint; `EncoderFails` is a
null in a column that `OUTPUT_SCHEMA` declares non-nullable; `Crash` is any
other death. A planned batch that was not committed is replayed with the same
offsets and watermark: this part is Spark's documented protocol, and the
definitions for it are close to the code only where the job configures it.

Abstractions: one metric instead of five (each has its own state and a flag is
their disjunction); integer readings, so the EWMA divisions truncate; a raw row
is the pair of its counts (one event, flagged or not), an aggregate row its
event and anomaly counts: means and extremes of a window are left out; windows
of one width per query, identified by their number. `IsAnomaly` reads the
flags off one pass over the batch in offset order. The code asks for no order
within a device's group; the model takes the order of the device's partition,
in which one task reads it and in which its rows reach the grouping.

### HistoryBackfill

State: `agg[h]` says who wrote the hour's row (nobody, Spark, or a derivation);
`meta` is the row in `history_backfill`; `csv` and `sidecar` are on the volume;
`pc`, `deriv`, `pending` belong to the running attempt; `conf` is its environment.
One action per step of `main()`: `Begin` (read the record, settle the anchor,
early exits), `Record`, `Derive`, `OpenSidecar` and `DumpSidecar` (the file is
truncated before it is filled), `ReadExisting`, `WriteHour`, `Complete`. Around
them: `Crash` (retried up to `backoffLimit`), `SparkUpsert`, `Tick`, `Rerun`,
`DropKeyspace`, `LoseCsv`. `seen` is history: what `ReadExisting` found in the
table, so that a live row the attempt knew of can be told from one that came
later. Time is in hours; one device stands for all. What a
row's numbers are is left out: a derivation is named by its anchor and span.

### DatasetReader

Every access to a cached attribute is a step of its own, because CPython may
switch threads between any two. A version number is a content of the file and
its mtime. `Stat`, `Check`, `Lock`, `OpenFails`/`Parse`, `SetRows`, `SetTs`,
`SetSummary`, `SetLoaded`, `TakeRows`, `TakeTs` are `_current()`; `Query`, `Look`,
`Compute`, `Fetch`, `Summarise` its callers; `Replace` and `Vanish` the volume.
Two variables are history. `late`: some summary was computed while a load replaced
the rows under it, the one way in which a summary of an older version can stay
cached. `emptied`: the calls under which another call emptied the cache, because
it had looked before the file was there or after it was taken away.

### ArchiveTrim

A partition is a device's 15-minute bucket. `Begin` lists the partitions and
chooses the targets (`DefaultCutoff` is the index arithmetic of the code),
`Select`, `Delete` and `Write` handle one target, `Flush` and `Close` move lines
to the volume. Each can raise: `SelectFails`; `DeleteFails`, having done nothing
or all of its work; `WriteFails`, for a line that cannot be formatted or written
after its partition was deleted; `CloseFails`. An exception leaves the `with` block,
which closes the file, and the flush of what is in its buffer may fail as well
(`Abort`). `Crash` loses memory and buffer. `Upsert` is the Spark job, which may be
`MaxLag` buckets late. `struck` is history: the rows, one by one, that something
hit which loses rows. A row that is stored once more is no longer struck.

### NodeDeploy

`ready` is the queue of asyncio's event loop: a handler or a task that became
ready first runs first and, without an `await`, to its end. `Handle` is the
request with its check of the flag, `Run` the start of the task that puts the
flag up. The body of `deploy_node` is the constant `Script`: calls made in a
thread and messages said; `pc` is a place in it. A call returns when the cluster
is as it waits for, or raises (`Raise`) at any time, which stands for refused
requests, stuck pods and the two deadlines. `Create`, `Delete` and `Join` are
Kubernetes (a StatefulSet keeps the lowest ordinals, so its pods are a count) and
Cassandra; readiness comes and goes, so a poll may find any pod that exists ready
or not. A node whose pod is deleted stays in the ring, down. One page stands for
the pages: all that are connected get the same messages. `InFlight` is how many
requests can be ready at once: two admins, or one who clicks twice. `raced` is
history: the requests accepted while a task was queued that had not put the flag
up, with those tasks, and any accepted beside a deploy whose flag such a rival
took down. Left out: pods that get another address while they are waited for;
the read-only summaries.

### Reports: LocalTime, Environment, Derivation, Timeline, Reports, Observations

These are pure functions in the code and operators here. An instant is a number
of half hours, the finest that the properties tell apart; the zone is that of
the code, with its two changes a year, so local days have 46, 48 or 50 half
hours. Means are integer divisions, and the constants make them exact where two
ways of computing one are compared.

`Observations` gives them a state to speak of: `thresholds`, the rows `derived`
by the backfill Job (or none, when it has not run), the `live` readings, and the
`tables` aggregated from both. Its one action `Read` lets time pass to the next
instant of `Clock` and chooses the readings of that instant and whether Spark
flagged them (`StoredInit`, `StoredNext`, `StoredSpec`). Its properties hold in
every such state: each compares what an endpoint answers with the readings
themselves, or two endpoints with each other.

Left out: wording, the workbook's formatting, the labels of charts, how rows
travel over CQL, percentiles and latencies, which are passed on.

### Producer

State: the CSV `file`; `phase`, `step`, `row`, `stats`, `turn`, `spiked` and
`state` (the counters that `/state` reports) are in memory and start anew with
each `run`. `queue` is the Kafka client's, `topic` what the broker has stored in
this run, both per key; `refused` counts failed deliveries. `lead` is
`next_tick - monotonic()`, `ages` the times since the recent publications: time
is relative, and passes (`Tick`) while the loop sleeps or a call takes long.

Actions: `ReadStats` folds a row of the file into the one-pass statistics, kept
as exact fractions; `PublishRow` and `PublishSynthetic` hand a message to the
client; `RecordEvent` and `RecordAnomaly` count it in steps of their own, since the
HTTP server reads the counters from another thread; `WaitForNextTick` is the
limiter; `RecordHandover` switches modes. A full queue ends the loop (`BufferFull`)
and `Flush` waits for deliveries until its deadline; `Kill` gives nothing that
chance; `Restart` boots. `Deliver` and `Refuse` are the broker: `_delivery_report`
only logs.

One metric stands for all and one boolean for `light` and `motion`; values of a
synthetic event are left out, the means they are drawn around are not.

### StatePoller and Feed

One snapshot has the sections of two loops. `fast` and `health` hold the locals of
a poll of each: every awaited answer is a step, so the pipeline (`Produce`,
`Consume`, `Report`, `GoDown`, `ComeBack`) moves between any two. The two `/state`
requests run at once, then the watermarks and rows; storing the sections and
taking the copy to broadcast is one step, because nothing is awaited between
them. An exception (`FastFails`) ends a poll and never a loop. A service that is
`up` answers in time; the groups of `Together` fail at once, and the numbers of a
producer or a Spark job that restarts begin anew. The sleep between polls is a
delay as any other. One query stands for all; what a section only passes on
(recent events, rates, latencies) is left out.

`Feed` is the promise: a loop replaces its own sections only, copies the whole
snapshot in the same step, and broadcasts that copy before it polls again.
`StatePoller` implements it (`KeepsPromise`), and `PageFeed` is built on it.

### PageFeed

`targets[l]` are those a broadcast has yet to reach; it sends to one at a time and
awaits each, so a client that does not read (`Stall`) holds the loop until the
server's keep-alive cuts it off. `handler` is the endpoint of the page's socket,
which joins `members` before its first snapshot. `wire` is what is on its way,
limited by the socket's buffers. The rest is the page: its socket (never opened
a second time), the fall-back timer, the polling timer, answers that arrive in
any order and after polling has stopped, `cancelled` once it is unmounted. A loop
goes on for ever with unchanged contents; contents count up to `MaxContent`.

## 3. The runs

| run | bounds | shows |
|---|---|---|
| `spark_raw` | 2 devices, 1 partition, 3 events, batches of up to 2, 2 seasons, 2 crashes, all kinds of record | `CommittedIsStored`: an offset is only passed with the row stored. `FlagsAreExplained`: flags are those of one uninterrupted pass (`FlagsFollowHistory`), and the thresholds are there before the rows (`ThresholdsFirst`), wherever the boot dies |
| `spark_agg` | 2 partitions of up to 3 events, 3 clock values, windows and delay of 1, 2 crashes | `CountsExact`, `OnlyLateIsDropped` |
| `spark_live` | raw and aggregate side by side, 2 events, a normal and an anomalous reading, every kind of record, 1 crash, fairness | `TablesAgree`; `RawIsEventStore`: `raw_events` implements `EventStore`, liveness included; `JobGoesOn`: nothing on the wire but a record with a gap, no crash and no other query's end keeps a batch from its commit or a good event from its row for ever (a gap does: section 5) |
| `backfill` | 2 spans, 5 hours, 2 attempts per run, 3 runs, 1 drop, Spark at the clock's hour or one behind, fairness | `RecordIsTrue`: complete means filled, one history, and a file that matches is the right one. `CompleteIsFinal`: success is earned, and a complete history left alone. `SeenLiveIsKept`: a live row the attempt found in the table is never overwritten, and one that came later only of an hour Spark still reached when the anchor was set. `RunEnds` |
| `dataset` | 2 threads, no file at first, 2 versions, the file vanishes once, fairness | `CacheIsSound`: the cache is never marked newer than it is, and a stale summary only ever comes from one computed during a load. `AnswersAreFresh`: a call that finds the file works with a version no older than its call, or with the "no rows" another call stored under it (`emptied`). `CallsReturn`, the lock's discipline in `TypeOK` |
| `archive` | 2 requests, 3 buckets, refused SELECTs, refused and timed-out DELETEs, failing writes, flushes and closes, a crash, Spark one bucket late, default cutoff, fairness | `RowsAreAccounted`: a row is lost only if that row was hit by one of four things (`LossHasACause`), and a request that answers has its rows on disk (`DoneIsOnDisk`). `OnlyOldIsTrimmed`, `RequestEnds` |
| `archive_race` | 1 request, Spark one bucket late, no fault | violates `Lossless` (finding) |
| `deploy` | 3 requests or deaths, 2 requests ready together, 1 crash, fairness | `OneDeploy`: two deploys run at once only if both got in through the gap between the test of the flag and its setting; `DisplayIsTrue`: a node shown as ready is in the ring, and stays a replica unless it is one of those deploys', the step shown red is the one that raised; `DeployEnds`: the flag comes down, and the display ends |
| `reports` | 2 locations, a source of 2 days, a derived past of 4 instants around a year's changes with 3 noises or no past, 7 live instants across the spring change and the month's end | the five groups below |
| `producer` | files of 2 to 4 rows around a limit of 2, queue of 2, 2 refused deliveries, 3 synthetic events, 2 lives | `StatsAreExact`: one pass gives the file's statistics. `LedgerBalances`: counted is stored, queued or refused. `ProducerInv`: order per device and a complete hand-over. `BurstIsBounded` |
| `poller` | 1 partition, 1 event, 1 outage of a group, fairness | `PollerInv`: the order of reads cannot show a query as caught up that is not, and an echo is marked. `KeepsPromise`: the poller implements `Feed`. `OutageIsShown`: whatever goes down, and comes back or not, the deployment section ends up true, and the rest does too or stands beside a deployment section that shows Kafka or Cassandra down |
| `page` | both loops, contents counted to 1, another client, buffers of 1 message, 1 lost answer, fairness | `PageInv`: one source at a time, an open socket is subscribed. `LoopsGoOn`, `PageCatchesUp` |

The groups of `reports`: `PeriodsLoseNothing` (local days tile time, the fact sheet
has every reading in its day, an inquiry's hours and their complement share out
the period); `FiguresAreExact` (what a monthly report, the columns beside it, a
roll-up or an overlay says of its period is what the readings of it say, or that
period's own report); `ViewsAgree` (log, reports, episodes, extract, gauge and
badge call the same values out of range); `ReadsAreComplete` (charts of every
granularity and the exposure have every reading of their range, once, however
the partitions cut it); `HistoryIsPlausible` (derived rows are flagged as
the map would flag them, and come from a source row near their own time of day:
no further from it than the widest stretch of the cycle without a row, its two
ends included).

A property that names several parts is their conjunction, so that the parts can
be read and proved one by one; its mutant breaks one of them.

Why the bounds are enough. The hazards of the Spark job need a batch that is
replayed after some of its rows were written, a second batch after it that
starts from its state, and a record older than the watermark that batch left:
three records, batches of up to two and two crashes give each of these, in any
order, and the second partition gives late records. A backfill is in danger
when an attempt dies at each of its steps and its successor, or a re-run with
another span, or a keyspace made anew, meets what it left: two attempts per
run, three runs and one drop give all pairs. Races of the reader and the
archive are between two callers and one writer. Of deploys two race, and a third
request meets the flag that one of them took down under the other. A report goes wrong at a boundary of
day, month, year or zone, on a missing hour, or on a value at a threshold: the
instants and values of `MCReports` are chosen there. The producer's limiter can
fall behind by four intervals, twice what makes it start over; its files are
as long as the limit and longer, some devices lack an hour, and both refused
messages may be of one device. One outage can begin and end at any step of
either polling loop and last for many polls; the groups are those that matter
together: the producer with and without its broker, Spark, Cassandra, the
Kubernetes API. A broadcast blocked by a client, one overtaking it from the
other loop, a full buffer and a late answer each need one of the kind. The
bounds are guards on the events of the environment (records, crashes, ticks,
versions, requests), never on the steps of the program.

`CHECK_DEADLOCK FALSE` is in the cfgs of models that come to rest when their
bounds are used up. The pollers and the page never do, so `StatePoller.cfg` and
`PageFeed.cfg` have deadlock checked.

Fairness. Weak fairness, with one exception, and only of what the platform itself
keeps going: Kubernetes restarts the driver and the Job's pod (`Boot`, `Begin`),
Spark's trigger fires and a batch goes on or its encoder fails (`EncoderFails`), a thread in a call or a task in the
event loop is scheduled again, a wait has a deadline. Nothing is asked of
producers, admins, operators, the clock, failures, or of Kubernetes and
Cassandra while they are waited for; pipeline services may stay down for ever.
The keep-alive of the WebSocket server cuts off a client that does not answer
(`CutOff`). A poll of the page is answered or lost, and what is sent arrives. The
exception is strong fairness of `SendPage` and `SendFirst`: the senders that wait for one
socket to drain are all woken when it has, so none is passed over for ever, though
the buffer may be full again when it looks. In `HistoryBackfill` fairness is of the
attempt's steps as a whole (`JobStep`), in `DatasetReader` and `ArchiveTrim` of
each actor as a whole, in `NodeDeploy` of the event loop with all its tasks (one
task cannot keep the others waiting, since every deploy has a last step), in `StatePoller` and `PageFeed` of each loop
as a whole and of the page's callbacks one by one.

## 4. What is proved

Each module of proofs has one inductive invariant `IInv` (or a named stronger one;
`HistoryProofs` has one for each of its two systems) that TLC checked on the
module's run before it was proved; every theorem follows from it,
for all values of the constants that meet the module's `ASSUME`. Those are on
constants only: types, finiteness, and that a model value such as "no row" is not
one of the values it is told apart from. TLC evaluates them in the runs. Where a
theorem assumes more, the hypothesis is in the theorem and is explained here.

`SparkJobProofs`, from `JobAssumption` and `RuleAssumption`:

- `ShapeInvariant`: offsets stay within the log; a batch is written only by a
  running job that planned it.
- `NoRecordSkipped` (`CommittedIsStored`) is not inductive alone: a commit moves the
  offsets past records whose rows it does not look at. The invariant adds `Shape`
  and `BatchWritten` (while a batch is written, each of its rows is pending or in
  the table), so that when nothing is pending every row of the batch is in. The
  lemmas that carry it say that a longer log does not change what a batch reads
  (`PublishKeeps`), that the emitted keys depend only on checkpoint and log
  (`KeysDependOn`), and that a commit splits the committed positions into the old
  ones and the batch.
- `RawRefinesStore`: every step of the raw query is a step or a stutter of
  `EventStore` (safety): `PublishRefines` and `StepRefines`.
- `LateHolds` (`OnlyLateIsDropped`): a watermark, of the checkpoint or of the planned
  batch, lies the whole delay behind some committed record (`DelayKept`), never
  goes back (`MarksOK`), and what is dropped is committed (`LateIsSeen`).
- `CountsHold` (`CountsExact`): a window in the checkpoint counts the committed
  records of it that were not late, and a window without state is closed for good
  (`WindowsExact`); a row in the table is that count, or the planned batch will
  write it anew, and what its present run has written is what will be right once it
  is committed (`RowsExact`).
- `FlagsHold` (`FlagsAreExplained`): one pass over a device's records cut at any
  offset goes on from the state it left there. Hence the raw rows and the EWMA
  state of a checkpoint both follow from one history (`RawRows`, `OneHistory`);
  `SeasonOK` gives the seed's season, `ThresholdsOK` that the thresholds are stored
  from the first step of `main()` on, so that a later boot may die anywhere.
- `TablesHold` (`TablesAgree`) adds `FlagsExact`, the counterpart of `WindowsExact` for
  flagged records. Its hypothesis is `Seasons = {1}`: raw and aggregate query begin
  from the seed of the season in which each first saw a device, so a restart in
  another season, between the two, makes them judge by different means. That is
  the code's behaviour and not promised otherwise; run `spark_live` has one season
  for the same reason.
- `TypeHolds` (`TypeOK`).

`HistoryProofs`, of `HistoryBackfill`, from `BackfillAssumption`:

- `Invariant`: `TypeOK /\ Control /\ CompleteIsFilled /\ OneHistory /\ MatchIsTrue`
  is inductive. `Control` says what an attempt may rely on at each of its
  steps: past `Record` it works on the derivation on record; past `Derive` the
  file is that derivation; while it writes, every hour is present or pending.
- `TypeHolds` (`TypeOK`), `RecordHolds` (`RecordIsTrue`; `CompleteAndSingle` and `MatchHolds`
  are its parts) and `FinalHolds` (`CompleteIsFinal`, from `SuccessHolds` and
  `LeftAloneHolds`) follow from it.
- `LiveHolds` (`SeenLiveIsKept`), for any lag of Spark, needs `PendingIsDark`: an hour
  still to be written lies before the anchor, which is never ahead of the clock;
  it is none of those seen; and it has no live row where Spark no longer writes.

`HistoryProofs`, of `Observations`. The assumptions: the calendar begins at day 1 and
what is read with its comparison reaches up to 768 days back, a year twice over and
more (`ObservationsAssumption`: the derived past and
the live instants lie further than that from its beginning, in order; live
readings are negative for temperatures alone, which are the only ones that can
be); the locations are a list of the devices and the fact sheet covers no more than a
year (`ReportsAssumption`); the source file
has a row of each device (`DerivationAssumption`); the Job flags by the same number of
deviations as the map, as `environment.py:32` demands, every metric of the source
varies and no pollutant is absent from it (`SourceAssumption`).

- `StoredHolds` and `HistoryHolds`: the two invariants. `StoredInv`: finitely many rows of
  the recorded calendar, none later than the clock, and the tables are what
  aggregating them gives. `HistoryInv`: every derived row is `derive`'s of some
  device, instant and noise, and each device is judged by its own baseline.
- `PeriodsHold` (`PeriodsLoseNothing`) rests on the calendar. A day is in one month of one
  year (`YearOfDay`, `MonthOfDay`), the clocks change at one o'clock UTC, so an hour has
  one offset (`HourOffset`) and lies in one local day, each local day has an
  instant (`DayHasInstant`) and days follow one another as instants do
  (`DaysInOrder`). The hours out of range of all days of the fact sheet are counted
  as the size of a disjoint union, since that is what a sum of counts is.
- `PlausibleHolds` (`HistoryIsPlausible`). The stable sort gives a permutation in order
  (`OrderSorts`), so the rows before an instant of the cycle are as many as the
  binary search says (`RowsBefore`); the nearest row is one of its two neighbours,
  and epoch, origin and cycle are whole days, so a distance in the cycle is one in
  the time of day (`TimesApart`, `RowKeepsTheHour`). For the flag, the rule of the Job
  and the status of the map agree metric by metric: three deviations, or the
  ceiling (`StatusIsRule`), from a baseline whose numbers exist (`SumIsNumber`,
  `RootIsNumber`, `BaselineIsNumbers`).
- `ViewsHold` (`ViewsAgree`). The log asks of an hour what the report asks of its row
  (`PointIsRow`). The score of a value at its limit is 0 and its badge critical
  (`ScoreAtLimit`), so gauge and badge agree. For the episodes, the fold over an
  hour's rows in order keeps `Merged`: each episode has a row for each of its
  hours and says what those rows say, two are apart from one another, and the last
  is open at the end of the last row. A row then lengthens the last episode or
  begins one (`OneMoreRow`, `MergedStep`), and at the end they are the maximal runs.
- `ReadsHold` (`ReadsAreComplete`). A table has one row for each width of time with a
  sample, counting those samples (`TableRows`), and the days or months between two
  instants are those of the instants between, so a read by partitions finds each
  row of its range (`ReadsAll`); rows with starts of their own are too few for a
  limit to cut any off (`FewRows`, `NothingCutOff`). A count over the rows of a bucket, or
  over the buckets of a chart, is the number of samples below it (`EventsCounted`,
  `PointsCount`). The cutoff of the exposure is the end of one share and the
  beginning of the other (`ExposureOfHours`).
- `ReportsHold` (`MonthlyIsExact`, `ReportsChain` and `RollupIsExact`) and `FiguresHold`
  (`FiguresAreExact`, those three and `CompareSeesHistory`). Rows that are whole
  hours of a set of samples have its number, its sum and its extremes
  (`RowsAddUp`, `RowsReach`); the days between a month's bounds are the days of that
  month (`DaysOfMonth`), so the two reads of a report cut at the bounds of its three
  months give the rows of each (`PeriodRows`, `MonthIsRows`); and the ranking's sort
  loses no location, since the keys are triples of numbers (`RankKeyIsNumbers`,
  `LexOrderSorts`, from the same `PlacedSorts` as `OrderSorts`). An overlay read from the
  partitions is a chart up to an earlier instant (`ChartCounts`, `HistoryCovers`).
  There are two hypotheses. `AveragesAreWhole`: the code averages floats and the
  model divides integers, so an average of averages is exact only where an hour's
  average is a whole number. It is a predicate of the state and holds in every
  state of the run `reports`; `ReportsChain` does without it. `LongHistory`, for the
  overlays alone: the derived past begins at least 768 days before its end, the
  furthest an overlay looks back, as with the 770 days of `HISTORY_SPAN_DAYS`
  (`history_backfill.py:89`). With a shorter past an overlay may be read from the
  derived file, which lacks the live readings of a period that reaches past the
  end of the derived past. The past of the run is shorter, so that both sources
  are checked, and the periods it reads from the file end before the live readings.

`DatasetReaderProofs`, from `ReaderAssumption`:

- `TypeHolds` (`TypeOK`, with the lock's discipline) and `OneLoader`: one thread loads
  at a time.
- `CacheHolds` (`CacheIsSound`): between the assignments of a load the attributes
  disagree, so the invariant says how far along the one load is (`LoadInvariant`),
  and that a load drops a summary of the rows it replaces (`SummaryInvariant`).
- `AnswersHold` (`AnswersAreFresh`) from `CallInvariant` (a call began no later than its
  mtime and what it compares it with), `StoreInvariant` (the rows of a load are
  those of its own mtime, and the cache gets older only by being emptied) and `Fit`,
  which says of rows, timestamps and mtime alike that they are as new as the call,
  or empty with the call among those `emptied`. The three are preserved one after
  the other (`CallStep`, `StoreStep`, `FreshStep`). Whether the file is there when the
  backend starts, or is ever taken away, is left open.

`ArchiveTrimProofs`, from `ArchiveAssumption`:

- `DefaultIsATenth`: what `DefaultCutoff` computes. No more than a tenth of the
  partitions are older than it, and it has a target whenever there is a partition.
- `TypeHolds` (`TypeOK`); `RowsHold` (`RowsAreAccounted`) from `UnstruckAreSafe` (each row ever
  stored that none of the four causes has hit is in the table, a file, a buffer or
  in the memory of a request that is about to write it, and a request about to
  delete its partition holds it) and `TookIsHeld`; `OnlyOldHolds`
  (`OnlyOldIsTrimmed`) from `TargetsAreOld`.

`NodeDeployProofs`, from `DeployAssumption`:

- `TypeHolds` (`TypeOK`) bounds the nodes however many deploys interleave: each patch is
  one more than a number read before (`CountOK`), by a task that begins once
  (`QueueOK`). `ErrorHolds` (`ErrorNamesStep`) from `StepOK`.
- `RacesAreKnown`, for any number of requests together and any deaths of the
  backend. `RaceOK`: who runs without having raced has the flag up, and who waits
  or runs beside another raced, like the other. `NodeOK`: the running task's node
  is what it read, then in the ring after the last wait; to one that has not raced
  the replicas are those it has read, and then one more. `ShownOK`: the same of the
  node the page shows. From these `OneDeployHolds` (`OneDeploy`) and, with `StepOK`,
  `DisplayHolds` (`DisplayIsTrue`).

`ProducerProofs`, from the assumption on files, limits and intervals:

- `ProducerHolds` (`ProducerInv`): that the topic keeps the file's order needs the
  queue and the row in hand in the invariant (`MessagesOK`), that the hand-over is
  complete needs where in the file the process is (`PhaseOK`).
- `LedgerHolds` (`LedgerBalances`): between publishing and recording, the event in
  hand is on one side of the ledger only (`LedgerOK`).
- `BurstHolds` (`BurstIsBounded`): each recent event but two paid for its interval
  with a wait (`PaceOK`).
- `StatsHold` (`StatsAreExact`): after each row the running count, mean and sum of
  squared deviations of a group are those of its rows so far, as fractions
  (`Welford`, `StatsOK`). A step multiplies them out: with n rows of sum s and sum of
  squares q, the mean is s/n and the squared deviations are (nq - s*s)/n; the square
  of the deviation from the old mean times that from the new is what q gains. The
  deviations from the final mean come to the same (`SumOfSquares`). Temperatures lie
  within `Infinity`, as floats do.

`StatePollerProofs`, from `StatePollerAssumption`:

- `SnapshotsAreHonest` (`PollerInv`): Spark's answer, or the last one kept of it, tells
  of no offset that is not consumed (`NotAhead`), and the broker is asked after the
  answer is adopted (`LagOK`), so the difference is not below the true lag; an answer
  of this poll is one of a producer that was up in it (`AnswersOK`).
- `PromiseKept` (`KeepsPromise`): each step of the poller is a step of `Feed` or a
  stutter (`CopiesOK`, `FeedStep`).

`PageFeedProofs`, from `PageFeedAssumption`:

- `PageHolds` (`PageInv`): a page that still shows "connecting" has asked for nothing
  (`Connecting`), and only one whose socket is closed can start to poll with polls
  under way (`PollsBounded`).
- `PollerUndisturbed`: with sockets that stall or close, the loops still behave as
  `Feed` promises.

Induction over the offsets of a pass, the rows of a file or a set of partitions
is done by least counterexample: a nonempty set of naturals has a smallest
member, here the first offset (or number of elements) for which the claim fails.
Sums are `SumFunction` of the community modules; the lemmas about it say that it
is the sum of a first element and the rest, whichever element is first, and is
monotone.

Only model-checked:

- All liveness: `JobGoesOn`, the liveness in `RawIsEventStore`, `RunEnds`, `CallsReturn`,
  `RequestEnds`, `DeployEnds`, `OutageIsShown`, `LoopsGoOn`, `PageCatchesUp`. The prover has no
  rule for fairness here.
- `FiguresAreExact` with a derived past shorter than 768 days, of which the run
  `reports` is an instance.

## 5. Findings

`PROJECT.json` lists six places where the code does not do what a comment, a
message or a requirement of the repository says, and quotes each sentence. For
each there is a cfg that checks the sentence itself, and TLC refutes it:

| sentence | what the code does | `tlc -config` |
|---|---|---|
| archive-and-trim is lossless (`REQUIREMENTS.md:1041`): `Lossless` | a row written between the SELECT and the DELETE of its partition is deleted without having been exported | `ArchiveTrim_race.cfg ArchiveTrim` |
| a malformed message never makes a crash loop (`schema.py:86`): `NoCrashLoop` | a record with usable ids and a missing reading gets through the filter of `parse_and_cast` to an output schema that forbids it, and the job restarts at the same offset for ever | `SparkJob_gap.cfg MCSparkJob` |
| live hours are never overwritten (`REQUIREMENTS.md:628`): `LiveIsNeverOverwritten` | an hour that Spark upserts between the Job's look at the hours present and its INSERT is overwritten | `HistoryBackfill_race.cfg HistoryBackfill` |
| an absent file reads as "no rows" (`dataset_reader.py:27`): `OnlyAbsentIsEmpty` | a call that found no file, and waited for the lock while another call loaded the file, empties the cache; a third, which finds the file, answers with nothing. The next that looks loads it again | `DatasetReader_empty.cfg DatasetReader` |
| a second deploy is refused (`cassandra_admin.py:30`): `NeverTwo` | two requests pass the check before either task has put the flag up, and both deploys run | `NodeDeploy_race.cfg NodeDeploy` |
| `source_reachable` is of the current poll (`state_poller.py:113`): `SourceIsCurrent` | a poll whose read of Kafka or Cassandra raises ends before it stores its sections, so the snapshot goes on saying that a producer is reachable which has gone too | `StatePoller_outage.cfg StatePoller` |

The first is the run `archive_race`; the others are beside the runs that check what
does hold in the same states, with the same record, lag, start order, requests or
outage allowed: `JobGoesOn`, `SeenLiveIsKept`, `AnswersAreFresh`, `OneDeploy` and
`DisplayIsTrue`, `OutageIsShown`. Each names the exception exactly, so that any other
way to break the sentence is an error of its run; all but the two that are
liveness are also proved.

Seen in the same models, of less weight: a summary computed from rows that a load
has replaced in the meantime is cached after the load, and stays until the file
changes again (the cause that `SummaryHasACause` of `DatasetReader` names). A query
can pair the rows of one version
of the file with the timestamps of another, and a summary can answer null when
a load resets it between the two reads of it (`DatasetReader`); a reader that
waited for the lock compares an mtime it took before, and may parse a version
twice. Lines of exported rows are in memory and in the file's buffer when their
partition is already deleted, so a full volume or a backend that dies then loses
them (`ArchiveTrim`, two of the causes of `LossHasACause`). A deploy that dies with the
backend leaves the page's display as it was, which is why `DisplayEnds` excepts a
page that lost its connection; of two deploys at once the first to end takes the
flag down for both, and a slow, absolute patch can then take a replica away
(`NodeDeploy`).

Observed and not claimed as a finding, because nothing in the repository
promises otherwise: a failed deploy leaves the replica it asked for, and since the
StatefulSet creates pods in order, a retry asks for one more that cannot be
created until the first is ready. Broadcasts of the two loops overtake each
other, so a page may step back to an older state until the next broadcast
(`PageCatchesUp` says what it does end up with). What the producer counts includes
messages the broker refused (`LedgerBalances` has a term for them). Right after the
history ends, an overlay of `1m` chooses Cassandra, which holds no derived minutes,
which is why `CompareSeesHistory` leaves that granularity out. The log names an hour
above its band though under its limit where the two differ (`ceiling` above
`normal_max`); the reports keep the two apart.

## 6. Plan

Done: the Spark job first, because every number the page shows comes from it;
then what destroys or rewrites its data (backfill, archive) and the shared
caches and tasks of the backend; then both ends of the pipeline (producer,
poller and page) and the calculations of charts and reports.

Then the proofs: the safety properties of every component's run are proved; three
have a hypothesis, which section 4 explains (`TablesHold`, `ReportsHold`,
`FiguresHold`).

Left to model: the ring of alerts and signed sessions, `deploy.sh` and the init
Jobs that wait for each other, the ring of recent events in the backend's Kafka
reader, the page's other hooks (requests answered out of order).

## 7. Not modelled, and why

- In `SparkJob`, means and extremes of windows: its properties are about counts
  and flags. In the reports they are modelled.
- Latency records, percentiles and throughput: numbers passed on for display.
- Sessions and alerts (`auth.py`, `alert_store.py`): a signed token without state
  and a list cut to 200 entries; planned last.
- `deploy.sh` and the init Jobs: a sequence of `kubectl` calls whose effects are
  the cluster's; planned, as external actions.
- CQL, Kafka's replication, Spark's checkpoint files, Kubernetes' scheduling:
  third-party; their contracts are actions of the models, marked external.
- Grafana, Prometheus and Loki provisioning, dashboards, the docs site: no logic.
- Page layout and styling, tutorial texts, spreadsheet formatting.
- Read-only pass-through endpoints without state.
