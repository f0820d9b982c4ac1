------------------------------- MODULE Timeline -------------------------------
(***************************************************************************)
(* From stored rows to the planner's charts: the partitioned reads of      *)
(* backend/app/cassandra_client.py, the timeline of environment.py and     *)
(* routers/sensors.py with its comparison overlay, and the out-of-range    *)
(* log of the frontend (BoundaryLog.tsx).                                  *)
(*                                                                         *)
(* Rows and points are sets: the code sorts what it returns by its start,  *)
(* which is unique.  The instance's finest instant stands for a minute.    *)
(***************************************************************************)
EXTENDS Derivation

-----------------------------------------------------------------------------
(* cassandra_client.py *)

DaysBetween(start, end)   == DayOf(start) .. DayOf(end)
\* Mutant of MonthsBetween: the month of the end alone.
MonthsOfEnd(start, end)   == {MonthIndex(MonthOf(end))}

MonthsBetween(start, end) == MonthIndex(MonthOf(start)) .. MonthIndex(MonthOf(end))

\* The partition a row is stored in: its UTC day (agg_1m) or month (agg_1h).
PartitionOf(row, granularity) ==
    IF granularity = "1m" THEN DayOf(row.window_start)
    ELSE MonthIndex(MonthOf(row.window_start))

HourlyBetween(agg_1h, device, start, end) ==
    {r \in agg_1h :
        /\ r.device_id = device
        /\ PartitionOf(r, "1h") \in MonthsBetween(start, end - Instant)
        /\ start <= r.window_start /\ r.window_start < end}

\* rows[:limit] of the rows sorted newest first
Newest(rows, limit) ==
    {r \in rows : Cardinality({q \in rows : q.window_start > r.window_start}) < limit}

Aggregates(table, device, granularity, hours, limit, now) ==
    LET since      == now - hours * Hour
        partitions == IF granularity = "1m" THEN DaysBetween(since, now)
                      ELSE MonthsBetween(since, now)
    IN  Newest({r \in table : /\ r.device_id = device
                              /\ PartitionOf(r, granularity) \in partitions
                              /\ since <= r.window_start /\ r.window_start <= now}, limit)

-----------------------------------------------------------------------------
(* environment.py: the points of a chart *)

Point(start, avg, lowest, highest, anomalies, events, unhealthy) ==
    [window_start |-> start, avg |-> avg, min |-> lowest, max |-> highest,
     anomaly_count |-> anomalies, event_count |-> events, unhealthy |-> unhealthy,
     band |-> None]

MetricWindows(rows, metric) ==
    {Point(r.window_start, r.avg[metric], r.min[metric], r.max[metric],
           r.anomaly_count, r.event_count, r.anomaly_count > 0) : r \in rows}

\* The day, the Monday of the week, or the first of the month.
RollupBucketKey(start, granularity) ==
    CASE granularity = "1d"  -> Midnight(DayOf(start))
      [] granularity = "1mo" -> Midnight(FirstOf(MonthOf(start)))
      [] granularity = "1w"  -> Midnight(DayOf(start) - WeekDay(DayOf(start)))

FineBucketStart(at, granularity) ==
    IF granularity = "1m" THEN at ELSE WindowStart(at, Hour)

\* An average counts as often as its window has events.
Weight(row) == AtLeast(row.event_count, 1)

RollupMetricWindows(rows, metric, granularity) ==
    LET Bucket(key) == {r \in rows : RollupBucketKey(r.window_start, granularity) = key}
        Rollup(key) ==
            LET bucket    == Bucket(key)
                weighted  == MapThenSumSet(LAMBDA r : r.avg[metric] * Weight(r), bucket)
                anomalies == MapThenSumSet(LAMBDA r : r.anomaly_count, bucket)
            IN  Point(key, weighted \div MapThenSumSet(Weight, bucket),
                      Min({r.min[metric] : r \in bucket}), Max({r.max[metric] : r \in bucket}),
                      anomalies, MapThenSumSet(LAMBDA r : r.event_count, bucket), anomalies > 0)
    IN  {Rollup(key) : key \in {RollupBucketKey(r.window_start, granularity) : r \in rows}}

BucketDatasetRows(samples, metric, granularity) ==
    LET Key(s) == IF granularity \in {"1m", "1h"} THEN FineBucketStart(s.at, granularity)
                  ELSE RollupBucketKey(s.at, granularity)
        Bucket(key) ==
            LET values == {s \in samples : Key(s) = key}
                count  == Cardinality(values)
            IN  Point(key, MapThenSumSet(LAMBDA s : s.values[metric], values) \div count,
                      Min({s.values[metric] : s \in values}),
                      Max({s.values[metric] : s \in values}), 0, count, FALSE)
    IN  {Bucket(key) : key \in {Key(s) : s \in samples}}

BucketEnd(start, granularity) ==
    CASE granularity = "1m"  -> start + Instant
      [] granularity = "1h"  -> start + Hour
      [] granularity = "1d"  -> start + HalfHoursADay
      [] granularity = "1w"  -> start + 7 * HalfHoursADay
      [] granularity = "1mo" -> Midnight(FirstOf(ShiftMonth(MonthOf(start), 1)))

\* The widest band at the start, the middle and the end of a period.
WidestBand(metric, stats, instants) ==
    LET Cover(bands) == <<Min({b[1] : b \in bands}), Max({b[2] : b \in bands})>>
    IN  Cover({NormalBand(metric, stats, t) : t \in instants})

AttachNormalBands(points, metric, stats, granularity) ==
    {LET start == p.window_start
         end   == BucketEnd(start, granularity)
     IN  [p EXCEPT !.band = WidestBand(metric, stats, {start, start + (end - start) \div 2, end})] :
        p \in points}

StoredHistoryCovers(window_start, history_start, raw_bucket_starts) ==
    \E t \in raw_bucket_starts \cup {history_start} : t # None /\ t <= window_start

-----------------------------------------------------------------------------
(* routers/sensors.py *)

Granularities       == {"1m", "1h", "1d", "1w", "1mo"}
RollupGranularities == {"1d", "1w", "1mo"}

LookbackHours ==
    [g \in Granularities |->
        CASE g = "1m" -> 2 [] g = "1h" -> 48 [] g = "1d" -> 24 * 30
          [] g = "1w" -> 24 * 7 * 26 [] g = "1mo" -> 24 * 31 * 13]

CompareOffsetHours ==
    [g \in Granularities |->
        CASE g = "1m" -> 1 [] g = "1h" -> 24 [] g = "1d" -> 24 * 7
          [] g = "1w" -> 24 * 30 [] g = "1mo" -> 24 * 365]

SourceTable(granularity) == IF granularity \in RollupGranularities THEN "1h" ELSE granularity

\* sensor_timeline; tables["1m"] and tables["1h"] are the stored rows.
SensorTimeline(tables, device, metric, stats, granularity, reference) ==
    LET source == SourceTable(granularity)
        rows   == Aggregates(tables[source], device, source, LookbackHours[granularity], 20000, reference)
        points == IF granularity \in RollupGranularities
                  THEN RollupMetricWindows(rows, metric, granularity)
                  ELSE MetricWindows(rows, metric)
    IN  AttachNormalBands(points, metric, stats, granularity)

\* _build_compare; file is the derived file, raw the bucket starts of raw_events.
BuildCompare(tables, file, raw, history_start, device, metric, stats, granularity, now) ==
    LET reference == now - CompareOffsetHours[granularity] * Hour
        start     == reference - LookbackHours[granularity] * Hour
        found     == {s \in file : s.device = device /\ start <= s.at /\ s.at <= reference}
    IN  IF StoredHistoryCovers(start, history_start, raw)
        THEN [source |-> "live",
              points |-> SensorTimeline(tables, device, metric, stats, granularity, reference)]
        ELSE [source |-> "dataset",
              points |-> AttachNormalBands(Newest(BucketDatasetRows(found, metric, granularity), 200),
                                           metric, stats, granularity)]

\* sensor_history: the exposure of the last hours and of as many before.
SensorHistory(tables, device, granularity, hours, limit, now) ==
    LET rows     == Aggregates(tables[granularity], device, granularity, hours * 2, limit * 2, now)
        cutoff   == now - hours * Hour
        recent   == Newest({r \in rows : r.window_start >= cutoff}, limit)
        previous == {r \in rows : r.window_start < cutoff}
        ratio    == ChronicExposureRatio(recent)
    IN  [ratio |-> ratio, trend |-> TrendDirection(ratio, ChronicExposureRatio(previous))]

\* One entry of GET /api/sensors; reading is None before the first one.
SensorEntry(reading, thresholds) ==
    IF reading = None
    THEN [status |-> "unknown", air_quality_score |-> None, comfort_index |-> None, metric_ranges |-> <<>>]
    ELSE [status            |-> DeviceStatus(reading.values, thresholds, reading.at).overall,
          air_quality_score |-> AirQualityScore(reading.values, thresholds),
          comfort_index     |-> ComfortIndex(reading.values["temp"], reading.values["humidity"]),
          metric_ranges     |-> MetricRanges(reading.values, thresholds, reading.at)]

-----------------------------------------------------------------------------
(* BoundaryLog.tsx *)

\* Whether some value of a period departs from its band or crosses the ceiling.
Breached(point, ceiling) ==
    \E v \in {point.max, point.min} :
        Over(v, ceiling) \/ v > point.band[2] \/ v < point.band[1]

\* The starts of the periods the log lists.
Entries(points, ceiling) ==
    {p.window_start : p \in {q \in points : q.unhealthy /\ Breached(q, ceiling)}}
=============================================================================
