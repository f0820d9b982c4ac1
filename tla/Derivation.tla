------------------------------ MODULE Derivation ------------------------------
(***************************************************************************)
(* How the history-backfill Job derives a row and its hourly aggregate     *)
(* (backend/app/history_backfill.py: load_source, derive, HourAgg): the    *)
(* few days of the source file are repeated over the derived span, noise   *)
(* and the seasonal shift are added, and the row is judged by the rule of  *)
(* the live pipeline.                                                      *)
(*                                                                         *)
(* A sample is a row of raw data, derived or live: the device, its         *)
(* instant, its values and whether it was flagged.                         *)
(***************************************************************************)
EXTENDS Environment, SequencesExt

CONSTANTS
    Source,         \* per device, the rows of the source file: [ts, values]
    Recorded,       \* the metrics an instance looks at
    CycleDays,      \* CYCLE_SECONDS, in days
    CeilingPercent, \* the safety multiplier of the ceilings
    SigmaN          \* SPARK_JOB_ANOMALY_SIGMA_N

Devices == DOMAIN Source

ASSUME DerivationAssumption ==
    /\ Recorded \subseteq Metrics /\ Recorded # {}
    /\ CycleDays \in Nat \ {0} /\ CeilingPercent \in Nat /\ SigmaN \in Nat
    /\ IsFiniteSet(Devices)
    /\ \A d \in Devices : Source[d] \in Seq([ts : Nat, values : [Recorded -> Int]]) \ {<<>>}

-----------------------------------------------------------------------------
(* load_source: the rows in order, and the baseline Spark seeds from too *)

\* sorted(range(n), key = keys.__getitem__): equal keys keep their order.
Order(keys) ==
    LET Place(i) == 1 + Cardinality({j \in DOMAIN keys :
                            keys[j] < keys[i] \/ (keys[j] = keys[i] /\ j < i)})
    IN  [k \in DOMAIN keys |-> CHOOSE i \in DOMAIN keys : Place(i) = k]

Rows(device) ==
    LET file  == Source[device]
        order == Order([i \in DOMAIN file |-> file[i].ts])
    IN  [k \in DOMAIN file |-> file[order[k]]]

Values(device, metric) == [i \in DOMAIN Source[device] |-> Source[device][i].values[metric]]

\* The q-quantile of sorted values, q in thousandths.
Quantile(sorted, q) ==
    LET above == -((-(q * Len(sorted))) \div 1000)      \* math.ceil
    IN  sorted[AtMost(Len(sorted), AtLeast(1, above))]

SquareRoot(n) == CHOOSE k \in 0 .. n : k * k <= n /\ n < (k + 1) * (k + 1)

Baseline(device, metric) ==
    LET values == Values(device, metric)
        order  == Order(values)
        n      == Len(values)
        sorted == [k \in 1 .. n |-> values[order[k]]]
        mean   == SumFunction(values) \div n
        spread == SumFunction([i \in 1 .. n |-> (values[i] - mean) * (values[i] - mean)])
    IN  [mean    |-> mean,
         stddev  |-> IF n > 1 THEN SquareRoot(spread \div (n - 1)) ELSE 0,
         ceiling |-> IF metric \in CeilingMetrics
                     THEN (AtLeast(sorted[n], Quantile(sorted, 999)) * CeilingPercent) \div 100
                     ELSE None]

\* Mutant of CycleOrigin: the first row itself.
CycleOriginRow == Min(UNION {{Source[d][i].ts : i \in DOMAIN Source[d]} : d \in Devices})

\* The midnight the source file starts on.
CycleOrigin == Midnight(Min(UNION {{DayOf(Source[d][i].ts) : i \in DOMAIN Source[d]} : d \in Devices}))

\* CRITICAL_SIGMA "must match SPARK_JOB_ANOMALY_SIGMA_N's default"
\* (environment.py:32), every metric varies and no pollutant is absent.
ASSUME SourceAssumption ==
    /\ SigmaN = CriticalSigma
    /\ \A d \in Devices : \A m \in Recorded :
        /\ Baseline(d, m).stddev >= MinStddev
        /\ m \in CeilingMetrics => Baseline(d, m).ceiling > 0

-----------------------------------------------------------------------------
(* derive *)

Epoch == Midnight(Ordinal(1970, 1, 1))

\* The row of the source file nearest to an instant, the earlier of two equals.
Nearest(rows, target) ==
    LET before == Cardinality({i \in DOMAIN rows : rows[i].ts < target})
    IN  IF before = 0 THEN 1
        ELSE IF before = Len(rows) THEN before
        ELSE IF rows[before + 1].ts - target < target - rows[before].ts THEN before + 1
        ELSE before

\* _is_anomaly: a ceiling crossed, or too far from the seasonal mean.
IsAnomaly(values, baseline, at) ==
    \E m \in DOMAIN values :
        \/ m \in CeilingMetrics /\ values[m] > baseline[m].ceiling
        \/ /\ baseline[m].stddev > 0
           /\ AbsoluteOf(values[m] - SeasonalMean(m, baseline[m], at))
                  > SigmaN * baseline[m].stddev

DerivedValues(row, noise, at) ==
    [m \in Recorded |->
        LET noisy == row.values[m] + noise[m]
        IN  SeasonalApply(m, IF m \in CeilingMetrics THEN AtLeast(noisy, 0) ELSE noisy, at)]

\* One row of the derived file, for the device and the sampling instant.
DerivedSample(device, at, noise, baseline) ==
    LET rows   == Rows(device)
        target == CycleOrigin + ((at - Epoch) % (CycleDays * HalfHoursADay))
        row    == rows[Nearest(rows, target)]
        values == DerivedValues(row, noise, at)
    IN  [device |-> device, at |-> at, values |-> values, source_ts |-> row.ts,
         flagged |-> IsAnomaly(values, baseline, at)]

-----------------------------------------------------------------------------
(* HourAgg and the row write_agg_1h makes of it; Spark's two windowed        *)
(* queries aggregate live samples alike                                      *)

WindowStart(at, width) == at - (at % width)

WindowAgg(device, start, width, samples) ==
    LET mine   == {s \in samples : s.device = device /\ WindowStart(s.at, width) = start}
        count  == Cardinality(mine)
        Sum(m) == MapThenSumSet(LAMBDA s : s.values[m], mine)
    IN  [device_id |-> device, window_start |-> start,
         event_count   |-> count,
         anomaly_count |-> Cardinality({s \in mine : s.flagged}),
         avg |-> [m \in Recorded |-> Sum(m) \div count],
         min |-> [m \in Recorded |-> Min({s.values[m] : s \in mine})],
         max |-> [m \in Recorded |-> Max({s.values[m] : s \in mine})]]

\* The rows of agg_1h (width Hour) or agg_1m (width Instant).
Windows(samples, width) ==
    {WindowAgg(k[1], k[2], width, samples) :
        k \in {<<s.device, WindowStart(s.at, width)>> : s \in samples}}
=============================================================================
