----------------------------- MODULE Environment -----------------------------
(***************************************************************************)
(* The environmental rules of the backend (backend/app/environment.py and  *)
(* seasonal.py): the seasonal baseline, the normal band, the status of a   *)
(* reading, the gauge, the two indices and the exposure ratio.             *)
(*                                                                         *)
(* Readings and statistics are integers; a quotient is \div, exact where   *)
(* an instance scales its numbers so.  A reading and a table of statistics *)
(* are functions whose domain is the set of metrics they have a value for. *)
(***************************************************************************)
EXTENDS LocalTime, FiniteSetsExt

CONSTANTS
    None,               \* a missing value
    Curve,              \* _term(): 0 on the reference day, negative elsewhere
    TempAmplitude,
    HumidityAmplitude,
    Unit                \* one degree, one percent of humidity

NumericMetrics == <<"co", "humidity", "lpg", "smoke", "temp">>
Metrics        == {NumericMetrics[i] : i \in DOMAIN NumericMetrics}
CeilingMetrics == {"co", "smoke", "lpg"}

WarningSigma  == 2
CriticalSigma == 3
MinStddev     == 1

ASSUME EnvironmentAssumption ==
    /\ DOMAIN Curve = 1 .. 366
    /\ \A day \in 1 .. 366 : Curve[day] \in Int
    /\ TempAmplitude \in Nat /\ HumidityAmplitude \in Nat
    /\ Unit \in Nat \ {0}
    /\ None \notin Int

AbsoluteOf(x) == IF x < 0 THEN -x ELSE x
AtLeast(x, y) == IF x < y THEN y ELSE x     \* max(x, y)
AtMost(x, y)  == IF x > y THEN y ELSE x     \* min(x, y)

-----------------------------------------------------------------------------
(* seasonal.py; the curve moves by whole days here *)

Term(at) ==
    LET day == DayOf(at) IN Curve[day - DaysBeforeYear(YearOf(day))]

SeasonalOffset(metric, at) ==
    CASE metric = "temp"     -> TempAmplitude * Term(at)
      [] metric = "humidity" -> -(HumidityAmplitude * Term(at))
      [] OTHER               -> 0

SeasonalApply(metric, value, at) ==
    LET shifted == value + SeasonalOffset(metric, at)
    IN  IF metric = "humidity" THEN AtMost(AtLeast(shifted, 0), 100 * Unit) ELSE shifted

-----------------------------------------------------------------------------
(* environment.py: one reading *)

SeasonalMean(metric, stats, at) == stats.mean + SeasonalOffset(metric, at)

\* (normal_min, normal_max) at an instant
NormalBand(metric, stats, at) ==
    LET spread == WarningSigma * AtLeast(stats.stddev, MinStddev)
        Around(mean) ==
            LET low == mean - spread
            IN  <<IF metric = "temp" THEN low ELSE AtLeast(low, 0), mean + spread>>
    IN  Around(SeasonalMean(metric, stats, at))

CeilingOf(metric, stats) == IF metric \in CeilingMetrics THEN stats.ceiling ELSE None

Over(value, ceiling) == ceiling # None /\ value > ceiling

MetricStatus(value, mean, stddev, ceiling) ==
    LET deviation == AbsoluteOf(value - mean)
        std       == AtLeast(stddev, MinStddev)
    IN  IF Over(value, ceiling) \/ deviation > CriticalSigma * std THEN "critical"
        ELSE IF deviation > WarningSigma * std THEN "warning"
        ELSE "ok"

\* The metrics the loops of device_status and metric_ranges do not skip.
Judged(readings, thresholds) == DOMAIN readings \cap DOMAIN thresholds

StatusAt(readings, thresholds, at) ==
    [m \in Judged(readings, thresholds) |->
        MetricStatus(readings[m], SeasonalMean(m, thresholds[m], at),
                     thresholds[m].stddev, CeilingOf(m, thresholds[m]))]

\* The metric named is the first of the worst, in the order of NUMERIC_METRICS.
DeviceStatus(readings, thresholds, at) ==
    LET metrics == StatusAt(readings, thresholds, at)
        overall == IF \E m \in DOMAIN metrics : metrics[m] = "critical" THEN "critical"
                   ELSE IF \E m \in DOMAIN metrics : metrics[m] = "warning" THEN "warning"
                   ELSE "ok"
        worst   == {i \in DOMAIN NumericMetrics :
                        /\ NumericMetrics[i] \in DOMAIN metrics
                        /\ metrics[NumericMetrics[i]] = overall}
    IN  [overall |-> overall,
         reason  |-> IF overall = "ok" THEN None ELSE NumericMetrics[Min(worst)],
         metrics |-> metrics]

MetricRanges(readings, thresholds, at) ==
    [m \in Judged(readings, thresholds) |->
        LET band == NormalBand(m, thresholds[m], at)
        IN  [value |-> readings[m], normal_min |-> band[1], normal_max |-> band[2],
             ceiling |-> CeilingOf(m, thresholds[m]),
             status  |-> StatusAt(readings, thresholds, at)[m]]]

\* 100 minus the worst pollutant's share of its ceiling, in percent
AirQualityScore(readings, thresholds) ==
    LET scored == {m \in CeilingMetrics \cap Judged(readings, thresholds) :
                        thresholds[m].ceiling \notin {None, 0}}
        Score(m) == (100 * (thresholds[m].ceiling - readings[m])) \div thresholds[m].ceiling
    IN  IF scored = {} THEN None
        ELSE AtLeast(AtMost(Min({Score(m) : m \in scored}), 100), 0)

ComfortIndex(temp, humidity) ==
    LET penalty == 4 * AtLeast(AbsoluteOf(temp - 21 * Unit) - 2 * Unit, 0)
                       + AtLeast(AbsoluteOf(humidity - 45 * Unit) - 10 * Unit, 0)
    IN  IF temp = None \/ humidity = None THEN None
        ELSE AtLeast(AtMost(100 * Unit - penalty, 100 * Unit), 0)

\* Where a reading comes from: only replayed rows carry source_ts.
ReadingProvenance(source_ts, is_synthetic) ==
    IF source_ts = None /\ is_synthetic THEN "synthetic" ELSE "replayed"

-----------------------------------------------------------------------------
(* environment.py: exposure over a set of windows, in percent *)

ChronicExposureRatio(rows) ==
    IF rows = {} THEN None
    ELSE (100 * Cardinality({r \in rows : r.anomaly_count > 0})) \div Cardinality(rows)

TrendDirection(recent, previous) ==
    IF recent = None \/ previous = None THEN None
    ELSE IF recent - previous > 5 THEN "worsening"
    ELSE IF recent - previous < -5 THEN "improving"
    ELSE "stable"
=============================================================================
