---------------------------- MODULE Observations -----------------------------
(***************************************************************************)
(* What the pages and reports say of the readings stored so far: the       *)
(* history-backfill Job has derived the past (or has not run), live        *)
(* readings are added as time passes, and on every state the charts, the   *)
(* badge, the log and the reports must agree with the readings and with    *)
(* one another.                                                            *)
(***************************************************************************)
EXTENDS Reports

CONSTANTS
    DerivedAt,      \* the sampling instants of the derived past
    Noise,          \* the noise the derived rows may get: per instant and metric
    Anchor,         \* where the derived past ends
    Clock,          \* the instants of the live part, in order
    LiveChoices     \* per instant, the sets of [device, values, flagged] that may be read

Sample == [device : Devices, at : Nat, values : [Recorded -> Int],
           source_ts : Nat \cup {None}, flagged : BOOLEAN]

ASSUME ObservationsAssumption ==
    \* Python's calendar begins on day 1, and charts with their overlay look 768 days back.
    /\ DerivedAt \subseteq Nat /\ IsFiniteSet(DerivedAt)
    /\ \A t \in DerivedAt : DayOf(t) >= 1 /\ t < Anchor
    /\ Anchor \in Nat /\ DayOf(Anchor) > 769
    /\ Noise \subseteq [DerivedAt -> [Recorded -> Int]]
    /\ Clock \in Seq(Nat)
    /\ \A i, j \in DOMAIN Clock : i <= j => Anchor <= Clock[i] /\ Clock[i] <= Clock[j]
    /\ DOMAIN LiveChoices = DOMAIN Clock
    /\ \A i \in DOMAIN Clock : \A readings \in LiveChoices[i] :
        /\ IsFiniteSet(readings)
        /\ readings \subseteq [device : Devices, values : [Recorded -> Int], flagged : BOOLEAN]
        /\ \A r \in readings : \A m \in Recorded \ {"temp"} : r.values[m] >= 0
    /\ None \notin Sample

VARIABLES
    thresholds,     \* device_thresholds
    derived,        \* rows of the derived file, also aggregated into agg_1h
    live,           \* rows of raw_events
    tables,         \* rows of agg_1m and agg_1h, by granularity
    past            \* how many instants of Clock have passed

storedVars == <<thresholds, derived, live, tables, past>>

History(noise) == {DerivedSample(d, t, noise[t], thresholds[d]) : d \in Devices, t \in DerivedAt}

\* The Job fills agg_1h alone; Spark fills both.
Aggregated(history, readings) ==
    [granularity \in {"1m", "1h"} |->
        IF granularity = "1m" THEN Windows(readings, Instant) ELSE Windows(history \cup readings, Hour)]

\* One source for Spark's seed, device_thresholds and the derived history.
StoredInit ==
    /\ thresholds = [d \in Devices |-> [m \in Recorded |-> Baseline(d, m)]]
    /\ derived \in {{}} \cup {History(noise) : noise \in Noise}
    /\ live = {}
    /\ tables = Aggregated(derived, {})
    /\ past = 0

\* Readings arrive; whether Spark flagged one is left open.
Read ==
    /\ past < Len(Clock)
    /\ past' = past + 1
    /\ \E readings \in LiveChoices[past'] :
        live' = live \cup {[device |-> r.device, at |-> Clock[past'], values |-> r.values,
                            source_ts |-> None, flagged |-> r.flagged] : r \in readings}
    /\ tables' = Aggregated(derived, live')
    /\ UNCHANGED <<thresholds, derived>>

StoredNext == Read

StoredSpec == StoredInit /\ [][StoredNext]_storedVars

-----------------------------------------------------------------------------
(* The stored rows, and what is asked of them *)

Now           == IF past = 0 THEN Anchor ELSE Clock[past]
Samples       == derived \cup live
HistoryStart  == IF derived = {} THEN None ELSE Midnight(DayOf(Min(DerivedAt)))
SamplesOf(d)  == {s \in Samples : s.device = d}
HourStart(s)  == WindowStart(s.at, Hour)
LocalMonth(t) == MonthOf(ToLocal(t))
Months        == {LocalMonth(t) : t \in {Now, Anchor - Instant}}

Total(f(_), S) == MapThenSumSet(f, S)
RowsOf(d)      == {r \in tables["1h"] : r.device_id = d}

-----------------------------------------------------------------------------
(* Properties *)

\* Local time (reports.py:68): around the present each instant lies in the
\* local day that its wall clock shows, though a day may have 23 or 25 hours.
LocalTimeTiles ==
    \A t \in Now - HalfHoursADay .. Now + HalfHoursADay :
        LET day == DayOf(ToLocal(t))
        IN  LocalMidnightUtc(day) <= t /\ t < LocalMidnightUtc(day + 1)

\* Month bounds and the partitioned reads: what a monthly report says of a
\* location is what the readings of the hours of that local month say.
MonthlyIsExact ==
    \A month \in Months :
        LET report == Monthly(tables["1h"], thresholds, month)
        IN  \A f \in Range(report.ranking) :
                LET mine == {s \in SamplesOf(f.device_id) : LocalMonth(HourStart(s)) = month}
                IN  /\ f.hours_with_data = Cardinality({HourStart(s) : s \in mine})
                    /\ mine # {} => \A m \in Recorded :
                        /\ f.metrics[m].current.average
                                = Total(LAMBDA s : s.values[m], mine) \div Cardinality(mine)
                        /\ f.metrics[m].current.peak = Max({s.values[m] : s \in mine})

\* The comparison columns of one month's report, in the app and in the
\* workbook, are what the report of the earlier month itself says.
ReportsChain ==
    LET months  == {ShiftMonth(month, k) : month \in Months, k \in {-12, -1, 0}}
        reports == {Monthly(tables["1h"], thresholds, month) : month \in months}
        Chained(told, earlier, column) ==
            \A f \in Range(told.ranking) : \E g \in Range(earlier.ranking) :
                /\ f.device_id = g.device_id
                /\ \A m \in Recorded : f.metrics[m][column] = g.metrics[m].current
    IN  \A told \in reports : \A earlier \in reports :
            /\ earlier.month = ShiftMonth(told.month, -1)  => Chained(told, earlier, "previous")
            /\ earlier.month = ShiftMonth(told.month, -12) => Chained(told, earlier, "year_ago")

\* "A report and the log never disagree" (reports.py:6): over the hours the
\* log shows, it lists those the reports and the data extract count.
ReportAgreesWithLog ==
    \A d \in Devices : \A m \in Recorded :
        LET points == SensorTimeline(tables, d, m, thresholds[d][m], "1h", Now)
            shown  == {p.window_start : p \in points}
            rows   == {r \in RowsOf(d) : r.window_start \in shown}
        IN  /\ Entries(points, CeilingOf(m, thresholds[d][m]))
                    = {r.window_start : r \in {q \in rows : OutOfRange(q, m, thresholds[d])}}
            /\ {e.local : e \in OutOfRangeSheet(rows, thresholds[d], {m})}
                    = {ToLocal(t) : t \in Entries(points, CeilingOf(m, thresholds[d][m]))}

\* Episodes cover the out-of-range hours, each once, and no two of a
\* location and metric could have been one.
EpisodesAreMaximal ==
    \A d \in Devices :
        LET found == Episodes(RowsOf(d), d, thresholds[d])
            Hours(e) == {r \in RowsOf(d) : e.start <= r.window_start /\ r.window_start < e.end}
        IN  /\ \A e \in found :
                /\ e.end - e.start = e.hours * Hour /\ Cardinality(Hours(e)) = e.hours
                /\ e.peak = Max({r.max[e.metric] : r \in Hours(e)})
                /\ e.over_limit <=> \E r \in Hours(e) : OverLimit(r, e.metric, thresholds[d])
            /\ \A e \in found : \A f \in found : e.metric = f.metric => e.end # f.start
            /\ OutOfRangeHours(RowsOf(d), thresholds[d])
                    = UNION {Hours(e) \X {e.metric} : e \in found}

\* Roll-up (environment.py:273): a day, week or month rolled up from hourly
\* rows is that period's readings, whatever their spread over the hours.
RollupIsExact ==
    \A d \in Devices : \A m \in Recorded : \A g \in RollupGranularities :
        LET rolled == RollupMetricWindows(RowsOf(d), m, g)
            direct == BucketDatasetRows(SamplesOf(d), m, g)
            Flagged(p) == Cardinality({s \in SamplesOf(d) :
                                /\ RollupBucketKey(s.at, g) = p.window_start
                                /\ s.flagged})
            Counted(p) == [p EXCEPT !.anomaly_count = Flagged(p)]
            Badged(p) == [Counted(p) EXCEPT !.unhealthy = Counted(p).anomaly_count > 0]
        IN  rolled = {Badged(p) : p \in direct}

\* No day is squeezed out of the fact sheet and no reading falls between
\* two days, the days of 23 and 25 hours included.
FactSheetLosesNothing ==
    \A d \in Devices : \A m \in Recorded :
        LET sheet  == Sheet(tables["1h"], d, thresholds[d], Now)
            figures == sheet.metrics[m]
            recent == {s \in SamplesOf(d) : HourStart(s) >= Now - FactSheetDays * HalfHoursADay}
            Listed(day) == {day} \X (1 .. figures.daily[day].out_of_range_hours)
        IN  /\ Cardinality(UNION {Listed(day) : day \in DOMAIN figures.daily})
                    = figures.summary.out_of_range_hours
            /\ \A s \in recent :
                LET day == figures.daily[DayOf(ToLocal(s.at))]
                IN  day.min # None /\ day.min <= s.values[m] /\ s.values[m] <= day.max
            /\ sheet.hours_with_data = Cardinality({HourStart(s) : s \in recent})

\* The hours of an inquiry and the hours left outside it share out the
\* period, across midnight too: the complement asks for the opposite hours.
InquirySplits ==
    \A d \in Devices : \A hours \in {<<22, 6>>, <<1, 3>>} :
        LET last     == DayOf(ToLocal(Now))
            Ask(from, to) == Inquiry(tables["1h"], d, thresholds[d], last - 30, last, from, to).metrics
            Shared(asked, opposite, whole) ==
                /\ asked.outside = opposite.inside /\ asked.inside = opposite.outside
                /\ asked.inside.hours_with_data + opposite.inside.hours_with_data
                        = whole.inside.hours_with_data
            answers  == <<Ask(hours[1], hours[2]), Ask(hours[2], hours[1]), Ask(0, 0)>>
        IN  \A m \in Recorded : Shared(answers[1][m], answers[2][m], answers[3][m])

\* "The gauge and the badge can never visually disagree" (environment.py:145):
\* a value is drawn inside its band and under its limit exactly when its
\* status is ok, and the score is 0 once a pollutant reaches its limit.
GaugeAgreesWithBadge ==
    \A s \in Samples :
        LET entry == SensorEntry(s, thresholds[s.device])
            range == entry.metric_ranges
        IN  /\ (entry.status = "ok") <=> \A m \in DOMAIN range :
                    /\ range[m].normal_min <= range[m].value /\ range[m].value <= range[m].normal_max
                    /\ ~Over(range[m].value, range[m].ceiling)
            /\ (\E m \in DOMAIN range : Over(range[m].value, range[m].ceiling))
                    => entry.air_quality_score = 0 /\ entry.status = "critical"

\* The flag of a derived row is the status the map would give the reading
\* (environment.py:11), seasons included.
DerivedFlagMatchesStatus ==
    \A s \in derived :
        s.flagged <=> DeviceStatus(s.values, thresholds[s.device], s.at).overall = "critical"

\* Derivation (history_backfill.py:226): a row is taken from the source near
\* its own time of day, wherever in the cycle of days it falls: no further
\* than the widest stretch of the cycle without a row.
DerivationKeepsTheHour ==
    \A s \in derived :
        LET apart == (s.at - s.source_ts) % HalfHoursADay
            rows  == Rows(s.device)
            n     == Len(rows)
            first == Midnight(Min({DayOf(Rows(d)[1].ts) : d \in Devices}))
            last  == first + CycleDays * HalfHoursADay
            widest == Max({rows[1].ts - first, last - rows[n].ts}
                              \cup {rows[i + 1].ts - rows[i].ts : i \in 1 .. n - 1})
        IN  AtMost(apart, HalfHoursADay - apart) <= widest

\* Partitioned reads: no chart loses a window at a day or month boundary.
ChartsMissNothing ==
    \A d \in Devices : \A g \in Granularities :
        LET metric == CHOOSE m \in Recorded : TRUE
            width  == IF g = "1m" THEN Instant ELSE Hour
            stored == IF g = "1m" THEN live ELSE Samples
            within == {s \in stored :
                        /\ s.device = d /\ WindowStart(s.at, width) <= Now
                        /\ WindowStart(s.at, width) >= Now - LookbackHours[g] * Hour}
        IN  Total(LAMBDA p : p.event_count,
                  SensorTimeline(tables, d, metric, thresholds[d][metric], g, Now))
                = Cardinality(within)

\* The overlay shows every reading of the compared period, from whichever
\* source it takes it (routers/sensors.py:88), hourly and coarser.
CompareSeesHistory ==
    derived # {} =>
        \A d \in Devices : \A g \in Granularities \ {"1m"} :
            LET metric    == CHOOSE m \in Recorded : TRUE
                overlay   == BuildCompare(tables, derived, {s.at : s \in live}, HistoryStart,
                                          d, metric, thresholds[d][metric], g, Now)
                reference == Now - CompareOffsetHours[g] * Hour
                within    == {s \in SamplesOf(d) :
                                HourStart(s) >= reference - LookbackHours[g] * Hour
                                    /\ HourStart(s) <= reference}
            IN  Total(LAMBDA p : p.event_count, overlay.points) = Cardinality(within)

\* Exposure and its trend compare the last day's hours with those of the day
\* before, none counted in both.
ExposureIsRecent ==
    \A d \in Devices :
        LET told   == SensorHistory(tables, d, "1h", 24, 200, Now)
            Hours(from, to) == {t \in {HourStart(s) : s \in SamplesOf(d)} : from <= t /\ t < to}
            Share(hours) ==
                IF hours = {} THEN None
                ELSE (100 * Cardinality({t \in hours : \E s \in SamplesOf(d) :
                                            HourStart(s) = t /\ s.flagged})) \div Cardinality(hours)
            recent == Share(Hours(Now - HalfHoursADay, Now + Instant))
        IN  /\ told.ratio = recent
            /\ told.trend = TrendDirection(recent, Share(Hours(Now - 2 * HalfHoursADay, Now - HalfHoursADay)))

-----------------------------------------------------------------------------
(* The properties of the run, each a promise of one kind *)

\* Days, months, hours of the day: periods share out the readings, whichever
\* way summer time moves them.
PeriodsLoseNothing == LocalTimeTiles /\ FactSheetLosesNothing /\ InquirySplits

\* What is out of range is so for the log, the reports, the episodes, the
\* extract, the gauge and the badge alike.
ViewsAgree == ReportAgreesWithLog /\ EpisodesAreMaximal /\ GaugeAgreesWithBadge

\* A monthly report, the columns it is compared with, a roll-up and an overlay
\* say of their period what its readings say, whichever source they are read from.
FiguresAreExact == MonthlyIsExact /\ ReportsChain /\ RollupIsExact /\ CompareSeesHistory

\* What is read back from the partitions, for a chart or for the exposure beside
\* it, is every reading of its range, once.
ReadsAreComplete == ChartsMissNothing /\ ExposureIsRecent

\* The derived past could have been read: it is judged as live readings are
\* and follows the hours of the day.
HistoryIsPlausible == DerivedFlagMatchesStatus /\ DerivationKeepsTheHour
=============================================================================
