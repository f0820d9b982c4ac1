------------------------------- MODULE Reports -------------------------------
(***************************************************************************)
(* The environmental officer's reports (backend/app/reports.py and         *)
(* routers/reports.py): which hours are out of range, what a report says   *)
(* of a month, of an inquiry's hours and of the last thirty days, and the  *)
(* reads that feed it.                                                     *)
(*                                                                         *)
(* Every report is a function of the rows of agg_1h, of the thresholds of  *)
(* the devices and of the clock; none keeps state.                         *)
(***************************************************************************)
EXTENDS Timeline

CONSTANTS
    Locations,      \* device_metadata: the devices, ordered by their names
    FactSheetDays,
    HeatmapMonths,
    TopEpisodes

ASSUME ReportsAssumption ==
    /\ Locations \in Seq(Devices) /\ {Locations[i] : i \in DOMAIN Locations} = Devices
    /\ FactSheetDays \in 1 .. 366          \* a year is read for the sheet
    /\ HeatmapMonths \in Nat \ {0} /\ TopEpisodes \in Nat

-----------------------------------------------------------------------------
(* Hour judgement *)

\* Mutant of HourBand: the band of the start alone.
HourBandAtStart(metric, stats, start) == NormalBand(metric, stats, start)

HourBand(metric, stats, start) ==
    WidestBand(metric, stats, {start, start + Hour \div 2, start + Hour})

OverLimit(row, metric, stats) ==
    /\ metric \in DOMAIN stats /\ row.anomaly_count > 0
    /\ Over(row.max[metric], CeilingOf(metric, stats[metric]))

OutOfRange(row, metric, stats) ==
    /\ metric \in DOMAIN stats /\ row.anomaly_count > 0
    /\ LET Outside(band) == row.max[metric] > band[2] \/ row.min[metric] < band[1]
       IN  \/ OverLimit(row, metric, stats)
           \/ Outside(HourBand(metric, stats[metric], row.window_start))

-----------------------------------------------------------------------------
(* Summaries *)

InPeriod(rows, bounds) ==
    {r \in rows : bounds[1] <= r.window_start /\ r.window_start < bounds[2]}

Earliest(rows) == CHOOSE r \in rows : \A q \in rows : r.window_start <= q.window_start

Latest(rows)   == CHOOSE r \in rows : \A q \in rows : r.window_start >= q.window_start

MetricSummary(rows, metric, stats) ==
    LET Weighted(r) == r.avg[metric] * Weight(r)
        peak        == Max({r.max[metric] : r \in rows})
    IN  [hours_with_data    |-> Cardinality(rows),
         out_of_range_hours |-> Cardinality({r \in rows : OutOfRange(r, metric, stats)}),
         over_limit_hours   |-> Cardinality({r \in rows : OverLimit(r, metric, stats)}),
         average |-> IF rows = {} THEN None
                     ELSE MapThenSumSet(Weighted, rows) \div MapThenSumSet(Weight, rows),
         peak    |-> IF rows = {} THEN None ELSE peak,
         peak_at |-> IF rows = {} THEN None
                     ELSE ToLocal(Earliest({r \in rows : r.max[metric] = peak}).window_start)]

-----------------------------------------------------------------------------
(* Episodes *)

\* One metric's out-of-range hours, oldest first, merged while each starts
\* where the open episode, the last one, ends.
MetricEpisodes(rows, device, metric, stats) ==
    LET Extend(row, found) ==
            LET start == row.window_start
                peak  == row.max[metric]
                over  == OverLimit(row, metric, stats)
                open  == Last(found)
            IN  IF found # <<>> /\ open.end = start
                THEN Append(Front(found),
                            [open EXCEPT !.end = start + Hour, !.hours = @ + 1,
                                         !.over_limit = @ \/ over,
                                         !.peak = AtLeast(@, peak),
                                         !.peak_at = IF peak > open.peak THEN start ELSE @])
                ELSE Append(found,
                            [device_id |-> device, metric |-> metric, start |-> start,
                             end |-> start + Hour, hours |-> 1, peak |-> peak,
                             peak_at |-> start, over_limit |-> over])
    IN  MapThenFoldSet(Extend, <<>>, LAMBDA r : r, Latest,
                       {r \in rows : OutOfRange(r, metric, stats)})

Episodes(rows, device, thresholds) ==
    UNION {LET found == MetricEpisodes(rows, device, m, thresholds)
           IN  {found[i] : i \in DOMAIN found} : m \in Recorded}

OutOfRangeHours(rows, thresholds) ==
    {h \in rows \X Recorded : OutOfRange(h[1], h[2], thresholds)}

HoursAnyOutOfRange(rows, thresholds) ==
    Cardinality({h[1] : h \in OutOfRangeHours(rows, thresholds)})

-----------------------------------------------------------------------------
(* The monthly report *)

\* The month, the one before, and the same month a year earlier.
Periods(month) ==
    [current |-> month, previous |-> ShiftMonth(month, -1), year_ago |-> ShiftMonth(month, -12)]

LexLess(a, b) ==
    \E i \in DOMAIN a : a[i] < b[i] /\ \A j \in 1 .. i - 1 : a[j] = b[j]

Sign(condition)    == IF condition THEN 0 ELSE 1
PlaceOf(list, x)   == CHOOSE i \in DOMAIN list : list[i] = x
Change(now, before, hours) == IF hours = 0 THEN None ELSE now - before

\* One location of the report: its figures per metric and its place's terms.
LocationFigures(device, rows, thresholds, month) ==
    LET periods     == Periods(month)
        by_period   == [k \in DOMAIN periods |-> InPeriod(rows, MonthBounds(periods[k]))]
        hours       == [k \in DOMAIN periods |-> Cardinality(by_period[k])]
        total       == [k \in DOMAIN periods |-> HoursAnyOutOfRange(by_period[k], thresholds)]
        Exceeded(m) == MetricSummary(by_period.current, m, thresholds).over_limit_hours
    IN  [device_id |-> device,
         metrics   |-> [m \in Recorded |->
                            [k \in DOMAIN periods |-> MetricSummary(by_period[k], m, thresholds)]],
         hours_with_data    |-> hours.current,
         out_of_range_hours |-> total.current,
         over_limit_hours   |-> MapThenSumSet(Exceeded, Recorded \cap CeilingMetrics),
         change_vs_previous |-> Change(total.current, total.previous, hours.previous),
         change_vs_year_ago |-> Change(total.current, total.year_ago, hours.year_ago),
         episodes           |-> Episodes(by_period.current, device, thresholds)]

RankKey(figures) ==
    <<-figures.out_of_range_hours, -figures.over_limit_hours, PlaceOf(Locations, figures.device_id)>>

EpisodeKey(e) ==
    <<-e.hours, Sign(e.over_limit), ToLocal(e.start),
      PlaceOf(Locations, e.device_id), PlaceOf(NumericMetrics, e.metric)>>

\* list.sort(key = ...): equal keys keep their order.
LexOrder(keys) ==
    LET Place(i) == 1 + Cardinality({j \in DOMAIN keys :
                            LexLess(keys[j], keys[i]) \/ (keys[j] = keys[i] /\ j < i)})
    IN  [k \in DOMAIN keys |-> CHOOSE i \in DOMAIN keys : Place(i) = k]

MonthlyReport(month, rows, thresholds) ==
    LET Ranking(figures) ==
            LET order == LexOrder([i \in DOMAIN figures |-> RankKey(figures[i])])
            IN  [k \in DOMAIN figures |-> figures[order[k]]]
        Top(all) ==
            {e \in all : Cardinality({f \in all : LexLess(EpisodeKey(f), EpisodeKey(e))}) < TopEpisodes}
        Report(figures) ==
            [month    |-> month,
             ranking  |-> Ranking(figures),
             episodes |-> Top(UNION {f.episodes : f \in Range(figures)})]
    IN  Report([i \in DOMAIN Locations |->
                    LET d == Locations[i] IN LocationFigures(d, rows[d], thresholds[d], month)])

-----------------------------------------------------------------------------
(* Hourly shapes *)

LocalHour(row) == HourOf(ToLocal(row.window_start))

LocalDay(row)  == DayOf(ToLocal(row.window_start))

Average(rows, metric) ==
    IF rows = {} THEN None
    ELSE MapThenSumSet(LAMBDA r : r.avg[metric], rows) \div Cardinality(rows)

HourProfile(rows, metric) ==
    LET placed == {<<LocalHour(r), r>> : r \in rows}
    IN  [h \in 0 .. 23 |-> Average({p[2] : p \in {q \in placed : q[1] = h}}, metric)]

\* The hour of the highest value, the earliest of equals.
PeakHour(profile) ==
    LET present == {h \in 0 .. 23 : profile[h] # None}
        highest == Max({profile[h] : h \in present})
    IN  IF present = {} THEN None ELSE Min({h \in present : profile[h] = highest})

Heatmap(rows, metric, end) ==
    LET months == {ShiftMonth(MonthOf(ToLocal(end)), -k) : k \in 0 .. HeatmapMonths - 1}
        placed == {<<MonthOf(ToLocal(r.window_start)), r>> : r \in rows}
        Of(month) == {p[2] : p \in {q \in placed : q[1] = month}}
    IN  [values    |-> [month \in months |-> HourProfile(Of(month), metric)],
         peak_hour |-> PeakHour(HourProfile(rows, metric))]

-----------------------------------------------------------------------------
(* The inquiry report *)

InHourWindow(hour, from, to) ==
    IF from = to THEN TRUE
    ELSE IF from < to THEN from <= hour /\ hour < to
    ELSE hour >= from \/ hour < to

InquiryReport(device, thresholds, rows, heatmap_rows, bounds, from, to) ==
    LET period  == InPeriod(rows, bounds)
        inside  == {r \in period : InHourWindow(LocalHour(r), from, to)}
    IN  [hours_with_data |-> Cardinality(period),
         metrics  |-> [m \in Recorded |->
                        [inside  |-> MetricSummary(inside, m, thresholds),
                         outside |-> MetricSummary(period \ inside, m, thresholds),
                         profile |-> HourProfile(period, m)]],
         episodes |-> Episodes(inside, device, thresholds),
         heatmaps |-> [m \in Recorded |-> Heatmap(heatmap_rows, m, bounds[2] - Hour)]]

-----------------------------------------------------------------------------
(* The fact sheet *)

\* The coefficient of variation against 0.15 and 0.30, by its square.
Character(rows, metric) ==
    LET n     == Cardinality(rows)
        mean  == Average(rows, metric)
        total == MapThenSumSet(LAMBDA r : (r.avg[metric] - mean) * (r.avg[metric] - mean), rows)
        Under(square) == 400 * total < square * mean * mean * n
    IN  IF rows = {} \/ metric \notin CeilingMetrics \/ mean = 0 THEN None
        ELSE IF Under(9) THEN "steady" ELSE IF Under(36) THEN "variable" ELSE "spiky"

\* One point per local day, the days without data included.
DailySeries(rows, metric, stats, first, last) ==
    [day \in first .. last |->
        LET group   == {r \in rows : LocalDay(r) = day}
            summary == MetricSummary(group, metric, stats)
        IN  [average |-> summary.average,
             min |-> IF group = {} THEN None ELSE Min({r.min[metric] : r \in group}),
             max |-> IF group = {} THEN None ELSE Max({r.max[metric] : r \in group}),
             out_of_range_hours |-> summary.out_of_range_hours]]

FactSheet(thresholds, rows, now) ==
    LET since  == now - FactSheetDays * HalfHoursADay
        recent == InPeriod(rows, <<since, now + Hour>>)
    IN  [hours_with_data |-> Cardinality(recent),
         metrics  |-> [m \in Recorded |->
                        [summary   |-> MetricSummary(recent, m, thresholds),
                         character |-> Character(recent, m),
                         peak_hour |-> PeakHour(HourProfile(recent, m)),
                         daily     |-> DailySeries(recent, m, thresholds,
                                                   DayOf(ToLocal(since)), DayOf(ToLocal(now)))]],
         heatmaps |-> [m \in Recorded |-> Heatmap(rows, m, now)]]

-----------------------------------------------------------------------------
(* routers/reports.py: what each request reads *)

LastCompleteMonth(now) == ShiftMonth(MonthOf(ToLocal(now)), -1)

\* Inclusive local dates to [start, end) in UTC.
LocalPeriod(first, last) == <<LocalMidnightUtc(first), LocalMidnightUtc(last + 1)>>

\* The year-ago month, and the previous and the current one, as two reads.
Monthly(agg_1h, thresholds, month) ==
    LET year_ago == MonthBounds(ShiftMonth(month, -12))
        from     == MonthBounds(ShiftMonth(month, -1))[1]
        to       == MonthBounds(month)[2]
    IN  MonthlyReport(month,
            [d \in Devices |-> HourlyBetween(agg_1h, d, year_ago[1], year_ago[2])
                                   \cup HourlyBetween(agg_1h, d, from, to)], thresholds)

Inquiry(agg_1h, device, thresholds, first, last, from, to) ==
    LET period == LocalPeriod(first, last)
        year   == period[2] - 366 * HalfHoursADay
        rows   == HourlyBetween(agg_1h, device, AtMost(year, period[1]), period[2])
    IN  InquiryReport(device, thresholds, rows, {r \in rows : r.window_start >= year}, period, from, to)

Sheet(agg_1h, device, thresholds, now) ==
    FactSheet(thresholds,
              HourlyBetween(agg_1h, device, now - 366 * HalfHoursADay, now + Hour), now)

-----------------------------------------------------------------------------
(* report_xlsx.py: the data of the sheets *)

\* "Hourly data": one row per hour, by its local and its UTC time.
HourlySheet(rows) ==
    {[local |-> ToLocal(r.window_start), utc |-> r.window_start, readings |-> r.event_count] : r \in rows}

\* "Out-of-range hours": each with the normal range that applied.
OutOfRangeSheet(rows, thresholds, chosen) ==
    {LET r == h[1]  m == h[2]
     IN  [metric |-> m, local |-> ToLocal(r.window_start), lowest |-> r.min[m], highest |-> r.max[m],
          range  |-> HourBand(m, thresholds[m], r.window_start),
          limit  |-> CeilingOf(m, thresholds[m]), over_limit |-> OverLimit(r, m, thresholds)] :
        h \in {x \in OutOfRangeHours(rows, thresholds) : x[2] \in chosen}}

\* "Summary": a month without data leaves its comparison empty.
SummarySheet(report) ==
    {LET f == report.ranking[c[1]].metrics[c[2]]
         Compared(k) == IF f[k].hours_with_data = 0 THEN None ELSE f[k].out_of_range_hours
     IN  [place |-> c[1], metric |-> c[2], current |-> f.current,
          previous |-> Compared("previous"), year_ago |-> Compared("year_ago")] :
        c \in (DOMAIN report.ranking) \X Recorded}
=============================================================================
