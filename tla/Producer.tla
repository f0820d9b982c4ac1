------------------------------ MODULE Producer ------------------------------
(***************************************************************************)
(* The producer (src/producer): one pass over the CSV file for its         *)
(* statistics, the replay of the file's last rows, the hand-over, and      *)
(* synthetic events for ever, paced by the rate limiter.  An event is      *)
(* counted once produce() has taken it into the client's queue; the        *)
(* broker acknowledges or refuses it later.  The process may be killed or  *)
(* fail and starts again from the top of the file.                         *)
(*                                                                         *)
(* Time is relative: lead is next_tick - monotonic(), ages says how long   *)
(* ago the recent events were published.  One metric stands for all, and   *)
(* one boolean; a statistic is an exact fraction <<numerator, denominator>>. *)
(***************************************************************************)
EXTENDS Integers, SequencesExt

CONSTANTS
    Files,          \* CSV files: sequences of [device, hour, temp, light]
    RowLimit,       \* REPLAY_ROW_LIMIT, 0 for every row
    Interval,       \* 1 / rate
    QueueSize,      \* queue.buffering.max.messages
    Infinity,       \* float("inf")
    (* bounds *)
    MaxRuns,        \* lives of the process
    MaxFailures,    \* messages the broker refuses, per run
    MaxSynthetic,   \* synthetic events per run
    Behind          \* how late the limiter is followed

ASSUME ProducerAssumption ==
    /\ Infinity \in Nat
    /\ Files \subseteq Seq([device : Int, hour : Int, temp : -Infinity .. Infinity, light : BOOLEAN])
    /\ RowLimit \in Nat /\ Interval \in Nat \ {0} /\ QueueSize \in Nat \ {0}
    /\ MaxRuns \in Nat \ {0} /\ MaxFailures \in Nat /\ MaxSynthetic \in Nat
    /\ Behind \in Nat /\ Behind > 2 * Interval

VARIABLES
    file,           \* the CSV file
    run,            \* which life of the process this is
    phase,          \* stats, replay, synthetic, flush or down
    step,           \* within the loops: publish, record, anomaly or wait
    row,            \* the row of the file to be read next
    stats,          \* BaselineStats so far
    turn,           \* _device_cycle
    spiked,         \* the event just published had an anomaly injected
    state,          \* ProducerState
    queue,          \* messages in the Kafka client, by their key
    topic,          \* this run's messages the broker has stored, by their key
    refused,        \* messages of this run whose delivery failed
    lead, ages

process == <<phase, step, row, stats, turn, spiked, state>>
vars    == <<file, run, process, queue, topic, refused, lead, ages>>

-----------------------------------------------------------------------------
(* device_stats.py *)

Plus(a, b)  == <<a[1] * b[2] + b[1] * a[2], a[2] * b[2]>>
Minus(a, b) == <<a[1] * b[2] - b[1] * a[2], a[2] * b[2]>>
Times(a, b) == <<a[1] * b[1], a[2] * b[2]>>
Over(a, n)  == <<a[1], a[2] * n>>
Same(a, b)  == a[1] * b[2] = b[1] * a[2]
Whole(n)    == <<n, 1>>

EmptyStat == [count |-> 0, mean |-> Whole(0), m2 |-> Whole(0), min |-> Infinity, max |-> -Infinity]

\* Mutant of Update: both factors from the old mean.
UpdateStale(stat, x) ==
    LET count == stat.count + 1
        delta == Minus(Whole(x), stat.mean)
    IN  [count |-> count, mean |-> Plus(stat.mean, Over(delta, count)),
         m2 |-> Plus(stat.m2, Times(delta, delta)), min |-> Min({stat.min, x}), max |-> Max({stat.max, x})]

\* RunningStat.update: Welford's step.
Update(stat, x) ==
    LET count == stat.count + 1
        delta == Minus(Whole(x), stat.mean)
        mean  == Plus(stat.mean, Over(delta, count))
    IN  [count |-> count, mean |-> mean,
         m2    |-> Plus(stat.m2, Times(delta, Minus(Whole(x), mean))),
         min   |-> Min({stat.min, x}), max |-> Max({stat.max, x})]

Devices(f) == {f[i].device : i \in DOMAIN f}
Hours(f)   == {f[i].hour : i \in DOMAIN f}

EmptyStats(f) ==
    [rows    |-> 0,
     metrics |-> [d \in Devices(f) |-> EmptyStat],
     lit     |-> [d \in Devices(f) |-> 0],
     hours   |-> [k \in Devices(f) \X Hours(f) |-> [temp |-> EmptyStat, lit |-> 0, seen |-> 0]]]

AddRow(s, r) ==
    LET k   == <<r.device, r.hour>>
        lit == IF r.light THEN 1 ELSE 0
    IN  [rows    |-> s.rows + 1,
         metrics |-> [s.metrics EXCEPT ![r.device] = Update(@, r.temp)],
         lit     |-> [s.lit EXCEPT ![r.device] = @ + lit],
         hours   |-> [s.hours EXCEPT ![k] = [temp |-> Update(@.temp, r.temp),
                                             lit |-> @.lit + lit, seen |-> @.seen + 1]]]

\* hour_temp_mean and hour_light_fraction: the device's own where the file
\* has no row of that hour.
HourTempMean(s, d, h) ==
    IF s.hours[<<d, h>>].seen = 0 THEN s.metrics[d].mean ELSE s.hours[<<d, h>>].temp.mean

HourLightFraction(s, d, h) ==
    IF s.hours[<<d, h>>].seen = 0 THEN <<s.lit[d], s.metrics[d].count>>
    ELSE <<s.hours[<<d, h>>].lit, s.hours[<<d, h>>].seen>>

-----------------------------------------------------------------------------
(* state.py, and the start of main *)

NewState ==
    [mode |-> "replay", sent_replay |-> 0, sent_synthetic |-> 0, anomalies |-> 0]

NoMessages(f) == [d \in Devices(f) |-> <<>>]

Boot ==
    /\ phase' = "stats" /\ step' = "publish" /\ row' = 1
    /\ stats' = EmptyStats(file) /\ turn' = 0 /\ spiked' = FALSE
    /\ state' = NewState /\ queue' = NoMessages(file) /\ topic' = NoMessages(file)
    /\ refused' = 0 /\ lead' = 0 /\ ages' = <<>>

Init ==
    /\ file \in Files /\ run = 1
    /\ phase = "stats" /\ step = "publish" /\ row = 1
    /\ stats = EmptyStats(file) /\ turn = 0 /\ spiked = FALSE
    /\ state = NewState /\ queue = NoMessages(file) /\ topic = NoMessages(file) /\ refused = 0
    /\ lead = 0 /\ ages = <<>>

\* islice(reader, total_rows - row_limit, None)
FirstRow(total) == IF RowLimit > 0 /\ total > RowLimit THEN total - RowLimit + 1 ELSE 1

ReadStats ==
    /\ phase = "stats" /\ row <= Len(file)
    /\ stats' = AddRow(stats, file[row])
    /\ row' = row + 1
    /\ UNCHANGED <<file, run, phase, step, turn, spiked, state, queue, topic, refused, lead, ages>>

StartReplay ==
    /\ phase = "stats" /\ row > Len(file)
    /\ phase' = "replay" /\ row' = FirstRow(stats.rows) /\ lead' = 0
    /\ UNCHANGED <<file, run, step, stats, turn, spiked, state, queue, topic, refused, ages>>

-----------------------------------------------------------------------------
(* The two loops: publish, record, wait *)

\* A message: the row of the file it carries, 0 when it is synthetic.
Queued == SumFunction([d \in Devices(file) |-> Len(queue[d])])

\* produce() takes the message, or raises when the client's queue is full.
Accept(device, source) ==
    /\ Queued < QueueSize
    /\ queue' = [queue EXCEPT ![device] = Append(@, source)]
    /\ step' = "record" /\ ages' = Append(ages, 0)

PublishRow ==
    /\ phase = "replay" /\ step = "publish" /\ row <= Len(file)
    /\ Accept(file[row].device, row)
    /\ UNCHANGED <<file, run, phase, row, stats, turn, spiked, state, topic, refused, lead>>

\* The devices take turns, in the order of their ids.
HasTurn(device) ==
    Cardinality({d \in Devices(file) : d < device}) = turn % Cardinality(Devices(file))

\* An anomaly may be injected.
PublishSynthetic ==
    /\ phase = "synthetic" /\ step = "publish" /\ state.sent_synthetic < MaxSynthetic
    /\ \E d \in Devices(file) : HasTurn(d) /\ Accept(d, 0)
    /\ spiked' \in BOOLEAN
    /\ turn' = turn + 1
    /\ UNCHANGED <<file, run, phase, row, stats, state, topic, refused, lead>>

\* BufferError ends the loop; in the last run the broker keeps up.
BufferFull ==
    /\ phase \in {"replay", "synthetic"} /\ step = "publish" /\ Queued = QueueSize
    /\ phase = "replay" => row <= Len(file)
    /\ run < MaxRuns
    /\ phase' = "flush"
    /\ UNCHANGED <<file, run, step, row, stats, turn, spiked, state, queue, topic, refused, lead, ages>>

\* Mutant of RecordEvent: by the mode of the process, and of the next row.
RecordEventAhead ==
    /\ step = "record" /\ phase \in {"replay", "synthetic"}
    /\ state' = IF phase = "replay" /\ row < Len(file) THEN [state EXCEPT !.sent_replay = @ + 1]
                ELSE [state EXCEPT !.sent_synthetic = @ + 1]
    /\ step' = IF spiked THEN "anomaly" ELSE "wait"
    /\ row' = IF phase = "replay" THEN row + 1 ELSE row
    /\ UNCHANGED <<file, run, phase, stats, turn, spiked, queue, topic, refused, lead, ages>>

RecordEvent ==
    /\ step = "record" /\ phase \in {"replay", "synthetic"}
    /\ state' = IF phase = "replay" THEN [state EXCEPT !.sent_replay = @ + 1]
                ELSE [state EXCEPT !.sent_synthetic = @ + 1]
    /\ step' = IF spiked THEN "anomaly" ELSE "wait"
    /\ row' = IF phase = "replay" THEN row + 1 ELSE row
    /\ UNCHANGED <<file, run, phase, stats, turn, spiked, queue, topic, refused, lead, ages>>

RecordAnomaly ==
    /\ step = "anomaly" /\ phase = "synthetic"
    /\ state' = [state EXCEPT !.anomalies = @ + 1] /\ step' = "wait"
    /\ UNCHANGED <<file, run, phase, row, stats, turn, spiked, queue, topic, refused, lead, ages>>

\* Mutant of NextLead: no resync, the late ticks are made up for.
NextLeadCatchUp(ahead) == ahead + Interval

\* The next tick, or now when the loop has fallen far behind.
NextLead(ahead) == IF ahead + Interval < -Interval THEN 0 ELSE ahead + Interval

WaitForNextTick ==
    /\ step = "wait" /\ phase \in {"replay", "synthetic"}
    /\ lead <= 0
    /\ lead' = NextLead(lead) /\ step' = "publish"
    /\ UNCHANGED <<file, run, phase, row, stats, turn, spiked, state, queue, topic, refused, ages>>

RecordHandover ==
    /\ phase = "replay" /\ step = "publish" /\ row > Len(file)
    /\ phase' = "synthetic" /\ state' = [state EXCEPT !.mode = "synthetic"]
    /\ UNCHANGED <<file, run, step, row, stats, turn, spiked, queue, topic, refused, lead, ages>>

\* Time passes: asleep, or with a call that takes long; what passes while
\* the state is recorded is counted with the wait.  The oldest events, first
\* in ages, are forgotten after two intervals.
Tick ==
    /\ phase \in {"replay", "synthetic"} /\ step \in {"publish", "wait"} /\ lead > -Behind
    /\ lead' = lead - 1
    /\ LET old == Cardinality({i \in DOMAIN ages : ages[i] + 1 >= 2 * Interval})
       IN  ages' = [i \in 1 .. Len(ages) - old |-> ages[i + old] + 1]
    /\ UNCHANGED <<file, run, process, queue, topic, refused>>

-----------------------------------------------------------------------------
(* kafka_client.py, the broker, and the end of the process *)

\* The messages of a key are stored in the order they were queued.
Deliver ==
    /\ \E d \in DOMAIN queue :
        /\ queue[d] # <<>>
        /\ topic' = [topic EXCEPT ![d] = Append(@, Head(queue[d]))]
        /\ queue' = [queue EXCEPT ![d] = Tail(@)]
    /\ UNCHANGED <<file, run, process, refused, lead, ages>>

\* Mutant of Refuse: what was refused is tried again behind the others.
RefuseAndRetry ==
    /\ refused < MaxFailures
    /\ \E d \in DOMAIN queue :
        /\ queue[d] # <<>>
        /\ queue' = [queue EXCEPT ![d] = Append(Tail(@), Head(@))]
    /\ refused' = refused + 1
    /\ UNCHANGED <<file, run, process, topic, lead, ages>>

\* _delivery_report only logs.
Refuse ==
    /\ refused < MaxFailures
    /\ \E d \in DOMAIN queue :
        /\ queue[d] # <<>>
        /\ queue' = [queue EXCEPT ![d] = Tail(@)]
    /\ refused' = refused + 1
    /\ UNCHANGED <<file, run, process, topic, lead, ages>>

\* flush(10): what has not been delivered by then goes with the process.
Flush ==
    /\ phase = "flush"
    /\ phase' = "down" /\ queue' = NoMessages(file)
    /\ UNCHANGED <<file, run, step, row, stats, turn, spiked, state, topic, refused, lead, ages>>

Kill ==
    /\ run < MaxRuns /\ phase # "down"
    /\ phase' = "down" /\ queue' = NoMessages(file)
    /\ UNCHANGED <<file, run, step, row, stats, turn, spiked, state, topic, refused, lead, ages>>

Restart ==
    /\ phase = "down" /\ run' = run + 1
    /\ Boot
    /\ UNCHANGED file

-----------------------------------------------------------------------------

Work == ReadStats \/ StartReplay \/ PublishRow \/ PublishSynthetic \/ BufferFull
            \/ RecordEvent \/ RecordAnomaly \/ WaitForNextTick \/ RecordHandover \/ Flush

Next == Work \/ Tick \/ Deliver \/ Refuse \/ Kill \/ Restart

Spec == Init /\ [][Next]_vars

-----------------------------------------------------------------------------
(* Properties *)

TypeOK ==
    /\ phase \in {"stats", "replay", "synthetic", "flush", "down"}
    /\ step \in {"publish", "record", "anomaly", "wait"}
    /\ state.mode \in {"replay", "synthetic"}
    /\ Queued <= QueueSize /\ lead \in -Behind .. Interval

\* What a RunningStat says of some rows of a file: the exact mean, sum of
\* squared deviations and extremes of their readings.
RowsOf(f, d, hours) == {i \in DOMAIN f : f[i].device = d /\ f[i].hour \in hours}
TempSum(f, I)       == SumFunction([i \in I |-> f[i].temp])
Lit(f, I)           == Cardinality({i \in I : f[i].light})

IsStatOf(stat, f, I) ==
    LET n        == Cardinality(I)
        Apart(i) == n * f[i].temp - TempSum(f, I)       \* n times the deviation
    IN  /\ stat.count = n
        /\ Same(stat.mean, <<TempSum(f, I), n>>)
        /\ Same(stat.m2, <<SumFunction([i \in I |-> Apart(i) * Apart(i)]), n * n>>)
        /\ stat.min = Min({f[i].temp : i \in I}) /\ stat.max = Max({f[i].temp : i \in I})

\* The one-pass statistics (device_stats.py:32) are those of the rows read,
\* and a synthetic event's hour has a mean and a light share to draw from.
StatsAreExact ==
    phase \in {"replay", "synthetic"} =>
        \A d \in Devices(file) :
            LET all == RowsOf(file, d, Hours(file))
            IN  /\ IsStatOf(stats.metrics[d], file, all)
                /\ \A h \in Hours(file) :
                    LET own == IF RowsOf(file, d, {h}) = {} THEN all ELSE RowsOf(file, d, {h})
                    IN  /\ Same(HourTempMean(stats, d, h), <<TempSum(file, own), Cardinality(own)>>)
                        /\ Same(HourLightFraction(stats, d, h), <<Lit(file, own), Cardinality(own)>>)

\* The messages from the given rows that are stored or still queued.
Count(messages, rows) == Cardinality({i \in DOMAIN messages : messages[i] \in rows})
Out(rows) == SumFunction([d \in Devices(file) |-> Count(topic[d], rows) + Count(queue[d], rows)])

\* What the page is told was sent is what was delivered, is still queued, or
\* was refused (kafka_client.py:28 only logs that): no event is counted
\* twice or by the wrong kind, none is left out but the one in hand.
LedgerBalances ==
    phase \in {"replay", "synthetic"} =>
        LET replayed  == Out(DOMAIN file)
            synthetic == Out({0})
            pending   == IF step = "record" THEN 1 ELSE 0
        IN  /\ state.sent_replay + state.sent_synthetic + pending = replayed + synthetic + refused
            /\ replayed <= state.sent_replay + pending
            /\ synthetic <= state.sent_synthetic + pending
            /\ state.anomalies <= state.sent_synthetic

\* A device's events reach the broker in the order of the file, the replayed
\* before the synthetic, whatever was refused in between (replay.py:27).
TopicKeepsOrder ==
    \A d \in Devices(file) : \A i, j \in DOMAIN topic[d] :
        i < j => topic[d][j] = 0 \/ (topic[d][i] # 0 /\ topic[d][i] < topic[d][j])

\* Synthetic mode is entered with the last RowLimit rows sent, each once.
HandoverIsComplete ==
    state.mode = "synthetic" =>
        LET wanted == IF RowLimit = 0 THEN Len(file) ELSE Min({RowLimit, Len(file)})
        IN  /\ state.sent_replay = wanted
            /\ \A d \in Devices(file) : \A i \in DOMAIN topic[d] :
                topic[d][i] # 0 => topic[d][i] > Len(file) - wanted

\* However long a step stalls, the events that follow are no burst: within n
\* intervals at most n + 3 are published (rate_limiter.py:23).
BurstIsBounded ==
    \A n \in 1 .. 2 :
        Cardinality({i \in DOMAIN ages : ages[i] < n * Interval}) <= n + 3

\* The topic is faithful to the file, and the client's queue is bounded.
ProducerInv == TypeOK /\ TopicKeepsOrder /\ HandoverIsComplete
=============================================================================
