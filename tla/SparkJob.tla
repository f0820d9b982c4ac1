------------------------------ MODULE SparkJob ------------------------------
(***************************************************************************)
(* The Spark Structured Streaming job: queries that read the same Kafka    *)
(* topic independently, each with its own checkpoint, keep a per-device    *)
(* EWMA state (and, for the aggregates, per-window counts), and upsert     *)
(* their rows into Cassandra one row at a time.                            *)
(*                                                                         *)
(* A micro-batch is: log its end offsets (PlanBatch), compute its rows     *)
(* (RunBatch), upsert each row (WriteRow), commit offsets and state        *)
(* (CommitBatch).  The checkpoint protocol is Spark's; what each step      *)
(* computes and writes is the job's.  A crash between any two steps loses  *)
(* what is in memory; the batch planned is replayed with the same offsets. *)
(***************************************************************************)
EXTENDS AnomalyRule, Sequences, FiniteSets

CONSTANTS
    Devices,            \* device ids: the Kafka message key
    Partitions,         \* partitions of the topic
    PartitionOf,        \* the partition a device's messages go to
    Queries,            \* the streaming queries started by main
    Windowed,           \* those of them that aggregate by window
    Width,              \* Width[q]: window length of an aggregating query
    Delay,              \* Delay[q]: its watermark delay
    Values,             \* readings
    Kinds,              \* what can be on the wire: see Kind
    MaxOffsetsPerTrigger,
    \* bounds of the model
    MaxEvents, MaxClock, MaxCrashes

\* "good": a producer's event.  "unusable": not JSON, or no usable event_id,
\* device_id, event_ts or ingest_ts.  "gap": usable, but another field that
\* the output schema declares non-nullable is missing.
Kind == {"good", "unusable", "gap"}

Seasons == DOMAIN SeedMean

ASSUME JobAssumption ==
    /\ IsFiniteSet(Partitions)
    /\ PartitionOf \in [Devices -> Partitions]
    /\ Windowed \subseteq Queries
    /\ Width \in [Windowed -> Nat \ {0}]
    /\ Delay \in [Windowed -> Nat]
    /\ Kinds \subseteq Kind
    /\ Values \subseteq Int
    /\ 1 \in Seasons
    /\ Seasons \subseteq Nat
    /\ MaxOffsetsPerTrigger \in Nat \ {0}
    /\ {MaxEvents, MaxClock, MaxCrashes} \subseteq Nat

VARIABLES
    log,        \* log[p]: the records of partition p, in offset order
    clock,      \* the producer's wall clock
    season,     \* where the wall clock stands on the seasonal curve
    \* the job's memory
    boot,       \* what main() has done before it starts the queries
    up,         \* are the queries running?
    seed,       \* the season its baseline was shifted to when it started
    ran,        \* ran[q]: the planned batch's rows are being written
    todo,       \* todo[q]: keys of the rows not yet written
    \* the checkpoints
    committed,  \* committed[q][p]: offset up to which batches are committed
    wal,        \* wal[q]: the batch planned and not yet committed
    ewma,       \* ewma[q][d]: the EWMA state, or NoState
    windows,    \* windows[q]: the open windows' counts, by <<device, window>>
    maxTs,      \* maxTs[q]: the latest event time of the committed batches
    watermark,  \* watermark[q]: the watermark of the last committed batch
    \* Cassandra
    table,      \* table[q]: the rows of the query's table, by primary key
    thresholds, \* has device_thresholds been written?
    \* history, for the properties
    late,       \* late[q]: records the query dropped as late
    crashes

kafka      == <<log, clock, season>>
memory     == <<boot, up, seed, ran, todo>>
checkpoint == <<committed, wal, ewma, windows, maxTs, watermark>>
cassandra  == <<table, thresholds>>
vars == <<kafka, memory, checkpoint, cassandra, late, crashes>>

NoState == [mean |-> 0, var |-> -1]
NoBatch == [end |-> <<>>, evict |-> 0]

-----------------------------------------------------------------------------
(* Records, positions and windows *)

Record == [dev : Devices, ts : Nat, val : Int, kind : Kind]

\* Mutant: no filter behind from_json.
UsableUnfiltered(r) == TRUE

\* parse_and_cast keeps the records with usable ids and timestamps.
Usable(r) == r.kind # "unusable"

\* The positions of the topic that a batch from offsets `from` to `to` reads.
Positions(from, to) ==
    UNION {{p} \X (from[p] + 1 .. to[p]) : p \in Partitions}

At(pos) == log[pos[1]][pos[2]]

WindowOf(q, ts) == ts \div Width[q]
WindowEnd(q, w) == (w + 1) * Width[q]
WindowKey(q, pos) == <<At(pos).dev, WindowOf(q, At(pos).ts)>>

\* A row is dropped, or a window's state evicted, once the watermark has
\* reached the end of the window.
Closed(q, w, mark) == WindowEnd(q, w) <= mark

\* Mutant: mode("overwrite").
UpsertOverwrites(t, k, row) == [x \in {k} |-> row]

\* A CQL INSERT: the primary key decides between a new row and a new value.
Upsert(t, k, row) == [x \in DOMAIN t \cup {k} |-> IF x = k THEN row ELSE t[x]]

-----------------------------------------------------------------------------
(* What a batch computes *)

Batch(q) == {pos \in Positions(committed[q], wal[q].end) : Usable(At(pos))}

\* The state a pass over partition p's offsets from .. to leaves for device
\* d, begun with state e.
EwmaPass(d, from, to, e) ==
    LET p == PartitionOf[d]
        pass[i \in from .. to] ==
            IF i = from THEN e
            ELSE IF Usable(log[p][i]) /\ log[p][i].dev = d
                 THEN Fold(pass[i - 1], log[p][i].val)
                 ELSE pass[i - 1]
    IN  pass[to]

\* Mutant: every batch begins with the seed.
StartStateReseeds(q, d) == SeedState(seed)

\* state.get if state.exists, else the seed the driver holds.
StartState(q, d) == IF ewma[q][d] = NoState THEN SeedState(seed) ELSE ewma[q][d]

\* is_anomaly of the record at pos: the device's state just before it.
IsAnomaly(q, pos) ==
    LET d == At(pos).dev
    IN  Flagged(EwmaPass(d, committed[q][pos[1]], pos[2] - 1, StartState(q, d)),
                At(pos).val)

\* withWatermark: the records of the batch whose window closed earlier.
LateIn(q) == {pos \in Batch(q) : q \in Windowed
                 /\ Closed(q, WindowOf(q, At(pos).ts), watermark[q])}

InWindow(q, k) == {pos \in Batch(q) \ LateIn(q) : WindowKey(q, pos) = k}

\* The primary keys of the rows the batch emits: a raw event's identity, or
\* in update mode the windows the batch touched.
EmittedKeys(q) ==
    IF q \in Windowed THEN {WindowKey(q, pos) : pos \in Batch(q) \ LateIn(q)}
                      ELSE Batch(q)

\* Mutant: a sink that adds to the row it finds.
WindowBeforeFromTable(q, k) ==
    IF k \in DOMAIN table[q] THEN table[q][k] ELSE [events |-> 0, anomalies |-> 0]

WindowBefore(q, k) ==
    IF k \in DOMAIN windows[q] THEN windows[q][k] ELSE [events |-> 0, anomalies |-> 0]

\* Mutant: anomaly_count of the last batch only.
WindowAfterLastBatch(q, k) ==
    LET new == InWindow(q, k)
    IN  [events    |-> WindowBefore(q, k).events + Cardinality(new),
         anomalies |-> Cardinality({pos \in new : IsAnomaly(q, pos)})]

\* event_count and anomaly_count of window k once the batch is in.
WindowAfter(q, k) ==
    LET new == InWindow(q, k)
    IN  [events    |-> WindowBefore(q, k).events + Cardinality(new),
         anomalies |-> WindowBefore(q, k).anomalies
                           + Cardinality({pos \in new : IsAnomaly(q, pos)})]

RowOf(q, k) ==
    IF q \in Windowed THEN WindowAfter(q, k)
    ELSE [events |-> 1, anomalies |-> IF IsAnomaly(q, k) THEN 1 ELSE 0]

\* The state store as the batch leaves it: every device it saw has a state.
EwmaAfter(q) ==
    [d \in Devices |->
        IF \E pos \in Batch(q) : At(pos).dev = d
        THEN EwmaPass(d, committed[q][PartitionOf[d]], wal[q].end[PartitionOf[d]],
                      StartState(q, d))
        ELSE ewma[q][d]]

\* ... and every window it touched its counts, less the windows evicted.
WindowsAfter(q) ==
    LET keys == IF q \in Windowed THEN DOMAIN windows[q] \cup EmittedKeys(q) ELSE {}
    IN  [k \in {k \in keys : ~Closed(q, k[2], wal[q].evict)} |->
            IF k \in EmittedKeys(q) THEN WindowAfter(q, k) ELSE windows[q][k]]

MaxTsAfter(q) ==
    LET seen == {maxTs[q]} \cup {At(pos).ts : pos \in Batch(q)}
    IN  CHOOSE t \in seen : \A u \in seen : u <= t

-----------------------------------------------------------------------------
Init ==
    /\ log = [p \in Partitions |-> <<>>]
    /\ clock = 0
    /\ season = 1
    /\ boot = "nothing"
    /\ up = FALSE
    /\ seed = 1
    /\ ran = [q \in Queries |-> FALSE]
    /\ todo = [q \in Queries |-> {}]
    /\ committed = [q \in Queries |-> [p \in Partitions |-> 0]]
    /\ wal = [q \in Queries |-> NoBatch]
    /\ ewma = [q \in Queries |-> [d \in Devices |-> NoState]]
    /\ windows = [q \in Queries |-> <<>>]
    /\ maxTs = [q \in Queries |-> 0]
    /\ watermark = [q \in Queries |-> 0]
    /\ table = [q \in Queries |-> <<>>]
    /\ thresholds = FALSE
    /\ late = [q \in Queries |-> {}]
    /\ crashes = 0

(***************************************************************************)
(* The producer appends an event to its device's partition.  event_ts is   *)
(* the wall clock when it is built, so it never decreases in the log.      *)
(***************************************************************************)
Publish(d, v, kind) ==
    /\ Len(log[PartitionOf[d]]) < MaxEvents
    /\ \E t \in clock .. MaxClock :
          /\ clock' = t
          /\ log' = [log EXCEPT ![PartitionOf[d]] =
                        Append(@, [dev |-> d, ts |-> t, val |-> v, kind |-> kind])]
    /\ UNCHANGED <<season, memory, checkpoint, cassandra, late, crashes>>

\* The year moves on.
NextSeason ==
    /\ season + 1 \in Seasons
    /\ season' = season + 1
    /\ UNCHANGED <<log, clock, memory, checkpoint, cassandra, late, crashes>>

(***************************************************************************)
(* main(): the thresholds of the July baseline are written ...             *)
(***************************************************************************)
WriteThresholds ==
    /\ ~up
    /\ boot = "nothing"
    /\ boot' = "thresholds"
    /\ thresholds' = TRUE
    /\ UNCHANGED <<kafka, up, seed, ran, todo, checkpoint, table, late, crashes>>

\* ... the baseline is shifted to the day's point of the seasonal curve ...
ShiftSeed ==
    /\ boot = "thresholds"
    /\ boot' = "seed"
    /\ seed' = season
    /\ UNCHANGED <<kafka, up, ran, todo, checkpoint, cassandra, late, crashes>>

\* ... and the queries are started.
Start ==
    /\ boot = "seed"
    /\ boot' = "nothing"
    /\ up' = TRUE
    /\ UNCHANGED <<kafka, seed, ran, todo, checkpoint, cassandra, late, crashes>>

Boot == WriteThresholds \/ ShiftSeed \/ Start

\* What stopping the driver, for whatever reason, does to its memory.
Stopped ==
    /\ boot' = "nothing"
    /\ up' = FALSE
    /\ ran' = [q \in Queries |-> FALSE]
    /\ todo' = [q \in Queries |-> {}]
    /\ UNCHANGED <<kafka, seed, checkpoint, cassandra, late>>

\* Mutants: an end offset one too far; a watermark without its delay.
PlanBatchTooFar(q) ==
    /\ up
    /\ wal[q] = NoBatch
    /\ wal' = [wal EXCEPT ![q] = [end |-> [p \in Partitions |-> Len(log[p]) + 1], evict |-> 0]]
    /\ UNCHANGED <<kafka, memory, committed, ewma, windows, maxTs, watermark, cassandra, late, crashes>>
PlanBatchNoDelay(q) ==
    /\ up
    /\ wal[q] = NoBatch
    /\ \E end \in [Partitions -> 0 .. MaxEvents] :
          /\ \A p \in Partitions : committed[q][p] <= end[p] /\ end[p] <= Len(log[p])
          /\ Cardinality(Positions(committed[q], end)) \in 1 .. MaxOffsetsPerTrigger
          /\ wal' = [wal EXCEPT ![q] = [end |-> end, evict |-> maxTs[q]]]
    /\ UNCHANGED <<kafka, memory, committed, ewma, windows, maxTs, watermark, cassandra, late, crashes>>

(***************************************************************************)
(* A trigger: read_kafka picks how far to read, at most                    *)
(* MaxOffsetsPerTrigger records, and logs it with the watermark in force.  *)
(***************************************************************************)
PlanBatch(q) ==
    /\ up
    /\ wal[q] = NoBatch
    /\ \E end \in [Partitions -> 0 .. MaxEvents] :
          /\ \A p \in Partitions : committed[q][p] <= end[p] /\ end[p] <= Len(log[p])
          /\ Cardinality(Positions(committed[q], end)) \in 1 .. MaxOffsetsPerTrigger
          /\ wal' = [wal EXCEPT ![q] =
                [end   |-> end,
                 evict |-> IF q \in Windowed /\ maxTs[q] - Delay[q] > watermark[q]
                           THEN maxTs[q] - Delay[q] ELSE watermark[q]]]
    /\ UNCHANGED <<kafka, memory, committed, ewma, windows, maxTs, watermark, cassandra, late, crashes>>

\* foreachBatch is called with the batch's rows; an empty batch writes none.
RunBatch(q) ==
    /\ up
    /\ wal[q] # NoBatch
    /\ ~ran[q]
    /\ \A pos \in Batch(q) : At(pos).kind = "good"
    /\ ran' = [ran EXCEPT ![q] = TRUE]
    /\ todo' = [todo EXCEPT ![q] = EmittedKeys(q)]
    /\ UNCHANGED <<kafka, boot, up, seed, checkpoint, cassandra, late, crashes>>

\* A null in a column declared non-nullable fails the encoder, hence the
\* query, hence (awaitAnyTermination) the whole job.
EncoderFails(q) ==
    /\ up
    /\ wal[q] # NoBatch
    /\ ~ran[q]
    /\ \E pos \in Batch(q) : At(pos).kind # "good"
    /\ Stopped
    /\ UNCHANGED crashes

\* One row of the batch is upserted; the connector gives no order.
WriteRow(q, k) ==
    /\ k \in todo[q]
    /\ table' = [table EXCEPT ![q] = Upsert(@, k, RowOf(q, k))]
    /\ todo' = [todo EXCEPT ![q] = @ \ {k}]
    /\ UNCHANGED <<kafka, boot, up, seed, ran, checkpoint, thresholds, late, crashes>>

\* Mutant: committed when the first row is in.
CommitBatchEarly(q) ==
    /\ ran[q]
    /\ committed' = [committed EXCEPT ![q] = wal[q].end]
    /\ wal' = [wal EXCEPT ![q] = NoBatch]
    /\ ewma' = [ewma EXCEPT ![q] = EwmaAfter(q)]
    /\ windows' = [windows EXCEPT ![q] = WindowsAfter(q)]
    /\ maxTs' = [maxTs EXCEPT ![q] = MaxTsAfter(q)]
    /\ watermark' = [watermark EXCEPT ![q] = wal[q].evict]
    /\ late' = [late EXCEPT ![q] = @ \cup LateIn(q)]
    /\ ran' = [ran EXCEPT ![q] = FALSE]
    /\ todo' = [todo EXCEPT ![q] = {}]
    /\ UNCHANGED <<kafka, boot, up, seed, cassandra, crashes>>

\* Every row is in: the batch's offsets and state become the checkpoint.
CommitBatch(q) ==
    /\ ran[q]
    /\ todo[q] = {}
    /\ committed' = [committed EXCEPT ![q] = wal[q].end]
    /\ wal' = [wal EXCEPT ![q] = NoBatch]
    /\ ewma' = [ewma EXCEPT ![q] = EwmaAfter(q)]
    /\ windows' = [windows EXCEPT ![q] = WindowsAfter(q)]
    /\ maxTs' = [maxTs EXCEPT ![q] = MaxTsAfter(q)]
    /\ watermark' = [watermark EXCEPT ![q] = wal[q].evict]
    /\ late' = [late EXCEPT ![q] = @ \cup LateIn(q)]
    /\ ran' = [ran EXCEPT ![q] = FALSE]
    /\ UNCHANGED <<kafka, boot, up, seed, todo, cassandra, crashes>>

\* The driver dies, while it boots or runs, a write fails, or any other query
\* brings the job down.
Crash ==
    /\ up \/ boot # "nothing"
    /\ crashes < MaxCrashes
    /\ crashes' = crashes + 1
    /\ Stopped

Next ==
    \/ \E d \in Devices, v \in Values, kind \in Kinds : Publish(d, v, kind)
    \/ NextSeason
    \/ Boot
    \/ \E q \in Queries :
          \/ PlanBatch(q)
          \/ RunBatch(q)
          \/ EncoderFails(q)
          \/ \E k \in todo[q] : WriteRow(q, k)
          \/ CommitBatch(q)
    \/ Crash

Spec == Init /\ [][Next]_vars

(***************************************************************************)
(* Fairness.  Kubernetes restarts the driver, which boots (Boot); triggers *)
(* fire every trigger_interval and a running batch goes on or fails (Plan  *)
(* .. Commit).  The producer, the seasons and the crashes owe nothing.     *)
(***************************************************************************)
Fairness ==
    /\ WF_vars(Boot)
    /\ \A q \in Queries :
          /\ WF_vars(PlanBatch(q))
          /\ WF_vars(RunBatch(q)) /\ WF_vars(EncoderFails(q))
          /\ WF_vars(\E k \in todo[q] : WriteRow(q, k))
          /\ WF_vars(CommitBatch(q))

FairSpec == Spec /\ Fairness

-----------------------------------------------------------------------------
(* Properties *)

NoOffsets == [p \in Partitions |-> 0]
LogEnds   == [p \in Partitions |-> Len(log[p])]

Committed(q) == Positions(NoOffsets, committed[q])

Counts == [events : Nat, anomalies : Nat]

RowKeys(q) == IF q \in Windowed THEN Devices \X Nat ELSE Partitions \X (Nat \ {0})

\* Offsets stay within the log, a batch is written only by a running job
\* that has planned it, and only rows of that batch are pending.
Shape ==
    /\ log \in [Partitions -> Seq(Record)]
    /\ \A p \in Partitions : Len(log[p]) <= MaxEvents
    /\ clock \in Nat
    /\ boot \in {"nothing", "thresholds", "seed"}
    /\ up \in BOOLEAN /\ (up => boot = "nothing")
    /\ ran \in [Queries -> BOOLEAN]
    /\ todo = [q \in Queries |-> todo[q]]
    /\ table = [q \in Queries |-> table[q]]
    /\ late = [q \in Queries |-> late[q]]
    /\ committed \in [Queries -> [Partitions -> Nat]]
    /\ wal = [q \in Queries |-> wal[q]]
    /\ \A q \in Queries :
          /\ wal[q] # NoBatch => wal[q].end \in [Partitions -> Nat]
          /\ \A p \in Partitions :
                /\ committed[q][p] <= Len(log[p])
                /\ wal[q] # NoBatch => committed[q][p] <= wal[q].end[p] /\ wal[q].end[p] <= Len(log[p])
          /\ ran[q] => up /\ wal[q] # NoBatch
          /\ todo[q] # {} => ran[q]

\* The data kept at those offsets.
DataTypes ==
    /\ {crashes, season, seed} \subseteq Nat
    /\ thresholds \in BOOLEAN
    /\ ewma \in [Queries -> [Devices -> EwmaState]]
    /\ DOMAIN windows = Queries
    /\ \A q \in Queries : \A k \in DOMAIN windows[q] : windows[q][k] \in Counts
    /\ maxTs \in [Queries -> Nat] /\ watermark \in [Queries -> Nat]
    /\ \A q \in Queries : /\ DOMAIN table[q] \subseteq RowKeys(q)
                          /\ \A k \in DOMAIN table[q] : table[q][k] \in Counts

\* The type invariant.
TypeOK == Shape /\ DataTypes

\* Is the record at pos accounted for in q's table: by its own row, by its
\* window's row, or dropped as late?
Stored(q, pos) ==
    IF q \in Windowed THEN pos \in late[q] \/ WindowKey(q, pos) \in DOMAIN table[q]
                      ELSE pos \in DOMAIN table[q]

\* No usable record is skipped: whatever a query has committed past is in
\* its table, however often the job died while the batch was being written.
CommittedIsStored ==
    \A q \in Queries : \A pos \in Committed(q) : Usable(At(pos)) => Stored(q, pos)

\* The strengthening that makes CommittedIsStored inductive: while a batch
\* is being written, each of its rows is pending or in the table.
BatchWritten ==
    \A q \in Queries : ran[q] =>
        /\ todo[q] \subseteq EmittedKeys(q)
        /\ EmittedKeys(q) \subseteq todo[q] \cup DOMAIN table[q]

IInv == Shape /\ CommittedIsStored /\ BatchWritten

\* Nothing is counted twice or forgotten: between batches, event_count of a
\* window's row is the number of the committed records that fall in it and
\* were not late, although batches were replayed and rows overwritten.
CountsExact ==
    \A q \in Windowed : wal[q] = NoBatch =>
        \A k \in DOMAIN table[q] :
            table[q][k].events =
                Cardinality({pos \in Committed(q) \ late[q] :
                                Usable(At(pos)) /\ WindowKey(q, pos) = k})

\* Batching is invisible in the flags: between batches, a device's rows in
\* a raw table are flagged as one uninterrupted pass over all its records,
\* begun from the seed of some season, would flag them.
FlagsFollowHistory ==
    \A q \in Queries \ Windowed : wal[q] = NoBatch =>
        \A d \in Devices : \E s \in Seasons :
            \A pos \in DOMAIN table[q] : At(pos).dev = d =>
                (table[q][pos].anomalies = 1 <=>
                    Flagged(EwmaPass(d, 0, pos[2] - 1, SeedState(s)), At(pos).val))

\* The watermark keeps its promise: a record is dropped only if a record
\* newer than its window's end by the whole delay was already committed.
OnlyLateIsDropped ==
    \A q \in Windowed : \A pos \in late[q] :
        \E newer \in Committed(q) :
            At(newer).ts >= WindowEnd(q, WindowOf(q, At(pos).ts)) + Delay[q]

\* The tables tell the same story: once a raw and an aggregating query stand
\* at the same offsets, anomaly_count of a window is the number of flagged
\* raw events in it (the late ones aside).  The queries keep their EWMA
\* states apart; they agree because each is a pass over the same log from
\* the same seed, so this is stated for a job that starts in one season.
TablesAgree ==
    \A r \in Queries \ Windowed, q \in Windowed :
        (wal[r] = NoBatch /\ wal[q] = NoBatch /\ committed[r] = committed[q]) =>
            \A k \in DOMAIN table[q] :
                table[q][k].anomalies =
                    Cardinality({pos \in DOMAIN table[r] \ late[q] :
                        WindowKey(q, pos) = k /\ table[r][pos].anomalies = 1})

\* The backend never sees a reading whose thresholds are missing: it judges
\* by them as soon as there are rows, and main() may die between its steps.
ThresholdsFirst == (\E q \in Queries : DOMAIN table[q] # {}) => thresholds

\* A flag the backend reads can be explained: by the device's history up to
\* its record, and by thresholds that are there (anomaly_state.py, main.py:46).
FlagsAreExplained == FlagsFollowHistory /\ ThresholdsFirst

\* A query has planned a batch with the one record that can stop the job: one
\* that parse_and_cast keeps and the encoder does not take.
Stuck == \E q \in Queries : wal[q] # NoBatch /\ \E pos \in Batch(q) : At(pos).kind = "gap"

\* No crash loop: a batch once planned is committed sooner or later
\* (schema.py:86: a malformed message "must never be able to" make the job
\* restart at the same poisoned offset for ever).
NoCrashLoop == \A q \in Queries : (wal[q] # NoBatch) ~> (wal[q] = NoBatch)

\* The job goes on, whatever is on the wire: a batch once planned is committed
\* and every good event is accounted for, sooner or later, unless some query
\* is stuck at a record with a gap; nothing else on the wire, no crash and no
\* other query's end holds them up for ever (schema.py:87, main.py:77).
JobGoesOn ==
    \A q \in Queries :
        /\ (wal[q] # NoBatch) ~> (Stuck \/ wal[q] = NoBatch)
        /\ \A p \in Partitions : \A i \in 1 .. MaxEvents :
              (i <= Len(log[p]) /\ log[p][i].kind = "good")
                  ~> (Stuck \/ (i <= Len(log[p]) /\ Stored(q, <<p, i>>)))

-----------------------------------------------------------------------------
(***************************************************************************)
(* Refinement: the table raw_events is an EventStore.      A replayed      *)
(* batch overwrites rows that are there already: a stutter.                *)
(***************************************************************************)
Identities == Partitions \X (1 .. MaxEvents)

UsableInLog == {pos \in Positions(NoOffsets, LogEnds) : Usable(At(pos))}

RawStore == INSTANCE EventStore WITH
    Identity  <- Identities,
    published <- UsableInLog,
    stored    <- DOMAIN table["raw_events"]

\* raw_events implements the event store: each usable event gets its row
\* exactly once and for good, whatever is replayed; and sooner or later,
\* unless a query gets stuck.
RawIsEventStore == RawStore!Spec /\ (<>Stuck \/ RawStore!Fairness)
=============================================================================
