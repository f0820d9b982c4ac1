--------------------------- MODULE HistoryBackfill ---------------------------
(***************************************************************************)
(* The history-backfill Job (backend/app/history_backfill.py): it derives  *)
(* a CSV of synthetic history that ends at an anchor hour, and writes the  *)
(* same hours into agg_1h, while the Spark job writes live hours into the  *)
(* same table.  Attempts crash and are retried by Kubernetes; the Job can  *)
(* be run again with other settings; the keyspace can be dropped while the *)
(* data volume stays.                                                      *)
(*                                                                         *)
(* One device stands for the devices: their hours are written by the same  *)
(* loop and never interact.  Time is counted in hours.  A derivation is    *)
(* named by its anchor and span, which with the seed determine every row.  *)
(***************************************************************************)
EXTENDS Integers

CONSTANTS
    Spans,          \* values HISTORY_SPAN_DAYS can have, here in hours
    FirstHour,      \* the hour the system is first brought up
    LastHour,       \* bound: the clock stops here
    MaxLag,         \* how many hours behind the clock Spark's upserts can be
    BackoffLimit,   \* backoffLimit of the Kubernetes Job
    MaxRuns,        \* bound: how often the Job is applied
    MaxDrops,       \* bound: how often the keyspace is dropped
    Absent,           \* no row, no file
    Live,           \* an agg_1h row the Spark job wrote
    Torn            \* a sidecar opened for writing and not yet complete

Derivation == [anchor : Nat, span : Spans]

ASSUME BackfillAssumption ==
    /\ Spans \subseteq Nat \ {0}
    /\ FirstHour \in Nat /\ LastHour \in Nat
    /\ \A s \in Spans : s <= FirstHour
    /\ {MaxLag, BackoffLimit, MaxRuns, MaxDrops} \subseteq Nat
    /\ Absent # Live
    /\ {Absent, Live, Torn} \cap Derivation = {}
    /\ Torn # Absent
    /\ Absent \notin [deriv : Derivation, completed : BOOLEAN]

VARIABLES
    now,        \* the wall clock, in hours
    agg,        \* agg[h]: who wrote the agg_1h row of hour h
    meta,       \* the history_backfill row: [deriv, completed], or Absent
    csv,        \* the derived file
    sidecar,    \* its .json sidecar
    \* the Job
    conf,       \* span in its environment
    pc,         \* where the running attempt is; "stopped": none is running
    deriv,      \* the anchor and span the attempt settled on
    pending,    \* the hours it has still to write
    seen,       \* history: the live hours it found when it looked
    failures, runs, drops

cassandra == <<agg, meta>>
volume    == <<csv, sidecar>>
attempt   == <<deriv, pending, seen>>
counters  == <<failures, runs, drops>>
vars == <<now, cassandra, volume, conf, pc, attempt, counters>>

Hours == 0 .. LastHour

\* The hours a derivation covers: derive()'s range(start, end).
HoursOf(d) == {h \in Hours : d.anchor - d.span <= h /\ h < d.anchor}

IsComplete == meta # Absent /\ meta.completed

\* derived_file_matches: the sidecar is readable and names d, the CSV exists.
DerivedFileMatches(d) == sidecar = d /\ csv # Absent

Ended == {"succeeded", "failed"}

Init ==
    /\ now = FirstHour
    /\ agg \in [Hours -> {Absent, Live}]
    /\ \A h \in Hours : h >= now => agg[h] = Absent
    /\ meta = Absent
    /\ csv = Absent /\ sidecar = Absent
    /\ conf \in Spans
    /\ pc = "stopped"
    /\ deriv = [anchor |-> FirstHour, span |-> conf]
    /\ pending = {} /\ seen = {}
    /\ failures = 0 /\ runs = 1 /\ drops = 0

-----------------------------------------------------------------------------
(* The Job's attempts: main() *)

\* Mutant of Settled: every attempt settles on its own anchor.
SettledAfresh == [anchor |-> now, span |-> conf]

\* The anchor and settings: those recorded, or now and the environment's.
Settled ==
    IF meta = Absent THEN [anchor |-> now, span |-> conf] ELSE meta.deriv

\* Mutant of Begin: the record alone decides; the derived file is not looked at.
BeginTrustsRecord ==
    /\ pc = "stopped"
    /\ deriv' = Settled /\ seen' = {}
    /\ pc' = IF ~IsComplete THEN "record" ELSE "succeeded"
    /\ UNCHANGED <<now, cassandra, volume, conf, pending, counters>>

\* An attempt starts: read the meta row, settle the anchor, and stop here if
\* there is nothing left to do.
Begin ==
    /\ pc = "stopped"
    /\ deriv' = Settled /\ seen' = {}
    /\ pc' = IF ~IsComplete THEN "record"
             ELSE IF DerivedFileMatches(Settled) THEN "succeeded" ELSE "derive"
    /\ UNCHANGED <<now, cassandra, volume, conf, pending, counters>>

\* INSERT INTO history_backfill: no row is written before the anchor is.
Record ==
    /\ pc = "record"
    /\ meta' = [deriv |-> deriv, completed |-> FALSE]
    /\ pc' = "derive"
    /\ UNCHANGED <<now, agg, volume, conf, attempt, counters>>

\* derive(): a temporary file, then os.replace: the CSV changes at once.
Derive ==
    /\ pc = "derive"
    /\ csv' = deriv
    /\ pc' = "open"
    /\ UNCHANGED <<now, cassandra, sidecar, conf, attempt, counters>>

\* write_sidecar: open(..., "w") truncates ...
OpenSidecar ==
    /\ pc = "open"
    /\ sidecar' = Torn
    /\ pc' = "dump"
    /\ UNCHANGED <<now, cassandra, csv, conf, attempt, counters>>

\* ... and json.dump fills it.  A complete history is left as it is.
DumpSidecar ==
    /\ pc = "dump"
    /\ sidecar' = deriv
    /\ pc' = IF IsComplete THEN "succeeded" ELSE "read"
    /\ UNCHANGED <<now, cassandra, csv, conf, attempt, counters>>

\* Mutant of ReadExisting: nothing is skipped.
ReadNothing ==
    /\ pc = "read"
    /\ pending' = HoursOf(deriv)
    /\ seen' = {h \in Hours : agg[h] = Live}
    /\ pc' = "write"
    /\ UNCHANGED <<now, cassandra, volume, conf, deriv, counters>>

\* existing_live_hours: what is there already is not to be rewritten.
ReadExisting ==
    /\ pc = "read"
    /\ LET found == {h \in Hours : h >= deriv.anchor - deriv.span /\ agg[h] # Absent}
       IN  pending' = HoursOf(deriv) \ found
    /\ seen' = {h \in Hours : agg[h] = Live}
    /\ pc' = "write"
    /\ UNCHANGED <<now, cassandra, volume, conf, deriv, counters>>

\* write_agg_1h: one INSERT, of a chunk sent with concurrency 32.
WriteHour(h) ==
    /\ pc = "write"
    /\ h \in pending
    /\ agg' = [agg EXCEPT ![h] = deriv]
    /\ pending' = pending \ {h}
    /\ UNCHANGED <<now, meta, volume, conf, pc, deriv, seen, counters>>

\* UPDATE ... completed_at, once every chunk has been acknowledged.
Complete ==
    /\ pc = "write"
    /\ pending = {}
    /\ meta' = [deriv |-> meta.deriv, completed |-> TRUE]
    /\ pc' = "succeeded"
    /\ UNCHANGED <<now, agg, volume, conf, attempt, counters>>

\* Mutant of Crash: an unlimited number of retries.
CrashUnlimited ==
    /\ pc \notin Ended \cup {"stopped"}
    /\ failures' = failures + 1
    /\ pc' = "stopped"
    /\ UNCHANGED <<now, cassandra, volume, conf, attempt, runs, drops>>

\* Mutant of Crash: the retry does not count as a failure.
CrashUncounted ==
    /\ pc \notin Ended \cup {"stopped"}
    /\ pc' = IF failures < BackoffLimit THEN "stopped" ELSE "failed"
    /\ UNCHANGED <<now, cassandra, volume, conf, attempt, counters>>

\* The attempt dies (OOM kill, a failed write) and is retried up to the limit.
Crash ==
    /\ pc \notin Ended \cup {"stopped"}
    /\ failures' = failures + 1
    /\ pc' = IF failures < BackoffLimit THEN "stopped" ELSE "failed"
    /\ UNCHANGED <<now, cassandra, volume, conf, attempt, runs, drops>>

-----------------------------------------------------------------------------
(* Everyone else *)

\* The Spark job upserts its row of a recent hour.
SparkUpsert(h) ==
    /\ now - MaxLag <= h /\ h <= now
    /\ agg' = [agg EXCEPT ![h] = Live]
    /\ UNCHANGED <<now, meta, volume, conf, pc, attempt, counters>>

Tick ==
    /\ now < LastHour
    /\ now' = now + 1
    /\ UNCHANGED <<cassandra, volume, conf, pc, attempt, counters>>

\* The operator applies the Job again, perhaps with another span.
Rerun ==
    /\ pc \in Ended
    /\ runs < MaxRuns
    /\ runs' = runs + 1
    /\ failures' = 0
    /\ pc' = "stopped"
    /\ conf' \in Spans
    /\ UNCHANGED <<now, cassandra, volume, attempt, drops>>

\* Dropping the keyspace takes the meta row with it; the volume keeps both
\* files.  Nothing does this while the Job is running.
DropKeyspace ==
    /\ pc \in Ended
    /\ drops < MaxDrops
    /\ drops' = drops + 1
    /\ agg' = [h \in Hours |-> Absent]
    /\ meta' = Absent
    /\ UNCHANGED <<now, volume, conf, pc, attempt, failures, runs>>

\* The derived file is lost; the sidecar may stay behind.
LoseCsv ==
    /\ pc \in Ended
    /\ csv # Absent
    /\ csv' = Absent
    /\ UNCHANGED <<now, cassandra, sidecar, conf, pc, attempt, counters>>

JobStep ==
    \/ Begin \/ Record \/ Derive \/ OpenSidecar \/ DumpSidecar
    \/ ReadExisting \/ (\E h \in Hours : WriteHour(h)) \/ Complete

Next ==
    \/ JobStep
    \/ Crash
    \/ \E h \in Hours : SparkUpsert(h)
    \/ Tick \/ Rerun \/ DropKeyspace \/ LoseCsv

Spec == Init /\ [][Next]_vars

\* An attempt runs on by itself and Kubernetes starts the next one; nobody
\* owes a crash, a re-run or a live row.
FairSpec == Spec /\ WF_vars(JobStep)

-----------------------------------------------------------------------------
(* Properties *)

TypeOK ==
    /\ now \in Nat
    /\ agg \in [Hours -> {Absent, Live} \cup Derivation]
    /\ meta # Absent => meta \in [deriv : Derivation, completed : BOOLEAN]
    /\ csv \in {Absent} \cup Derivation
    /\ sidecar \in {Absent, Torn} \cup Derivation
    /\ conf \in Spans
    /\ pc \in {"stopped", "record", "derive", "open", "dump", "read", "write"} \cup Ended
    /\ deriv \in Derivation
    /\ pending \subseteq Hours /\ seen \subseteq Hours
    /\ failures \in 0 .. BackoffLimit + 1
    /\ {runs, drops} \subseteq Nat

\* completed_at stays null until every row has been written: a history that
\* says it is complete has a row, live or derived, for each of its hours.
CompleteIsFilled ==
    IsComplete => \A h \in HoursOf(meta.deriv) : agg[h] # Absent

\* A re-run never produces a second, shifted history: all derived rows in
\* agg_1h belong to the one derivation that is on record.
OneHistory ==
    \A h \in Hours : agg[h] \in Derivation => meta # Absent /\ agg[h] = meta.deriv

\* The "already complete" exit is right: when the sidecar of a complete
\* history matches the record, the CSV beside it holds that history,
\* whatever earlier attempts and earlier keyspaces left on the volume.
MatchIsTrue ==
    IsComplete /\ DerivedFileMatches(meta.deriv) => csv = meta.deriv

\* What the record says of the history is so, in Cassandra and on the volume.
RecordIsTrue == CompleteIsFilled /\ OneHistory /\ MatchIsTrue

\* The control of an attempt, which makes the three invariants inductive: past
\* its record step it works on the derivation on record, its file is ahead
\* of its rows, and every hour is present or still to be written.
Control ==
    /\ pc = "record" => ~IsComplete /\ (meta # Absent => deriv = meta.deriv)
    /\ pc \in {"derive", "open", "dump", "read", "write"} =>
          meta # Absent /\ deriv = meta.deriv
    /\ pc \in {"open", "dump", "read", "write"} => csv = deriv
    /\ pc \in {"read", "write"} => ~meta.completed /\ sidecar = deriv
    /\ pc = "write" => \A h \in HoursOf(deriv) : h \in pending \/ agg[h] # Absent
    /\ pc \notin Ended => failures <= BackoffLimit

IInv == TypeOK /\ Control /\ CompleteIsFilled /\ OneHistory /\ MatchIsTrue

\* The Job reports success only when there is a complete history and its
\* derived file, sidecar included, is in place.
SuccessIsEarned ==
    [][pc # "succeeded" /\ pc' = "succeeded" =>
          IsComplete' /\ DerivedFileMatches(meta.deriv)' /\ csv' = meta'.deriv]_vars

\* Once the history is complete, only the Spark job changes its rows, until
\* the keyspace is dropped: a re-run writes nothing to Cassandra.
CompleteIsLeftAlone ==
    [][IsComplete /\ agg' # agg =>
          (\E h \in Hours : SparkUpsert(h)) \/ DropKeyspace]_vars

\* Success means that everything is in place, and it stays so: a re-run of a
\* complete history changes nothing (history_backfill.py:428).
CompleteIsFinal == SuccessIsEarned /\ CompleteIsLeftAlone

\* No hour that has real pipeline output is overwritten: FR-H2 as it is
\* written (REQUIREMENTS.md:629).
LiveIsNeverOverwritten ==
    [][\A h \in Hours : agg[h] = Live => agg'[h] = Live \/ DropKeyspace]_vars

\* ... and as the code keeps it.  The Job looks at the hours present once and
\* inserts for minutes, so what it can overwrite is a live row that came
\* after the look, and that only of an hour Spark still reached when the
\* anchor was set; a live row it has seen is kept through every retry
\* (existing_live_hours, write_agg_1h).
SeenLiveIsKept ==
    [][\A h \in Hours : agg[h] = Live /\ agg'[h] # Live =>
          DropKeyspace \/ (h \notin seen /\ h + MaxLag >= deriv.anchor)]_vars

\* A run of the Job comes to an end, one way or the other.
RunEnds == (pc = "stopped") ~> (pc \in Ended)
=============================================================================
