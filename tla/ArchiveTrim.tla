----------------------------- MODULE ArchiveTrim -----------------------------
(***************************************************************************)
(* Archive-and-trim (backend/app/archive.py): the oldest partitions of     *)
(* raw_events are exported to a file, one at a time, and deleted, while    *)
(* the Spark job goes on writing.  Lines go through the file's buffer;     *)
(* what is in it, or in the variable `rows`, dies with the process.        *)
(* Nothing keeps two requests from running at once.                        *)
(*                                                                         *)
(* A partition is a device's bucket of 15 minutes; time is counted in      *)
(* buckets.                                                                *)
(***************************************************************************)
EXTENDS Integers, FiniteSets

CONSTANTS
    Devices,
    RowIds,         \* tells the rows of a partition apart
    Requests,       \* calls of POST /api/admin/archive
    Cutoffs,        \* cutoffs callers give, in buckets before the present
    NoCutoff,       \* ... or leave out
    MaxLag,         \* how many buckets behind the clock Spark can write
    Faults,         \* what can go wrong: see Fault
    MaxClock,       \* bound: the last bucket
    MaxCrashes      \* bound: deaths of the backend

\* "refused": a SELECT or DELETE raises, not done.  "timeout": a DELETE raises,
\* done.  "write": a line cannot be formatted, written, flushed or closed.
Fault == {"refused", "timeout", "write"}

ASSUME ArchiveAssumption ==
    /\ Devices # {} /\ IsFiniteSet(Devices)
    /\ Faults \subseteq Fault
    /\ Cutoffs \subseteq Nat \cup {NoCutoff}
    /\ NoCutoff \notin Int
    /\ {MaxLag, MaxClock, MaxCrashes} \subseteq Nat

Bucket    == 0 .. MaxClock
Partition == Devices \X Bucket
Row       == [part : Partition, id : RowIds]

VARIABLES
    clock,      \* the present bucket
    table,      \* raw_events
    \* the requests
    pc,
    cutoff,     \* cutoff[r]
    todo,       \* todo[r]: the targets left
    part,       \* part[r]: the partition being exported
    rows,       \* rows[r]: its rows, in memory
    buffer,     \* buffer[r]: lines written and not flushed
    archive,    \* archive[r]: the lines on the archive volume
    \* history, for the properties
    ever,       \* every row that was ever written
    took,       \* took[r]: the rows the request has exported
    struck,     \* the rows hit by something that loses rows
    crashes

request == <<pc, cutoff, todo, part, rows, buffer, archive, took>>
history == <<ever, struck, crashes>>
vars == <<clock, table, request, history>>

RowsOf(p) == {r \in table : r.part = p}

Init ==
    /\ clock \in Bucket
    /\ table \in SUBSET {r \in Row : r.part[2] <= clock}
    /\ pc = [r \in Requests |-> "idle"]
    /\ cutoff = [r \in Requests |-> 0]
    /\ todo = [r \in Requests |-> {}]
    /\ part \in [Requests -> {CHOOSE p \in Partition : TRUE}]
    /\ rows = [r \in Requests |-> {}]
    /\ buffer = [r \in Requests |-> {}]
    /\ archive = [r \in Requests |-> {}]
    /\ ever = table
    /\ took = [r \in Requests |-> {}]
    /\ struck = {}
    /\ crashes = 0

-----------------------------------------------------------------------------
(* The Spark job and the clock *)

\* A request has read the row's partition without it and will delete it.
Missed(row) ==
    \E r \in Requests : pc[r] = "delete" /\ part[r] = row.part /\ row \notin rows[r]

Upsert(row) ==
    /\ clock - MaxLag <= row.part[2] /\ row.part[2] <= clock
    /\ table' = table \cup {row}
    /\ ever' = ever \cup {row}
    /\ struck' = IF Missed(row) THEN struck \cup {row} ELSE struck \ {row}
    /\ UNCHANGED <<clock, request, crashes>>

Tick ==
    /\ clock < MaxClock
    /\ clock' = clock + 1
    /\ UNCHANGED <<table, request, history>>

-----------------------------------------------------------------------------
(* run_archive *)

\* raw_event_buckets_sync: SELECT DISTINCT of the partition key.
Buckets == {r.part : r \in table}

\* The start of the partition at index max(0, int(n * 0.10) - 1), oldest
\* first; with no partitions, the present.
DefaultCutoff ==
    LET tenth == (Cardinality(Buckets) \div 10) - 1
        index == IF tenth < 0 THEN 0 ELSE tenth
        Older(b)  == Cardinality({p \in Buckets : p[2] < b})
        UpTo(b)   == Cardinality({p \in Buckets : p[2] <= b})
    IN  IF Buckets = {} THEN clock
        ELSE CHOOSE b \in Bucket : Older(b) <= index /\ index < UpTo(b)

\* Mutant of Targets: the comparison turned round.
TargetsNewest(limit) == {p \in Buckets : p[2] >= limit}

Targets(limit) == {p \in Buckets : p[2] <= limit}

\* The partitions are listed, the targets chosen and the file opened.
Begin(r) ==
    /\ pc[r] = "idle"
    /\ pc' = [pc EXCEPT ![r] = "next"]
    /\ \E c \in Cutoffs :
          LET limit == IF c = NoCutoff THEN DefaultCutoff ELSE clock - c
          IN  /\ cutoff' = [cutoff EXCEPT ![r] = limit]
              /\ todo' = [todo EXCEPT ![r] = Targets(limit)]
    /\ UNCHANGED <<clock, table, part, rows, buffer, archive, took, history>>

\* The oldest target is read ...
Select(r) ==
    /\ pc[r] = "next"
    /\ \E p \in todo[r] :
          /\ \A o \in todo[r] : p[2] <= o[2]
          /\ part' = [part EXCEPT ![r] = p]
          /\ rows' = [rows EXCEPT ![r] = RowsOf(p)]
          /\ took' = [took EXCEPT ![r] = @ \cup RowsOf(p)]
    /\ pc' = [pc EXCEPT ![r] = "delete"]
    /\ UNCHANGED <<clock, table, cutoff, todo, buffer, archive, history>>

\* ... and deleted: whatever the partition holds by now ...
Delete(r) ==
    /\ pc[r] = "delete"
    /\ table' = table \ RowsOf(part[r])
    /\ pc' = [pc EXCEPT ![r] = "write"]
    /\ UNCHANGED <<clock, cutoff, todo, part, rows, buffer, archive, took, history>>

\* Mutant of Write: the partition stays a target.
WriteKeepsTarget(r) ==
    /\ pc[r] = "write"
    /\ buffer' = [buffer EXCEPT ![r] = @ \cup rows[r]]
    /\ rows' = [rows EXCEPT ![r] = {}]
    /\ pc' = [pc EXCEPT ![r] = "next"]
    /\ UNCHANGED <<clock, table, cutoff, todo, part, archive, took, history>>

\* ... and its lines are written to the buffer.
Write(r) ==
    /\ pc[r] = "write"
    /\ buffer' = [buffer EXCEPT ![r] = @ \cup rows[r]]
    /\ rows' = [rows EXCEPT ![r] = {}]
    /\ todo' = [todo EXCEPT ![r] = @ \ {part[r]}]
    /\ pc' = [pc EXCEPT ![r] = "next"]
    /\ UNCHANGED <<clock, table, cutoff, part, archive, took, history>>

\* The buffer goes to the volume when it is full.
Flush(r) ==
    /\ buffer[r] # {}
    /\ archive' = [archive EXCEPT ![r] = @ \cup buffer[r]]
    /\ buffer' = [buffer EXCEPT ![r] = {}]
    /\ UNCHANGED <<clock, table, pc, cutoff, todo, part, rows, took, history>>

\* An exception leaves the with block, which closes, hence flushes, the file:
\* the lines held get to the volume, or only some if that is what fails.
Abort(r, held, deleted) ==
    /\ \E kept \in IF "write" \in Faults THEN SUBSET held ELSE {held} :
          /\ archive' = [archive EXCEPT ![r] = @ \cup kept]
          /\ struck' = struck \cup (held \ kept) \cup deleted
    /\ buffer' = [buffer EXCEPT ![r] = {}]
    /\ rows' = [rows EXCEPT ![r] = {}]
    /\ pc' = [pc EXCEPT ![r] = "failed"]
    /\ UNCHANGED <<clock, cutoff, todo, part, took, ever, crashes>>

\* The SELECT raises.
SelectFails(r) ==
    /\ pc[r] = "next"
    /\ todo[r] # {}
    /\ "refused" \in Faults
    /\ Abort(r, buffer[r], {})
    /\ UNCHANGED table

\* Mutant of DeleteFails: the file is left open.
DeleteFailsOpen(r) ==
    /\ pc[r] = "delete"
    /\ "refused" \in Faults
    /\ rows' = [rows EXCEPT ![r] = {}]
    /\ pc' = [pc EXCEPT ![r] = "failed"]
    /\ UNCHANGED <<clock, table, cutoff, todo, part, buffer, archive, took, history>>

\* The DELETE raises; what it deleted all the same was in no file.
DeleteFails(r) ==
    /\ pc[r] = "delete"
    /\ \E f \in Faults \ {"write"} :
          LET deleted == IF f = "timeout" THEN RowsOf(part[r]) ELSE {}
          IN  /\ table' = table \ deleted
              /\ Abort(r, buffer[r], deleted)

\* A line cannot be formatted or written: the partition is deleted already.
WriteFails(r) ==
    /\ pc[r] = "write"
    /\ rows[r] # {}
    /\ "write" \in Faults
    /\ Abort(r, buffer[r] \cup rows[r], {})
    /\ UNCHANGED table

\* The flush on closing fails, after the last target.
CloseFails(r) ==
    /\ pc[r] = "next"
    /\ todo[r] = {}
    /\ "write" \in Faults
    /\ Abort(r, buffer[r], {})
    /\ UNCHANGED table

\* Mutant of Close: open() without with.
CloseNot(r) ==
    /\ pc[r] = "next"
    /\ todo[r] = {}
    /\ pc' = [pc EXCEPT ![r] = "done"]
    /\ buffer' = [buffer EXCEPT ![r] = {}]
    /\ UNCHANGED <<clock, table, cutoff, todo, part, rows, archive, took, history>>

\* The last target is done: the file is closed and the request answered.
Close(r) ==
    /\ pc[r] = "next"
    /\ todo[r] = {}
    /\ pc' = [pc EXCEPT ![r] = "done"]
    /\ archive' = [archive EXCEPT ![r] = @ \cup buffer[r]]
    /\ buffer' = [buffer EXCEPT ![r] = {}]
    /\ UNCHANGED <<clock, table, cutoff, todo, part, rows, took, history>>

Running(r) == pc[r] \in {"next", "delete", "write"}

\* What only the backend's memory holds: unflushed lines, and the rows of a
\* partition that is deleted and not written.
InMemory(r) == buffer[r] \cup IF pc[r] = "write" THEN rows[r] ELSE {}

\* The backend dies, and every request with it.
Crash ==
    /\ crashes < MaxCrashes
    /\ crashes' = crashes + 1
    /\ struck' = struck \cup UNION {InMemory(r) : r \in Requests}
    /\ pc' = [r \in Requests |-> IF Running(r) THEN "failed" ELSE pc[r]]
    /\ rows' = [r \in Requests |-> {}]
    /\ buffer' = [r \in Requests |-> {}]
    /\ UNCHANGED <<clock, table, cutoff, todo, part, archive, took, ever>>

Proceed(r) ==
    \/ Select(r) \/ SelectFails(r)
    \/ Delete(r) \/ DeleteFails(r)
    \/ Write(r)  \/ WriteFails(r)
    \/ Close(r)  \/ CloseFails(r)

Next ==
    \/ \E row \in Row : Upsert(row)
    \/ Tick
    \/ \E r \in Requests : Begin(r) \/ Proceed(r) \/ Flush(r)
    \/ Crash

Spec == Init /\ [][Next]_vars

\* A request that has begun runs on; nobody has to make one, or to crash.
FairSpec == Spec /\ \A r \in Requests : WF_vars(Proceed(r))

-----------------------------------------------------------------------------
(* Properties *)

\* Types, and where rows in memory can be: only between SELECT and write,
\* and only in a request that runs.
TypeOK ==
    /\ clock \in Bucket
    /\ table \subseteq Row /\ ever \subseteq Row /\ table \subseteq ever
    /\ pc \in [Requests -> {"idle", "next", "delete", "write", "done", "failed"}]
    /\ cutoff \in [Requests -> Int]
    /\ todo \in [Requests -> SUBSET Partition]
    /\ part \in [Requests -> Partition]
    /\ {rows, buffer, archive, took} \subseteq [Requests -> SUBSET Row]
    /\ struck \subseteq Row
    /\ crashes \in 0 .. MaxCrashes
    /\ \A r \in Requests :
          /\ pc[r] \in {"delete", "write"} => part[r] \in todo[r]
          /\ rows[r] # {} => pc[r] \in {"delete", "write"}
          /\ buffer[r] # {} => Running(r)

\* The rows that are safe: in Cassandra, in an archive, or in the memory of
\* a request that is still running.
Kept == table \cup UNION {archive[r] \cup buffer[r] \cup rows[r] : r \in Requests}

\* The action is lossless: a row that was ever stored is in Cassandra or on
\* its way into an archive file.
Lossless == ever \subseteq Kept

\* A row is lost only if it was hit itself by one of four things: it was
\* written between its partition's SELECT and DELETE, deleted by a DELETE that
\* then raised, in a line that could not be written or flushed after the
\* DELETE, or in the memory of a backend that died.  Two requests at once lose
\* nothing by themselves, nor does a DELETE that is refused, nor a death that
\* finds a partition selected and not yet deleted.
LossHasACause == ever \ Kept \subseteq struck

\* A request that answers has every row it exported in its file, whatever
\* happened to others.
DoneIsOnDisk ==
    \A r \in Requests : pc[r] = "done" => took[r] \subseteq archive[r]

\* Every row that was ever stored is accounted for, for the operator who reads
\* the answer of the request and for the one who looks for a row.
RowsAreAccounted == LossHasACause /\ DoneIsOnDisk

\* Only what the cutoff covers is trimmed: a row leaves Cassandra by a
\* request whose cutoff is not before the row's bucket.
OnlyOldIsTrimmed ==
    [][\A row \in table \ table' :
          \E r \in Requests : pc[r] = "delete" /\ row.part[2] <= cutoff[r]]_vars

\* A request comes to an end.
RequestEnds == \A r \in Requests : Running(r) ~> ~Running(r)
=============================================================================
