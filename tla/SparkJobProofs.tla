--------------------------- MODULE SparkJobProofs ---------------------------
(***************************************************************************)
(* Theorems about SparkJob, for any devices, partitions, queries, windows, *)
(* delays, bounds and patterns of crashes:                                 *)
(*  - no query commits past a record it has not stored, and raw_events     *)
(*    implements the abstract event store;                                 *)
(*  - only late records are dropped, and the counts of the windows are     *)
(*    exact;                                                               *)
(*  - batching and replays are invisible in the flags, and the raw and the *)
(*    aggregated tables agree on them;                                     *)
(*  - the state is well typed.                                             *)
(* The sections follow that order; each has the invariants it adds to IInv *)
(* and ends in the theorem they are for.                                   *)
(***************************************************************************)
EXTENDS SparkJob, FiniteSetTheorems, WellFoundedInduction, TLAPS

(* Positions, unfolded. *)
LEMMA InPositions ==
    ASSUME NEW from, NEW to, NEW pos
    PROVE  pos \in Positions(from, to)
             <=> \E p \in Partitions : \E i \in from[p] + 1 .. to[p] : pos = <<p, i>>
BY DEF Positions

\* Appending to a partition changes no record that is already there, and
\* adds at most the one appended.
LEMMA PublishAppends ==
    ASSUME Shape, NEW d \in Devices, NEW v, NEW kind, Publish(d, v, kind),
           NEW p \in Partitions
    PROVE  /\ Len(log[p]) <= Len(log'[p])
           /\ \A i \in 1 .. Len(log[p]) : log'[p][i] = log[p][i]
           /\ p # PartitionOf[d] => log'[p] = log[p]
           /\ p = PartitionOf[d] => Len(log'[p]) = Len(log[p]) + 1
<1> PICK r : log' = [log EXCEPT ![PartitionOf[d]] = Append(@, r)]
  BY DEF Publish
<1> log[p] \in Seq(Record)
  BY DEF Shape
<1>1. CASE p = PartitionOf[d]
  <2>1. log'[p] = Append(log[p], r)
    BY <1>1 DEF Shape
  <2>2. /\ Len(Append(log[p], r)) = Len(log[p]) + 1
        /\ \A i \in 1 .. Len(log[p]) : Append(log[p], r)[i] = log[p][i]
    OBVIOUS
  <2> QED BY <1>1, <2>1, <2>2
<1>2. CASE p # PartitionOf[d]
  BY <1>2 DEF Shape
<1> QED BY <1>1, <1>2

-----------------------------------------------------------------------------
(* Shape *)

LEMMA ShapeInit == Init => Shape
<1> SUFFICES ASSUME Init PROVE Shape
  OBVIOUS
<1> USE JobAssumption DEF Init
<1>1. log \in [Partitions -> Seq(Record)]
  OBVIOUS
<1>2. \A p \in Partitions : Len(log[p]) <= MaxEvents /\ \A q \in Queries : committed[q][p] <= Len(log[p])
  OBVIOUS
<1> QED BY <1>1, <1>2 DEF Shape

LEMMA ShapePublish ==
    ASSUME Shape, NEW d \in Devices, NEW v \in Values, NEW kind \in Kinds, Publish(d, v, kind)
    PROVE  Shape'
<1>1. UNCHANGED <<boot, up, ran, todo, table, late, committed, wal>>
  BY DEF Publish, memory, checkpoint, cassandra
<1>2. PICK t \in clock .. MaxClock :
          /\ clock' = t
          /\ log' = [log EXCEPT ![PartitionOf[d]] =
                        Append(@, [dev |-> d, ts |-> t, val |-> v, kind |-> kind])]
  BY DEF Publish
<1>3. clock' \in Nat
  BY <1>2, JobAssumption DEF Shape
<1>4. [dev |-> d, ts |-> t, val |-> v, kind |-> kind] \in Record
  BY <1>2, <1>3, JobAssumption DEF Record, Kind
<1>5. log' \in [Partitions -> Seq(Record)]
  BY <1>2, <1>4, JobAssumption DEF Shape
<1>6. \A p \in Partitions : Len(log[p]) <= Len(log'[p])
  BY PublishAppends
<1>7. \A p \in Partitions : Len(log[p]) \in Nat /\ Len(log'[p]) \in Nat
  BY <1>5 DEF Shape
<1>8. ASSUME NEW q \in Queries, NEW p \in Partitions
      PROVE  /\ committed[q][p] <= Len(log'[p])
             /\ wal[q] # NoBatch => committed[q][p] <= wal[q].end[p] /\ wal[q].end[p] <= Len(log'[p])
  BY <1>6, <1>7 DEF Shape
<1>9. ASSUME NEW p \in Partitions
      PROVE  Len(log'[p]) <= MaxEvents
  <2>1. MaxEvents \in Nat /\ Len(log[p]) <= MaxEvents
    BY JobAssumption DEF Shape
  <2>2. CASE p = PartitionOf[d]
    <3>1. Len(log[p]) < MaxEvents
      BY <2>2 DEF Publish
    <3>2. Len(log'[p]) = Len(log[p]) + 1
      BY <2>2, PublishAppends
    <3> QED BY <1>7, <2>1, <3>1, <3>2
  <2>3. CASE p # PartitionOf[d]
    <3>1. log'[p] = log[p]
      BY <2>3, PublishAppends
    <3> QED BY <2>1, <3>1
  <2> QED BY <2>2, <2>3
<1> QED BY <1>1, <1>3, <1>5, <1>8, <1>9 DEF Shape

LEMMA ShapeStopped == ASSUME Shape, Stopped PROVE Shape'
BY DEF Shape, Stopped, kafka, checkpoint, cassandra

LEMMA ShapePlan ==
    ASSUME Shape, NEW q \in Queries, PlanBatch(q) PROVE Shape'
<1>1. UNCHANGED <<log, clock, boot, up, ran, todo, table, late, committed>>
  BY DEF PlanBatch, kafka, memory, cassandra
<1>2. PICK end \in [Partitions -> 0 .. MaxEvents] :
          /\ \A p \in Partitions : committed[q][p] <= end[p] /\ end[p] <= Len(log[p])
          /\ \E evict : wal' = [wal EXCEPT ![q] = [end |-> end, evict |-> evict]]
  BY DEF PlanBatch
<1>3. end \in [Partitions -> Nat]
  OBVIOUS
<1>4. wal'[q].end = end /\ wal[q] = NoBatch
  BY <1>2 DEF Shape, PlanBatch
<1>5. \A r \in Queries \ {q} : wal'[r] = wal[r]
  BY <1>2 DEF Shape
<1>6. ASSUME NEW r \in Queries
      PROVE  /\ wal'[r] # NoBatch => wal'[r].end \in [Partitions -> Nat]
             /\ \A p \in Partitions :
                   wal'[r] # NoBatch => committed[r][p] <= wal'[r].end[p] /\ wal'[r].end[p] <= Len(log[p])
             /\ ran[r] => up /\ wal'[r] # NoBatch
  BY <1>2, <1>3, <1>4, <1>5 DEF Shape
<1> QED BY <1>1, <1>2, <1>6 DEF Shape

LEMMA ShapeRun ==
    ASSUME Shape, NEW q \in Queries, RunBatch(q) PROVE Shape'
BY DEF Shape, RunBatch, kafka, checkpoint, cassandra

LEMMA ShapeWrite ==
    ASSUME Shape, NEW q \in Queries, NEW k \in todo[q], WriteRow(q, k) PROVE Shape'
BY DEF Shape, WriteRow, kafka, checkpoint

LEMMA ShapeCommit ==
    ASSUME Shape, NEW q \in Queries, CommitBatch(q) PROVE Shape'
<1>1. wal[q] # NoBatch
  BY DEF Shape, CommitBatch
<1>2. UNCHANGED <<log, clock, boot, up, todo, table>> /\ todo[q] = {}
  BY DEF CommitBatch, kafka, cassandra
<1>3. /\ committed' = [committed EXCEPT ![q] = wal[q].end]
      /\ wal' = [wal EXCEPT ![q] = NoBatch]
      /\ ran' = [ran EXCEPT ![q] = FALSE]
      /\ late' = [late EXCEPT ![q] = @ \cup LateIn(q)]
  BY DEF CommitBatch
<1> QED BY <1>1, <1>2, <1>3 DEF Shape

LEMMA ShapeStep == Shape /\ [Next]_vars => Shape'
<1> SUFFICES ASSUME Shape, [Next]_vars PROVE Shape'
  OBVIOUS
<1>1. ASSUME NEW d \in Devices, NEW v \in Values, NEW kind \in Kinds, Publish(d, v, kind)
      PROVE  Shape'
  BY <1>1, ShapePublish
<1>2. CASE NextSeason
  BY <1>2 DEF NextSeason, Shape, memory, checkpoint, cassandra
<1>3. CASE Boot
  <2>1. CASE WriteThresholds
    BY <2>1 DEF WriteThresholds, Shape, kafka, checkpoint
  <2>2. CASE ShiftSeed
    BY <2>2 DEF ShiftSeed, Shape, kafka, checkpoint, cassandra
  <2>3. CASE Start
    <3>1. ~up
      BY <2>3 DEF Start, Shape
    <3> QED BY <2>3, <3>1 DEF Start, Shape, kafka, checkpoint, cassandra
  <2> QED BY <1>3, <2>1, <2>2, <2>3 DEF Boot
<1>4. ASSUME NEW q \in Queries, PlanBatch(q) PROVE Shape'
  BY <1>4, ShapePlan
<1>5. ASSUME NEW q \in Queries, RunBatch(q) PROVE Shape'
  BY <1>5, ShapeRun
<1>6. ASSUME NEW q \in Queries, EncoderFails(q) PROVE Shape'
  BY <1>6, ShapeStopped DEF EncoderFails
<1>7. ASSUME NEW q \in Queries, NEW k \in todo[q], WriteRow(q, k) PROVE Shape'
  BY <1>7, ShapeWrite
<1>8. ASSUME NEW q \in Queries, CommitBatch(q) PROVE Shape'
  BY <1>8, ShapeCommit
<1>9. CASE Crash
  BY <1>9, ShapeStopped DEF Crash
<1>10. CASE UNCHANGED vars
  BY <1>10 DEF vars, Shape, kafka, memory, checkpoint, cassandra
<1> QED BY <1>1, <1>2, <1>3, <1>4, <1>5, <1>6, <1>7, <1>8, <1>9, <1>10 DEF Next

\* Offsets and pending rows are always consistent with the log and with the
\* batch planned, whatever crashes (the structural half of TypeOK).
THEOREM ShapeInvariant == Spec => []Shape
<1>1. Init => Shape
  BY ShapeInit
<1>2. Shape /\ [Next]_vars => Shape'
  BY ShapeStep
<1> QED BY <1>1, <1>2, PTL DEF Spec

-----------------------------------------------------------------------------
(* No record is skipped *)

\* What the log held up to an offset is untouched by an append.
LEMMA PublishKeeps ==
    ASSUME Shape, NEW d \in Devices, NEW v, NEW kind, Publish(d, v, kind),
           NEW p \in Partitions, NEW i \in Nat \ {0}, i <= Len(log[p])
    PROVE  At(<<p, i>>)' = At(<<p, i>>)
<1>1. Len(log[p]) \in Nat
  BY DEF Shape
<1>2. log'[p][i] = log[p][i]
  BY <1>1, PublishAppends
<1> QED BY <1>2 DEF At

\* ... so neither what is committed nor the batch in flight changes.
LEMMA PublishKeepsBatch ==
    ASSUME Shape, NEW d \in Devices, NEW v, NEW kind, Publish(d, v, kind),
           NEW q \in Queries
    PROVE  /\ Committed(q)' = Committed(q)
           /\ \A pos \in Committed(q) : At(pos)' = At(pos)
           /\ wal[q] # NoBatch => /\ Batch(q)' = Batch(q)
                                  /\ \A pos \in Batch(q) : At(pos)' = At(pos)
<1>1. UNCHANGED <<committed, wal>>
  BY DEF Publish, checkpoint
<1>2. ASSUME NEW to \in [Partitions -> Nat], NEW from \in [Partitions -> Nat],
             \A p \in Partitions : to[p] <= Len(log[p]),
             NEW pos \in Positions(from, to)
      PROVE  At(pos)' = At(pos)
  <2>1. PICK p \in Partitions : \E i \in from[p] + 1 .. to[p] : pos = <<p, i>>
    BY InPositions
  <2>2. PICK i \in from[p] + 1 .. to[p] : pos = <<p, i>>
    BY <2>1
  <2>3. i \in Nat \ {0} /\ i <= Len(log[p])
    BY <1>2, <2>2 DEF Shape
  <2> QED BY <2>2, <2>3, PublishKeeps
<1>3. NoOffsets \in [Partitions -> Nat] /\ committed[q] \in [Partitions -> Nat]
  BY DEF NoOffsets, Shape
<1>4. Committed(q)' = Committed(q)
  BY <1>1 DEF Committed, Positions, NoOffsets
<1>5. \A pos \in Committed(q) : At(pos)' = At(pos)
  BY <1>2, <1>3 DEF Committed, Shape
<1>6. ASSUME wal[q] # NoBatch
      PROVE  \A pos \in Positions(committed[q], wal[q].end) : At(pos)' = At(pos)
  BY <1>2, <1>3, <1>6 DEF Shape
<1>7. ASSUME wal[q] # NoBatch
      PROVE  Batch(q)' = Batch(q)
  <2>1. Positions(committed[q], wal[q].end)' = Positions(committed[q], wal[q].end)
    BY <1>1 DEF Positions
  <2>2. \A pos \in Positions(committed[q], wal[q].end) : Usable(At(pos))' <=> Usable(At(pos))
    BY <1>6, <1>7 DEF Usable
  <2> QED BY <2>1, <2>2 DEF Batch
<1> QED BY <1>4, <1>5, <1>6, <1>7 DEF Batch

LEMMA PublishKeepsKeys ==
    ASSUME Shape, NEW d \in Devices, NEW v, NEW kind, Publish(d, v, kind),
           NEW q \in Queries, wal[q] # NoBatch
    PROVE  EmittedKeys(q)' = EmittedKeys(q)
<1>1. /\ Batch(q)' = Batch(q)
      /\ \A pos \in Batch(q) : At(pos)' = At(pos)
  BY PublishKeepsBatch
<1>2. watermark' = watermark
  BY DEF Publish, checkpoint
<1>3. \A pos \in Batch(q) : WindowKey(q, pos)' = WindowKey(q, pos)
  BY <1>1 DEF WindowKey, WindowOf
<1>4. LateIn(q)' = LateIn(q)
  BY <1>1, <1>2 DEF LateIn, Closed, WindowEnd, WindowOf
<1> QED BY <1>1, <1>3, <1>4 DEF EmittedKeys

\* What a batch of q emits is computed from these alone.
LEMMA KeysDependOn ==
    ASSUME NEW q, log' = log, committed'[q] = committed[q], wal'[q] = wal[q],
           watermark'[q] = watermark[q]
    PROVE  EmittedKeys(q)' = EmittedKeys(q)
<1>1. \A pos : /\ At(pos)' = At(pos)
               /\ WindowKey(q, pos)' = WindowKey(q, pos)
               /\ WindowOf(q, At(pos).ts)' = WindowOf(q, At(pos).ts)
  BY DEF At, WindowKey, WindowOf
<1>2. Positions(committed[q], wal[q].end)' = Positions(committed[q], wal[q].end)
  BY DEF Positions
<1>3. Batch(q)' = Batch(q)
  BY <1>1, <1>2 DEF Batch, Usable
<1>4. LateIn(q)' = LateIn(q)
  BY <1>1, <1>3 DEF LateIn, Closed, WindowEnd
<1> QED BY <1>1, <1>3, <1>4 DEF EmittedKeys

LEMMA StoredDependsOn ==
    ASSUME Shape, CommittedIsStored, UNCHANGED <<log, committed, late>>,
           \A q \in Queries : DOMAIN table[q] \subseteq DOMAIN table'[q]
    PROVE  CommittedIsStored'
<1>1. ASSUME NEW q \in Queries, NEW pos
      PROVE  /\ Committed(q)' = Committed(q)
             /\ Usable(At(pos))' <=> Usable(At(pos))
             /\ Stored(q, pos) => Stored(q, pos)'
  <2>1. Committed(q)' = Committed(q)
    BY DEF Committed, Positions, NoOffsets
  <2>2. Usable(At(pos))' <=> Usable(At(pos))
    BY DEF Usable, At
  <2>3. WindowKey(q, pos)' = WindowKey(q, pos)
    BY DEF WindowKey, WindowOf, At
  <2> QED BY <2>1, <2>2, <2>3 DEF Stored
<1> QED BY <1>1 DEF CommittedIsStored

\* Every record of a batch that has been written out is accounted for.
LEMMA BatchIsStored ==
    ASSUME BatchWritten, NEW q \in Queries, ran[q], todo[q] = {}, NEW pos \in Batch(q)
    PROVE  IF q \in Windowed THEN pos \in LateIn(q) \/ WindowKey(q, pos) \in DOMAIN table[q]
                             ELSE pos \in DOMAIN table[q]
<1>1. EmittedKeys(q) \subseteq DOMAIN table[q]
  BY DEF BatchWritten
<1>2. CASE q \in Windowed
  BY <1>1, <1>2 DEF EmittedKeys
<1>3. CASE q \notin Windowed
  BY <1>1, <1>3 DEF EmittedKeys
<1> QED BY <1>2, <1>3

LEMMA InitIInv == Init => IInv
<1> SUFFICES ASSUME Init PROVE IInv
  OBVIOUS
<1>1. Shape
  BY ShapeInit
<1>2. CommittedIsStored
  <2> SUFFICES ASSUME NEW q \in Queries, NEW pos \in Committed(q)
               PROVE  FALSE
    BY DEF CommittedIsStored
  <2>1. PICK p \in Partitions : \E i \in NoOffsets[p] + 1 .. committed[q][p] : pos = <<p, i>>
    BY InPositions DEF Committed
  <2> QED BY <2>1 DEF Init, NoOffsets
<1>3. BatchWritten
  BY DEF Init, BatchWritten
<1> QED BY <1>1, <1>2, <1>3 DEF IInv

LEMMA PublishIInv ==
    ASSUME IInv, NEW d \in Devices, NEW v \in Values, NEW kind \in Kinds, Publish(d, v, kind)
    PROVE  IInv'
<1> USE DEF IInv
<1>1. Shape'
  BY ShapePublish
<1>2. UNCHANGED <<ran, todo, table, late>>
  BY DEF Publish, memory, cassandra
<1>3. CommittedIsStored'
  <2> SUFFICES ASSUME NEW q \in Queries, NEW pos \in Committed(q)', Usable(At(pos))'
               PROVE  Stored(q, pos)'
    BY DEF CommittedIsStored
  <2>1. pos \in Committed(q) /\ At(pos)' = At(pos)
    BY PublishKeepsBatch
  <2>2. Stored(q, pos)
    BY <2>1 DEF CommittedIsStored, Usable
  <2> QED BY <1>2, <2>1, <2>2 DEF Stored, WindowKey, WindowOf
<1>4. BatchWritten'
  <2> SUFFICES ASSUME NEW q \in Queries, ran[q]
               PROVE  /\ todo[q] \subseteq EmittedKeys(q)'
                      /\ EmittedKeys(q)' \subseteq todo[q] \cup DOMAIN table[q]
    BY <1>2 DEF BatchWritten
  <2>1. EmittedKeys(q)' = EmittedKeys(q)
    BY PublishKeepsKeys DEF Shape
  <2> QED BY <2>1 DEF BatchWritten
<1> QED BY <1>1, <1>3, <1>4

\* A step that writes no row and moves no offset.
LEMMA QuietIInv ==
    ASSUME IInv, Shape', UNCHANGED <<log, committed, watermark, table, late>>,
           \A q \in Queries : ran'[q] => ran[q] /\ todo'[q] = todo[q] /\ wal' = wal
    PROVE  IInv'
<1>1. CommittedIsStored'
  BY StoredDependsOn DEF IInv
<1>2. BatchWritten'
  BY KeysDependOn DEF IInv, BatchWritten
<1> QED BY <1>1, <1>2 DEF IInv

LEMMA PlanIInv ==
    ASSUME IInv, NEW q \in Queries, PlanBatch(q) PROVE IInv'
<1>1. Shape'
  BY ShapePlan DEF IInv
<1>2. UNCHANGED <<log, ran, todo, committed, watermark, table, late>>
  BY DEF PlanBatch, kafka, memory, cassandra
<1>3. CommittedIsStored'
  BY <1>2, StoredDependsOn DEF IInv
<1>4. BatchWritten'
  <2> SUFFICES ASSUME NEW r \in Queries, ran[r]
               PROVE  EmittedKeys(r)' = EmittedKeys(r)
    BY <1>2 DEF IInv, BatchWritten
  <2>1. r # q
    BY DEF IInv, Shape, PlanBatch
  <2>2. wal'[r] = wal[r]
    BY <2>1 DEF PlanBatch, IInv, Shape
  <2> QED BY <1>2, <2>2, KeysDependOn
<1> QED BY <1>1, <1>3, <1>4 DEF IInv

LEMMA RunIInv ==
    ASSUME IInv, NEW q \in Queries, RunBatch(q) PROVE IInv'
<1>1. Shape'
  BY ShapeRun DEF IInv
<1>2. UNCHANGED <<log, committed, wal, watermark, table, late>>
  BY DEF RunBatch, kafka, checkpoint, cassandra
<1>3. CommittedIsStored'
  BY <1>2, StoredDependsOn DEF IInv
<1>4. todo'[q] = EmittedKeys(q) /\ \A r \in Queries \ {q} : todo'[r] = todo[r] /\ ran'[r] = ran[r]
  BY DEF RunBatch, IInv, Shape
<1>5. BatchWritten'
  BY <1>2, <1>4, KeysDependOn DEF IInv, BatchWritten
<1> QED BY <1>1, <1>3, <1>5 DEF IInv

LEMMA WriteIInv ==
    ASSUME IInv, NEW q \in Queries, NEW k \in todo[q], WriteRow(q, k) PROVE IInv'
<1>1. Shape'
  BY ShapeWrite DEF IInv
<1>2. UNCHANGED <<log, ran, committed, wal, watermark, late>>
  BY DEF WriteRow, kafka, checkpoint
<1>3. /\ DOMAIN table'[q] = DOMAIN table[q] \cup {k}
      /\ todo'[q] = todo[q] \ {k}
      /\ \A r \in Queries \ {q} : table'[r] = table[r] /\ todo'[r] = todo[r]
  BY DEF WriteRow, Upsert, IInv, Shape
<1>4. CommittedIsStored'
  BY <1>2, <1>3, StoredDependsOn DEF IInv
<1>5. BatchWritten'
  BY <1>2, <1>3, KeysDependOn DEF IInv, BatchWritten
<1> QED BY <1>1, <1>4, <1>5 DEF IInv

\* The crux: the new committed records are those committed before and those
\* of the batch, and the batch has been written out.
LEMMA CommitIInv ==
    ASSUME IInv, NEW q \in Queries, CommitBatch(q) PROVE IInv'
<1>1. Shape'
  BY ShapeCommit DEF IInv
<1>2. UNCHANGED <<log, todo, table>> /\ ran[q] /\ todo[q] = {} /\ wal[q] # NoBatch
  BY DEF CommitBatch, kafka, cassandra, IInv, Shape
<1>3. /\ committed'[q] = wal[q].end
      /\ ran'[q] = FALSE
      /\ late'[q] = late[q] \cup LateIn(q)
      /\ \A r \in Queries \ {q} :
            /\ committed'[r] = committed[r] /\ wal'[r] = wal[r] /\ ran'[r] = ran[r]
            /\ late'[r] = late[r] /\ watermark'[r] = watermark[r]
  BY DEF CommitBatch, IInv, Shape
<1>4. ASSUME NEW pos
      PROVE  Usable(At(pos))' <=> Usable(At(pos))
  BY <1>2 DEF Usable, At
<1>5. ASSUME NEW r, NEW pos, late[r] \subseteq late'[r], Stored(r, pos)
      PROVE  Stored(r, pos)'
  <2>1. WindowKey(r, pos)' = WindowKey(r, pos)
    BY <1>2 DEF WindowKey, WindowOf, At
  <2> QED BY <1>2, <1>5, <2>1 DEF Stored
<1>6. ASSUME NEW pos \in Committed(q)', Usable(At(pos))
      PROVE  Stored(q, pos)'
  <2>1. PICK p \in Partitions : \E i \in NoOffsets[p] + 1 .. wal[q].end[p] : pos = <<p, i>>
    BY <1>3, InPositions DEF Committed, NoOffsets, Positions
  <2>2. PICK i \in NoOffsets[p] + 1 .. wal[q].end[p] : pos = <<p, i>>
    BY <2>1
  <2>3. i \in Nat \ {0} /\ i <= wal[q].end[p] /\ wal[q].end[p] \in Nat /\ committed[q][p] \in Nat
    BY <1>2, <2>2 DEF NoOffsets, IInv, Shape
  <2>4. CASE i <= committed[q][p]
    <3>1. i \in NoOffsets[p] + 1 .. committed[q][p]
      BY <2>3, <2>4 DEF NoOffsets
    <3>2. pos \in Committed(q)
      BY <2>2, <3>1, InPositions DEF Committed
    <3>3. Stored(q, pos)
      BY <1>6, <3>2 DEF IInv, CommittedIsStored
    <3> QED BY <1>3, <1>5, <3>3
  <2>5. CASE i > committed[q][p]
    <3>1. i \in committed[q][p] + 1 .. wal[q].end[p]
      BY <2>3, <2>5
    <3>2. pos \in Batch(q)
      BY <1>6, <2>2, <3>1, InPositions DEF Batch
    <3>3. IF q \in Windowed THEN pos \in LateIn(q) \/ WindowKey(q, pos) \in DOMAIN table[q]
                            ELSE pos \in DOMAIN table[q]
      BY <1>2, <3>2, BatchIsStored DEF IInv
    <3>4. WindowKey(q, pos)' = WindowKey(q, pos)
      BY <1>2 DEF WindowKey, WindowOf, At
    <3>5. table' = table /\ late'[q] = late[q] \cup LateIn(q)
      BY <1>2, <1>3
    <3> QED BY <3>3, <3>4, <3>5 DEF Stored
  <2> QED BY <2>3, <2>4, <2>5
<1>7. ASSUME NEW r \in Queries \ {q}, NEW pos \in Committed(r)', Usable(At(pos))
      PROVE  Stored(r, pos)'
  <2>1. pos \in Committed(r)
    BY <1>3, <1>7 DEF Committed, Positions, NoOffsets
  <2>2. Stored(r, pos)
    BY <1>7, <2>1 DEF IInv, CommittedIsStored
  <2> QED BY <1>3, <1>5, <2>2
<1>8. CommittedIsStored'
  BY <1>4, <1>6, <1>7 DEF CommittedIsStored
<1>9. ASSUME NEW r \in Queries \ {q}
      PROVE  EmittedKeys(r)' = EmittedKeys(r)
  BY <1>2, <1>3, KeysDependOn
<1>10. BatchWritten'
  <2> SUFFICES ASSUME NEW r \in Queries, ran'[r]
               PROVE  /\ todo'[r] \subseteq EmittedKeys(r)'
                      /\ EmittedKeys(r)' \subseteq todo'[r] \cup DOMAIN table'[r]
    BY DEF BatchWritten
  <2>1. r # q
    BY <1>3
  <2>2. ran[r] /\ EmittedKeys(r)' = EmittedKeys(r) /\ todo' = todo /\ table' = table
    BY <1>2, <1>3, <1>9, <2>1
  <2> QED BY <2>2 DEF IInv, BatchWritten
<1> QED BY <1>1, <1>8, <1>10 DEF IInv

LEMMA StepIInv == IInv /\ [Next]_vars => IInv'
<1> SUFFICES ASSUME IInv, [Next]_vars PROVE IInv'
  OBVIOUS
<1>0. Shape'
  BY ShapeStep DEF IInv
<1>1. ASSUME NEW d \in Devices, NEW v \in Values, NEW kind \in Kinds, Publish(d, v, kind)
      PROVE  IInv'
  BY <1>1, PublishIInv
<1>2. CASE NextSeason
  BY <1>0, <1>2, QuietIInv DEF NextSeason, memory, checkpoint, cassandra
<1>3. CASE Boot
  BY <1>0, <1>3, QuietIInv DEF Boot, WriteThresholds, ShiftSeed, Start, cassandra, kafka, checkpoint
<1>4. ASSUME NEW q \in Queries, PlanBatch(q) PROVE IInv'
  BY <1>4, PlanIInv
<1>5. ASSUME NEW q \in Queries, RunBatch(q) PROVE IInv'
  BY <1>5, RunIInv
<1>6. CASE Stopped
  BY <1>0, <1>6, QuietIInv DEF Stopped, kafka, checkpoint, cassandra
<1>7. ASSUME NEW q \in Queries, NEW k \in todo[q], WriteRow(q, k) PROVE IInv'
  BY <1>7, WriteIInv
<1>8. ASSUME NEW q \in Queries, CommitBatch(q) PROVE IInv'
  BY <1>8, CommitIInv
<1>9. CASE UNCHANGED vars
  BY <1>0, <1>9, QuietIInv DEF vars, kafka, memory, checkpoint, cassandra
<1> QED BY <1>1, <1>2, <1>3, <1>4, <1>5, <1>6, <1>7, <1>8, <1>9 DEF Next, EncoderFails, Crash

LEMMA Inductive == Spec => []IInv
<1>1. Init => IInv
  BY InitIInv
<1>2. IInv /\ [Next]_vars => IInv'
  BY StepIInv
<1> QED BY <1>1, <1>2, PTL DEF Spec

\* Whatever a query has committed past is in its table, or was late, for
\* every topology, every batch size and every pattern of crashes.
THEOREM NoRecordSkipped == Spec => []CommittedIsStored
<1>1. IInv => CommittedIsStored
  BY DEF IInv
<1> QED BY <1>1, Inductive, PTL

-----------------------------------------------------------------------------
(* raw_events implements the event store *)

\* A row written to raw_events is that of a usable record in the log.
LEMMA RowIsLogged ==
    ASSUME IInv, "raw_events" \in Queries \ Windowed, NEW k \in todo["raw_events"]
    PROVE  k \in UsableInLog
<1> DEFINE q == "raw_events"
<1>1. ran[q] /\ wal[q] # NoBatch
  BY DEF IInv, Shape
<1>2. k \in Batch(q)
  BY <1>1 DEF IInv, BatchWritten, EmittedKeys
<1>3. PICK p \in Partitions : \E i \in committed[q][p] + 1 .. wal[q].end[p] : k = <<p, i>>
  BY <1>2, InPositions DEF Batch
<1>4. PICK i \in committed[q][p] + 1 .. wal[q].end[p] : k = <<p, i>>
  BY <1>3
<1>5. i \in NoOffsets[p] + 1 .. LogEnds[p]
  BY <1>1, <1>4 DEF IInv, Shape, NoOffsets, LogEnds
<1> QED BY <1>2, <1>4, <1>5, InPositions DEF UsableInLog, Batch

LEMMA LoggedDependsOn == log' = log => UsableInLog' = UsableInLog
BY DEF UsableInLog, Positions, NoOffsets, LogEnds, Usable, At

LEMMA LoggedIsIdentity ==
    ASSUME Shape, NEW pos \in UsableInLog
    PROVE  pos \in Identities
<1>1. PICK p \in Partitions : \E i \in NoOffsets[p] + 1 .. LogEnds[p] : pos = <<p, i>>
  BY InPositions DEF UsableInLog
<1>2. PICK i \in NoOffsets[p] + 1 .. LogEnds[p] : pos = <<p, i>>
  BY <1>1
<1>3. i \in 1 .. MaxEvents
  BY <1>2, JobAssumption DEF Shape, NoOffsets, LogEnds
<1> QED BY <1>2, <1>3 DEF Identities

\* A publication adds the appended position, if its record is usable.
LEMMA PublishRefines ==
    ASSUME IInv, "raw_events" \in Queries, NEW d \in Devices, NEW v \in Values,
           NEW kind \in Kinds, Publish(d, v, kind)
    PROVE  [RawStore!Next]_(RawStore!vars)
<1> DEFINE p0 == PartitionOf[d]
           new == <<p0, Len(log[p0]) + 1>>
<1>0. \A p \in Partitions : Len(log[p]) \in Nat
  BY DEF IInv, Shape
<1>1. table' = table
  BY DEF Publish, cassandra
<1>2. new \in Identities /\ p0 \in Partitions
  BY <1>0, JobAssumption DEF Publish, Identities
<1>3. ASSUME NEW p \in Partitions, NEW i \in 1 .. Len(log'[p])
      PROVE  \/ i \in 1 .. Len(log[p]) /\ At(<<p, i>>)' = At(<<p, i>>)
             \/ <<p, i>> = new
  <2>1. /\ p # p0 => log'[p] = log[p]
        /\ p = p0 => Len(log'[p]) = Len(log[p]) + 1
    BY PublishAppends DEF IInv
  <2>2. CASE i \in 1 .. Len(log[p])
    BY <1>0, <2>2, PublishKeeps DEF IInv
  <2>3. CASE i \notin 1 .. Len(log[p])
    BY <1>0, <2>1, <2>3
  <2> QED BY <2>2, <2>3
<1>4. \A pos : pos \in UsableInLog <=>
          \E p \in Partitions : \E i \in 1 .. Len(log[p]) : pos = <<p, i>> /\ Usable(At(pos))
  <2>1. \A p \in Partitions : NoOffsets[p] + 1 = 1 /\ LogEnds[p] = Len(log[p])
    BY DEF NoOffsets, LogEnds
  <2> QED BY <2>1, InPositions DEF UsableInLog
<1>5. \A pos : pos \in UsableInLog' <=>
          \E p \in Partitions : \E i \in 1 .. Len(log'[p]) : pos = <<p, i>> /\ Usable(At(pos)')
  <2>1. \A p \in Partitions : NoOffsets[p]' + 1 = 1 /\ LogEnds'[p] = Len(log'[p])
    BY DEF NoOffsets, LogEnds
  <2>2. \A pos : pos \in Positions(NoOffsets, LogEnds)' <=>
          \E p \in Partitions : \E i \in 1 .. Len(log'[p]) : pos = <<p, i>>
    BY <2>1 DEF Positions
  <2> QED BY <2>2 DEF UsableInLog, Usable
<1>6. UsableInLog \subseteq UsableInLog'
  <2> SUFFICES ASSUME NEW pos \in UsableInLog PROVE pos \in UsableInLog'
    OBVIOUS
  <2>1. PICK p \in Partitions : \E i \in 1 .. Len(log[p]) : pos = <<p, i>> /\ Usable(At(pos))
    BY <1>4
  <2>2. PICK i \in 1 .. Len(log[p]) : pos = <<p, i>> /\ Usable(At(pos))
    BY <2>1
  <2>3. At(pos)' = At(pos)
    BY <1>0, <2>2, PublishKeeps DEF IInv
  <2>4. log' \in [Partitions -> Seq(Record)] /\ Len(log[p]) <= Len(log'[p])
    BY ShapePublish, PublishAppends DEF IInv, Shape
  <2>5. i \in 1 .. Len(log'[p])
    BY <1>0, <2>2, <2>4
  <2> QED BY <1>5, <2>2, <2>3, <2>5
<1>7. UsableInLog' \subseteq UsableInLog \cup {new}
  <2> SUFFICES ASSUME NEW pos \in UsableInLog', pos # new PROVE pos \in UsableInLog
    OBVIOUS
  <2>1. PICK p \in Partitions : \E i \in 1 .. Len(log'[p]) : pos = <<p, i>> /\ Usable(At(pos)')
    BY <1>5
  <2>2. PICK i \in 1 .. Len(log'[p]) : pos = <<p, i>> /\ Usable(At(pos)')
    BY <2>1
  <2>3. i \in 1 .. Len(log[p]) /\ At(<<p, i>>)' = At(<<p, i>>)
    BY <1>3, <2>2
  <2> QED BY <1>4, <2>2, <2>3
<1>8. CASE UsableInLog' = UsableInLog
  BY <1>1, <1>8 DEF RawStore!vars
<1>9. CASE UsableInLog' # UsableInLog
  <2>1. UsableInLog' = UsableInLog \cup {new} /\ new \notin UsableInLog
    BY <1>6, <1>7, <1>9
  <2>2. RawStore!Publish(new)
    BY <1>1, <1>2, <2>1 DEF RawStore!Publish
  <2> QED BY <1>2, <2>2 DEF RawStore!Next
<1> QED BY <1>8, <1>9

LEMMA StepRefines ==
    ASSUME IInv, "raw_events" \in Queries \ Windowed, [Next]_vars
    PROVE  [RawStore!Next]_(RawStore!vars)
<1> DEFINE q == "raw_events"
<1>1. ASSUME NEW d \in Devices, NEW v \in Values, NEW kind \in Kinds, Publish(d, v, kind)
      PROVE  [RawStore!Next]_(RawStore!vars)
  BY <1>1, PublishRefines
<1>2. ASSUME NEW k \in todo[q], WriteRow(q, k)
      PROVE  [RawStore!Next]_(RawStore!vars)
  <2>1. log' = log /\ DOMAIN table'[q] = DOMAIN table[q] \cup {k}
    BY <1>2 DEF WriteRow, Upsert, kafka, IInv, Shape
  <2>2. k \in UsableInLog /\ UsableInLog' = UsableInLog
    BY <2>1, RowIsLogged, LoggedDependsOn
  <2>3. CASE k \in DOMAIN table[q]
    BY <2>1, <2>2, <2>3 DEF RawStore!vars
  <2>4. CASE k \notin DOMAIN table[q]
    <3>1. RawStore!Store(k)
      BY <2>1, <2>2, <2>4 DEF RawStore!Store
    <3>2. k \in Identities
      BY <2>2, LoggedIsIdentity DEF IInv
    <3> QED BY <3>1, <3>2 DEF RawStore!Next
  <2> QED BY <2>3, <2>4
<1>3. ASSUME NEW r \in Queries \ {q}, NEW k \in todo[r], WriteRow(r, k)
      PROVE  [RawStore!Next]_(RawStore!vars)
  <2>1. log' = log /\ table'[q] = table[q]
    BY <1>3 DEF WriteRow, kafka, IInv, Shape
  <2> QED BY <2>1, LoggedDependsOn DEF RawStore!vars
<1>4. CASE log' = log /\ table' = table
  BY <1>4, LoggedDependsOn DEF RawStore!vars
<1>5. ASSUME NEW r \in Queries, \/ PlanBatch(r) \/ RunBatch(r) \/ EncoderFails(r) \/ CommitBatch(r)
      PROVE  log' = log /\ table' = table
  BY <1>5 DEF PlanBatch, RunBatch, EncoderFails, Stopped, CommitBatch, kafka, cassandra
<1>6. ASSUME NextSeason \/ Boot \/ Crash \/ UNCHANGED vars
      PROVE  log' = log /\ table' = table
  BY <1>6 DEF NextSeason, Boot, WriteThresholds, ShiftSeed, Start, Crash, Stopped, vars, kafka, cassandra
<1> QED BY <1>1, <1>2, <1>3, <1>4, <1>5, <1>6 DEF Next

LEMMA InitRefines ==
    ASSUME Init, "raw_events" \in Queries
    PROVE  RawStore!Init
<1>1. UsableInLog = {}
  <2> SUFFICES ASSUME NEW pos \in UsableInLog PROVE FALSE
    OBVIOUS
  <2>1. PICK p \in Partitions : \E i \in NoOffsets[p] + 1 .. LogEnds[p] : pos = <<p, i>>
    BY InPositions DEF UsableInLog
  <2> QED BY <2>1 DEF Init, NoOffsets, LogEnds
<1>2. DOMAIN table["raw_events"] = {}
  BY DEF Init
<1> QED BY <1>1, <1>2 DEF RawStore!Init

\* raw_events implements the event store: every step of the job is, seen
\* through the table, the storing of one published event or nothing at all.
\* In particular a replayed batch is invisible.
THEOREM RawRefinesStore ==
    ASSUME "raw_events" \in Queries \ Windowed
    PROVE  Spec => RawStore!Spec
<1>1. Init => RawStore!Init
  BY InitRefines
<1>2. IInv /\ [Next]_vars => [RawStore!Next]_(RawStore!vars)
  BY StepRefines
<1> QED BY <1>1, <1>2, Inductive, PTL DEF Spec, RawStore!Spec

-----------------------------------------------------------------------------
(* What a step does to one query *)

\* Records once appended stay where they are.
LEMMA LogGrows ==
    ASSUME Shape, [Next]_vars, NEW p \in Partitions
    PROVE  /\ Len(log[p]) <= Len(log'[p])
           /\ \A i \in 1 .. Len(log[p]) : log'[p][i] = log[p][i]
<1>1. ASSUME log' = log PROVE /\ Len(log[p]) <= Len(log'[p])
                              /\ \A i \in 1 .. Len(log[p]) : log'[p][i] = log[p][i]
  BY <1>1 DEF Shape
<1>2. ASSUME NEW d \in Devices, NEW v \in Values, NEW kind \in Kinds, Publish(d, v, kind)
      PROVE  /\ Len(log[p]) <= Len(log'[p])
             /\ \A i \in 1 .. Len(log[p]) : log'[p][i] = log[p][i]
  BY <1>2, PublishAppends
<1>3. ASSUME NEW q \in Queries, NEW k \in todo[q], WriteRow(q, k) PROVE log' = log
  BY <1>3 DEF WriteRow, kafka
<1>4. ASSUME NEW q \in Queries,
             PlanBatch(q) \/ RunBatch(q) \/ EncoderFails(q) \/ CommitBatch(q)
      PROVE  log' = log
  BY <1>4 DEF PlanBatch, RunBatch, EncoderFails, Stopped, CommitBatch, kafka
<1>5. CASE NextSeason \/ Boot \/ Crash \/ UNCHANGED vars
  <2>1. log' = log
    BY <1>5 DEF NextSeason, Boot, WriteThresholds, ShiftSeed, Start, cassandra, Crash, Stopped, vars, kafka
  <2> QED BY <1>1, <2>1
<1> QED BY <1>1, <1>2, <1>3, <1>4, <1>5 DEF Next

\* The records between two offsets that the log has reached.
LEMMA RecordKept ==
    ASSUME Shape, [Next]_vars,
           NEW from \in [Partitions -> Nat], NEW to \in [Partitions -> Nat],
           \A p \in Partitions : to[p] <= Len(log[p]),
           NEW pos \in Positions(from, to)
    PROVE  At(pos)' = At(pos) /\ At(pos) \in Record
<1>1. PICK p \in Partitions : \E i \in from[p] + 1 .. to[p] : pos = <<p, i>>
  BY InPositions
<1>2. PICK i \in from[p] + 1 .. to[p] : pos = <<p, i>>
  BY <1>1
<1>3. log[p] \in Seq(Record) /\ i \in 1 .. Len(log[p])
  BY <1>2 DEF Shape
<1>4. log'[p][i] = log[p][i] /\ log[p][i] \in Record
  BY <1>3, LogGrows
<1> QED BY <1>2, <1>4 DEF At

\* Nothing of q moves, except that its batch may be given up.
Quiet(q) ==
    /\ UNCHANGED <<committed[q], wal[q], ewma[q], windows[q], maxTs[q], watermark[q],
                   late[q], table[q]>>
    /\ ran'[q] => ran[q] /\ todo'[q] = todo[q] /\ seed' = seed

\* The state that is kept by query has an entry for each.
Rows ==
    /\ maxTs = [q \in Queries |-> maxTs[q]] /\ watermark = [q \in Queries |-> watermark[q]]
    /\ ewma = [q \in Queries |-> ewma[q]] /\ windows = [q \in Queries |-> windows[q]]

LEMMA RowsInit == Init => Rows
BY DEF Init, Rows

LEMMA RowsStep == Rows /\ [Next]_vars => Rows'
<1> SUFFICES ASSUME Rows, [Next]_vars PROVE Rows'
  OBVIOUS
<1>1. ASSUME UNCHANGED <<ewma, windows, maxTs, watermark>> PROVE Rows'
  BY <1>1 DEF Rows
<1>2. ASSUME NEW q \in Queries, CommitBatch(q) PROVE Rows'
  BY <1>2 DEF CommitBatch, Rows
<1>3. ASSUME NEW q \in Queries, PlanBatch(q) \/ RunBatch(q) \/ EncoderFails(q)
      PROVE  Rows'
  BY <1>1, <1>3 DEF PlanBatch, RunBatch, EncoderFails, Stopped, checkpoint
<1>4. ASSUME NEW q \in Queries, NEW k \in todo[q], WriteRow(q, k) PROVE Rows'
  BY <1>1, <1>4 DEF WriteRow, checkpoint
<1>5. ASSUME NEW d \in Devices, NEW v \in Values, NEW kind \in Kinds, Publish(d, v, kind)
      PROVE  Rows'
  BY <1>1, <1>5 DEF Publish, checkpoint
<1>6. CASE NextSeason \/ Boot \/ Crash \/ UNCHANGED vars
  BY <1>1, <1>6 DEF NextSeason, Boot, WriteThresholds, ShiftSeed, Start, cassandra, Crash, Stopped, vars, checkpoint
<1> QED BY <1>2, <1>3, <1>4, <1>5, <1>6 DEF Next

LEMMA QueryStep ==
    ASSUME Shape, Rows, [Next]_vars, NEW q \in Queries
    PROVE  \/ Quiet(q)
           \/ PlanBatch(q) \/ RunBatch(q) \/ CommitBatch(q)
           \/ \E k \in todo[q] : WriteRow(q, k)
<1>1. ASSUME NEW r \in Queries \ {q}, PlanBatch(r) \/ RunBatch(r) \/ CommitBatch(r)
      PROVE  Quiet(q)
  <2>1. CASE PlanBatch(r)
    BY <1>1, <2>1 DEF PlanBatch, kafka, memory, cassandra, Shape, Quiet
  <2>2. CASE RunBatch(r)
    BY <1>1, <2>2 DEF RunBatch, kafka, checkpoint, cassandra, Shape, Quiet
  <2>3. CASE CommitBatch(r)
    BY <1>1, <2>3 DEF CommitBatch, kafka, cassandra, Shape, Rows, Quiet
  <2> QED BY <1>1, <2>1, <2>2, <2>3
<1>2. ASSUME NEW r \in Queries \ {q}, NEW k \in todo[r], WriteRow(r, k)
      PROVE  Quiet(q)
  BY <1>2 DEF WriteRow, kafka, checkpoint, Shape, Quiet
<1>3. ASSUME Stopped PROVE Quiet(q)
  BY <1>3 DEF Stopped, kafka, checkpoint, cassandra, Quiet
<1>4. CASE Boot
  <2>1. ~ran[q]
    BY <1>4 DEF Boot, WriteThresholds, ShiftSeed, Start, cassandra, Shape
  <2> QED BY <1>4, <2>1 DEF Boot, WriteThresholds, ShiftSeed, Start, cassandra, kafka, checkpoint, Quiet
<1>5. ASSUME NEW d \in Devices, NEW v \in Values, NEW kind \in Kinds, Publish(d, v, kind)
      PROVE  Quiet(q)
  BY <1>5 DEF Publish, memory, checkpoint, cassandra, Quiet
<1>6. CASE NextSeason \/ UNCHANGED vars
  BY <1>6 DEF NextSeason, vars, memory, checkpoint, cassandra, Quiet
<1>7. ASSUME NEW r \in Queries, EncoderFails(r) PROVE Quiet(q)
  BY <1>3, <1>7 DEF EncoderFails
<1>8. CASE Crash
  BY <1>3, <1>8 DEF Crash
<1>9. ASSUME NEW r \in Queries,
             \/ PlanBatch(r) \/ RunBatch(r) \/ CommitBatch(r)
             \/ EncoderFails(r) \/ \E k \in todo[r] : WriteRow(r, k)
      PROVE  \/ Quiet(q)
             \/ PlanBatch(q) \/ RunBatch(q) \/ CommitBatch(q)
             \/ \E k \in todo[q] : WriteRow(q, k)
  <2>1. CASE r = q
    BY <1>7, <1>9, <2>1
  <2>2. CASE r # q
    BY <1>1, <1>2, <1>7, <1>9, <2>2
  <2> QED BY <2>1, <2>2
<1> QED BY <1>4, <1>5, <1>6, <1>8, <1>9 DEF Next

\* The records a query has committed do not change.
LEMMA CommittedKept ==
    ASSUME Shape, [Next]_vars, NEW q \in Queries, NEW pos \in Committed(q)
    PROVE  At(pos)' = At(pos) /\ At(pos) \in Record
<1>1. NoOffsets \in [Partitions -> Nat] /\ committed[q] \in [Partitions -> Nat]
  BY DEF NoOffsets, Shape
<1> QED BY <1>1, RecordKept DEF Committed, Shape

\* ... nor those of the batch that is planned.
LEMMA BatchKept ==
    ASSUME Shape, [Next]_vars, NEW q \in Queries, wal[q] # NoBatch,
           NEW pos \in Positions(committed[q], wal[q].end)
    PROVE  At(pos)' = At(pos) /\ At(pos) \in Record
<1>1. committed[q] \in [Partitions -> Nat] /\ wal[q].end \in [Partitions -> Nat]
  BY DEF Shape
<1> QED BY <1>1, RecordKept DEF Shape

\* What a query has committed and what its batch holds, in a step that leaves
\* its offsets alone.
LEMMA Unmoved ==
    ASSUME Shape, [Next]_vars, NEW q \in Queries,
           UNCHANGED <<committed[q], wal[q], watermark[q]>>
    PROVE  /\ Committed(q)' = Committed(q)
           /\ wal[q] # NoBatch =>
                 /\ Batch(q)' = Batch(q) /\ LateIn(q)' = LateIn(q)
                 /\ EmittedKeys(q)' = EmittedKeys(q)
                 /\ \A pos \in Batch(q) : WindowKey(q, pos)' = WindowKey(q, pos)
<1>1. Committed(q)' = Committed(q)
  BY DEF Committed, Positions, NoOffsets
<1>2. ASSUME wal[q] # NoBatch
      PROVE  /\ Batch(q)' = Batch(q) /\ LateIn(q)' = LateIn(q)
             /\ EmittedKeys(q)' = EmittedKeys(q)
             /\ \A pos \in Batch(q) : WindowKey(q, pos)' = WindowKey(q, pos)
  <2>1. Positions(committed[q], wal[q].end)' = Positions(committed[q], wal[q].end)
    BY DEF Positions
  <2>2. \A pos \in Positions(committed[q], wal[q].end) : At(pos)' = At(pos)
    BY <1>2, BatchKept
  <2>3. Batch(q)' = Batch(q)
    BY <2>1, <2>2 DEF Batch, Usable
  <2>4. \A pos \in Batch(q) : /\ WindowKey(q, pos)' = WindowKey(q, pos)
                              /\ WindowOf(q, At(pos).ts)' = WindowOf(q, At(pos).ts)
    BY <2>2 DEF WindowKey, WindowOf, Batch
  <2>5. LateIn(q)' = LateIn(q)
    BY <2>3, <2>4 DEF LateIn, Closed, WindowEnd
  <2>6. EmittedKeys(q)' = EmittedKeys(q)
    BY <2>3, <2>4, <2>5 DEF EmittedKeys
  <2> QED BY <2>3, <2>4, <2>5, <2>6
<1> QED BY <1>1, <1>2

\* A commit adds the positions of the batch, which are new.
LEMMA CommitExtends ==
    ASSUME Shape, NEW q \in Queries, CommitBatch(q)
    PROVE  /\ log' = log /\ wal[q] # NoBatch /\ ran[q] /\ todo[q] = {}
           /\ committed' = [committed EXCEPT ![q] = wal[q].end]
           /\ Committed(q)' = Committed(q) \cup Positions(committed[q], wal[q].end)
           /\ Committed(q) \cap Positions(committed[q], wal[q].end) = {}
           /\ \A pos : At(pos)' = At(pos) /\ WindowKey(q, pos)' = WindowKey(q, pos)
<1>1. /\ log' = log /\ wal[q] # NoBatch /\ ran[q] /\ todo[q] = {}
      /\ committed' = [committed EXCEPT ![q] = wal[q].end]
  BY DEF CommitBatch, kafka, Shape
<1>2. committed[q] \in [Partitions -> Nat] /\ wal[q].end \in [Partitions -> Nat]
  BY <1>1 DEF Shape
<1>3. committed'[q] = wal[q].end /\ \A p \in Partitions : committed[q][p] <= wal[q].end[p]
  BY <1>1 DEF Shape
<1>4. \A p \in Partitions :
          /\ NoOffsets[p] = 0
          /\ 0 + 1 .. wal[q].end[p] = (0 + 1 .. committed[q][p])
                                         \cup (committed[q][p] + 1 .. wal[q].end[p])
          /\ (0 + 1 .. committed[q][p]) \cap (committed[q][p] + 1 .. wal[q].end[p]) = {}
  BY <1>2, <1>3 DEF NoOffsets
<1>5. Committed(q)' = Positions(NoOffsets, wal[q].end)
  BY <1>3 DEF Committed, Positions, NoOffsets
<1>6. ASSUME NEW pos
      PROVE  pos \in Positions(NoOffsets, wal[q].end)
                 <=> pos \in Committed(q) \cup Positions(committed[q], wal[q].end)
  BY <1>4, InPositions DEF Committed
<1>7. ASSUME NEW pos \in Committed(q), pos \in Positions(committed[q], wal[q].end) PROVE FALSE
  <2>1. PICK p \in Partitions : \E i \in NoOffsets[p] + 1 .. committed[q][p] : pos = <<p, i>>
    BY InPositions DEF Committed
  <2>2. PICK r \in Partitions : \E i \in committed[q][r] + 1 .. wal[q].end[r] : pos = <<r, i>>
    BY <1>7, InPositions
  <2>3. p = r
    BY <2>1, <2>2
  <2> QED BY <1>4, <2>1, <2>2, <2>3
<1>8. \A pos : At(pos)' = At(pos) /\ WindowKey(q, pos)' = WindowKey(q, pos)
  BY <1>1 DEF At, WindowKey, WindowOf
<1> QED BY <1>1, <1>5, <1>6, <1>7, <1>8

-----------------------------------------------------------------------------
(* Clocks and watermarks *)

\* No record is from the future, and each is in its device's partition.
LogOK ==
    \A p \in Partitions : \A i \in 1 .. Len(log[p]) :
        log[p][i].ts <= clock /\ PartitionOf[log[p][i].dev] = p

MarksOK ==
    \A q \in Queries :
        /\ maxTs[q] \in Nat /\ watermark[q] \in Nat
        /\ wal[q] # NoBatch => wal[q].evict \in Nat /\ watermark[q] <= wal[q].evict

LEMMA LogInit == Init => LogOK
BY DEF Init, LogOK

LEMMA LogStep == Shape /\ LogOK /\ [Next]_vars => LogOK'
<1> SUFFICES ASSUME Shape, LogOK, [Next]_vars PROVE LogOK'
  OBVIOUS
<1>1. ASSUME NEW d \in Devices, NEW v \in Values, NEW kind \in Kinds, Publish(d, v, kind)
      PROVE  LogOK'
  <2>1. PICK t \in clock .. MaxClock :
            /\ clock' = t
            /\ log' = [log EXCEPT ![PartitionOf[d]] =
                          Append(@, [dev |-> d, ts |-> t, val |-> v, kind |-> kind])]
    BY <1>1 DEF Publish
  <2>2. clock \in Nat /\ clock <= clock' /\ clock' \in Nat
    BY <2>1, JobAssumption DEF Shape
  <2>3. ASSUME NEW p \in Partitions, NEW i \in 1 .. Len(log'[p])
        PROVE  log'[p][i].ts <= clock' /\ PartitionOf[log'[p][i].dev] = p
    <3>1. log[p] \in Seq(Record) /\ Len(log[p]) \in Nat
      BY DEF Shape
    <3>2. CASE i \in 1 .. Len(log[p])
      <4>1. log'[p][i] = log[p][i] /\ log[p][i] \in Record
        BY <1>1, <3>1, <3>2, PublishAppends
      <4>2. /\ log[p][i].ts <= clock /\ log[p][i].ts \in Nat
            /\ PartitionOf[log[p][i].dev] = p
        BY <3>2, <4>1 DEF LogOK, Record
      <4> QED BY <2>2, <4>1, <4>2
    <3>3. CASE i \notin 1 .. Len(log[p])
      <4>1. p = PartitionOf[d] /\ i = Len(log[p]) + 1
        BY <1>1, <3>1, <3>3, PublishAppends
      <4>2. log'[p] = Append(log[p], [dev |-> d, ts |-> t, val |-> v, kind |-> kind])
        BY <2>1, <4>1 DEF Shape
      <4>3. log'[p][i] = [dev |-> d, ts |-> t, val |-> v, kind |-> kind]
        BY <3>1, <4>1, <4>2
      <4> QED BY <2>1, <2>2, <4>1, <4>3
    <3> QED BY <3>2, <3>3
  <2> QED BY <2>3 DEF LogOK
<1>2. ASSUME NEW q \in Queries, NEW k \in todo[q], WriteRow(q, k) PROVE UNCHANGED <<log, clock>>
  BY <1>2 DEF WriteRow, kafka
<1>3. ASSUME NEW q \in Queries,
             PlanBatch(q) \/ RunBatch(q) \/ EncoderFails(q) \/ CommitBatch(q)
      PROVE  UNCHANGED <<log, clock>>
  BY <1>3 DEF PlanBatch, RunBatch, EncoderFails, Stopped, CommitBatch, kafka
<1>4. ASSUME NextSeason \/ Boot \/ Crash \/ UNCHANGED vars PROVE UNCHANGED <<log, clock>>
  BY <1>4 DEF NextSeason, Boot, WriteThresholds, ShiftSeed, Start, cassandra, Crash, Stopped, vars, kafka
<1> QED BY <1>1, <1>2, <1>3, <1>4 DEF Next, LogOK

\* Every set of naturals that is not empty has a least member.
LEMMA LeastNat ==
    ASSUME NEW T \in SUBSET Nat, T # {}
    PROVE  \E x \in T : \A y \in T : x <= y
<1> DEFINE Below == {0 .. x : x \in T}
<1>1. Below \subseteq FiniteSubsetsOf(Nat)
  <2>1. ASSUME NEW x \in T PROVE 0 .. x \in SUBSET Nat /\ IsFiniteSet(0 .. x)
    BY FS_Interval
  <2> QED BY <2>1 DEF FiniteSubsetsOf
<1>0. Below # {}
  OBVIOUS
<1>2. PICK I \in Below : \A J \in Below : ~(<<J, I>> \in StrictSubsetOrdering(Nat))
  BY <1>0, <1>1, FS_StrictSubsetOrderingWellFounded, WFMin
<1>3. PICK x \in T : I = 0 .. x
  OBVIOUS
<1>4. ASSUME NEW y \in T, y < x PROVE FALSE
  <2>1. 0 .. y \subseteq 0 .. x /\ 0 .. y # 0 .. x
    BY <1>4
  <2>2. <<0 .. y, 0 .. x>> \in StrictSubsetOrdering(Nat)
    BY <2>1 DEF StrictSubsetOrdering
  <2>3. 0 .. y \in Below
    OBVIOUS
  <2> QED BY <1>2, <1>3, <2>2, <2>3
<1> QED BY <1>4

\* ... and one that is bounded has a greatest.
LEMMA GreatestNat ==
    ASSUME NEW T \in SUBSET Nat, T # {}, NEW n \in Nat, \A x \in T : x <= n
    PROVE  \E x \in T : \A y \in T : y <= x
<1> DEFINE Bounds == {m \in Nat : \A y \in T : y <= m}
<1>1. PICK m \in Bounds : \A b \in Bounds : m <= b
  BY LeastNat
<1>2. m \in T
  <2> SUFFICES ASSUME m \notin T PROVE FALSE
    OBVIOUS
  <2>1. \A y \in T : y <= m /\ y # m /\ y \in Nat
    OBVIOUS
  <2>2. \A y \in T : y <= m - 1 /\ m - 1 \in Nat
    BY <2>1
  <2>3. m - 1 \in Bounds
    BY <2>2
  <2> QED BY <1>1, <2>3
<1> QED BY <1>2

\* The latest event time of the records a query has seen.
LEMMA MaxTsAfterIs ==
    ASSUME Shape, LogOK, NEW q \in Queries, wal[q] # NoBatch, maxTs[q] \in Nat
    PROVE  /\ MaxTsAfter(q) \in {maxTs[q]} \cup {At(pos).ts : pos \in Batch(q)}
           /\ MaxTsAfter(q) \in Nat
           /\ maxTs[q] <= MaxTsAfter(q)
           /\ \A pos \in Batch(q) : At(pos).ts <= MaxTsAfter(q)
<1> DEFINE seen == {maxTs[q]} \cup {At(pos).ts : pos \in Batch(q)}
           top == IF maxTs[q] <= clock THEN clock ELSE maxTs[q]
<1>1. ASSUME NEW pos \in Batch(q) PROVE At(pos).ts \in Nat /\ At(pos).ts <= clock
  <2>1. PICK p \in Partitions : \E i \in committed[q][p] + 1 .. wal[q].end[p] : pos = <<p, i>>
    BY InPositions DEF Batch
  <2>2. PICK i \in committed[q][p] + 1 .. wal[q].end[p] : pos = <<p, i>>
    BY <2>1
  <2>3. log[p] \in Seq(Record) /\ i \in 1 .. Len(log[p])
    BY <2>2 DEF Shape
  <2>4. log[p][i] \in Record
    BY <2>3
  <2> QED BY <2>2, <2>3, <2>4 DEF At, LogOK, Record
<1>2. seen \in SUBSET Nat /\ top \in Nat /\ clock \in Nat
  BY <1>1 DEF Shape
<1>3. \A x \in seen : x <= top
  BY <1>1, <1>2
<1>4. \E t \in seen : \A u \in seen : u <= t
  BY <1>2, <1>3, GreatestNat
<1>5. MaxTsAfter(q) \in seen /\ \A u \in seen : u <= MaxTsAfter(q)
  BY <1>4 DEF MaxTsAfter
<1> QED BY <1>2, <1>5

LEMMA MarksInit == Init => MarksOK
BY DEF Init, MarksOK

LEMMA MarksStep == Shape /\ Rows /\ LogOK /\ MarksOK /\ [Next]_vars => MarksOK'
<1> SUFFICES ASSUME Shape, Rows, LogOK, MarksOK, [Next]_vars, NEW q \in Queries
             PROVE  /\ maxTs'[q] \in Nat /\ watermark'[q] \in Nat
                    /\ wal'[q] # NoBatch => wal'[q].evict \in Nat
                                            /\ watermark'[q] <= wal'[q].evict
  BY DEF MarksOK
<1>1. CASE UNCHANGED <<maxTs[q], watermark[q], wal[q]>>
  BY <1>1 DEF MarksOK
<1>2. CASE PlanBatch(q)
  <2>1. UNCHANGED <<maxTs, watermark>> /\ maxTs[q] \in Nat /\ watermark[q] \in Nat
    BY <1>2 DEF PlanBatch, MarksOK
  <2>2. wal'[q].evict = IF q \in Windowed /\ maxTs[q] - Delay[q] > watermark[q]
                        THEN maxTs[q] - Delay[q] ELSE watermark[q]
    BY <1>2 DEF PlanBatch, Shape
  <2>3. q \in Windowed => Delay[q] \in Nat
    BY JobAssumption
  <2> QED BY <2>1, <2>2, <2>3
<1>3. CASE CommitBatch(q)
  <2>1. wal[q] # NoBatch
    BY <1>3, CommitExtends
  <2>2. /\ maxTs'[q] = MaxTsAfter(q) /\ watermark'[q] = wal[q].evict /\ wal'[q] = NoBatch
    BY <1>3 DEF CommitBatch, Shape, Rows
  <2> QED BY <2>1, <2>2, MaxTsAfterIs DEF MarksOK
<1>4. CASE RunBatch(q) \/ \E k \in todo[q] : WriteRow(q, k)
  BY <1>1, <1>4 DEF RunBatch, WriteRow, checkpoint
<1> QED BY <1>1, <1>2, <1>3, <1>4, QueryStep DEF Quiet

-----------------------------------------------------------------------------
(* Only what is late is dropped *)

\* Has q committed a record of the time t or later?  (Of the time 0 it need not.)
Reached(q, t) == \E pos \in Committed(q) : At(pos).ts >= t

\* The watermark is the whole delay behind a record that is committed.
DelayKept ==
    \A q \in Windowed :
        /\ maxTs[q] > 0 => Reached(q, maxTs[q])
        /\ watermark[q] > 0 => Reached(q, watermark[q] + Delay[q])
        /\ wal[q] # NoBatch /\ wal[q].evict > 0 => Reached(q, wal[q].evict + Delay[q])

LateIsSeen == \A q \in Queries : late[q] \subseteq Committed(q)

LEMMA ReachedStays ==
    ASSUME Shape, [Next]_vars, NEW q \in Queries, NEW t,
           Committed(q) \subseteq Committed(q)', Reached(q, t)
    PROVE  Reached(q, t)'
<1>1. PICK pos \in Committed(q) : At(pos).ts >= t
  BY DEF Reached
<1>2. At(pos)' = At(pos)
  BY CommittedKept
<1> QED BY <1>1, <1>2 DEF Reached

\* A window ends after the time 0.
LEMMA WindowEnds ==
    ASSUME NEW q \in Windowed, NEW ts \in Nat
    PROVE  WindowOf(q, ts) \in Nat /\ WindowEnd(q, WindowOf(q, ts)) \in Nat \ {0}
<1>1. Width[q] \in Nat \ {0}
  BY JobAssumption
<1>2. ts \div Width[q] \in Nat
  BY <1>1
<1>3. \A n \in Nat, w \in Nat \ {0} : (n + 1) * w \in Nat \ {0}
  OBVIOUS
<1> QED BY <1>1, <1>2, <1>3 DEF WindowOf, WindowEnd

LEMMA DelayInit == Init => DelayKept /\ LateIsSeen /\ OnlyLateIsDropped
BY JobAssumption DEF Init, DelayKept, LateIsSeen, OnlyLateIsDropped

LEMMA CommittedGrows ==
    ASSUME Shape, Rows, [Next]_vars, NEW q \in Queries
    PROVE  Committed(q) \subseteq Committed(q)'
<1>1. CASE committed'[q] = committed[q]
  BY <1>1 DEF Committed, Positions, NoOffsets
<1>2. CASE CommitBatch(q)
  BY <1>2, CommitExtends
<1>3. CASE PlanBatch(q) \/ RunBatch(q) \/ \E k \in todo[q] : WriteRow(q, k)
  BY <1>1, <1>3 DEF PlanBatch, RunBatch, WriteRow, checkpoint
<1> QED BY <1>1, <1>2, <1>3, QueryStep DEF Quiet

LEMMA LateSeenStep == Shape /\ Rows /\ LateIsSeen /\ [Next]_vars => LateIsSeen'
<1> SUFFICES ASSUME Shape, Rows, LateIsSeen, [Next]_vars, NEW q \in Queries
             PROVE  late'[q] \subseteq Committed(q)'
  BY DEF LateIsSeen
<1>1. CASE late'[q] = late[q]
  BY <1>1, CommittedGrows DEF LateIsSeen
<1>2. CASE CommitBatch(q)
  <2>1. late'[q] = late[q] \cup LateIn(q)
    BY <1>2 DEF CommitBatch, Shape
  <2> QED BY <1>2, <2>1, CommitExtends DEF LateIsSeen, LateIn, Batch
<1>3. CASE PlanBatch(q) \/ RunBatch(q) \/ \E k \in todo[q] : WriteRow(q, k)
  BY <1>1, <1>3 DEF PlanBatch, RunBatch, WriteRow
<1> QED BY <1>1, <1>2, <1>3, QueryStep DEF Quiet

LEMMA DelayStep ==
    ASSUME Shape, Rows, LogOK, MarksOK, DelayKept, [Next]_vars
    PROVE  DelayKept'
<1> SUFFICES ASSUME NEW q \in Windowed
             PROVE  /\ maxTs'[q] > 0 => Reached(q, maxTs[q])'
                    /\ watermark'[q] > 0 => Reached(q, watermark[q] + Delay[q])'
                    /\ wal'[q] # NoBatch /\ wal'[q].evict > 0 =>
                          Reached(q, wal[q].evict + Delay[q])'
  BY DEF DelayKept
<1>0. q \in Queries /\ Delay[q] \in Nat /\ maxTs[q] \in Nat /\ watermark[q] \in Nat
  BY JobAssumption DEF MarksOK
<1>1. \A t : Reached(q, t) => \E pos \in Committed(q)' : At(pos)'.ts >= t
  <2> TAKE t
  <2> HAVE Reached(q, t)
  <2>1. PICK pos \in Committed(q) : At(pos).ts >= t
    BY DEF Reached
  <2> QED BY <1>0, <2>1, CommittedKept, CommittedGrows
<1>2. CASE UNCHANGED <<maxTs[q], watermark[q], wal[q]>>
  BY <1>1, <1>2 DEF DelayKept, Reached
<1>3. CASE PlanBatch(q)
  <2>1. UNCHANGED <<maxTs, watermark>>
    BY <1>3 DEF PlanBatch
  <2>2. wal'[q].evict = IF maxTs[q] - Delay[q] > watermark[q]
                        THEN maxTs[q] - Delay[q] ELSE watermark[q]
    BY <1>0, <1>3 DEF PlanBatch, Shape
  <2>3. CASE wal'[q].evict = watermark[q]
    BY <1>1, <2>1, <2>3 DEF DelayKept, Reached
  <2>4. CASE maxTs[q] - Delay[q] > watermark[q] /\ wal'[q].evict = maxTs[q] - Delay[q]
    <3>1. maxTs[q] > 0 /\ wal'[q].evict + Delay[q] = maxTs[q]
      BY <1>0, <2>4
    <3> QED BY <1>1, <2>1, <3>1 DEF DelayKept, Reached
  <2> QED BY <2>2, <2>3, <2>4
<1>4. CASE CommitBatch(q)
  <2>1. wal[q] # NoBatch /\ \A pos : At(pos)' = At(pos)
    BY <1>0, <1>4, CommitExtends
  <2>2. maxTs'[q] = MaxTsAfter(q) /\ watermark'[q] = wal[q].evict /\ wal'[q] = NoBatch
    BY <1>0, <1>4 DEF CommitBatch, Shape, Rows
  <2>3. watermark'[q] > 0 => Reached(q, watermark[q] + Delay[q])'
    BY <1>1, <2>1, <2>2 DEF DelayKept, Reached
  <2>4. maxTs'[q] > 0 => Reached(q, maxTs[q])'
    <3>1. MaxTsAfter(q) \in Nat
      BY <1>0, <2>1, MaxTsAfterIs
    <3>2. CASE MaxTsAfter(q) = maxTs[q]
      BY <1>1, <2>2, <3>2 DEF DelayKept, Reached
    <3>3. ASSUME NEW pos \in Batch(q), MaxTsAfter(q) = At(pos).ts
          PROVE  Reached(q, maxTs[q])'
      <4>1. pos \in Committed(q)'
        BY <1>0, <1>4, CommitExtends DEF Batch
      <4> QED BY <2>1, <2>2, <3>1, <3>3, <4>1 DEF Reached
    <3> QED BY <1>0, <2>1, <3>2, <3>3, MaxTsAfterIs
  <2> QED BY <2>2, <2>3, <2>4
<1>5. CASE RunBatch(q) \/ \E k \in todo[q] : WriteRow(q, k)
  BY <1>2, <1>5 DEF RunBatch, WriteRow, checkpoint
<1> QED BY <1>0, <1>2, <1>3, <1>4, <1>5, QueryStep DEF Quiet

LEMMA OnlyLateStep ==
    ASSUME Shape, Rows, MarksOK, DelayKept, LateIsSeen, OnlyLateIsDropped, [Next]_vars
    PROVE  OnlyLateIsDropped'
<1> SUFFICES ASSUME NEW q \in Windowed, NEW pos \in late'[q]
             PROVE  \E newer \in Committed(q)' :
                        At(newer)'.ts >= WindowEnd(q, WindowOf(q, At(pos)'.ts)) + Delay[q]
  BY DEF OnlyLateIsDropped, WindowEnd, WindowOf
<1>0. q \in Queries /\ Delay[q] \in Nat
  BY JobAssumption
<1>1. CASE pos \in late[q]
  <2>1. PICK newer \in Committed(q) :
            At(newer).ts >= WindowEnd(q, WindowOf(q, At(pos).ts)) + Delay[q]
    BY <1>1 DEF OnlyLateIsDropped
  <2>2. pos \in Committed(q)
    BY <1>0, <1>1 DEF LateIsSeen
  <2>3. At(pos)' = At(pos) /\ At(newer)' = At(newer) /\ newer \in Committed(q)'
    BY <1>0, <2>2, CommittedKept, CommittedGrows
  <2> QED BY <2>1, <2>3
<1>2. ASSUME CommitBatch(q), pos \in LateIn(q)
      PROVE  \E newer \in Committed(q)' :
                 At(newer)'.ts >= WindowEnd(q, WindowOf(q, At(pos)'.ts)) + Delay[q]
  <2>1. /\ Closed(q, WindowOf(q, At(pos).ts), watermark[q])
        /\ wal[q] # NoBatch /\ pos \in Positions(committed[q], wal[q].end)
    BY <1>0, <1>2, CommitExtends DEF LateIn, Batch
  <2>2. At(pos)' = At(pos) /\ At(pos).ts \in Nat
    BY <1>0, <2>1, BatchKept DEF Record
  <2> DEFINE end == WindowEnd(q, WindowOf(q, At(pos).ts))
  <2>3. end \in Nat \ {0} /\ end <= watermark[q] /\ watermark[q] \in Nat
    BY <1>0, <2>1, <2>2, WindowEnds DEF Closed, MarksOK
  <2>4. PICK newer \in Committed(q) : At(newer).ts >= watermark[q] + Delay[q]
    BY <2>3 DEF DelayKept, Reached
  <2>5. At(newer)' = At(newer) /\ newer \in Committed(q)' /\ At(newer).ts \in Nat
    BY <1>0, <2>4, CommittedKept, CommittedGrows DEF Record
  <2>6. At(newer).ts >= end + Delay[q]
    BY <1>0, <2>3, <2>4, <2>5
  <2> QED BY <2>2, <2>5, <2>6
<1>3. late'[q] = late[q] \/ (CommitBatch(q) /\ late'[q] = late[q] \cup LateIn(q))
  <2>1. CASE CommitBatch(q)
    BY <1>0, <2>1 DEF CommitBatch, Shape
  <2>2. CASE PlanBatch(q) \/ RunBatch(q) \/ \E k \in todo[q] : WriteRow(q, k)
    BY <2>2 DEF PlanBatch, RunBatch, WriteRow
  <2> QED BY <1>0, <2>1, <2>2, QueryStep DEF Quiet
<1> QED BY <1>1, <1>2, <1>3

\* The watermark keeps its promise to whoever publishes late: a record is left
\* out of its window's count only if the query had by then committed a record
\* that is newer than the window's end by the whole delay (agg_query.py:37,
\* withWatermark), across crashes and replays and for any delay and width.
THEOREM LateHolds == Spec => []OnlyLateIsDropped
<1> DEFINE Inv == /\ Shape /\ Rows /\ LogOK /\ MarksOK
                  /\ DelayKept /\ LateIsSeen /\ OnlyLateIsDropped
<1>1. Init => Inv
  BY ShapeInit, RowsInit, LogInit, MarksInit, DelayInit
<1>2. Inv /\ [Next]_vars => Inv'
  BY ShapeStep, RowsStep, LogStep, MarksStep, DelayStep, LateSeenStep, OnlyLateStep
<1>3. Inv => OnlyLateIsDropped
  OBVIOUS
<1> QED BY <1>1, <1>2, <1>3, PTL DEF Spec

-----------------------------------------------------------------------------
(* Counts *)

\* The committed records that belong in the row of window k.
Counted(q, k) ==
    {pos \in Committed(q) \ late[q] : Usable(At(pos)) /\ WindowKey(q, pos) = k}

\* An open window's state is its count, and only a window that is closed for
\* good has lost its state.
WindowsExact ==
    \A q \in Windowed :
        /\ \A k \in DOMAIN windows[q] : windows[q][k].events = Cardinality(Counted(q, k))
        /\ \A pos \in Committed(q) \ late[q] :
              Usable(At(pos)) =>
                  \/ WindowKey(q, pos) \in DOMAIN windows[q]
                  \/ Closed(q, WindowKey(q, pos)[2], watermark[q])

\* A row is exact, or the batch that is planned will write it anew; what this
\* run of the batch has written is what it will have been right to write.
RowsExact ==
    \A q \in Windowed :
        /\ \A k \in DOMAIN table[q] :
              \/ table[q][k].events = Cardinality(Counted(q, k))
              \/ wal[q] # NoBatch /\ k \in EmittedKeys(q)
        /\ ran[q] => \A k \in EmittedKeys(q) \ todo[q] :
              k \in DOMAIN table[q] /\ table[q][k].events = WindowAfter(q, k).events

LEMMA PositionsFinite ==
    ASSUME Shape, NEW q \in Queries
    PROVE  /\ IsFiniteSet(Committed(q)) /\ Committed(q) \subseteq Partitions \X (Nat \ {0})
           /\ wal[q] # NoBatch =>
                 /\ IsFiniteSet(Batch(q)) /\ Batch(q) \subseteq Partitions \X (Nat \ {0})
<1> DEFINE All == Partitions \X (1 .. MaxEvents)
<1>1. MaxEvents \in Nat /\ IsFiniteSet(Partitions) /\ IsFiniteSet(1 .. MaxEvents)
  BY JobAssumption, FS_Interval
<1>2. IsFiniteSet(All)
  BY <1>1, FS_Product
<1>3. ASSUME NEW from \in [Partitions -> Nat], NEW to \in [Partitions -> Nat],
             \A p \in Partitions : to[p] <= Len(log[p])
      PROVE  Positions(from, to) \in SUBSET All
  <2> SUFFICES ASSUME NEW pos \in Positions(from, to) PROVE pos \in All
    OBVIOUS
  <2>1. PICK p \in Partitions : \E i \in from[p] + 1 .. to[p] : pos = <<p, i>>
    BY InPositions
  <2>2. PICK i \in from[p] + 1 .. to[p] : pos = <<p, i>>
    BY <2>1
  <2>3. Len(log[p]) <= MaxEvents /\ Len(log[p]) \in Nat /\ to[p] <= Len(log[p])
    BY <1>3 DEF Shape
  <2>4. i \in 1 .. MaxEvents
    BY <1>1, <2>3
  <2> QED BY <2>2, <2>4
<1>4. All \subseteq Partitions \X (Nat \ {0})
  BY <1>1
<1>5. Committed(q) \in SUBSET All
  <2>1. NoOffsets \in [Partitions -> Nat] /\ committed[q] \in [Partitions -> Nat]
    BY DEF NoOffsets, Shape
  <2> QED BY <1>3, <2>1 DEF Committed, Shape
<1>6. ASSUME wal[q] # NoBatch PROVE Batch(q) \in SUBSET All
  <2>1. committed[q] \in [Partitions -> Nat] /\ wal[q].end \in [Partitions -> Nat]
    BY <1>6 DEF Shape
  <2>2. Positions(committed[q], wal[q].end) \in SUBSET All
    BY <1>3, <1>6, <2>1 DEF Shape
  <2> QED BY <2>2 DEF Batch
<1>7. IsFiniteSet(Committed(q))
  BY <1>2, <1>5, FS_Subset
<1>8. wal[q] # NoBatch => IsFiniteSet(Batch(q))
  BY <1>2, <1>6, FS_Subset
<1> QED BY <1>4, <1>5, <1>6, <1>7, <1>8

LEMMA CountedFinite ==
    ASSUME Shape, NEW q \in Queries, NEW k
    PROVE  /\ IsFiniteSet(Counted(q, k)) /\ Cardinality(Counted(q, k)) \in Nat
           /\ wal[q] # NoBatch =>
                 IsFiniteSet(InWindow(q, k)) /\ Cardinality(InWindow(q, k)) \in Nat
<1>1. Counted(q, k) \in SUBSET Committed(q) /\ InWindow(q, k) \in SUBSET Batch(q)
  BY DEF Counted, InWindow
<1>2. IsFiniteSet(Counted(q, k))
  BY <1>1, PositionsFinite, FS_Subset
<1>3. wal[q] # NoBatch => IsFiniteSet(InWindow(q, k))
  BY <1>1, PositionsFinite, FS_Subset
<1> QED BY <1>2, <1>3, FS_CardinalityType

\* What the next batch adds to a window that it touches: the window is open,
\* so that its state is there unless nothing was counted yet.
LEMMA WindowAfterCounts ==
    ASSUME Shape, WindowsExact, NEW q \in Windowed, wal[q] # NoBatch, NEW k \in EmittedKeys(q)
    PROVE  WindowAfter(q, k).events = Cardinality(Counted(q, k)) + Cardinality(InWindow(q, k))
<1>1. ~Closed(q, k[2], watermark[q])
  <2>1. PICK pos \in Batch(q) \ LateIn(q) : k = WindowKey(q, pos)
    BY DEF EmittedKeys
  <2> QED BY <2>1 DEF LateIn, WindowKey
<1>2. WindowBefore(q, k).events = Cardinality(Counted(q, k))
  <2>1. CASE k \in DOMAIN windows[q]
    BY <2>1 DEF WindowsExact, WindowBefore
  <2>2. CASE k \notin DOMAIN windows[q]
    <3>1. Counted(q, k) = {}
      BY <1>1, <2>2 DEF WindowsExact, Counted
    <3> QED BY <2>2, <3>1, FS_EmptySet DEF WindowBefore
  <2> QED BY <2>1, <2>2
<1> QED BY <1>2 DEF WindowAfter

\* A commit adds to a window's records those of the batch.
LEMMA CountedAfter ==
    ASSUME Shape, LateIsSeen, NEW q \in Windowed, CommitBatch(q), NEW k
    PROVE  /\ Counted(q, k)' = Counted(q, k) \cup InWindow(q, k)
           /\ Counted(q, k) \cap InWindow(q, k) = {}
           /\ Cardinality(Counted(q, k)') = Cardinality(Counted(q, k)) + Cardinality(InWindow(q, k))
           /\ k \notin EmittedKeys(q) => Counted(q, k)' = Counted(q, k)
<1>0. q \in Queries
  BY JobAssumption
<1> DEFINE new == Positions(committed[q], wal[q].end)
<1>1. /\ wal[q] # NoBatch /\ Committed(q)' = Committed(q) \cup new /\ Committed(q) \cap new = {}
      /\ \A pos : At(pos)' = At(pos) /\ WindowKey(q, pos)' = WindowKey(q, pos)
  BY <1>0, CommitExtends
<1>2. late'[q] = late[q] \cup LateIn(q) /\ late[q] \subseteq Committed(q)
  BY <1>0 DEF CommitBatch, Shape, LateIsSeen
<1>3. Counted(q, k)' = {pos \in Committed(q)' \ late'[q] :
                            Usable(At(pos)) /\ WindowKey(q, pos) = k}
  BY <1>1 DEF Counted, Usable
<1>4. LateIn(q) \subseteq new /\ InWindow(q, k) \subseteq new
  BY DEF LateIn, InWindow, Batch
<1>5. InWindow(q, k) = {pos \in new \ LateIn(q) : Usable(At(pos)) /\ WindowKey(q, pos) = k}
  BY DEF InWindow, Batch
<1>6. Counted(q, k)' = Counted(q, k) \cup InWindow(q, k)
  BY <1>1, <1>2, <1>3, <1>4, <1>5 DEF Counted
<1>7. Counted(q, k) \cap InWindow(q, k) = {}
  BY <1>1, <1>4 DEF Counted
<1>8. Cardinality(Counted(q, k) \cup InWindow(q, k))
          = Cardinality(Counted(q, k)) + Cardinality(InWindow(q, k))
  <2>1. /\ IsFiniteSet(Counted(q, k)) /\ Cardinality(Counted(q, k)) \in Nat
        /\ IsFiniteSet(InWindow(q, k)) /\ Cardinality(InWindow(q, k)) \in Nat
    BY <1>0, <1>1, CountedFinite
  <2>2. Cardinality(Counted(q, k) \cap InWindow(q, k)) = 0
    BY <1>7, FS_EmptySet
  <2>3. Cardinality(Counted(q, k) \cup InWindow(q, k))
            = Cardinality(Counted(q, k)) + Cardinality(InWindow(q, k))
                - Cardinality(Counted(q, k) \cap InWindow(q, k))
    BY <2>1, FS_Union
  <2> QED BY <2>1, <2>2, <2>3
<1>9. k \notin EmittedKeys(q) => InWindow(q, k) = {}
  BY DEF EmittedKeys, InWindow
<1> QED BY <1>6, <1>7, <1>8, <1>9

\* In the other steps the count of a window does not change.
LEMMA CountedKept ==
    ASSUME Shape, [Next]_vars, NEW q \in Queries,
           UNCHANGED <<committed[q], wal[q], watermark[q], late[q]>>, NEW k
    PROVE  /\ Counted(q, k)' = Counted(q, k)
           /\ wal[q] # NoBatch => InWindow(q, k)' = InWindow(q, k)
<1>1. Committed(q)' = Committed(q) /\ \A pos \in Committed(q) : At(pos)' = At(pos)
  BY Unmoved, CommittedKept
<1>2. \A pos \in Committed(q) : WindowKey(q, pos)' = WindowKey(q, pos)
  BY <1>1 DEF WindowKey, WindowOf
<1>3. Counted(q, k)' = Counted(q, k)
  BY <1>1, <1>2 DEF Counted, Usable
<1>4. wal[q] # NoBatch => InWindow(q, k)' = InWindow(q, k)
  BY Unmoved DEF InWindow
<1> QED BY <1>3, <1>4

LEMMA CountsInit == Init => WindowsExact /\ RowsExact
<1> SUFFICES ASSUME Init, NEW q \in Windowed
             PROVE  windows[q] = <<>> /\ table[q] = <<>> /\ ~ran[q] /\ Committed(q) = {}
  BY DEF WindowsExact, RowsExact
<1>1. q \in Queries
  BY JobAssumption
<1>2. Committed(q) = {}
  <2> SUFFICES ASSUME NEW pos \in Committed(q) PROVE FALSE
    OBVIOUS
  <2>1. PICK p \in Partitions : \E i \in NoOffsets[p] + 1 .. committed[q][p] : pos = <<p, i>>
    BY InPositions DEF Committed
  <2> QED BY <1>1, <2>1 DEF Init, NoOffsets
<1> QED BY <1>1, <1>2 DEF Init

LEMMA WindowsStep ==
    ASSUME Shape, Rows, MarksOK, LateIsSeen, WindowsExact, [Next]_vars
    PROVE  WindowsExact'
<1> SUFFICES ASSUME NEW q \in Windowed
             PROVE  /\ \A k \in DOMAIN windows'[q] :
                          windows'[q][k].events = Cardinality(Counted(q, k)')
                    /\ \A pos \in Committed(q)' \ late'[q] :
                          Usable(At(pos))' =>
                              \/ WindowKey(q, pos)' \in DOMAIN windows'[q]
                              \/ Closed(q, WindowKey(q, pos)'[2], watermark'[q])
  BY DEF WindowsExact, Closed, WindowEnd
<1>0. q \in Queries
  BY JobAssumption
<1>1. ASSUME UNCHANGED <<committed[q], watermark[q], late[q], windows[q]>>
      PROVE  /\ \A k \in DOMAIN windows'[q] :
                   windows'[q][k].events = Cardinality(Counted(q, k)')
             /\ \A pos \in Committed(q)' \ late'[q] :
                   Usable(At(pos))' =>
                       \/ WindowKey(q, pos)' \in DOMAIN windows'[q]
                       \/ Closed(q, WindowKey(q, pos)'[2], watermark'[q])
  <2>1. Committed(q)' = Committed(q)
    BY <1>1 DEF Committed, Positions, NoOffsets
  <2>2. \A pos \in Committed(q) : At(pos)' = At(pos) /\ WindowKey(q, pos)' = WindowKey(q, pos)
    BY <1>0, CommittedKept DEF WindowKey, WindowOf
  <2>3. \A k : Counted(q, k)' = Counted(q, k)
    BY <1>1, <2>1, <2>2 DEF Counted, Usable
  <2> QED BY <1>1, <2>1, <2>2, <2>3 DEF WindowsExact, Usable
<1>2. CASE CommitBatch(q)
  <2>1. /\ windows'[q] = WindowsAfter(q) /\ watermark'[q] = wal[q].evict
        /\ late'[q] = late[q] \cup LateIn(q) /\ wal[q] # NoBatch
    BY <1>0, <1>2, CommitExtends DEF CommitBatch, Shape, Rows
  <2> DEFINE keys == DOMAIN windows[q] \cup EmittedKeys(q)
  <2>2. /\ DOMAIN windows'[q] = {k \in keys : ~Closed(q, k[2], wal[q].evict)}
        /\ \A k \in DOMAIN windows'[q] :
              windows'[q][k] = IF k \in EmittedKeys(q) THEN WindowAfter(q, k) ELSE windows[q][k]
    BY <2>1 DEF WindowsAfter
  <2>3. ASSUME NEW k \in DOMAIN windows'[q]
        PROVE  windows'[q][k].events = Cardinality(Counted(q, k)')
    <3>1. CASE k \in EmittedKeys(q)
      BY <1>2, <2>1, <2>2, <2>3, <3>1, WindowAfterCounts, CountedAfter
    <3>2. CASE k \notin EmittedKeys(q)
      <4>1. k \in DOMAIN windows[q] /\ windows'[q][k] = windows[q][k]
        BY <2>2, <2>3, <3>2
      <4>2. Counted(q, k)' = Counted(q, k)
        BY <1>2, <3>2, CountedAfter
      <4> QED BY <4>1, <4>2 DEF WindowsExact
    <3> QED BY <3>1, <3>2
  <2>4. ASSUME NEW pos \in Committed(q)' \ late'[q], Usable(At(pos))'
        PROVE  \/ WindowKey(q, pos)' \in DOMAIN windows'[q]
               \/ Closed(q, WindowKey(q, pos)'[2], watermark'[q])
    <3>1. /\ At(pos)' = At(pos) /\ WindowKey(q, pos)' = WindowKey(q, pos) /\ Usable(At(pos))
          /\ pos \in Committed(q) \/ pos \in Positions(committed[q], wal[q].end)
      BY <1>0, <1>2, <2>4, CommitExtends DEF Usable
    <3>2. CASE WindowKey(q, pos) \in keys
      BY <2>1, <2>2, <3>1, <3>2
    <3>3. CASE Closed(q, WindowKey(q, pos)[2], watermark[q])
      <4>2. At(pos).ts \in Nat
        BY <1>0, <2>1, <3>1, CommittedKept, BatchKept DEF Record
      <4>3. WindowEnd(q, WindowKey(q, pos)[2]) \in Nat
        BY <4>2, WindowEnds DEF WindowKey
      <4>1. watermark[q] \in Nat /\ wal[q].evict \in Nat /\ watermark[q] <= wal[q].evict
        BY <1>0, <2>1 DEF MarksOK
      <4> QED BY <2>1, <3>1, <3>3, <4>1, <4>3 DEF Closed
    <3>4. CASE pos \in Committed(q)
      BY <2>1, <2>4, <3>1, <3>2, <3>3, <3>4 DEF WindowsExact
    <3>5. CASE pos \in Positions(committed[q], wal[q].end)
      <4>1. pos \in Batch(q) \ LateIn(q)
        BY <2>1, <2>4, <3>1, <3>5 DEF Batch
      <4> QED BY <3>2, <4>1 DEF EmittedKeys
    <3> QED BY <3>1, <3>4, <3>5
  <2> QED BY <2>3, <2>4
<1>3. CASE PlanBatch(q) \/ RunBatch(q) \/ \E k \in todo[q] : WriteRow(q, k)
  BY <1>1, <1>3 DEF PlanBatch, RunBatch, WriteRow, checkpoint
<1> QED BY <1>0, <1>1, <1>2, <1>3, QueryStep DEF Quiet

\* What a batch makes of a window is settled when it is planned.
LEMMA WindowAfterKept ==
    ASSUME Shape, [Next]_vars, NEW q \in Queries, wal[q] # NoBatch,
           UNCHANGED <<committed[q], wal[q], watermark[q], late[q], windows[q]>>, NEW k
    PROVE  WindowAfter(q, k).events' = WindowAfter(q, k).events
<1>1. InWindow(q, k)' = InWindow(q, k)
  BY CountedKept
<1>2. WindowBefore(q, k)' = WindowBefore(q, k)
  BY DEF WindowBefore
<1> QED BY <1>1, <1>2 DEF WindowAfter

LEMMA RowsExactStep ==
    ASSUME Shape, Rows, BatchWritten, LateIsSeen, WindowsExact, RowsExact, [Next]_vars
    PROVE  RowsExact'
<1> SUFFICES ASSUME NEW q \in Windowed
             PROVE  /\ \A k \in DOMAIN table'[q] :
                          \/ table'[q][k].events = Cardinality(Counted(q, k)')
                          \/ wal'[q] # NoBatch /\ k \in EmittedKeys(q)'
                    /\ ran'[q] => \A k \in EmittedKeys(q)' \ todo'[q] :
                          /\ k \in DOMAIN table'[q]
                          /\ table'[q][k].events = WindowAfter(q, k).events'
  BY DEF RowsExact
<1>0. q \in Queries
  BY JobAssumption
<1>1. CASE Quiet(q)
  <2>1. \A k : Counted(q, k)' = Counted(q, k)
    BY <1>0, <1>1, CountedKept DEF Quiet
  <2>2. wal[q] # NoBatch => /\ EmittedKeys(q)' = EmittedKeys(q)
                            /\ \A k : WindowAfter(q, k).events' = WindowAfter(q, k).events
    BY <1>0, <1>1, Unmoved, WindowAfterKept DEF Quiet
  <2>3. ran[q] => wal[q] # NoBatch
    BY <1>0 DEF Shape
  <2> QED BY <1>1, <2>1, <2>2, <2>3 DEF Quiet, RowsExact
<1>2. CASE PlanBatch(q)
  <2>1. /\ UNCHANGED <<log, committed, late, table, ran>> /\ wal[q] = NoBatch /\ ~ran[q]
    BY <1>0, <1>2 DEF PlanBatch, kafka, memory, cassandra, Shape
  <2>2. \A k : Counted(q, k)' = Counted(q, k)
    BY <2>1 DEF Counted, Committed, Positions, NoOffsets, Usable, At, WindowKey, WindowOf
  <2> QED BY <2>1, <2>2 DEF RowsExact
<1>3. CASE RunBatch(q)
  <2>1. /\ UNCHANGED <<committed, wal, watermark, late, windows, table>> /\ wal[q] # NoBatch
        /\ todo'[q] = EmittedKeys(q)
    BY <1>0, <1>3 DEF RunBatch, checkpoint, cassandra, Shape
  <2>2. EmittedKeys(q)' = EmittedKeys(q) /\ \A k : Counted(q, k)' = Counted(q, k)
    BY <1>0, <2>1, Unmoved, CountedKept
  <2> QED BY <2>1, <2>2 DEF RowsExact
<1>4. ASSUME NEW w \in todo[q], WriteRow(q, w)
      PROVE  /\ \A k \in DOMAIN table'[q] :
                   \/ table'[q][k].events = Cardinality(Counted(q, k)')
                   \/ wal'[q] # NoBatch /\ k \in EmittedKeys(q)'
             /\ ran'[q] => \A k \in EmittedKeys(q)' \ todo'[q] :
                   /\ k \in DOMAIN table'[q]
                   /\ table'[q][k].events = WindowAfter(q, k).events'
  <2>1. /\ UNCHANGED <<committed, wal, watermark, late, windows>>
        /\ ran[q] /\ wal[q] # NoBatch /\ w \in EmittedKeys(q)
    BY <1>0, <1>4 DEF WriteRow, checkpoint, Shape, BatchWritten
  <2>2. /\ DOMAIN table'[q] = DOMAIN table[q] \cup {w}
        /\ \A k \in DOMAIN table'[q] :
              table'[q][k] = IF k = w THEN WindowAfter(q, w) ELSE table[q][k]
        /\ todo'[q] = todo[q] \ {w}
    BY <1>0, <1>4 DEF WriteRow, Upsert, RowOf, Shape
  <2>3. /\ EmittedKeys(q)' = EmittedKeys(q)
        /\ \A k : Counted(q, k)' = Counted(q, k)
        /\ \A k : WindowAfter(q, k).events' = WindowAfter(q, k).events
    BY <1>0, <2>1, Unmoved, CountedKept, WindowAfterKept
  <2>4. ASSUME NEW k \in DOMAIN table'[q]
        PROVE  \/ table'[q][k].events = Cardinality(Counted(q, k)')
               \/ wal'[q] # NoBatch /\ k \in EmittedKeys(q)'
    BY <2>1, <2>2, <2>3 DEF RowsExact
  <2>5. ASSUME NEW k \in EmittedKeys(q) \ (todo[q] \ {w})
        PROVE  k \in DOMAIN table'[q] /\ table'[q][k].events = WindowAfter(q, k).events
    <3>1. CASE k = w
      BY <2>2, <3>1
    <3>2. CASE k # w
      <4>1. k \in DOMAIN table[q] /\ table[q][k].events = WindowAfter(q, k).events
        BY <2>1, <2>5, <3>2 DEF RowsExact
      <4> QED BY <2>2, <3>2, <4>1
    <3> QED BY <3>1, <3>2
  <2> QED BY <2>2, <2>3, <2>4, <2>5
<1>5. CASE CommitBatch(q)
  <2>1. table' = table /\ ran'[q] = FALSE /\ ran[q] /\ todo[q] = {} /\ wal[q] # NoBatch
    BY <1>0, <1>5, CommitExtends DEF CommitBatch, cassandra, Shape
  <2>2. ASSUME NEW k \in DOMAIN table[q]
        PROVE  table[q][k].events = Cardinality(Counted(q, k)')
    <3>1. CASE k \in EmittedKeys(q)
      <4>1. table[q][k].events = WindowAfter(q, k).events
        BY <2>1, <3>1 DEF RowsExact
      <4> QED BY <1>5, <2>1, <3>1, <4>1, WindowAfterCounts, CountedAfter
    <3>2. CASE k \notin EmittedKeys(q)
      BY <1>5, <3>2, CountedAfter DEF RowsExact
    <3> QED BY <3>1, <3>2
  <2> QED BY <2>1, <2>2
<1> QED BY <1>0, <1>1, <1>2, <1>3, <1>4, <1>5, QueryStep

\* Counts are exact whatever is replayed: between batches, event_count of a row
\* is the number of the committed records of its window that were not late, for
\* any windows, delays, partitions and crashes (agg_query.py, cassandra_sink.py).
THEOREM CountsHold == Spec => []CountsExact
<1> DEFINE Inv == /\ IInv /\ Rows /\ LogOK /\ MarksOK
                  /\ LateIsSeen /\ WindowsExact /\ RowsExact
<1>1. Init => Inv
  BY InitIInv, RowsInit, LogInit, MarksInit, DelayInit, CountsInit
<1>2. Inv /\ [Next]_vars => Inv'
  BY StepIInv, RowsStep, LogStep, MarksStep, LateSeenStep, WindowsStep, RowsExactStep
  DEF IInv
<1>3. Inv => CountsExact
  BY DEF CountsExact, RowsExact, Counted
<1> QED BY <1>1, <1>2, <1>3, PTL DEF Spec

-----------------------------------------------------------------------------
(* Passes of the anomaly rule *)

LEMMA NatSet ==
    ASSUME NEW S \in SUBSET Nat, 0 \in S, \A n \in S : n + 1 \in S
    PROVE  S = Nat
<1> SUFFICES ASSUME Nat \ S # {} PROVE FALSE
  OBVIOUS
<1>1. PICK m \in Nat \ S : \A n \in Nat \ S : m <= n
  BY LeastNat
<1>2. m # 0
  OBVIOUS
<1>3. m - 1 \in Nat
  BY <1>2
<1>4. m - 1 \in S
  BY <1>1, <1>3
<1>5. (m - 1) + 1 \in S
  BY <1>4
<1> QED BY <1>5

LEMMA NatFrom ==
    ASSUME NEW a \in Nat, NEW S, a \in S, \A n \in Nat : a <= n /\ n \in S => n + 1 \in S
    PROVE  \A n \in Nat : a <= n => n \in S
<1> DEFINE T == {n \in Nat : a <= n => n \in S}
<1>1. 0 \in T
  BY DEF T
<1>2. \A n \in T : n + 1 \in T
  BY DEF T
<1>3. T = Nat
  <2> HIDE DEF T
  <2>1. T \in SUBSET Nat
    BY DEF T
  <2> QED BY <1>1, <1>2, <2>1, NatSet
<1> QED BY <1>3

\* The records of L folded from .. to, and what one record does.
FoldIn(r, d, e) == IF Usable(r) /\ r.dev = d THEN Fold(e, r.val) ELSE e

PassOver(L, d, from, to, e) ==
    LET pass[i \in from .. to] == IF i = from THEN e ELSE FoldIn(L[i], d, pass[i - 1])
    IN  pass[to]

LEMMA EwmaPassIs ==
    ASSUME NEW d, NEW from, NEW to, NEW e
    PROVE  /\ EwmaPass(d, from, to, e) = PassOver(log[PartitionOf[d]], d, from, to, e)
           /\ EwmaPass(d, from, to, e)' = PassOver(log'[PartitionOf[d]], d, from, to, e)
<1>1. EwmaPass(d, from, to, e) = PassOver(log[PartitionOf[d]], d, from, to, e)
  BY DEF EwmaPass, PassOver, FoldIn
<1>2. EwmaPass(d, from, to, e)' = PassOver(log'[PartitionOf[d]], d, from, to, e)
  BY DEF EwmaPass, PassOver, FoldIn
<1> QED BY <1>1, <1>2

IsPass(f, L, d, from, to, e) ==
    f = [i \in from .. to |-> IF i = from THEN e ELSE FoldIn(L[i], d, f[i - 1])]

LEMMA PassExists ==
    ASSUME NEW L, NEW d, NEW e, NEW from \in Nat, NEW n \in Nat
    PROVE  \E f : IsPass(f, L, d, from, from + n, e)
<1> DEFINE S == {m \in Nat : \E f : IsPass(f, L, d, from, from + m, e)}
<1>1. 0 \in S
  <2>1. IsPass([i \in from .. from |-> e], L, d, from, from, e)
    BY DEF IsPass
  <2> QED BY <2>1
<1>2. ASSUME NEW m \in S PROVE m + 1 \in S
  <2>1. PICK f : IsPass(f, L, d, from, from + m, e)
    OBVIOUS
  <2> DEFINE top == from + (m + 1)
             g == [i \in from .. top |-> IF i = top THEN FoldIn(L[top], d, f[from + m]) ELSE f[i]]
  <2>2. \A i \in from .. top :
            g[i] = IF i = from THEN e ELSE FoldIn(L[i], d, g[i - 1])
    <3> SUFFICES ASSUME NEW i \in from .. top
                 PROVE  g[i] = IF i = from THEN e ELSE FoldIn(L[i], d, g[i - 1])
      OBVIOUS
    <3>0. \A j \in from .. from + m :
              f[j] = IF j = from THEN e ELSE FoldIn(L[j], d, f[j - 1])
      BY <2>1 DEF IsPass
    <3>1. CASE i = top
      <4>1. i # from /\ i - 1 = from + m /\ i - 1 \in from .. top /\ i - 1 # top
        BY <3>1
      <4> QED BY <3>1, <4>1
    <3>2. CASE i # top
      <4>1. i \in from .. from + m /\ (i # from => i - 1 \in from .. top /\ i - 1 # top)
        BY <3>2
      <4>2. g[i] = f[i] /\ (i # from => g[i - 1] = f[i - 1])
        BY <3>2, <4>1
      <4> QED BY <3>0, <4>1, <4>2
    <3> QED BY <3>1, <3>2
  <2>3. IsPass(g, L, d, from, top, e)
    BY <2>2 DEF IsPass
  <2> QED BY <2>3
<1>3. S = Nat
  <2> HIDE DEF S
  <2>1. S \in SUBSET Nat
    BY DEF S
  <2> QED BY <1>1, <1>2, <2>1, NatSet
<1> QED BY <1>3

\* Two passes agree as far as both go.
LEMMA PassesAgree ==
    ASSUME NEW L, NEW d, NEW e, NEW from \in Nat, NEW to \in Nat, NEW end \in Nat,
           NEW f, NEW g, IsPass(f, L, d, from, to, e), IsPass(g, L, d, from, end, e),
           NEW n \in Nat, from <= n, n <= to, n <= end
    PROVE  f[n] = g[n]
<1> DEFINE S == {m \in Nat : m <= n => f[m] = g[m]}
<1>0. /\ \A i \in from .. to : f[i] = IF i = from THEN e ELSE FoldIn(L[i], d, f[i - 1])
      /\ \A i \in from .. end : g[i] = IF i = from THEN e ELSE FoldIn(L[i], d, g[i - 1])
  BY DEF IsPass
<1>1. from \in S
  BY <1>0
<1>2. ASSUME NEW m \in Nat, from <= m, m \in S PROVE m + 1 \in S
  <2> SUFFICES ASSUME m + 1 <= n PROVE f[m + 1] = g[m + 1]
    OBVIOUS
  <2>1. /\ m + 1 \in from .. to /\ m + 1 \in from .. end /\ m + 1 # from
        /\ (m + 1) - 1 = m /\ m <= n
    BY <1>2
  <2>2. f[m] = g[m]
    BY <1>2, <2>1
  <2> QED BY <1>0, <2>1, <2>2
<1>3. n \in S
  <2> HIDE DEF S
  <2> QED BY <1>1, <1>2, NatFrom
<1> QED BY <1>3

LEMMA PassOverIs ==
    ASSUME NEW L, NEW d, NEW e, NEW from \in Nat, NEW to \in Nat, from <= to
    PROVE  \E f : IsPass(f, L, d, from, to, e) /\ PassOver(L, d, from, to, e) = f[to]
<1> DEFINE f == CHOOSE f : IsPass(f, L, d, from, to, e)
<1>1. IsPass(f, L, d, from, to, e)
  <2>1. to - from \in Nat /\ from + (to - from) = to
    OBVIOUS
  <2>2. \E g : IsPass(g, L, d, from, from + (to - from), e)
    BY <2>1, PassExists
  <2> QED BY <2>1, <2>2
<1>2. PassOver(L, d, from, to, e) = f[to]
  BY DEF PassOver, IsPass
<1> QED BY <1>1, <1>2

\* The two equations that say all there is to say about a pass.
LEMMA PassStart ==
    ASSUME NEW L, NEW d, NEW e, NEW from \in Nat
    PROVE  PassOver(L, d, from, from, e) = e
<1>1. PICK f : IsPass(f, L, d, from, from, e) /\ PassOver(L, d, from, from, e) = f[from]
  <2>1. from + 0 = from
    OBVIOUS
  <2> QED BY <2>1, PassOverIs
<1> QED BY <1>1 DEF IsPass

LEMMA PassNext ==
    ASSUME NEW L, NEW d, NEW e, NEW from \in Nat, NEW n \in Nat, from <= n
    PROVE  PassOver(L, d, from, n + 1, e) = FoldIn(L[n + 1], d, PassOver(L, d, from, n, e))
<1>0. n + 1 \in Nat /\ from <= n + 1 /\ n <= n + 1 /\ n <= n
  OBVIOUS
<1>1. PICK f : IsPass(f, L, d, from, n, e) /\ PassOver(L, d, from, n, e) = f[n]
  BY PassOverIs
<1>2. PICK g : IsPass(g, L, d, from, n + 1, e) /\ PassOver(L, d, from, n + 1, e) = g[n + 1]
  BY <1>0, PassOverIs
<1>3. f[n] = g[n]
  BY <1>0, <1>1, <1>2, PassesAgree
<1>4. g[n + 1] = FoldIn(L[n + 1], d, g[n])
  <2>1. n + 1 \in from .. n + 1 /\ n + 1 # from /\ (n + 1) - 1 = n
    OBVIOUS
  <2>2. g[n + 1] = IF n + 1 = from THEN e ELSE FoldIn(L[n + 1], d, g[(n + 1) - 1])
    BY <1>2, <2>1 DEF IsPass
  <2> QED BY <2>1, <2>2
<1> QED BY <1>1, <1>2, <1>3, <1>4

\* A pass goes on where another has ended.
LEMMA PassCompose ==
    ASSUME NEW L, NEW d, NEW e, NEW a \in Nat, NEW b \in Nat, NEW c \in Nat, a <= b, b <= c
    PROVE  PassOver(L, d, b, c, PassOver(L, d, a, b, e)) = PassOver(L, d, a, c, e)
<1> DEFINE S == {n \in Nat : PassOver(L, d, b, n, PassOver(L, d, a, b, e))
                                 = PassOver(L, d, a, n, e)}
<1>1. b \in S
  BY PassStart
<1>2. ASSUME NEW n \in Nat, b <= n, n \in S PROVE n + 1 \in S
  <2>1. a <= n /\ n + 1 \in Nat
    BY <1>2
  <2>2. PassOver(L, d, b, n + 1, PassOver(L, d, a, b, e))
            = FoldIn(L[n + 1], d, PassOver(L, d, b, n, PassOver(L, d, a, b, e)))
    BY <1>2, PassNext
  <2>3. PassOver(L, d, a, n + 1, e) = FoldIn(L[n + 1], d, PassOver(L, d, a, n, e))
    BY <2>1, PassNext
  <2>4. PassOver(L, d, b, n, PassOver(L, d, a, b, e)) = PassOver(L, d, a, n, e)
    BY <1>2
  <2> QED BY <2>1, <2>2, <2>3, <2>4
<1>3. c \in S
  <2> HIDE DEF S
  <2> QED BY <1>1, <1>2, NatFrom
<1> QED BY <1>3

\* A pass depends only on the records it reads ...
LEMMA PassReads ==
    ASSUME NEW L, NEW M, NEW d, NEW e, NEW a \in Nat, NEW b \in Nat, a <= b,
           \A i \in a + 1 .. b : L[i] = M[i]
    PROVE  PassOver(L, d, a, b, e) = PassOver(M, d, a, b, e)
<1> DEFINE S == {n \in Nat : n <= b => PassOver(L, d, a, n, e) = PassOver(M, d, a, n, e)}
<1>1. a \in S
  BY PassStart
<1>2. ASSUME NEW n \in Nat, a <= n, n \in S PROVE n + 1 \in S
  <2> SUFFICES ASSUME n + 1 <= b
               PROVE  PassOver(L, d, a, n + 1, e) = PassOver(M, d, a, n + 1, e)
    OBVIOUS
  <2>1. n <= b /\ n + 1 \in a + 1 .. b
    BY <1>2
  <2>2. PassOver(L, d, a, n, e) = PassOver(M, d, a, n, e) /\ L[n + 1] = M[n + 1]
    BY <1>2, <2>1
  <2>3. PassOver(L, d, a, n + 1, e) = FoldIn(L[n + 1], d, PassOver(L, d, a, n, e))
    BY <1>2, PassNext
  <2>4. PassOver(M, d, a, n + 1, e) = FoldIn(M[n + 1], d, PassOver(M, d, a, n, e))
    BY <1>2, PassNext
  <2> QED BY <2>2, <2>3, <2>4
<1>3. b \in S
  <2> HIDE DEF S
  <2> QED BY <1>1, <1>2, NatFrom
<1> QED BY <1>3

\* ... and of these on those of its device.
LEMMA PassSkips ==
    ASSUME NEW L, NEW d, NEW e, NEW a \in Nat, NEW b \in Nat, a <= b,
           \A i \in a + 1 .. b : ~(Usable(L[i]) /\ L[i].dev = d)
    PROVE  PassOver(L, d, a, b, e) = e
<1> DEFINE S == {n \in Nat : n <= b => PassOver(L, d, a, n, e) = e}
<1>1. a \in S
  BY PassStart
<1>2. ASSUME NEW n \in Nat, a <= n, n \in S PROVE n + 1 \in S
  <2> SUFFICES ASSUME n + 1 <= b PROVE PassOver(L, d, a, n + 1, e) = e
    OBVIOUS
  <2>1. n <= b /\ n + 1 \in a + 1 .. b
    BY <1>2
  <2>2. PassOver(L, d, a, n, e) = e
    BY <1>2, <2>1
  <2>3. PassOver(L, d, a, n + 1, e) = FoldIn(L[n + 1], d, PassOver(L, d, a, n, e))
    BY <1>2, PassNext
  <2> QED BY <2>1, <2>2, <2>3 DEF FoldIn
<1>3. b \in S
  <2> HIDE DEF S
  <2> QED BY <1>1, <1>2, NatFrom
<1> QED BY <1>3

\* What a pass leaves is a state and not the mark of its absence: the variance
\* never falls below zero.
States == {e \in EwmaState : e.var >= 0}

LEMMA FoldIsState ==
    ASSUME NEW e \in States, NEW x \in Int
    PROVE  Fold(e, x) \in States
<1> DEFINE delta == x - e.mean
           sq == (delta * delta) \div AlphaInverse
<1>0. /\ e.mean \in Int /\ e.var \in Int /\ e.var >= 0
      /\ AlphaInverse \in Nat \ {0} /\ delta \in Int
  BY RuleAssumption DEF States, EwmaState
<1>1. \A n \in Int, m \in Nat \ {0} : n \div m \in Int /\ (n >= 0 => n \div m >= 0)
  OBVIOUS
<1>2. \A n \in Int : n * n \in Int /\ n * n >= 0
  OBVIOUS
<1>3. \A n \in Nat, m \in Nat : m * n \in Nat
  OBVIOUS
<1>4. delta \div AlphaInverse \in Int /\ sq \in Nat
  BY <1>0, <1>1, <1>2
<1>5. (AlphaInverse - 1) * (e.var + sq) \in Nat
  BY <1>0, <1>3, <1>4
<1>6. ((AlphaInverse - 1) * (e.var + sq)) \div AlphaInverse \in Nat
  BY <1>0, <1>1, <1>5
<1>7. e.mean + (delta \div AlphaInverse) \in Int
  BY <1>0, <1>4
<1> QED BY <1>6, <1>7 DEF Fold, States, EwmaState

LEMMA PassIsState ==
    ASSUME NEW L, NEW d, NEW e \in States, NEW a \in Nat, NEW b \in Nat, a <= b,
           \A i \in a + 1 .. b : L[i].val \in Int
    PROVE  PassOver(L, d, a, b, e) \in States
<1> DEFINE S == {n \in Nat : n <= b => PassOver(L, d, a, n, e) \in States}
<1>1. a \in S
  BY PassStart
<1>2. ASSUME NEW n \in Nat, a <= n, n \in S PROVE n + 1 \in S
  <2> SUFFICES ASSUME n + 1 <= b PROVE PassOver(L, d, a, n + 1, e) \in States
    OBVIOUS
  <2>1. n <= b /\ n + 1 \in a + 1 .. b
    BY <1>2
  <2>2. PassOver(L, d, a, n, e) \in States /\ L[n + 1].val \in Int
    BY <1>2, <2>1
  <2>3. PassOver(L, d, a, n + 1, e) = FoldIn(L[n + 1], d, PassOver(L, d, a, n, e))
    BY <1>2, PassNext
  <2> QED BY <2>2, <2>3, FoldIsState DEF FoldIn
<1>3. b \in S
  <2> HIDE DEF S
  <2> QED BY <1>1, <1>2, NatFrom
<1> QED BY <1>3

-----------------------------------------------------------------------------
(* Flags *)

\* The state of device d after the record at offset n, if it was seeded in s.
History(d, n, s) == EwmaPass(d, 0, n, SeedState(s))

\* Has q committed a record of d?
Seen(q, d) == \E pos \in Committed(q) : Usable(At(pos)) /\ At(pos).dev = d

StateFrom(q, d, s) ==
    ewma[q][d] = IF Seen(q, d) THEN History(d, committed[q][PartitionOf[d]], s) ELSE NoState

SeasonOK == season \in Seasons /\ seed \in Seasons

LEMMA SeasonInit == Init => SeasonOK
BY JobAssumption DEF Init, SeasonOK

LEMMA SeasonStep == SeasonOK /\ [Next]_vars => SeasonOK'
<1> SUFFICES ASSUME SeasonOK, [Next]_vars PROVE SeasonOK'
  OBVIOUS
<1>1. CASE NextSeason
  BY <1>1 DEF NextSeason, SeasonOK, memory
<1>2. CASE Boot
  BY <1>2 DEF Boot, WriteThresholds, ShiftSeed, Start, cassandra, SeasonOK, kafka
<1>3. ASSUME NEW d \in Devices, NEW v \in Values, NEW kind \in Kinds, Publish(d, v, kind)
      PROVE  SeasonOK'
  BY <1>3 DEF Publish, SeasonOK, memory
<1>4. ASSUME NEW q \in Queries,
             PlanBatch(q) \/ RunBatch(q) \/ EncoderFails(q) \/ CommitBatch(q)
      PROVE  SeasonOK'
  BY <1>4 DEF PlanBatch, RunBatch, EncoderFails, Stopped, CommitBatch, SeasonOK, kafka, memory
<1>5. ASSUME NEW q \in Queries, NEW k \in todo[q], WriteRow(q, k) PROVE SeasonOK'
  BY <1>5 DEF WriteRow, SeasonOK, kafka
<1>6. CASE Crash \/ UNCHANGED vars
  BY <1>6 DEF Crash, Stopped, vars, SeasonOK, kafka, memory
<1> QED BY <1>1, <1>2, <1>3, <1>4, <1>5, <1>6 DEF Next

LEMMA RecordAt ==
    ASSUME Shape, NEW p \in Partitions, NEW i \in Nat \ {0}, i <= Len(log[p])
    PROVE  log[p][i] \in Record /\ At(<<p, i>>) = log[p][i]
<1>1. log[p] \in Seq(Record) /\ i \in 1 .. Len(log[p])
  BY DEF Shape
<1> QED BY <1>1 DEF At

LEMMA HistoryKept ==
    ASSUME Shape, [Next]_vars, NEW d \in Devices, NEW n \in Nat, NEW s,
           n <= Len(log[PartitionOf[d]])
    PROVE  History(d, n, s)' = History(d, n, s)
<1> DEFINE p == PartitionOf[d]
<1>1. p \in Partitions /\ Len(log[p]) \in Nat /\ 0 <= n
  BY JobAssumption DEF Shape
<1>2. \A i \in 0 + 1 .. n : log'[p][i] = log[p][i]
  BY <1>1, LogGrows
<1>3. PassOver(log[p], d, 0, n, SeedState(s)) = PassOver(log'[p], d, 0, n, SeedState(s))
  BY <1>1, <1>2, PassReads
<1> QED BY <1>3, EwmaPassIs DEF History

LEMMA HistoryGoesOn ==
    ASSUME NEW d, NEW a \in Nat, NEW b \in Nat, a <= b, NEW s
    PROVE  EwmaPass(d, a, b, History(d, a, s)) = History(d, b, s)
<1>1. 0 <= a
  OBVIOUS
<1> QED BY <1>1, EwmaPassIs, PassCompose DEF History

LEMMA HistoryIsState ==
    ASSUME Shape, NEW d \in Devices, NEW n \in Nat, NEW s \in Seasons,
           n <= Len(log[PartitionOf[d]])
    PROVE  History(d, n, s) \in States /\ History(d, n, s) # NoState
<1> DEFINE p == PartitionOf[d]
<1>1. p \in Partitions /\ Len(log[p]) \in Nat /\ 0 <= n
  BY JobAssumption DEF Shape
<1>2. ASSUME NEW i \in 0 + 1 .. n PROVE log[p][i].val \in Int
  <2>1. i \in Nat \ {0} /\ i <= Len(log[p])
    BY <1>1
  <2> QED BY <1>1, <2>1, RecordAt DEF Record
<1>3. SeedState(s) \in States
  BY RuleAssumption DEF SeedState, States, EwmaState, Seasons
<1>4. PassOver(log[p], d, 0, n, SeedState(s)) \in States
  BY <1>1, <1>2, <1>3, PassIsState
<1>5. NoState \notin States
  BY DEF NoState, States, EwmaState
<1> QED BY <1>4, <1>5, EwmaPassIs DEF History

\* A device of which q has committed nothing is still at its seed.
LEMMA UnseenIsSeed ==
    ASSUME Shape, NEW q \in Queries, NEW d \in Devices, ~Seen(q, d), NEW s
    PROVE  History(d, committed[q][PartitionOf[d]], s) = SeedState(s)
<1> DEFINE p == PartitionOf[d]
           n == committed[q][p]
<1>1. p \in Partitions /\ n \in Nat /\ n <= Len(log[p]) /\ Len(log[p]) \in Nat /\ 0 <= n
  BY JobAssumption DEF Shape
<1>2. ASSUME NEW i \in 0 + 1 .. n PROVE ~(Usable(log[p][i]) /\ log[p][i].dev = d)
  <2>1. i \in NoOffsets[p] + 1 .. n
    BY <1>1 DEF NoOffsets
  <2>2. <<p, i>> \in Committed(q)
    BY <1>1, <2>1, InPositions DEF Committed
  <2>3. At(<<p, i>>) = log[p][i]
    BY DEF At
  <2> QED BY <2>2, <2>3 DEF Seen
<1>3. PassOver(log[p], d, 0, n, SeedState(s)) = SeedState(s)
  BY <1>1, <1>2, PassSkips
<1> QED BY <1>3, EwmaPassIs DEF History

\* A batch without a record of d leaves its history where it was.
LEMMA BatchSkips ==
    ASSUME Shape, NEW q \in Queries, wal[q] # NoBatch, NEW d \in Devices, NEW s,
           ~\E pos \in Batch(q) : At(pos).dev = d
    PROVE  History(d, wal[q].end[PartitionOf[d]], s) = History(d, committed[q][PartitionOf[d]], s)
<1> DEFINE p == PartitionOf[d]
           a == committed[q][p]
           b == wal[q].end[p]
<1>1. p \in Partitions /\ a \in Nat /\ b \in Nat /\ a <= b
  BY JobAssumption DEF Shape
<1>2. ASSUME NEW i \in a + 1 .. b PROVE ~(Usable(log[p][i]) /\ log[p][i].dev = d)
  <2>1. <<p, i>> \in Positions(committed[q], wal[q].end)
    BY <1>1, InPositions
  <2>2. At(<<p, i>>) = log[p][i]
    BY DEF At
  <2> QED BY <2>1, <2>2 DEF Batch
<1>3. PassOver(log[p], d, a, b, History(d, a, s)) = History(d, a, s)
  BY <1>1, <1>2, PassSkips
<1>4. EwmaPass(d, a, b, History(d, a, s)) = PassOver(log[p], d, a, b, History(d, a, s))
  BY EwmaPassIs
<1>5. EwmaPass(d, a, b, History(d, a, s)) = History(d, b, s)
  BY <1>1, HistoryGoesOn
<1> QED BY <1>3, <1>4, <1>5

\* The season that a device's history in q begins in: that of the state it has,
\* or the one the driver holds.
SeasonOf(q, d, s) == IF Seen(q, d) THEN s ELSE seed

\* Batching is invisible: with the state of the batches before it, a batch
\* judges and folds its records as a pass over the whole history does.
LEMMA BatchFollowsHistory ==
    ASSUME Shape, Rows, LogOK, SeasonOK, NEW q \in Queries, wal[q] # NoBatch,
           NEW d \in Devices, NEW s \in Seasons, StateFrom(q, d, s)
    PROVE  /\ SeasonOf(q, d, s) \in Seasons
           /\ \A pos \in Batch(q) : At(pos).dev = d =>
                 (IsAnomaly(q, pos) <=>
                     Flagged(History(d, pos[2] - 1, SeasonOf(q, d, s)), At(pos).val))
           /\ EwmaAfter(q)[d] =
                 IF Seen(q, d) \/ \E pos \in Batch(q) : At(pos).dev = d
                 THEN History(d, wal[q].end[PartitionOf[d]], SeasonOf(q, d, s)) ELSE NoState
<1> DEFINE p == PartitionOf[d]
           a == committed[q][p]
           b == wal[q].end[p]
           t == SeasonOf(q, d, s)
<1>1. p \in Partitions /\ a \in Nat /\ b \in Nat /\ a <= b /\ a <= Len(log[p]) /\ b <= Len(log[p])
  BY JobAssumption DEF Shape
<1>2. t \in Seasons
  BY DEF SeasonOf, SeasonOK
<1>3. StartState(q, d) = History(d, a, t)
  <2>1. CASE Seen(q, d)
    <3>1. ewma[q][d] = History(d, a, s) /\ t = s
      BY <2>1 DEF StateFrom, SeasonOf
    <3>2. History(d, a, s) # NoState
      BY <1>1, HistoryIsState
    <3> QED BY <3>1, <3>2 DEF StartState
  <2>2. CASE ~Seen(q, d)
    BY <2>2, UnseenIsSeed DEF StateFrom, SeasonOf, StartState
  <2> QED BY <2>1, <2>2
<1>4. ASSUME NEW pos \in Batch(q), At(pos).dev = d
      PROVE  IsAnomaly(q, pos) <=> Flagged(History(d, pos[2] - 1, t), At(pos).val)
  <2>1. PICK r \in Partitions : \E i \in committed[q][r] + 1 .. wal[q].end[r] : pos = <<r, i>>
    BY InPositions DEF Batch
  <2>2. PICK i \in committed[q][r] + 1 .. wal[q].end[r] : pos = <<r, i>>
    BY <2>1
  <2>3. i \in 1 .. Len(log[r]) /\ At(pos) = log[r][i]
    BY <2>2 DEF Shape, At
  <2>4. r = p
    BY <1>4, <2>3 DEF LogOK
  <2>5. pos[1] = p /\ pos[2] = i /\ i - 1 \in Nat /\ a <= i - 1
    BY <1>1, <2>2, <2>4
  <2>6. EwmaPass(d, a, i - 1, History(d, a, t)) = History(d, i - 1, t)
    BY <1>1, <2>5, HistoryGoesOn
  <2> QED BY <1>3, <1>4, <2>5, <2>6 DEF IsAnomaly
<1>5. EwmaAfter(q)[d] = IF Seen(q, d) \/ \E pos \in Batch(q) : At(pos).dev = d
                        THEN History(d, b, t) ELSE NoState
  <2>1. CASE \E pos \in Batch(q) : At(pos).dev = d
    <3>1. EwmaAfter(q)[d] = EwmaPass(d, a, b, StartState(q, d))
      BY <2>1 DEF EwmaAfter
    <3> QED BY <1>1, <1>3, <2>1, <3>1, HistoryGoesOn
  <2>2. CASE ~\E pos \in Batch(q) : At(pos).dev = d
    <3>1. EwmaAfter(q)[d] = ewma[q][d]
      BY <2>2 DEF EwmaAfter
    <3>2. History(d, b, t) = History(d, a, t)
      BY <2>2, BatchSkips
    <3> QED BY <2>2, <3>1, <3>2 DEF StateFrom, SeasonOf
  <2> QED BY <2>1, <2>2
<1> QED BY <1>2, <1>4, <1>5

\* What is seen, and from which state, in a step that leaves q's offsets alone.
LEMMA StateKept ==
    ASSUME Shape, [Next]_vars, NEW q \in Queries, UNCHANGED <<committed[q], ewma[q]>>,
           NEW d \in Devices, NEW s
    PROVE  /\ Seen(q, d)' <=> Seen(q, d)
           /\ StateFrom(q, d, s)' <=> StateFrom(q, d, s)
<1>1. Committed(q)' = Committed(q)
  BY DEF Committed, Positions, NoOffsets
<1>2. Seen(q, d)' <=> Seen(q, d)
  BY <1>1, CommittedKept DEF Seen, Usable
<1>3. committed[q][PartitionOf[d]] \in Nat
      /\ committed[q][PartitionOf[d]] <= Len(log[PartitionOf[d]])
  BY JobAssumption DEF Shape
<1>4. History(d, committed[q][PartitionOf[d]], s)' = History(d, committed[q][PartitionOf[d]], s)
  <2>1. PICK n : n = committed[q][PartitionOf[d]]
    OBVIOUS
  <2>2. n = committed'[q][PartitionOf[d]]
    BY <2>1
  <2>3. History(d, n, s)' = History(d, n, s)
    BY <1>3, <2>1, HistoryKept
  <2> QED BY <2>1, <2>2, <2>3
<1> QED BY <1>2, <1>4 DEF StateFrom

\* The same at a commit.
LEMMA StateAfter ==
    ASSUME Shape, Rows, LogOK, SeasonOK, NEW q \in Queries, CommitBatch(q), [Next]_vars,
           NEW d \in Devices, NEW s \in Seasons, StateFrom(q, d, s),
           NEW t, t = SeasonOf(q, d, s)
    PROVE  StateFrom(q, d, t)'
<1>1. /\ wal[q] # NoBatch /\ committed'[q] = wal[q].end /\ \A pos : At(pos)' = At(pos)
      /\ Committed(q)' = Committed(q) \cup Positions(committed[q], wal[q].end)
      /\ ewma'[q] = EwmaAfter(q) /\ log' = log
  BY CommitExtends DEF CommitBatch, Shape, Rows
<1>2. Seen(q, d)' <=> Seen(q, d) \/ \E pos \in Batch(q) : At(pos).dev = d
  BY <1>1 DEF Seen, Usable, Batch
<1>3. PICK n : n = committed'[q][PartitionOf[d]]
  OBVIOUS
<1>4. n \in Nat /\ n <= Len(log[PartitionOf[d]]) /\ n = wal[q].end[PartitionOf[d]]
  BY <1>1, <1>3, JobAssumption DEF Shape
<1>5. History(d, n, t)' = History(d, n, t)
  BY <1>4, HistoryKept
<1>6. EwmaAfter(q)[d] = IF Seen(q, d) \/ \E pos \in Batch(q) : At(pos).dev = d
                        THEN History(d, n, t) ELSE NoState
  BY <1>1, <1>4, BatchFollowsHistory
<1> QED BY <1>1, <1>2, <1>3, <1>5, <1>6 DEF StateFrom, NoState

\* Where a record lies that is committed, or in the batch.
LEMMA CommittedAt ==
    ASSUME Shape, LogOK, NEW q \in Queries, NEW pos \in Committed(q)
    PROVE  \E p \in Partitions, i \in Nat \ {0} :
               /\ pos = <<p, i>> /\ At(pos) = log[p][i] /\ At(pos).dev \in Devices
               /\ i <= Len(log[p]) /\ PartitionOf[At(pos).dev] = p
<1>1. PICK p \in Partitions : \E i \in NoOffsets[p] + 1 .. committed[q][p] : pos = <<p, i>>
  BY InPositions DEF Committed
<1>2. PICK i \in NoOffsets[p] + 1 .. committed[q][p] : pos = <<p, i>>
  BY <1>1
<1>3. i \in Nat \ {0} /\ i <= Len(log[p]) /\ i \in 1 .. Len(log[p])
  BY <1>2 DEF NoOffsets, Shape
<1>4. At(pos) = log[p][i] /\ log[p][i] \in Record
  BY <1>2, <1>3, RecordAt
<1> QED BY <1>2, <1>3, <1>4 DEF LogOK, Record

LEMMA BatchAt ==
    ASSUME Shape, LogOK, NEW q \in Queries, wal[q] # NoBatch, NEW pos \in Batch(q)
    PROVE  \E p \in Partitions, i \in Nat \ {0} :
               /\ pos = <<p, i>> /\ At(pos) = log[p][i] /\ At(pos).dev \in Devices
               /\ committed[q][p] <= i - 1 /\ i <= Len(log[p]) /\ PartitionOf[At(pos).dev] = p
<1>1. PICK p \in Partitions : \E i \in committed[q][p] + 1 .. wal[q].end[p] : pos = <<p, i>>
  BY InPositions DEF Batch
<1>2. PICK i \in committed[q][p] + 1 .. wal[q].end[p] : pos = <<p, i>>
  BY <1>1
<1>3. /\ i \in Nat \ {0} /\ i <= Len(log[p]) /\ i \in 1 .. Len(log[p])
      /\ committed[q][p] <= i - 1
  BY <1>2 DEF Shape
<1>4. At(pos) = log[p][i] /\ log[p][i] \in Record
  BY <1>2, <1>3, RecordAt
<1> QED BY <1>2, <1>3, <1>4 DEF LogOK, Record

\* The judgement of a batch's record is settled when the batch is planned, as
\* long as the driver that judges it is up.
LEMMA AnomalyKept ==
    ASSUME Shape, LogOK, [Next]_vars, NEW q \in Queries, wal[q] # NoBatch,
           UNCHANGED <<committed[q], ewma[q], seed>>, NEW pos \in Batch(q)
    PROVE  IsAnomaly(q, pos)' <=> IsAnomaly(q, pos)
<1>1. PICK p \in Partitions, i \in Nat \ {0} :
          /\ pos = <<p, i>> /\ At(pos) = log[p][i] /\ At(pos).dev \in Devices
          /\ committed[q][p] <= i - 1 /\ i <= Len(log[p]) /\ PartitionOf[At(pos).dev] = p
  BY BatchAt
<1>2. PICK d \in Devices, a \in Nat, n \in Nat,
          e \in {StartState(q, At(pos).dev)}, x \in {At(pos).val} :
          /\ d = At(pos).dev /\ a = committed[q][p] /\ n = i - 1 /\ e = StartState(q, d)
          /\ x = At(pos).val
  BY <1>1 DEF Shape
<1>3. At(pos)' = At(pos)
  BY BatchKept DEF Batch
<1>4. StartState(q, d)' = e /\ committed'[q][p] = a
  BY <1>2 DEF StartState
<1>0. log[p] \in Seq(Record) /\ Len(log[p]) \in Nat /\ n <= Len(log[p]) /\ a <= n
  BY <1>1, <1>2 DEF Shape
<1>5. ASSUME NEW j \in a + 1 .. n PROVE log'[p][j] = log[p][j]
  <2>1. j \in 1 .. Len(log[p])
    BY <1>0
  <2> QED BY <1>1, <2>1, LogGrows
<1>6. EwmaPass(d, a, n, e)' = EwmaPass(d, a, n, e)
  <2>0. PartitionOf[d] = p
    BY <1>1, <1>2
  <2>1. PassOver(log[p], d, a, n, e) = PassOver(log'[p], d, a, n, e)
    BY <1>0, <1>5, PassReads
  <2> QED BY <2>0, <2>1, EwmaPassIs
<1>7. IsAnomaly(q, pos) <=> Flagged(EwmaPass(d, a, n, e), x)
  BY <1>1, <1>2 DEF IsAnomaly
<1>8. IsAnomaly(q, pos)' <=> Flagged(EwmaPass(d, a, n, e)', x)
  BY <1>1, <1>2, <1>3, <1>4 DEF IsAnomaly, Flagged, Reason
<1> QED BY <1>6, <1>7, <1>8

\* The rows of a raw table: of committed records or of the batch, and those this
\* run of the batch has written carry its judgement.
RawRows ==
    \A q \in Queries \ Windowed :
        /\ \A pos \in DOMAIN table[q] :
              \/ pos \in Committed(q) /\ Usable(At(pos))
              \/ wal[q] # NoBatch /\ pos \in Batch(q)
        /\ ran[q] => \A pos \in Batch(q) \ todo[q] :
              /\ pos \in DOMAIN table[q]
              /\ table[q][pos].anomalies = 1 <=> IsAnomaly(q, pos)

\* Row pos of q is flagged as a history of its device from the season s would.
AsHistory(q, pos, s) ==
    table[q][pos].anomalies = 1
        <=> Flagged(History(At(pos).dev, pos[2] - 1, s), At(pos).val)

\* A device's state and the flags of its committed rows have one season in which
\* the whole history began.
OneHistory ==
    \A q \in Queries : \A d \in Devices : \E s \in Seasons :
        /\ StateFrom(q, d, s)
        /\ q \notin Windowed => \A pos \in DOMAIN table[q] \cap Committed(q) :
              At(pos).dev = d => AsHistory(q, pos, s)

LEMMA FlagsInit == Init => RawRows /\ OneHistory
<1> SUFFICES ASSUME Init PROVE RawRows /\ OneHistory
  OBVIOUS
<1>1. \A q \in Queries : table[q] = <<>> /\ ~ran[q] /\ \A d \in Devices : ewma[q][d] = NoState
  BY DEF Init
<1>2. ASSUME NEW q \in Queries, NEW pos \in Committed(q) PROVE FALSE
  <2>1. PICK p \in Partitions : \E i \in NoOffsets[p] + 1 .. committed[q][p] : pos = <<p, i>>
    BY InPositions DEF Committed
  <2> QED BY <2>1 DEF Init, NoOffsets
<1>3. \A q \in Queries, d \in Devices : ~Seen(q, d)
  BY <1>2 DEF Seen
<1>4. 1 \in Seasons
  BY JobAssumption
<1>5. RawRows
  BY <1>1 DEF RawRows
<1>6. OneHistory
  BY <1>1, <1>2, <1>3, <1>4 DEF OneHistory, StateFrom
<1> QED BY <1>5, <1>6

LEMMA RawRowsStep ==
    ASSUME Shape, Rows, LogOK, BatchWritten, RawRows, [Next]_vars
    PROVE  RawRows'
<1> SUFFICES ASSUME NEW q \in Queries \ Windowed
             PROVE  /\ \A pos \in DOMAIN table'[q] :
                          \/ pos \in Committed(q)' /\ Usable(At(pos))'
                          \/ wal'[q] # NoBatch /\ pos \in Batch(q)'
                    /\ ran'[q] => \A pos \in Batch(q)' \ todo'[q] :
                          /\ pos \in DOMAIN table'[q]
                          /\ table'[q][pos].anomalies = 1 <=> IsAnomaly(q, pos)'
  BY DEF RawRows
<1>0. \A pos \in Committed(q) : Usable(At(pos)) => Usable(At(pos))'
  BY CommittedKept DEF Usable
<1>1. CASE Quiet(q)
  <2>1. /\ Committed(q)' = Committed(q) /\ (ran[q] => wal[q] # NoBatch)
        /\ wal[q] # NoBatch => Batch(q)' = Batch(q)
    BY <1>1, Unmoved DEF Quiet, Shape
  <2>2. ASSUME ran'[q], NEW pos \in Batch(q)
        PROVE  IsAnomaly(q, pos)' <=> IsAnomaly(q, pos)
    <3>1. UNCHANGED <<committed[q], ewma[q], seed>> /\ wal[q] # NoBatch
      BY <1>1, <2>1, <2>2 DEF Quiet
    <3> QED BY <3>1, AnomalyKept
  <2>3. \A pos \in DOMAIN table'[q] :
            \/ pos \in Committed(q)' /\ Usable(At(pos))'
            \/ wal'[q] # NoBatch /\ pos \in Batch(q)'
    BY <1>0, <1>1, <2>1 DEF Quiet, RawRows
  <2>4. ASSUME ran'[q], NEW pos \in Batch(q)' \ todo'[q]
        PROVE  /\ pos \in DOMAIN table'[q]
               /\ table'[q][pos].anomalies = 1 <=> IsAnomaly(q, pos)'
    <3>1. /\ ran[q] /\ todo'[q] = todo[q] /\ table'[q] = table[q]
          /\ pos \in Batch(q) \ todo[q]
      BY <1>1, <2>1, <2>4 DEF Quiet
    <3> QED BY <2>2, <2>4, <3>1 DEF RawRows
  <2> QED BY <2>3, <2>4
<1>2. CASE PlanBatch(q)
  <2>1. /\ UNCHANGED <<log, committed, table, ran>> /\ wal[q] = NoBatch /\ ~ran[q]
    BY <1>2 DEF PlanBatch, kafka, memory, cassandra, Shape
  <2>2. Committed(q)' = Committed(q)
    BY <2>1 DEF Committed, Positions, NoOffsets
  <2> QED BY <1>0, <2>1, <2>2 DEF RawRows
<1>3. CASE RunBatch(q)
  <2>1. /\ UNCHANGED <<committed, wal, watermark, table>> /\ wal[q] # NoBatch
        /\ todo'[q] = Batch(q)
    BY <1>3 DEF RunBatch, checkpoint, cassandra, Shape, EmittedKeys
  <2>2. Batch(q)' = Batch(q) /\ Committed(q)' = Committed(q)
    BY <2>1, Unmoved
  <2> QED BY <1>0, <2>1, <2>2 DEF RawRows
<1>4. ASSUME NEW w \in todo[q], WriteRow(q, w)
      PROVE  /\ \A pos \in DOMAIN table'[q] :
                   \/ pos \in Committed(q)' /\ Usable(At(pos))'
                   \/ wal'[q] # NoBatch /\ pos \in Batch(q)'
             /\ ran'[q] => \A pos \in Batch(q)' \ todo'[q] :
                   /\ pos \in DOMAIN table'[q]
                   /\ table'[q][pos].anomalies = 1 <=> IsAnomaly(q, pos)'
  <2>1. /\ UNCHANGED <<committed, wal, watermark, ewma, seed, ran>>
        /\ ran[q] /\ wal[q] # NoBatch /\ w \in Batch(q)
    BY <1>4 DEF WriteRow, checkpoint, Shape, BatchWritten, EmittedKeys
  <2>2. /\ DOMAIN table'[q] = DOMAIN table[q] \cup {w}
        /\ \A pos \in DOMAIN table'[q] :
              table'[q][pos] = IF pos = w THEN RowOf(q, w) ELSE table[q][pos]
        /\ todo'[q] = todo[q] \ {w}
    BY <1>4 DEF WriteRow, Upsert, Shape
  <2>3. RowOf(q, w).anomalies = 1 <=> IsAnomaly(q, w)
    BY DEF RowOf
  <2>4. Batch(q)' = Batch(q) /\ Committed(q)' = Committed(q)
    BY <2>1, Unmoved
  <2>5. \A pos \in Batch(q) : IsAnomaly(q, pos)' <=> IsAnomaly(q, pos)
    BY <2>1, AnomalyKept
  <2>6. \A pos \in DOMAIN table'[q] :
            \/ pos \in Committed(q)' /\ Usable(At(pos))'
            \/ wal'[q] # NoBatch /\ pos \in Batch(q)'
    BY <1>0, <2>1, <2>2, <2>4 DEF RawRows
  <2>7. ASSUME NEW pos \in Batch(q) \ (todo[q] \ {w})
        PROVE  /\ pos \in DOMAIN table'[q]
               /\ table'[q][pos].anomalies = 1 <=> IsAnomaly(q, pos)
    <3>1. CASE pos = w
      BY <2>2, <2>3, <3>1
    <3>2. CASE pos # w
      <4>1. /\ pos \in DOMAIN table[q]
            /\ table[q][pos].anomalies = 1 <=> IsAnomaly(q, pos)
        BY <2>1, <2>7, <3>2 DEF RawRows
      <4> QED BY <2>2, <3>2, <4>1
    <3> QED BY <3>1, <3>2
  <2> QED BY <2>2, <2>4, <2>5, <2>6, <2>7
<1>5. CASE CommitBatch(q)
  <2>1. /\ table' = table /\ ran'[q] = FALSE /\ wal[q] # NoBatch
        /\ Committed(q)' = Committed(q) \cup Positions(committed[q], wal[q].end)
        /\ \A pos : At(pos)' = At(pos)
    BY <1>5, CommitExtends DEF CommitBatch, cassandra, Shape
  <2> QED BY <2>1 DEF RawRows, Batch, Usable
<1> QED BY <1>1, <1>2, <1>3, <1>4, <1>5, QueryStep

LEMMA AsHistoryKept ==
    ASSUME Shape, LogOK, [Next]_vars, NEW q \in Queries, NEW pos \in Committed(q), NEW s,
           table'[q][pos] = table[q][pos]
    PROVE  AsHistory(q, pos, s)' <=> AsHistory(q, pos, s)
<1>1. PICK p \in Partitions, i \in Nat \ {0} :
          /\ pos = <<p, i>> /\ At(pos) = log[p][i] /\ At(pos).dev \in Devices
          /\ i <= Len(log[p]) /\ PartitionOf[At(pos).dev] = p
  BY CommittedAt
<1>2. PICK d \in Devices, n \in Nat, x \in {At(pos).val} :
          d = At(pos).dev /\ n = i - 1 /\ x = At(pos).val
  BY <1>1
<1>3. At(pos)' = At(pos)
  BY CommittedKept
<1>4. History(d, n, s)' = History(d, n, s)
  <2>1. n <= Len(log[PartitionOf[d]])
    BY <1>1, <1>2 DEF Shape
  <2> QED BY <2>1, HistoryKept
<1>5. AsHistory(q, pos, s) <=> (table[q][pos].anomalies = 1 <=> Flagged(History(d, n, s), x))
  BY <1>1, <1>2 DEF AsHistory
<1>6. AsHistory(q, pos, s)'
          <=> (table'[q][pos].anomalies = 1 <=> Flagged(History(d, n, s)', x))
  BY <1>1, <1>2, <1>3 DEF AsHistory, Flagged, Reason
<1> QED BY <1>4, <1>5, <1>6

LEMMA OneHistoryStep ==
    ASSUME Shape, Rows, LogOK, SeasonOK, BatchWritten, RawRows, OneHistory, [Next]_vars
    PROVE  OneHistory'
<1> SUFFICES ASSUME NEW q \in Queries, NEW d \in Devices
             PROVE  \E s \in Seasons :
                        /\ StateFrom(q, d, s)'
                        /\ q \notin Windowed => \A pos \in DOMAIN table'[q] \cap Committed(q)' :
                              At(pos)'.dev = d => AsHistory(q, pos, s)'
  BY DEF OneHistory
<1>0. PICK s \in Seasons :
          /\ StateFrom(q, d, s)
          /\ q \notin Windowed => \A pos \in DOMAIN table[q] \cap Committed(q) :
                At(pos).dev = d => AsHistory(q, pos, s)
  BY DEF OneHistory
<1>1. ASSUME UNCHANGED <<committed[q], ewma[q]>>,
             q \notin Windowed => \A pos \in DOMAIN table'[q] \cap Committed(q) :
                 pos \in DOMAIN table[q] /\ table'[q][pos] = table[q][pos]
      PROVE  /\ StateFrom(q, d, s)'
             /\ q \notin Windowed => \A pos \in DOMAIN table'[q] \cap Committed(q)' :
                   At(pos)'.dev = d => AsHistory(q, pos, s)'
  <2>1. StateFrom(q, d, s)'
    BY <1>0, <1>1, StateKept
  <2>2. Committed(q)' = Committed(q)
    BY <1>1 DEF Committed, Positions, NoOffsets
  <2>3. ASSUME q \notin Windowed, NEW pos \in DOMAIN table'[q] \cap Committed(q), At(pos)'.dev = d
        PROVE  AsHistory(q, pos, s)'
    BY <1>0, <1>1, <2>3, CommittedKept, AsHistoryKept
  <2> QED BY <2>1, <2>2, <2>3
<1>2. CASE Quiet(q)
  BY <1>1, <1>2 DEF Quiet
<1>3. CASE PlanBatch(q)
  BY <1>1, <1>3 DEF PlanBatch, cassandra
<1>4. CASE RunBatch(q)
  BY <1>1, <1>4 DEF RunBatch, checkpoint, cassandra
<1>5. ASSUME NEW w \in todo[q], WriteRow(q, w)
      PROVE  /\ StateFrom(q, d, s)'
             /\ q \notin Windowed => \A pos \in DOMAIN table'[q] \cap Committed(q)' :
                   At(pos)'.dev = d => AsHistory(q, pos, s)'
  <2>1. UNCHANGED <<committed, ewma>> /\ wal[q] # NoBatch /\ ran[q]
    BY <1>5 DEF WriteRow, checkpoint, Shape
  <2>2. ASSUME q \notin Windowed PROVE w \notin Committed(q)
    <3>1. w \in Batch(q)
      BY <2>1, <2>2 DEF BatchWritten, EmittedKeys
    <3>2. PICK r \in Partitions, j \in Nat \ {0} : w = <<r, j>> /\ committed[q][r] <= j - 1
      BY <2>1, <3>1, BatchAt
    <3>3. ASSUME w \in Committed(q) PROVE FALSE
      <4>1. PICK p \in Partitions : \E i \in NoOffsets[p] + 1 .. committed[q][p] : w = <<p, i>>
        BY <3>3, InPositions DEF Committed
      <4>2. PICK i \in NoOffsets[p] + 1 .. committed[q][p] : w = <<p, i>>
        BY <4>1
      <4>3. p = r /\ i = j /\ committed[q][r] \in Nat
        BY <3>2, <4>2 DEF Shape
      <4> QED BY <3>2, <4>2, <4>3 DEF NoOffsets
    <3> QED BY <3>3
  <2>3. /\ DOMAIN table'[q] = DOMAIN table[q] \cup {w}
        /\ \A k \in DOMAIN table'[q] \ {w} : table'[q][k] = table[q][k]
    BY <1>5 DEF WriteRow, Upsert, Shape
  <2> QED BY <1>1, <2>1, <2>2, <2>3
<1>6. ASSUME CommitBatch(q)
      PROVE  \E t \in Seasons :
                 /\ StateFrom(q, d, t)'
                 /\ q \notin Windowed => \A pos \in DOMAIN table'[q] \cap Committed(q)' :
                       At(pos)'.dev = d => AsHistory(q, pos, t)'
  <2>1. /\ table' = table /\ log' = log /\ ran[q] /\ todo[q] = {} /\ wal[q] # NoBatch
        /\ Committed(q)' = Committed(q) \cup Positions(committed[q], wal[q].end)
        /\ \A pos : At(pos)' = At(pos)
    BY <1>6, CommitExtends DEF CommitBatch, cassandra
  <2>2. PICK t \in Seasons : t = SeasonOf(q, d, s)
    BY <1>0, <2>1, BatchFollowsHistory
  <2>3. StateFrom(q, d, t)'
    BY <1>0, <1>6, <2>2, StateAfter
  <2>4. ASSUME q \notin Windowed, NEW pos \in DOMAIN table[q], At(pos).dev = d
        PROVE  AsHistory(q, pos, t)'
    <3>1. CASE pos \in Committed(q) /\ Usable(At(pos))
      <4>1. t = s
        BY <2>2, <2>4, <3>1 DEF SeasonOf, Seen
      <4>2. AsHistory(q, pos, s)
        BY <1>0, <2>4, <3>1
      <4> QED BY <2>1, <3>1, <4>1, <4>2, AsHistoryKept
    <3>2. CASE pos \in Batch(q)
      <4>1. table[q][pos].anomalies = 1 <=> IsAnomaly(q, pos)
        BY <2>1, <2>4, <3>2 DEF RawRows
      <4>2. IsAnomaly(q, pos) <=> Flagged(History(d, pos[2] - 1, t), At(pos).val)
        BY <1>0, <2>1, <2>2, <2>4, <3>2, BatchFollowsHistory
      <4>3. PICK p \in Partitions, i \in Nat \ {0} :
                /\ pos = <<p, i>> /\ i <= Len(log[p]) /\ PartitionOf[d] = p
        BY <2>1, <2>4, <3>2, BatchAt
      <4>4. PICK n \in Nat, x \in {At(pos).val} : n = i - 1 /\ n = pos[2] - 1 /\ x = At(pos).val
        BY <4>3
      <4>5. History(d, n, t)' = History(d, n, t)
        <5>1. n <= Len(log[PartitionOf[d]])
          BY <4>3, <4>4 DEF Shape
        <5> QED BY <5>1, HistoryKept
      <4>6. AsHistory(q, pos, t)' <=> (table[q][pos].anomalies = 1 <=> Flagged(History(d, n, t)', x))
        BY <2>1, <2>4, <4>4 DEF AsHistory, Flagged, Reason
      <4> QED BY <4>1, <4>2, <4>4, <4>5, <4>6
    <3> QED BY <2>1, <2>4, <3>1, <3>2 DEF RawRows
  <2> QED BY <2>1, <2>3, <2>4
<1> QED BY <1>2, <1>3, <1>4, <1>5, <1>6, <1>1, QueryStep

\* Thresholds are written before the queries that need them start, and from
\* then on main() may die anywhere: the rows of its earlier lives have theirs.
ThresholdsOK == ThresholdsFirst /\ (up \/ boot # "nothing" => thresholds)

LEMMA ThresholdsInit == Init => ThresholdsOK
BY DEF Init, ThresholdsOK, ThresholdsFirst

LEMMA ThresholdsStep == Shape /\ ThresholdsOK /\ [Next]_vars => ThresholdsOK'
<1> SUFFICES ASSUME Shape, ThresholdsOK, [Next]_vars PROVE ThresholdsOK'
  OBVIOUS
<1> USE DEF ThresholdsOK, ThresholdsFirst
<1>1. ASSUME NEW q \in Queries, NEW k \in todo[q], WriteRow(q, k) PROVE ThresholdsOK'
  <2>1. up /\ thresholds' = thresholds /\ up' = up
    BY <1>1 DEF WriteRow, Shape
  <2> QED BY <2>1
<1>2. CASE Boot
  BY <1>2 DEF Boot, WriteThresholds, ShiftSeed, Start, cassandra
<1>3. ASSUME NEW q \in Queries,
             PlanBatch(q) \/ RunBatch(q) \/ EncoderFails(q) \/ CommitBatch(q)
      PROVE  ThresholdsOK'
  BY <1>3 DEF PlanBatch, RunBatch, EncoderFails, Stopped, CommitBatch, memory, cassandra
<1>4. ASSUME NEW d \in Devices, NEW v \in Values, NEW kind \in Kinds, Publish(d, v, kind)
      PROVE  ThresholdsOK'
  BY <1>4 DEF Publish, memory, cassandra
<1>5. CASE NextSeason \/ Crash \/ UNCHANGED vars
  BY <1>5 DEF NextSeason, Crash, Stopped, vars, memory, cassandra
<1> QED BY <1>1, <1>2, <1>3, <1>4, <1>5 DEF Next

\* Every flag in a raw table can be explained: whatever batches the records came
\* in and whatever was replayed after a crash in a later season, a device's rows
\* are flagged as one pass over all its records would flag them, begun from the
\* seed of one season; and its thresholds are there (anomaly_state.py, main.py:46).
THEOREM FlagsHold == Spec => []FlagsAreExplained
<1> DEFINE Inv == /\ IInv /\ Rows /\ LogOK /\ SeasonOK
                  /\ RawRows /\ OneHistory /\ ThresholdsOK
<1>1. Init => Inv
  BY InitIInv, RowsInit, LogInit, SeasonInit, FlagsInit, ThresholdsInit
<1>2. Inv /\ [Next]_vars => Inv'
  BY StepIInv, RowsStep, LogStep, SeasonStep, RawRowsStep, OneHistoryStep, ThresholdsStep
  DEF IInv
<1>3. Inv => FlagsAreExplained
  <2> SUFFICES ASSUME RawRows, OneHistory, ThresholdsOK,
                      NEW q \in Queries \ Windowed, wal[q] = NoBatch, NEW d \in Devices
               PROVE  \E s \in Seasons : \A pos \in DOMAIN table[q] : At(pos).dev = d =>
                          (table[q][pos].anomalies = 1 <=>
                             Flagged(EwmaPass(d, 0, pos[2] - 1, SeedState(s)), At(pos).val))
    BY DEF FlagsAreExplained, FlagsFollowHistory, ThresholdsOK
  <2>1. DOMAIN table[q] \subseteq Committed(q)
    BY DEF RawRows
  <2>2. PICK s \in Seasons : \A pos \in DOMAIN table[q] \cap Committed(q) :
            At(pos).dev = d => AsHistory(q, pos, s)
    BY DEF OneHistory
  <2> QED BY <2>1, <2>2 DEF AsHistory, History
<1> QED BY <1>1, <1>2, <1>3, PTL DEF Spec

-----------------------------------------------------------------------------
(* Counts of flags *)

\* The record at pos as the history of its device, seeded in season 1, judges it.
Judged(pos) == Flagged(History(At(pos).dev, pos[2] - 1, 1), At(pos).val)

\* The flagged records of window k: the committed ones, and those of the batch.
FlaggedIn(q, k)  == {pos \in Counted(q, k) : Judged(pos)}
NewFlagged(q, k) == {pos \in InWindow(q, k) : Judged(pos)}

\* WindowsExact and RowsExact, for anomaly_count.  Both sides are counted by
\* the log and not by the state, so that a restart does not disturb them.
FlagsExact ==
    \A q \in Windowed :
        /\ \A k \in DOMAIN windows[q] : windows[q][k].anomalies = Cardinality(FlaggedIn(q, k))
        /\ \A k \in DOMAIN table[q] :
              \/ table[q][k].anomalies = Cardinality(FlaggedIn(q, k))
              \/ wal[q] # NoBatch /\ k \in EmittedKeys(q)
        /\ ran[q] => \A k \in EmittedKeys(q) \ todo[q] :
              /\ k \in DOMAIN table[q]
              /\ table[q][k].anomalies
                     = Cardinality(FlaggedIn(q, k)) + Cardinality(NewFlagged(q, k))

LEMMA JudgedKept ==
    ASSUME Shape, LogOK, [Next]_vars, NEW q \in Queries
    PROVE  /\ \A pos \in Committed(q) : Judged(pos)' <=> Judged(pos)
           /\ wal[q] # NoBatch => \A pos \in Batch(q) : Judged(pos)' <=> Judged(pos)
<1>1. ASSUME NEW pos, NEW p \in Partitions, NEW i \in Nat \ {0},
             pos = <<p, i>>, At(pos).dev \in Devices, At(pos)' = At(pos),
             i <= Len(log[p]), PartitionOf[At(pos).dev] = p
      PROVE  Judged(pos)' <=> Judged(pos)
  <2>1. PICK d \in Devices, n \in Nat, x \in {At(pos).val} :
            d = At(pos).dev /\ n = i - 1 /\ x = At(pos).val
    BY <1>1
  <2>2. Len(log[p]) \in Nat
    BY DEF Shape
  <2>3. n <= Len(log[PartitionOf[d]])
    BY <1>1, <2>1, <2>2
  <2>4. History(d, n, 1)' = History(d, n, 1)
    BY <2>3, HistoryKept
  <2>5. Judged(pos) <=> Flagged(History(d, n, 1), x)
    BY <1>1, <2>1 DEF Judged
  <2>6. Judged(pos)' <=> Flagged(History(d, n, 1)', x)
    BY <1>1, <2>1 DEF Judged, Flagged, Reason
  <2> QED BY <2>4, <2>5, <2>6
<1>2. ASSUME NEW pos \in Committed(q) PROVE Judged(pos)' <=> Judged(pos)
  <2>1. PICK p \in Partitions, i \in Nat \ {0} :
            /\ pos = <<p, i>> /\ At(pos).dev \in Devices
            /\ i <= Len(log[p]) /\ PartitionOf[At(pos).dev] = p
    BY CommittedAt
  <2>2. At(pos)' = At(pos)
    BY CommittedKept
  <2> QED BY <1>1, <2>1, <2>2
<1>3. ASSUME wal[q] # NoBatch, NEW pos \in Batch(q) PROVE Judged(pos)' <=> Judged(pos)
  <2>1. PICK p \in Partitions, i \in Nat \ {0} :
            /\ pos = <<p, i>> /\ At(pos).dev \in Devices
            /\ i <= Len(log[p]) /\ PartitionOf[At(pos).dev] = p
    BY <1>3, BatchAt
  <2>2. At(pos)' = At(pos)
    BY <1>3, BatchKept DEF Batch
  <2> QED BY <1>1, <2>1, <2>2
<1> QED BY <1>2, <1>3

LEMMA FlaggedFinite ==
    ASSUME Shape, NEW q \in Queries, NEW k
    PROVE  /\ IsFiniteSet(FlaggedIn(q, k)) /\ Cardinality(FlaggedIn(q, k)) \in Nat
           /\ wal[q] # NoBatch =>
                 IsFiniteSet(NewFlagged(q, k)) /\ Cardinality(NewFlagged(q, k)) \in Nat
<1>1. FlaggedIn(q, k) \in SUBSET Counted(q, k) /\ NewFlagged(q, k) \in SUBSET InWindow(q, k)
  BY DEF FlaggedIn, NewFlagged
<1>2. IsFiniteSet(FlaggedIn(q, k))
  BY <1>1, CountedFinite, FS_Subset
<1>3. wal[q] # NoBatch => IsFiniteSet(NewFlagged(q, k))
  BY <1>1, CountedFinite, FS_Subset
<1> QED BY <1>2, <1>3, FS_CardinalityType

\* With one season there is one history, and a batch flags as it does.
LEMMA BatchJudges ==
    ASSUME Seasons = {1}, Shape, Rows, LogOK, SeasonOK, OneHistory,
           NEW q \in Queries, wal[q] # NoBatch, NEW pos \in Batch(q)
    PROVE  IsAnomaly(q, pos) <=> Judged(pos)
<1>1. At(pos).dev \in Devices
  BY BatchAt
<1>2. PICK d \in Devices : d = At(pos).dev
  BY <1>1
<1>3. PICK s \in Seasons : StateFrom(q, d, s)
  BY DEF OneHistory
<1>4. /\ SeasonOf(q, d, s) \in Seasons
      /\ IsAnomaly(q, pos) <=> Flagged(History(d, pos[2] - 1, SeasonOf(q, d, s)), At(pos).val)
  BY <1>2, <1>3, BatchFollowsHistory
<1>5. SeasonOf(q, d, s) = 1
  BY <1>4
<1> QED BY <1>2, <1>4, <1>5 DEF Judged

LEMMA FlagsAfter ==
    ASSUME Seasons = {1}, Shape, Rows, LogOK, SeasonOK, OneHistory, WindowsExact, FlagsExact,
           NEW q \in Windowed, wal[q] # NoBatch, NEW k \in EmittedKeys(q)
    PROVE  WindowAfter(q, k).anomalies
               = Cardinality(FlaggedIn(q, k)) + Cardinality(NewFlagged(q, k))
<1>0. q \in Queries
  BY JobAssumption
<1>1. ~Closed(q, k[2], watermark[q])
  <2>1. PICK pos \in Batch(q) \ LateIn(q) : k = WindowKey(q, pos)
    BY DEF EmittedKeys
  <2> QED BY <2>1 DEF LateIn, WindowKey
<1>2. WindowBefore(q, k).anomalies = Cardinality(FlaggedIn(q, k))
  <2>1. CASE k \in DOMAIN windows[q]
    BY <2>1 DEF FlagsExact, WindowBefore
  <2>2. CASE k \notin DOMAIN windows[q]
    <3>1. FlaggedIn(q, k) = {}
      BY <1>1, <2>2 DEF WindowsExact, Counted, FlaggedIn
    <3> QED BY <2>2, <3>1, FS_EmptySet DEF WindowBefore
  <2> QED BY <2>1, <2>2
<1>3. {pos \in InWindow(q, k) : IsAnomaly(q, pos)} = NewFlagged(q, k)
  <2>1. \A pos \in InWindow(q, k) : IsAnomaly(q, pos) <=> Judged(pos)
    BY <1>0, BatchJudges DEF InWindow
  <2> QED BY <2>1 DEF NewFlagged
<1> QED BY <1>2, <1>3 DEF WindowAfter

LEMMA FlaggedKept ==
    ASSUME Shape, LogOK, [Next]_vars, NEW q \in Queries,
           UNCHANGED <<committed[q], wal[q], watermark[q], late[q]>>, NEW k
    PROVE  /\ FlaggedIn(q, k)' = FlaggedIn(q, k)
           /\ wal[q] # NoBatch => NewFlagged(q, k)' = NewFlagged(q, k)
<1>1. Counted(q, k)' = Counted(q, k) /\ (wal[q] # NoBatch => InWindow(q, k)' = InWindow(q, k))
  BY CountedKept
<1>2. Counted(q, k) \subseteq Committed(q) /\ InWindow(q, k) \subseteq Batch(q)
  BY DEF Counted, InWindow
<1> QED BY <1>1, <1>2, JudgedKept DEF FlaggedIn, NewFlagged

LEMMA FlaggedAfter ==
    ASSUME Shape, LogOK, LateIsSeen, [Next]_vars, NEW q \in Windowed, CommitBatch(q), NEW k
    PROVE  /\ Cardinality(FlaggedIn(q, k)')
                  = Cardinality(FlaggedIn(q, k)) + Cardinality(NewFlagged(q, k))
           /\ k \notin EmittedKeys(q) => FlaggedIn(q, k)' = FlaggedIn(q, k)
<1>0. q \in Queries
  BY JobAssumption
<1>1. wal[q] # NoBatch
  BY <1>0, CommitExtends
<1>2. /\ Counted(q, k)' = Counted(q, k) \cup InWindow(q, k)
      /\ Counted(q, k) \cap InWindow(q, k) = {}
      /\ k \notin EmittedKeys(q) => Counted(q, k)' = Counted(q, k)
  BY CountedAfter
<1>3. Counted(q, k) \subseteq Committed(q) /\ InWindow(q, k) \subseteq Batch(q)
  BY DEF Counted, InWindow
<1>4. \A pos \in Counted(q, k) \cup InWindow(q, k) : Judged(pos)' <=> Judged(pos)
  BY <1>0, <1>1, <1>3, JudgedKept
<1>5. FlaggedIn(q, k)' = FlaggedIn(q, k) \cup NewFlagged(q, k)
  BY <1>2, <1>4 DEF FlaggedIn, NewFlagged
<1>6. FlaggedIn(q, k) \cap NewFlagged(q, k) = {}
  BY <1>2 DEF FlaggedIn, NewFlagged
<1>7. /\ IsFiniteSet(FlaggedIn(q, k)) /\ Cardinality(FlaggedIn(q, k)) \in Nat
      /\ IsFiniteSet(NewFlagged(q, k)) /\ Cardinality(NewFlagged(q, k)) \in Nat
  BY <1>0, <1>1, FlaggedFinite
<1>8. Cardinality(FlaggedIn(q, k) \cap NewFlagged(q, k)) = 0
  BY <1>6, FS_EmptySet
<1>9. Cardinality(FlaggedIn(q, k) \cup NewFlagged(q, k))
          = Cardinality(FlaggedIn(q, k)) + Cardinality(NewFlagged(q, k))
              - Cardinality(FlaggedIn(q, k) \cap NewFlagged(q, k))
  BY <1>7, FS_Union
<1>10. k \notin EmittedKeys(q) => FlaggedIn(q, k)' = FlaggedIn(q, k)
  BY <1>2, <1>4 DEF FlaggedIn
<1> QED BY <1>5, <1>7, <1>8, <1>9, <1>10

LEMMA FlagCountsInit == Init => FlagsExact
<1> SUFFICES ASSUME Init, NEW q \in Windowed
             PROVE  windows[q] = <<>> /\ table[q] = <<>> /\ ~ran[q]
  BY DEF FlagsExact
<1>1. q \in Queries
  BY JobAssumption
<1> QED BY <1>1 DEF Init

LEMMA FlagsExactStep ==
    ASSUME Seasons = {1}, Shape, Rows, LogOK, SeasonOK, BatchWritten, LateIsSeen, OneHistory,
           WindowsExact, FlagsExact, [Next]_vars
    PROVE  FlagsExact'
<1> SUFFICES ASSUME NEW q \in Windowed
             PROVE  /\ \A k \in DOMAIN windows'[q] :
                          windows'[q][k].anomalies = Cardinality(FlaggedIn(q, k)')
                    /\ \A k \in DOMAIN table'[q] :
                          \/ table'[q][k].anomalies = Cardinality(FlaggedIn(q, k)')
                          \/ wal'[q] # NoBatch /\ k \in EmittedKeys(q)'
                    /\ ran'[q] => \A k \in EmittedKeys(q)' \ todo'[q] :
                          /\ k \in DOMAIN table'[q]
                          /\ table'[q][k].anomalies
                                 = Cardinality(FlaggedIn(q, k)') + Cardinality(NewFlagged(q, k)')
  BY DEF FlagsExact
<1>0. q \in Queries
  BY JobAssumption
<1>1. CASE Quiet(q)
  <2>1. ran[q] => wal[q] # NoBatch
    BY <1>0 DEF Shape
  <2>2. wal[q] # NoBatch => EmittedKeys(q)' = EmittedKeys(q)
    BY <1>0, <1>1, Unmoved DEF Quiet
  <2>3. \A k : /\ FlaggedIn(q, k)' = FlaggedIn(q, k)
               /\ wal[q] # NoBatch => NewFlagged(q, k)' = NewFlagged(q, k)
    BY <1>0, <1>1, FlaggedKept DEF Quiet
  <2> QED BY <1>1, <2>1, <2>2, <2>3 DEF Quiet, FlagsExact
<1>2. CASE PlanBatch(q)
  <2>1. /\ UNCHANGED <<log, committed, late, table, ran, windows>> /\ wal[q] = NoBatch /\ ~ran[q]
    BY <1>0, <1>2 DEF PlanBatch, kafka, memory, cassandra, Shape
  <2>2. \A k : Counted(q, k)' = Counted(q, k) /\ Counted(q, k) \subseteq Committed(q)
    BY <2>1 DEF Counted, Committed, Positions, NoOffsets, Usable, At, WindowKey, WindowOf
  <2>3. \A k : FlaggedIn(q, k)' = FlaggedIn(q, k)
    BY <1>0, <2>2, JudgedKept DEF FlaggedIn
  <2> QED BY <2>1, <2>3 DEF FlagsExact
<1>3. CASE RunBatch(q)
  <2>1. /\ UNCHANGED <<committed, wal, watermark, late, windows, table>> /\ wal[q] # NoBatch
        /\ todo'[q] = EmittedKeys(q)
    BY <1>0, <1>3 DEF RunBatch, checkpoint, cassandra, Shape
  <2>2. EmittedKeys(q)' = EmittedKeys(q) /\ \A k : FlaggedIn(q, k)' = FlaggedIn(q, k)
    BY <1>0, <2>1, Unmoved, FlaggedKept
  <2> QED BY <2>1, <2>2 DEF FlagsExact
<1>4. ASSUME NEW w \in todo[q], WriteRow(q, w)
      PROVE  /\ windows'[q] = windows[q] /\ \A k : FlaggedIn(q, k)' = FlaggedIn(q, k)
             /\ \A k \in DOMAIN table'[q] :
                   \/ table'[q][k].anomalies = Cardinality(FlaggedIn(q, k))
                   \/ wal'[q] # NoBatch /\ k \in EmittedKeys(q)'
             /\ \A k \in EmittedKeys(q)' \ todo'[q] :
                   /\ k \in DOMAIN table'[q]
                   /\ table'[q][k].anomalies
                          = Cardinality(FlaggedIn(q, k)) + Cardinality(NewFlagged(q, k)')
  <2>1. /\ UNCHANGED <<committed, wal, watermark, late, windows>>
        /\ ran[q] /\ wal[q] # NoBatch /\ w \in EmittedKeys(q)
    BY <1>0, <1>4 DEF WriteRow, checkpoint, Shape, BatchWritten
  <2>2. /\ DOMAIN table'[q] = DOMAIN table[q] \cup {w}
        /\ \A k \in DOMAIN table'[q] :
              table'[q][k] = IF k = w THEN WindowAfter(q, w) ELSE table[q][k]
        /\ todo'[q] = todo[q] \ {w}
    BY <1>0, <1>4 DEF WriteRow, Upsert, RowOf, Shape
  <2>3. /\ EmittedKeys(q)' = EmittedKeys(q)
        /\ \A k : FlaggedIn(q, k)' = FlaggedIn(q, k) /\ NewFlagged(q, k)' = NewFlagged(q, k)
    BY <1>0, <2>1, Unmoved, FlaggedKept
  <2>4. ASSUME NEW k \in DOMAIN table'[q]
        PROVE  \/ table'[q][k].anomalies = Cardinality(FlaggedIn(q, k))
               \/ wal'[q] # NoBatch /\ k \in EmittedKeys(q)'
    BY <2>1, <2>2, <2>3 DEF FlagsExact
  <2>5. ASSUME NEW k \in EmittedKeys(q) \ (todo[q] \ {w})
        PROVE  /\ k \in DOMAIN table'[q]
               /\ table'[q][k].anomalies
                      = Cardinality(FlaggedIn(q, k)) + Cardinality(NewFlagged(q, k))
    <3>1. CASE k = w
      BY <2>1, <2>2, <3>1, FlagsAfter
    <3>2. CASE k # w
      <4>1. /\ k \in DOMAIN table[q]
            /\ table[q][k].anomalies
                   = Cardinality(FlaggedIn(q, k)) + Cardinality(NewFlagged(q, k))
        BY <2>1, <2>5, <3>2 DEF FlagsExact
      <4> QED BY <2>2, <3>2, <4>1
    <3> QED BY <3>1, <3>2
  <2> QED BY <2>1, <2>2, <2>3, <2>4, <2>5
<1>5. CASE CommitBatch(q)
  <2>1. /\ table' = table /\ ran'[q] = FALSE /\ ran[q] /\ todo[q] = {} /\ wal[q] # NoBatch
        /\ windows'[q] = WindowsAfter(q)
    BY <1>0, <1>5, CommitExtends DEF CommitBatch, cassandra, Shape, Rows
  <2>2. /\ DOMAIN windows'[q] \subseteq DOMAIN windows[q] \cup EmittedKeys(q)
        /\ \A k \in DOMAIN windows'[q] :
              windows'[q][k] = IF k \in EmittedKeys(q) THEN WindowAfter(q, k) ELSE windows[q][k]
    BY <2>1 DEF WindowsAfter
  <2>3. ASSUME NEW k \in DOMAIN windows'[q]
        PROVE  windows'[q][k].anomalies = Cardinality(FlaggedIn(q, k)')
    <3>1. CASE k \in EmittedKeys(q)
      BY <1>5, <2>1, <2>2, <2>3, <3>1, FlagsAfter, FlaggedAfter
    <3>2. CASE k \notin EmittedKeys(q)
      <4>1. k \in DOMAIN windows[q] /\ windows'[q][k] = windows[q][k]
        BY <2>2, <2>3, <3>2
      <4>2. FlaggedIn(q, k)' = FlaggedIn(q, k)
        BY <1>5, <3>2, FlaggedAfter
      <4> QED BY <4>1, <4>2 DEF FlagsExact
    <3> QED BY <3>1, <3>2
  <2>4. ASSUME NEW k \in DOMAIN table[q]
        PROVE  table[q][k].anomalies = Cardinality(FlaggedIn(q, k)')
    <3>1. CASE k \in EmittedKeys(q)
      <4>1. table[q][k].anomalies
                = Cardinality(FlaggedIn(q, k)) + Cardinality(NewFlagged(q, k))
        BY <2>1, <3>1 DEF FlagsExact
      <4> QED BY <1>5, <4>1, FlaggedAfter
    <3>2. CASE k \notin EmittedKeys(q)
      BY <1>5, <3>2, FlaggedAfter DEF FlagsExact
    <3> QED BY <3>1, <3>2
  <2> QED BY <2>1, <2>3, <2>4
<1>6. CASE \E w \in todo[q] : WriteRow(q, w)
  BY <1>4, <1>6 DEF FlagsExact
<1> QED BY <1>0, <1>1, <1>2, <1>3, <1>5, <1>6, QueryStep

\* The two kinds of table agree: in a job that is started in one season only,
\* anomaly_count of a window is the number of raw events of it that are flagged,
\* although each query keeps its own EWMA states, is batched in its own way and
\* is replayed at its own crashes (anomaly_state.py, agg_query.py).
THEOREM TablesHold == ASSUME Seasons = {1} PROVE Spec => []TablesAgree
<1> DEFINE Inv == /\ IInv /\ Rows /\ LogOK /\ MarksOK /\ SeasonOK
                  /\ LateIsSeen /\ WindowsExact
                  /\ RawRows /\ OneHistory /\ FlagsExact
<1>1. Init => Inv
  BY InitIInv, RowsInit, LogInit, MarksInit, SeasonInit, DelayInit, CountsInit, FlagsInit,
     FlagCountsInit
<1>2. Inv /\ [Next]_vars => Inv'
  <2> SUFFICES ASSUME Inv, [Next]_vars PROVE Inv'
    OBVIOUS
  <2>1. Shape /\ BatchWritten
    BY DEF IInv
  <2>2. IInv' /\ Rows' /\ LogOK' /\ MarksOK' /\ SeasonOK'
    BY <2>1, StepIInv, RowsStep, LogStep, MarksStep, SeasonStep
  <2>3. LateIsSeen' /\ WindowsExact'
    BY <2>1, LateSeenStep, WindowsStep
  <2>4. RawRows' /\ OneHistory'
    BY <2>1, RawRowsStep, OneHistoryStep
  <2>5. FlagsExact'
    BY <2>1, FlagsExactStep
  <2> QED BY <2>2, <2>3, <2>4, <2>5
<1>3. Inv => TablesAgree
  <2> SUFFICES ASSUME Inv, NEW r \in Queries \ Windowed, NEW q \in Windowed,
                      wal[r] = NoBatch, wal[q] = NoBatch, committed[r] = committed[q],
                      NEW k \in DOMAIN table[q]
               PROVE  table[q][k].anomalies =
                          Cardinality({pos \in DOMAIN table[r] \ late[q] :
                              WindowKey(q, pos) = k /\ table[r][pos].anomalies = 1})
    BY DEF TablesAgree
  <2>1. Shape /\ CommittedIsStored /\ q \in Queries
    BY JobAssumption DEF IInv
  <2>2. table[q][k].anomalies = Cardinality(FlaggedIn(q, k))
    BY DEF FlagsExact
  <2>3. Committed(r) = Committed(q)
    BY DEF Committed
  <2>4. DOMAIN table[r] = {pos \in Committed(q) : Usable(At(pos))}
    BY <2>1, <2>3 DEF RawRows, CommittedIsStored, Stored
  <2>5. ASSUME NEW pos \in DOMAIN table[r] PROVE table[r][pos].anomalies = 1 <=> Judged(pos)
    <3>0. pos \in Committed(r)
      BY <2>3, <2>4
    <3>1. At(pos).dev \in Devices
      BY <2>1, <3>0, CommittedAt
    <3>2. PICK d \in Devices : d = At(pos).dev
      BY <3>1
    <3>3. PICK s \in Seasons : \A at \in DOMAIN table[r] \cap Committed(r) :
              At(at).dev = d => AsHistory(r, at, s)
      BY DEF OneHistory
    <3>4. s = 1 /\ AsHistory(r, pos, s)
      BY <3>0, <3>2, <3>3
    <3> QED BY <3>4 DEF AsHistory, Judged
  <2>6. {pos \in DOMAIN table[r] \ late[q] : WindowKey(q, pos) = k /\ table[r][pos].anomalies = 1}
            = FlaggedIn(q, k)
    BY <2>4, <2>5 DEF FlaggedIn, Counted
  <2> QED BY <2>2, <2>6
<1> QED BY <1>1, <1>2, <1>3, PTL DEF Spec

-----------------------------------------------------------------------------
(* Types of the data *)

\* The history has no type of its own to keep for the states (OneHistory gives
\* it); the rest of DataTypes is inductive next to it.
RowTypes ==
    /\ crashes \in Nat
    /\ \A q \in Queries :
          /\ ewma[q] = [d \in Devices |-> ewma[q][d]]
          /\ \A k \in DOMAIN windows[q] : windows[q][k] \in Counts
          /\ DOMAIN table[q] \subseteq RowKeys(q)
          /\ \A k \in DOMAIN table[q] : table[q][k] \in Counts

LEMMA KeysAreTyped ==
    ASSUME Shape, LogOK, NEW q \in Queries, wal[q] # NoBatch
    PROVE  EmittedKeys(q) \subseteq RowKeys(q)
<1>1. CASE q \in Windowed
  <2> SUFFICES ASSUME NEW pos \in Batch(q) PROVE WindowKey(q, pos) \in Devices \X Nat
    BY <1>1 DEF EmittedKeys, RowKeys
  <2>1. At(pos).dev \in Devices
    BY BatchAt
  <2>2. PICK p \in Partitions, i \in Nat \ {0} : At(pos) = log[p][i] /\ i <= Len(log[p])
    BY BatchAt
  <2>3. At(pos).ts \in Nat
    BY <2>2, RecordAt DEF Record
  <2> QED BY <1>1, <2>1, <2>3, WindowEnds DEF WindowKey
<1>2. CASE q \notin Windowed
  BY <1>2, PositionsFinite DEF EmittedKeys, RowKeys
<1> QED BY <1>1, <1>2

LEMMA RowIsTyped ==
    ASSUME Shape, RowTypes, NEW q \in Queries, wal[q] # NoBatch, NEW k
    PROVE  WindowAfter(q, k) \in Counts /\ RowOf(q, k) \in Counts
<1> DEFINE hit == {pos \in InWindow(q, k) : IsAnomaly(q, pos)}
<1>1. hit \in SUBSET InWindow(q, k) /\ IsFiniteSet(InWindow(q, k))
      /\ Cardinality(InWindow(q, k)) \in Nat
  BY CountedFinite
<1>2. Cardinality(hit) \in Nat
  BY <1>1, FS_Subset, FS_CardinalityType
<1>3. WindowBefore(q, k) \in Counts
  BY DEF WindowBefore, RowTypes, Counts
<1>4. WindowAfter(q, k) \in Counts
  BY <1>1, <1>2, <1>3 DEF WindowAfter, Counts
<1> QED BY <1>4 DEF RowOf, Counts

LEMMA TypesInit == Init => RowTypes
BY DEF Init, RowTypes

LEMMA CrashesStep == crashes \in Nat /\ [Next]_vars => crashes' \in Nat
<1> SUFFICES ASSUME crashes \in Nat, [Next]_vars PROVE crashes' \in Nat
  OBVIOUS
<1>1. ASSUME NEW q \in Queries, NEW k \in todo[q], WriteRow(q, k) PROVE crashes' = crashes
  BY <1>1 DEF WriteRow
<1>2. ASSUME NEW q \in Queries,
             PlanBatch(q) \/ RunBatch(q) \/ EncoderFails(q) \/ CommitBatch(q)
      PROVE  crashes' = crashes
  BY <1>2 DEF PlanBatch, RunBatch, EncoderFails, CommitBatch
<1>3. ASSUME NEW d \in Devices, NEW v \in Values, NEW kind \in Kinds, Publish(d, v, kind)
      PROVE  crashes' = crashes
  BY <1>3 DEF Publish
<1>4. CASE NextSeason \/ Boot \/ UNCHANGED vars
  BY <1>4 DEF NextSeason, Boot, WriteThresholds, ShiftSeed, Start, cassandra, vars
<1>5. CASE Crash
  BY <1>5 DEF Crash
<1> QED BY <1>1, <1>2, <1>3, <1>4, <1>5 DEF Next

LEMMA TypesStep ==
    ASSUME Shape, Rows, LogOK, BatchWritten, RowTypes, [Next]_vars
    PROVE  RowTypes'
<1> SUFFICES ASSUME NEW q \in Queries
             PROVE  /\ ewma'[q] = [d \in Devices |-> ewma'[q][d]]
                    /\ \A k \in DOMAIN windows'[q] : windows'[q][k] \in Counts
                    /\ DOMAIN table'[q] \subseteq RowKeys(q)
                    /\ \A k \in DOMAIN table'[q] : table'[q][k] \in Counts
  BY CrashesStep DEF RowTypes, RowKeys, Counts
<1>1. CASE UNCHANGED <<ewma[q], windows[q], table[q]>>
  BY <1>1 DEF RowTypes
<1>2. CASE PlanBatch(q) \/ RunBatch(q)
  BY <1>1, <1>2 DEF PlanBatch, RunBatch, checkpoint, cassandra
<1>3. ASSUME NEW w \in todo[q], WriteRow(q, w)
      PROVE  /\ UNCHANGED <<ewma, windows>> /\ DOMAIN table'[q] \subseteq RowKeys(q)
             /\ \A k \in DOMAIN table'[q] : table'[q][k] \in Counts
  <2>1. ran[q] /\ wal[q] # NoBatch /\ w \in EmittedKeys(q) /\ UNCHANGED <<ewma, windows>>
    BY <1>3 DEF WriteRow, checkpoint, Shape, BatchWritten
  <2>2. /\ DOMAIN table'[q] = DOMAIN table[q] \cup {w}
        /\ \A k \in DOMAIN table'[q] :
              table'[q][k] = IF k = w THEN RowOf(q, w) ELSE table[q][k]
    BY <1>3 DEF WriteRow, Upsert, Shape
  <2>3. w \in RowKeys(q) /\ RowOf(q, w) \in Counts
    BY <2>1, KeysAreTyped, RowIsTyped
  <2> QED BY <2>1, <2>2, <2>3 DEF RowTypes
<1>4. CASE CommitBatch(q)
  <2>1. /\ wal[q] # NoBatch /\ table' = table
        /\ windows'[q] = WindowsAfter(q) /\ ewma'[q] = EwmaAfter(q)
    BY <1>4, CommitExtends DEF CommitBatch, cassandra, Shape, Rows
  <2>2. EwmaAfter(q) = [d \in Devices |-> EwmaAfter(q)[d]]
    BY DEF EwmaAfter
  <2>3. \A k \in DOMAIN WindowsAfter(q) : WindowsAfter(q)[k] \in Counts
    <3>1. \A k : WindowAfter(q, k) \in Counts
      BY <2>1, RowIsTyped
    <3> QED BY <3>1 DEF WindowsAfter, RowTypes
  <2> QED BY <2>1, <2>2, <2>3 DEF RowTypes
<1>5. CASE \E w \in todo[q] : WriteRow(q, w)
  BY <1>3, <1>5 DEF RowTypes
<1> QED BY <1>1, <1>2, <1>4, <1>5, QueryStep DEF Quiet

\* The job's state is well typed: offsets stay within the log, only rows of the
\* batch planned are pending, counts are natural numbers and every device's
\* EWMA state is a mean and a variance (agg_query.py, anomaly_state.py).
THEOREM TypeHolds == Spec => []TypeOK
<1> DEFINE Inv == /\ IInv /\ Rows /\ LogOK /\ MarksOK /\ SeasonOK
                  /\ RawRows /\ OneHistory /\ RowTypes /\ thresholds \in BOOLEAN
<1>1. Init => Inv
  <2> SUFFICES ASSUME Init PROVE Inv
    OBVIOUS
  <2>1. thresholds \in BOOLEAN
    BY DEF Init
  <2> QED BY <2>1, InitIInv, RowsInit, LogInit, MarksInit, SeasonInit, FlagsInit, TypesInit
<1>2. Inv /\ [Next]_vars => Inv'
  <2> SUFFICES ASSUME Inv, [Next]_vars PROVE Inv'
    OBVIOUS
  <2>1. Shape /\ BatchWritten
    BY DEF IInv
  <2>2. IInv' /\ Rows' /\ LogOK' /\ MarksOK' /\ SeasonOK'
    BY <2>1, StepIInv, RowsStep, LogStep, MarksStep, SeasonStep
  <2>3. RawRows' /\ OneHistory' /\ RowTypes'
    BY <2>1, RawRowsStep, OneHistoryStep, TypesStep
  <2>4. thresholds' \in BOOLEAN
    <3>1. thresholds' \in {thresholds, TRUE}
      BY DEF Next, vars, cassandra, Publish, NextSeason, Boot, WriteThresholds,
             ShiftSeed, Start, cassandra, PlanBatch, RunBatch,
             EncoderFails, WriteRow, CommitBatch, Crash, Stopped
    <3> QED BY <3>1, Zenon
  <2> QED BY <2>2, <2>3, <2>4
<1>3. Inv => TypeOK
  <2> SUFFICES ASSUME Inv PROVE TypeOK
    OBVIOUS
  <2>1. Shape
    BY DEF IInv
  <2>2. {crashes, season, seed} \subseteq Nat
    BY JobAssumption DEF RowTypes, SeasonOK
  <2>3. ASSUME NEW q \in Queries, NEW d \in Devices PROVE ewma[q][d] \in EwmaState
    <3>1. PICK s \in Seasons : StateFrom(q, d, s)
      BY DEF OneHistory
    <3>2. PICK n : n = committed[q][PartitionOf[d]]
      OBVIOUS
    <3>3. n \in Nat /\ n <= Len(log[PartitionOf[d]])
      BY <2>1, <3>2, JobAssumption DEF Shape
    <3>4. History(d, n, s) \in EwmaState
      BY <2>1, <3>3, HistoryIsState DEF States
    <3> QED BY <3>1, <3>2, <3>4 DEF StateFrom, NoState, EwmaState
  <2>4. ewma \in [Queries -> [Devices -> EwmaState]]
    <3>1. \A q \in Queries : ewma[q] \in [Devices -> EwmaState]
      BY <2>3 DEF RowTypes
    <3> QED BY <3>1 DEF Rows
  <2>5. DOMAIN windows = Queries /\ maxTs \in [Queries -> Nat] /\ watermark \in [Queries -> Nat]
    BY DEF Rows, MarksOK
  <2> QED BY <2>1, <2>2, <2>4, <2>5 DEF TypeOK, DataTypes, RowTypes
<1> QED BY <1>1, <1>2, <1>3, PTL DEF Spec
=============================================================================
