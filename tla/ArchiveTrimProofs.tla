--------------------------- MODULE ArchiveTrimProofs ---------------------------
(***************************************************************************)
(* Proofs about ArchiveTrim: what the default cutoff is, that only old     *)
(* rows are trimmed, and that no row is lost without one of four causes.   *)
(***************************************************************************)
EXTENDS ArchiveTrim, FiniteSetTheorems, TLAPS

\* What a request has left to do lies before its cutoff.
TargetsAreOld ==
    \A r \in Requests : \A p \in todo[r] : p[2] <= cutoff[r]

\* A row that is safe whatever a request that has not deleted yet does.
Safe(row) ==
    \/ row \in table
    \/ \E r \in Requests : \/ row \in archive[r] \cup buffer[r]
                           \/ pc[r] = "write" /\ row \in rows[r]

\* A row that none of the four causes has hit is safe, and a request about to
\* delete its partition holds it.
UnstruckAreSafe ==
    /\ \A row \in ever \ struck : Safe(row)
    /\ \A r \in Requests : \A row \in table \ struck :
          pc[r] = "delete" /\ row.part = part[r] => row \in rows[r]

\* A request that has not failed has all it exported, in memory or on disk.
TookIsHeld ==
    \A r \in Requests :
        pc[r] # "failed" => took[r] \subseteq archive[r] \cup buffer[r] \cup rows[r]

IInv == TypeOK /\ TargetsAreOld /\ UnstruckAreSafe /\ TookIsHeld

-----------------------------------------------------------------------------
(* The default cutoff *)

\* Every nonempty set of naturals has a least element: by the order of the
\* intervals that end at its elements.
LEMMA LeastNat ==
    ASSUME NEW T \in SUBSET Nat, T # {}
    PROVE  \E x \in T : \A y \in T : x <= y
<1> DEFINE Intervals == {0 .. x : x \in T}
<1>1. Intervals \subseteq FiniteSubsetsOf(Nat)
  <2>1. ASSUME NEW x \in T PROVE 0 .. x \in SUBSET Nat /\ IsFiniteSet(0 .. x)
        BY FS_Interval
  <2>2. QED  BY <2>1 DEF FiniteSubsetsOf
<1>2. Intervals # {}
      OBVIOUS
<1>3. PICK I \in Intervals : \A J \in Intervals : ~(<<J, I>> \in StrictSubsetOrdering(Nat))
      BY <1>1, <1>2, FS_StrictSubsetOrderingWellFounded, WFMin
<1>4. PICK x \in T : I = 0 .. x
      OBVIOUS
<1>5. ASSUME NEW y \in T, y < x PROVE FALSE
  <2>1. 0 .. y \subseteq 0 .. x /\ 0 .. y # 0 .. x
        BY <1>5
  <2>2. <<0 .. y, 0 .. x>> \in StrictSubsetOrdering(Nat)
        BY <2>1 DEF StrictSubsetOrdering
  <2>3. 0 .. y \in Intervals
        OBVIOUS
  <2>4. QED  BY <1>3, <1>4, <2>2, <2>3
<1>6. QED  BY <1>5

\* The list of partitions is finite.
LEMMA BucketsFinite ==
    ASSUME TypeOK
    PROVE  Buckets \subseteq Partition /\ IsFiniteSet(Buckets)
<1>1. Buckets \subseteq Partition
      BY DEF TypeOK, Buckets, Row
<1>2. IsFiniteSet(Bucket)
      BY ArchiveAssumption, FS_Interval DEF Bucket
<1>3. IsFiniteSet(Partition)
      BY <1>2, ArchiveAssumption, FS_Product DEF Partition
<1>4. QED  BY <1>1, <1>3, FS_Subset

\* cutoff_index of run_archive.
CutoffIndex ==
    LET tenth == (Cardinality(Buckets) \div 10) - 1
    IN  IF tenth < 0 THEN 0 ELSE tenth

\* buckets[cutoff_index] is there: some bucket start has at most cutoff_index
\* partitions before it and more than that up to it.
LEMMA DefaultCutoffIs ==
    ASSUME TypeOK, Buckets # {}
    PROVE  /\ DefaultCutoff \in Bucket
           /\ Cardinality({p \in Buckets : p[2] < DefaultCutoff}) <= CutoffIndex
           /\ CutoffIndex < Cardinality({p \in Buckets : p[2] <= DefaultCutoff})
<1> DEFINE Older(b) == Cardinality({p \in Buckets : p[2] < b})
           UpTo(b)  == Cardinality({p \in Buckets : p[2] <= b})
           Enough   == {b \in Bucket : CutoffIndex < UpTo(b)}
<1> USE ArchiveAssumption
<1>1. Cardinality(Buckets) \in Nat /\ Cardinality(Buckets) # 0
      BY BucketsFinite, FS_CardinalityType, FS_EmptySet
<1>2. CutoffIndex \in Nat /\ CutoffIndex < Cardinality(Buckets)
      BY <1>1 DEF CutoffIndex
<1>3. ASSUME NEW b PROVE UpTo(b) \in Nat /\ Older(b) \in Nat
      BY BucketsFinite, FS_Subset, FS_CardinalityType
<1>4. UpTo(MaxClock) = Cardinality(Buckets)
  <2>1. {p \in Buckets : p[2] <= MaxClock} = Buckets
        BY BucketsFinite DEF Partition, Bucket
  <2>2. QED  BY <2>1
<1>5. Older(0) = 0
  <2>1. {p \in Buckets : p[2] < 0} = {}
        BY BucketsFinite DEF Partition, Bucket
  <2>2. QED  BY <2>1, FS_EmptySet
<1>6. ASSUME NEW b \in Bucket, b # 0 PROVE b - 1 \in Bucket /\ Older(b) = UpTo(b - 1)
  <2>1. {p \in Buckets : p[2] < b} = {p \in Buckets : p[2] <= b - 1}
        BY BucketsFinite DEF Partition, Bucket
  <2>2. b - 1 \in Bucket
        BY <1>6 DEF Bucket
  <2>3. QED  BY <2>1, <2>2
<1>7. DefaultCutoff = CHOOSE c \in Bucket : Older(c) <= CutoffIndex /\ CutoffIndex < UpTo(c)
      BY DEF DefaultCutoff, CutoffIndex
<1> HIDE DEF Older, UpTo
<1>8. PICK b \in Enough : \A c \in Enough : b <= c
  <2>1. Enough \in SUBSET Nat
        BY DEF Bucket
  <2>2. MaxClock \in Enough
        BY <1>2, <1>4 DEF Bucket
  <2>3. QED  BY <2>1, <2>2, LeastNat
<1>9. Older(b) <= CutoffIndex
  <2>1. CASE b = 0
        BY <1>2, <1>5, <2>1
  <2>2. CASE b # 0
    <3>1. b - 1 \notin Enough
          BY <1>8, <2>2 DEF Bucket
    <3>2. QED  BY <1>2, <1>3, <1>6, <2>2, <3>1
  <2>3. QED  BY <2>1, <2>2
<1>10. DefaultCutoff \in Bucket /\ Older(DefaultCutoff) <= CutoffIndex /\ CutoffIndex < UpTo(DefaultCutoff)
      BY <1>7, <1>9
<1>11. QED  BY <1>10 DEF Older, UpTo

\* The default is the oldest tenth (archive.py:8): no more than a tenth of the
\* partitions are older than the default cutoff, and at least one is a target.
THEOREM DefaultIsATenth ==
    ASSUME TypeOK, Buckets # {}
    PROVE  /\ 10 * Cardinality({p \in Targets(DefaultCutoff) : p[2] < DefaultCutoff})
                 <= Cardinality(Buckets)
           /\ Targets(DefaultCutoff) # {}
<1>1. Cardinality(Buckets) \in Nat
      BY BucketsFinite, FS_CardinalityType
<1>2. {p \in Targets(DefaultCutoff) : p[2] < DefaultCutoff} = {p \in Buckets : p[2] < DefaultCutoff}
  <2>1. \A p \in Buckets : p[2] \in Int
        BY BucketsFinite DEF Partition, Bucket
  <2>2. DefaultCutoff \in Int
        BY DefaultCutoffIs DEF Bucket
  <2>3. QED  BY <2>1, <2>2 DEF Targets
<1>3. CutoffIndex \in Nat /\ 10 * CutoffIndex <= Cardinality(Buckets)
      BY <1>1 DEF CutoffIndex
<1>4. Cardinality({p \in Buckets : p[2] < DefaultCutoff}) \in Nat
      BY BucketsFinite, FS_Subset, FS_CardinalityType
<1>5. Cardinality({p \in Buckets : p[2] < DefaultCutoff}) <= CutoffIndex
      BY DefaultCutoffIs
<1>6. Targets(DefaultCutoff) # {}
  <2>1. CutoffIndex < Cardinality(Targets(DefaultCutoff))
        BY DefaultCutoffIs DEF Targets
  <2>2. QED  BY <1>3, <2>1, FS_EmptySet
<1>7. 10 * Cardinality({p \in Buckets : p[2] < DefaultCutoff}) <= Cardinality(Buckets)
      BY <1>1, <1>3, <1>4, <1>5
<1>8. QED  BY <1>2, <1>6, <1>7

-----------------------------------------------------------------------------
(* The invariant *)

LEMMA InitInvariant == Init => IInv
<1> SUFFICES ASSUME Init PROVE IInv
    OBVIOUS
<1> USE ArchiveAssumption DEF Init
<1>1. TypeOK
  <2>1. (CHOOSE p \in Partition : TRUE) \in Partition
    <3>1. PICK d \in Devices : TRUE
          OBVIOUS
    <3>2. 0 \in Bucket
          BY DEF Bucket
    <3>3. <<d, 0>> \in Partition
          BY <3>2 DEF Partition
    <3>4. QED  BY <3>3
  <2>2. part \in [Requests -> Partition]
        BY <2>1
  <2>3. crashes \in 0 .. MaxCrashes
        OBVIOUS
  <2>4. {rows, buffer, archive, took} \subseteq [Requests -> SUBSET Row]
        OBVIOUS
  <2>5. cutoff \in [Requests -> Int] /\ todo \in [Requests -> SUBSET Partition]
        OBVIOUS
  <2>6. QED  BY <2>2, <2>3, <2>4, <2>5 DEF TypeOK
<1>2. TargetsAreOld
      BY DEF TargetsAreOld
<1>3. UnstruckAreSafe /\ TookIsHeld
      BY DEF UnstruckAreSafe, Safe, TookIsHeld
<1>4. QED  BY <1>1, <1>2, <1>3 DEF IInv

\* The cutoff of a request is a time, given or the default.
LEMMA LimitIsInt ==
    ASSUME TypeOK, NEW c \in Cutoffs
    PROVE  (IF c = NoCutoff THEN DefaultCutoff ELSE clock - c) \in Int
<1>1. DefaultCutoff \in Int
  <2>1. CASE Buckets = {}
        BY <2>1 DEF DefaultCutoff, TypeOK, Bucket
  <2>2. CASE Buckets # {}
        BY <2>2, DefaultCutoffIs DEF Bucket
  <2>3. QED  BY <2>1, <2>2
<1>2. QED  BY <1>1, ArchiveAssumption DEF TypeOK, Bucket

LEMMA TargetsType ==
    ASSUME TypeOK, NEW limit
    PROVE  Targets(limit) \in SUBSET Partition /\ \A p \in Targets(limit) : p[2] <= limit
BY DEF TypeOK, Targets, Buckets, Row

\* Types; rows in memory belong to the target being exported.
LEMMA TypeStep == TypeOK /\ [Next]_vars => TypeOK'
<1> SUFFICES ASSUME TypeOK, [Next]_vars PROVE TypeOK'
    OBVIOUS
<1> USE ArchiveAssumption
<1> USE DEF TypeOK, Running, RowsOf, Bucket
<1>1. CASE \E row \in Row : Upsert(row)
      BY <1>1 DEF Upsert, Missed, request, history
<1>2. CASE Tick
      BY <1>2 DEF Tick, request, history
<1>3. CASE Crash
  <2>1. {rows, buffer, archive, took}' \subseteq [Requests -> SUBSET Row]
        BY <1>3 DEF Crash
  <2>2. crashes' \in 0 .. MaxCrashes
        BY <1>3 DEF Crash
  <2>6. struck' \subseteq Row
        BY <1>3 DEF Crash, InMemory
  <2>3. pc' \in [Requests -> {"idle", "next", "delete", "write", "done", "failed"}]
        BY <1>3 DEF Crash
  <2>4. \A r \in Requests : pc'[r] \notin {"delete", "write"} /\ rows'[r] = {} /\ buffer'[r] = {}
        BY <1>3 DEF Crash
  <2>5. QED  BY <1>3, <2>1, <2>2, <2>3, <2>4, <2>6 DEF Crash
<1>4. ASSUME NEW r \in Requests, Begin(r) \/ Proceed(r) \/ Flush(r) PROVE TypeOK'
  <2>1. CASE Begin(r)
        BY <2>1, LimitIsInt, TargetsType DEF Begin, history
  <2>2. CASE Select(r)
        BY <2>2 DEF Select, history
  <2>3. CASE Delete(r)
        BY <2>3 DEF Delete, history
  <2>4. CASE SelectFails(r) \/ DeleteFails(r) \/ WriteFails(r) \/ CloseFails(r)
        BY <2>4 DEF SelectFails, DeleteFails, WriteFails, CloseFails, Abort, history
  <2>5. CASE Write(r)
        BY <2>5 DEF Write, history
  <2>6. CASE Close(r)
        BY <2>6 DEF Close, history
  <2>7. CASE Flush(r)
        BY <2>7 DEF Flush, history
  <2>8. QED
        BY <1>4, <2>1, <2>2, <2>3, <2>4, <2>5, <2>6, <2>7 DEF Proceed
<1>5. CASE UNCHANGED vars
      BY <1>5 DEF vars, request, history
<1>6. QED  BY <1>1, <1>2, <1>3, <1>4, <1>5 DEF Next

\* The targets are chosen by the cutoff and only get fewer.
LEMMA TargetsStep == TypeOK /\ TargetsAreOld /\ [Next]_vars => TargetsAreOld'
<1> SUFFICES ASSUME TypeOK /\ TargetsAreOld, [Next]_vars PROVE TargetsAreOld'
    OBVIOUS
<1> USE DEF TypeOK, TargetsAreOld
<1>1. CASE \E row \in Row : Upsert(row)
      BY <1>1 DEF Upsert, Missed, request, history
<1>2. CASE Tick
      BY <1>2 DEF Tick, request, history
<1>3. CASE Crash
      BY <1>3 DEF Crash, InMemory, history
<1>4. ASSUME NEW r \in Requests, Begin(r) \/ Proceed(r) \/ Flush(r) PROVE TargetsAreOld'
  <2>1. CASE Begin(r)
        BY <2>1, LimitIsInt, TargetsType DEF Begin, history
  <2>2. CASE Select(r)
        BY <2>2 DEF Select, history
  <2>3. CASE Delete(r)
        BY <2>3 DEF Delete, history
  <2>4. CASE SelectFails(r) \/ DeleteFails(r) \/ WriteFails(r) \/ CloseFails(r)
        BY <2>4 DEF SelectFails, DeleteFails, WriteFails, CloseFails, Abort, history
  <2>5. CASE Write(r)
        BY <2>5 DEF Write, history
  <2>6. CASE Close(r)
        BY <2>6 DEF Close, history
  <2>7. CASE Flush(r)
        BY <2>7 DEF Flush, history
  <2>8. QED
        BY <1>4, <2>1, <2>2, <2>3, <2>4, <2>5, <2>6, <2>7 DEF Proceed
<1>5. CASE UNCHANGED vars
      BY <1>5 DEF vars, request, history
<1>6. QED  BY <1>1, <1>2, <1>3, <1>4, <1>5 DEF Next

\* What a request has exported moves from its memory to the buffer and on to
\* the disk, and is dropped on the way only by failing.
LEMMA TookStep == TypeOK /\ TookIsHeld /\ [Next]_vars => TookIsHeld'
<1> SUFFICES ASSUME TypeOK /\ TookIsHeld, [Next]_vars PROVE TookIsHeld'
    OBVIOUS
<1> USE DEF TypeOK, TookIsHeld, Running
<1>1. CASE \E row \in Row : Upsert(row)
      BY <1>1 DEF Upsert, Missed, request, history
<1>2. CASE Tick
      BY <1>2 DEF Tick, request, history
<1>3. CASE Crash
      BY <1>3 DEF Crash, InMemory, history
<1>4. ASSUME NEW r \in Requests, Begin(r) \/ Proceed(r) \/ Flush(r) PROVE TookIsHeld'
  <2>1. CASE Begin(r)
        BY <2>1 DEF Begin, history
  <2>2. CASE Select(r)
        BY <2>2 DEF Select, history
  <2>3. CASE Delete(r)
        BY <2>3 DEF Delete, history
  <2>4. CASE SelectFails(r) \/ DeleteFails(r) \/ WriteFails(r) \/ CloseFails(r)
        BY <2>4 DEF SelectFails, DeleteFails, WriteFails, CloseFails, Abort, history
  <2>5. CASE Write(r)
        BY <2>5 DEF Write, history
  <2>6. CASE Close(r)
        BY <2>6 DEF Close, history
  <2>7. CASE Flush(r)
        BY <2>7 DEF Flush, history
  <2>8. QED
        BY <1>4, <2>1, <2>2, <2>3, <2>4, <2>5, <2>6, <2>7 DEF Proceed
<1>5. CASE UNCHANGED vars
      BY <1>5 DEF vars, request, history
<1>6. QED  BY <1>1, <1>2, <1>3, <1>4, <1>5 DEF Next

\* Each step that takes a row away from one of the three places has put it in
\* another, or strikes it.
LEMMA SafeStep == TypeOK /\ UnstruckAreSafe /\ [Next]_vars => UnstruckAreSafe'
<1> SUFFICES ASSUME TypeOK /\ UnstruckAreSafe, [Next]_vars PROVE UnstruckAreSafe'
    OBVIOUS
<1> USE DEF TypeOK, UnstruckAreSafe, Safe, RowsOf, Running
<1>1. CASE \E row \in Row : Upsert(row)
      BY <1>1 DEF Upsert, Missed, request, history
<1>2. CASE Tick
      BY <1>2 DEF Tick, request, history
<1>3. CASE Crash
      BY <1>3 DEF Crash, InMemory, history
<1>4. ASSUME NEW r \in Requests, Begin(r) \/ Proceed(r) \/ Flush(r) PROVE UnstruckAreSafe'
  <2>1. CASE Begin(r)
        BY <2>1 DEF Begin, history
  <2>2. CASE Select(r)
        BY <2>2 DEF Select, history
  <2>3. CASE Delete(r)
        BY <2>3 DEF Delete, history
  <2>4. CASE SelectFails(r) \/ DeleteFails(r) \/ WriteFails(r) \/ CloseFails(r)
        BY <2>4 DEF SelectFails, DeleteFails, WriteFails, CloseFails, Abort, history
  <2>5. CASE Write(r)
        BY <2>5 DEF Write, history
  <2>6. CASE Close(r)
        BY <2>6 DEF Close, history
  <2>7. CASE Flush(r)
        BY <2>7 DEF Flush, history
  <2>8. QED
        BY <1>4, <2>1, <2>2, <2>3, <2>4, <2>5, <2>6, <2>7 DEF Proceed
<1>5. CASE UNCHANGED vars
      BY <1>5 DEF vars, request, history
<1>6. QED  BY <1>1, <1>2, <1>3, <1>4, <1>5 DEF Next

-----------------------------------------------------------------------------
(* Theorems *)

\* Every reachable state satisfies the inductive invariant.
THEOREM Invariant == Spec => []IInv
<1>1. IInv /\ [Next]_vars => IInv'
      BY TypeStep, TargetsStep, SafeStep, TookStep DEF IInv
<1>2. QED  BY InitInvariant, <1>1, PTL DEF Spec

\* Types; and rows are in memory only between SELECT and write, lines in the
\* buffer only while the request runs.
THEOREM TypeHolds == Spec => []TypeOK
<1>1. IInv => TypeOK
      BY DEF IInv
<1>2. QED  BY Invariant, <1>1, PTL

\* A row that was ever stored is lost only if one of four things hit that very
\* row, and a request that answers has in its file all it exported
\* (run_archive), for every number of requests, devices and crashes and
\* whatever fails.
THEOREM RowsHold == Spec => []RowsAreAccounted
<1>1. IInv => LossHasACause
      BY DEF IInv, UnstruckAreSafe, Safe, LossHasACause, Kept
<1>2. IInv => DoneIsOnDisk
      BY DEF IInv, TypeOK, TookIsHeld, DoneIsOnDisk, Running
<1>3. IInv => RowsAreAccounted
      BY <1>1, <1>2 DEF RowsAreAccounted
<1>4. QED  BY Invariant, <1>3, PTL

\* Only rows the cutoff covers leave Cassandra: the DELETE is of the partition
\* that was selected, and that is one of the targets.
THEOREM OnlyOldHolds == Spec => OnlyOldIsTrimmed
<1> DEFINE Old == \A row \in table \ table' :
                     \E r \in Requests : pc[r] = "delete" /\ row.part[2] <= cutoff[r]
<1>1. IInv /\ [Next]_vars => [Old]_vars
  <2> SUFFICES ASSUME TypeOK, TargetsAreOld, Next, NEW row \in table, row \notin table'
               PROVE  \E r \in Requests : pc[r] = "delete" /\ row.part[2] <= cutoff[r]
      BY DEF IInv
  <2>1. PICK r \in Requests : Delete(r) \/ DeleteFails(r)
        BY DEF Next, Proceed, Upsert, Tick, Crash, Begin, Select, SelectFails, Write,
               WriteFails, Close, CloseFails, Flush
  <2>2. pc[r] = "delete" /\ row.part = part[r]
        BY <2>1 DEF Delete, DeleteFails, RowsOf
  <2>3. part[r] \in todo[r]
        BY <2>2 DEF TypeOK
  <2>4. QED  BY <2>2, <2>3 DEF TargetsAreOld
<1>2. QED  BY Invariant, <1>1, PTL DEF Spec, OnlyOldIsTrimmed
=============================================================================
