-------------------------- MODULE HistoryProofs ---------------------------
(***************************************************************************)
(* Proofs about the derived history: of HistoryBackfill, that the Job      *)
(* keeps its record true (the inductive invariant IInv, and the safety and *)
(* action properties that follow from it); of Observations, what the       *)
(* reports, the log and the map say of the stored rows, from two           *)
(* invariants.  StoredInv: finitely many rows of the recorded calendar,    *)
(* aggregated, none later than the clock.  HistoryInv: each derived row is *)
(* derive's, and every device is judged by its own baseline.               *)
(*                                                                         *)
(* The reports' part rests on the calendar: each day is in one month of    *)
(* one year, an hour of UTC lies in one local day, and local days follow   *)
(* one another as instants do, because the clocks change at one o'clock.   *)
(***************************************************************************)
EXTENDS HistoryBackfill, Observations, FiniteSetTheorems, WellFoundedInduction, TLAPS

-----------------------------------------------------------------------------
(* The Job *)

\* The record of the meta row, as a set.
MetaRow == [deriv : Derivation, completed : BOOLEAN]

\* A row of history_backfill is not the absence of one.
LEMMA MetaRowExists ==
    ASSUME NEW d \in Derivation, NEW b \in BOOLEAN
    PROVE  [deriv |-> d, completed |-> b] # Absent
BY BackfillAssumption

\* Settled is a derivation: the recorded one if there is one.
LEMMA SettledType ==
    ASSUME TypeOK
    PROVE  /\ Settled \in Derivation
           /\ meta # Absent => Settled = meta.deriv
<1>1. CASE meta = Absent
      BY <1>1 DEF TypeOK, Settled, Derivation
<1>2. CASE meta # Absent
      BY <1>2 DEF TypeOK, Settled
<1>3. QED  BY <1>1, <1>2

LEMMA InitInvariant == Init => IInv
<1> SUFFICES ASSUME Init PROVE IInv
    OBVIOUS
<1> USE DEF Init
<1>1. TypeOK
      BY BackfillAssumption DEF TypeOK, Derivation, Ended
<1>2. Control
      BY BackfillAssumption DEF Control, Ended
<1>3. CompleteIsFilled
      BY DEF CompleteIsFilled, IsComplete
<1>4. OneHistory
      BY BackfillAssumption DEF OneHistory
<1>5. MatchIsTrue
      BY DEF MatchIsTrue, IsComplete
<1>6. QED  BY <1>1, <1>2, <1>3, <1>4, <1>5 DEF IInv

LEMMA TypeStep == IInv /\ [Next]_vars => TypeOK'
<1> SUFFICES ASSUME TypeOK, Control, [Next]_vars PROVE TypeOK'
    BY DEF IInv
<1> USE DEF TypeOK, Ended
<1> USE BackfillAssumption
<1>1. CASE Begin
      BY <1>1, SettledType DEF Begin, cassandra, volume, counters
<1>2. CASE Record
      BY <1>2 DEF Record, volume, attempt, counters
<1>3. CASE Derive
      BY <1>3 DEF Derive, cassandra, attempt, counters
<1>4. CASE OpenSidecar
      BY <1>4 DEF OpenSidecar, cassandra, attempt, counters
<1>5. CASE DumpSidecar
      BY <1>5 DEF DumpSidecar, cassandra, attempt, counters
<1>6. CASE ReadExisting
      BY <1>6 DEF ReadExisting, HoursOf, cassandra, volume, counters
<1>7. CASE \E h \in Hours : WriteHour(h)
      BY <1>7 DEF WriteHour, volume, counters
<1>8. CASE Complete
      BY <1>8 DEF Complete, Control, volume, attempt, counters
<1>9. CASE Crash
      BY <1>9 DEF Crash, Control, cassandra, volume, attempt
<1>10. CASE \E h \in Hours : SparkUpsert(h)
      BY <1>10 DEF SparkUpsert, volume, attempt, counters
<1>11. CASE Tick
      BY <1>11 DEF Tick, cassandra, volume, attempt, counters
<1>12. CASE Rerun
      BY <1>12 DEF Rerun, cassandra, volume, attempt
<1>13. CASE DropKeyspace
      BY <1>13 DEF DropKeyspace, volume, attempt
<1>14. CASE LoseCsv
      BY <1>14 DEF LoseCsv, cassandra, attempt, counters
<1>15. CASE UNCHANGED vars
      BY <1>15 DEF vars, cassandra, volume, attempt, counters
<1>16. QED
      BY <1>1, <1>2, <1>3, <1>4, <1>5, <1>6, <1>7, <1>8, <1>9, <1>10, <1>11,
         <1>12, <1>13, <1>14, <1>15 DEF Next, JobStep


LEMMA ControlStep == IInv /\ [Next]_vars => Control'
<1> SUFFICES ASSUME TypeOK, Control, OneHistory, [Next]_vars PROVE Control'
    BY DEF IInv
<1> USE DEF Control, Ended
<1> USE BackfillAssumption
<1>1. CASE Begin
      BY <1>1, SettledType DEF Begin, IsComplete, Settled, TypeOK, cassandra, volume, counters
<1>2. CASE Record
      BY <1>2, MetaRowExists DEF Record, TypeOK, IsComplete, volume, attempt, counters
<1>3. CASE Derive
      BY <1>3 DEF Derive, IsComplete, cassandra, attempt, counters
<1>4. CASE OpenSidecar
      BY <1>4 DEF OpenSidecar, IsComplete, cassandra, attempt, counters
<1>5. CASE DumpSidecar
      BY <1>5 DEF DumpSidecar, IsComplete, cassandra, attempt, counters
<1>6. CASE ReadExisting
      BY <1>6 DEF ReadExisting, HoursOf, IsComplete, cassandra, volume, counters
<1>7. CASE \E h \in Hours : WriteHour(h)
      BY <1>7 DEF WriteHour, TypeOK, HoursOf, IsComplete, volume, counters
<1>8. CASE Complete
      BY <1>8 DEF Complete, TypeOK, IsComplete, volume, attempt, counters
<1>9. CASE Crash
      BY <1>9 DEF Crash, TypeOK, cassandra, volume, attempt
<1>10. CASE \E h \in Hours : SparkUpsert(h)
      BY <1>10 DEF SparkUpsert, TypeOK, HoursOf, IsComplete, volume, attempt, counters
<1>11. CASE Tick
      BY <1>11 DEF Tick, HoursOf, IsComplete, cassandra, volume, attempt, counters
<1>12. CASE Rerun
      BY <1>12 DEF Rerun, TypeOK, cassandra, volume, attempt
<1>13. CASE DropKeyspace
      BY <1>13 DEF DropKeyspace, TypeOK, volume, attempt
<1>14. CASE LoseCsv
      BY <1>14 DEF LoseCsv, TypeOK, cassandra, attempt, counters
<1>15. CASE UNCHANGED vars
      BY <1>15 DEF vars, HoursOf, IsComplete, cassandra, volume, attempt, counters
<1>16. QED
      BY <1>1, <1>2, <1>3, <1>4, <1>5, <1>6, <1>7, <1>8, <1>9, <1>10, <1>11,
         <1>12, <1>13, <1>14, <1>15 DEF Next, JobStep

\* Hours are only ever filled, except by a drop that takes the record along;
\* and the record is marked complete when nothing is pending.
LEMMA FilledStep == IInv /\ [Next]_vars => CompleteIsFilled'
<1> SUFFICES ASSUME TypeOK, Control, CompleteIsFilled, [Next]_vars,
                    IsComplete', NEW h \in HoursOf(meta.deriv)'
             PROVE  agg'[h] # Absent
    BY DEF IInv, CompleteIsFilled
<1> USE DEF IsComplete
<1> USE BackfillAssumption
<1>0. h \in Hours
      BY DEF HoursOf
<1>1. CASE UNCHANGED <<agg, meta>>
      BY <1>1 DEF CompleteIsFilled, HoursOf
<1>2. CASE Record
      BY <1>2 DEF Record
<1>3. CASE \E g \in Hours : WriteHour(g)
  <2> PICK g \in Hours : WriteHour(g)
      BY <1>3
  <2>1. meta' = meta /\ agg' = [agg EXCEPT ![g] = deriv]
      BY DEF WriteHour
  <2>2. agg[h] # Absent
      BY <2>1 DEF CompleteIsFilled, HoursOf
  <2>3. deriv # Absent
      BY DEF TypeOK
  <2>4. QED  BY <1>0, <2>1, <2>2, <2>3 DEF TypeOK
<1>4. CASE Complete
  <2>1. meta' = [deriv |-> meta.deriv, completed |-> TRUE] /\ agg' = agg /\ pending = {} /\ pc = "write"
      BY <1>4 DEF Complete
  <2>2. meta \in [deriv : Derivation, completed : BOOLEAN] /\ deriv = meta.deriv
      BY <2>1 DEF Control, TypeOK
  <2>3. meta'.deriv = deriv
      BY <2>1, <2>2
  <2>4. h \in HoursOf(deriv)
      BY <2>3 DEF HoursOf
  <2>5. QED  BY <2>1, <2>4 DEF Control
<1>5. CASE \E g \in Hours : SparkUpsert(g)
  <2> PICK g \in Hours : SparkUpsert(g)
      BY <1>5
  <2>1. meta' = meta /\ agg' = [agg EXCEPT ![g] = Live]
      BY DEF SparkUpsert
  <2>2. agg[h] # Absent
      BY <2>1 DEF CompleteIsFilled, HoursOf
  <2>3. QED  BY <1>0, <2>1, <2>2 DEF TypeOK
<1>6. CASE DropKeyspace
      BY <1>6 DEF DropKeyspace
<1>7. QED
      BY <1>1, <1>2, <1>3, <1>4, <1>5, <1>6
      DEF Next, JobStep, vars, cassandra, Begin, Derive, OpenSidecar, DumpSidecar,
          ReadExisting, Crash, Tick, Rerun, LoseCsv

\* A derived row is written only while its derivation is on record, and the
\* record changes only by a drop that takes the rows along.
LEMMA HistoryStep == IInv /\ [Next]_vars => OneHistory'
<1> SUFFICES ASSUME TypeOK, Control, OneHistory, [Next]_vars,
                    NEW h \in Hours, agg'[h] \in Derivation
             PROVE  meta' # Absent /\ agg'[h] = meta'.deriv
    BY DEF IInv, OneHistory
<1> USE BackfillAssumption
<1>1. CASE UNCHANGED <<agg, meta>>
      BY <1>1 DEF OneHistory
<1>2. CASE Record
      BY <1>2, MetaRowExists DEF Record, OneHistory, Control, TypeOK
<1>3. CASE \E g \in Hours : WriteHour(g)
      BY <1>3 DEF WriteHour, OneHistory, Control, TypeOK
<1>4. CASE Complete
      BY <1>4, MetaRowExists DEF Complete, OneHistory, Control, TypeOK
<1>5. CASE \E g \in Hours : SparkUpsert(g)
      BY <1>5 DEF SparkUpsert, OneHistory, TypeOK
<1>6. CASE DropKeyspace
      BY <1>6 DEF DropKeyspace
<1>7. QED
      BY <1>1, <1>2, <1>3, <1>4, <1>5, <1>6
      DEF Next, JobStep, vars, cassandra, Begin, Derive, OpenSidecar, DumpSidecar,
          ReadExisting, Crash, Tick, Rerun, LoseCsv

\* The CSV is replaced before the sidecar is touched.
LEMMA MatchStep == IInv /\ [Next]_vars => MatchIsTrue'
<1> SUFFICES ASSUME TypeOK, Control, MatchIsTrue, [Next]_vars,
                    IsComplete', DerivedFileMatches(meta.deriv)'
             PROVE  csv' = meta'.deriv
    BY DEF IInv, MatchIsTrue
<1> USE DEF IsComplete, DerivedFileMatches
<1> USE BackfillAssumption
<1>1. CASE UNCHANGED <<csv, sidecar, meta>>
      BY <1>1 DEF MatchIsTrue
<1>2. CASE Record
      BY <1>2 DEF Record
<1>3. CASE Derive
      BY <1>3 DEF Derive, Control, cassandra
<1>4. CASE OpenSidecar
      BY <1>4 DEF OpenSidecar, Control, TypeOK, cassandra
<1>5. CASE DumpSidecar
      BY <1>5 DEF DumpSidecar, Control, cassandra
<1>6. CASE Complete
      BY <1>6 DEF Complete, Control, TypeOK, volume
<1>7. CASE DropKeyspace
      BY <1>7 DEF DropKeyspace
<1>8. CASE LoseCsv
      BY <1>8 DEF LoseCsv
<1>9. QED
      BY <1>1, <1>2, <1>3, <1>4, <1>5, <1>6, <1>7, <1>8
      DEF Next, JobStep, vars, cassandra, volume, Begin, ReadExisting, WriteHour,
          Crash, SparkUpsert, Tick, Rerun

\* Every reachable state satisfies the inductive invariant.
THEOREM Invariant == Spec => []IInv
<1>1. IInv /\ [Next]_vars => IInv'
      BY TypeStep, ControlStep, FilledStep, HistoryStep, MatchStep DEF IInv
<1>2. QED  BY InitInvariant, <1>1, PTL DEF Spec

\* A history recorded as complete has all its hours, and there is only one,
\* for every number of crashes, re-runs and drops (main).
THEOREM CompleteAndSingle == Spec => [](CompleteIsFilled /\ OneHistory)
<1>1. IInv => CompleteIsFilled /\ OneHistory
      BY DEF IInv
<1>2. QED  BY Invariant, <1>1, PTL

\* The check behind the "already complete" exit (derived_file_matches) is
\* right: a matching sidecar stands beside the CSV it describes.
THEOREM MatchHolds == Spec => []MatchIsTrue
<1>1. IInv => MatchIsTrue
      BY DEF IInv
<1>2. QED  BY Invariant, <1>1, PTL

\* What the record says is so: the three invariants together.
THEOREM RecordHolds == Spec => []RecordIsTrue
<1>1. IInv => RecordIsTrue
      BY DEF IInv, RecordIsTrue
<1>2. QED  BY Invariant, <1>1, PTL

\* An attempt succeeds only with the history complete and its file in place.
THEOREM SuccessHolds == Spec => SuccessIsEarned
<1> DEFINE Earned == pc # "succeeded" /\ pc' = "succeeded" =>
                        IsComplete' /\ DerivedFileMatches(meta.deriv)' /\ csv' = meta'.deriv
<1>1. IInv /\ [Next]_vars => [Earned]_vars
  <2> SUFFICES ASSUME TypeOK, Control, MatchIsTrue, Next,
                      pc # "succeeded", pc' = "succeeded"
               PROVE  IsComplete' /\ DerivedFileMatches(meta.deriv)' /\ csv' = meta'.deriv
      BY DEF IInv
  <2> USE DEF IsComplete, DerivedFileMatches
  <2> USE BackfillAssumption
  <2>1. CASE Begin
        BY <2>1, SettledType DEF Begin, MatchIsTrue, cassandra, volume
  <2>2. CASE DumpSidecar
        BY <2>2 DEF DumpSidecar, Control, TypeOK, cassandra
  <2>3. CASE Complete
    <3>1. meta' = [deriv |-> meta.deriv, completed |-> TRUE] /\ UNCHANGED <<csv, sidecar>> /\ pc = "write"
          BY <2>3 DEF Complete, volume
    <3>2. meta \in MetaRow /\ deriv = meta.deriv /\ csv = deriv /\ sidecar = deriv
          BY <3>1 DEF Control, TypeOK, MetaRow
    <3>3. meta' \in MetaRow /\ meta'.deriv = deriv /\ meta'.completed
          BY <3>1, <3>2 DEF MetaRow
    <3>4. meta' # Absent /\ csv # Absent
          BY <3>2, <3>3 DEF TypeOK, MetaRow
    <3>5. QED  BY <3>1, <3>2, <3>3, <3>4
  <2>4. QED
        BY <2>1, <2>2, <2>3
        DEF Next, JobStep, Record, Derive, OpenSidecar, ReadExisting, WriteHour,
            Crash, SparkUpsert, Tick, Rerun, DropKeyspace, LoseCsv, Ended
<1>2. QED  BY Invariant, <1>1, PTL DEF Spec, SuccessIsEarned

\* A complete history is left alone by every attempt of the Job.
THEOREM LeftAloneHolds == Spec => CompleteIsLeftAlone
<1> DEFINE Left == IsComplete /\ agg' # agg =>
                      (\E h \in Hours : SparkUpsert(h)) \/ DropKeyspace
<1>1. IInv /\ [Next]_vars => [Left]_vars
  <2> SUFFICES ASSUME Control, Next, IsComplete, agg' # agg
               PROVE  (\E h \in Hours : SparkUpsert(h)) \/ DropKeyspace
      BY DEF IInv
  <2> QED
      BY DEF Control, IsComplete, Next, JobStep, Begin, Record, Derive, OpenSidecar,
             DumpSidecar, ReadExisting, WriteHour, Complete, Crash, Tick, Rerun,
             LoseCsv, cassandra
<1>2. QED  BY Invariant, <1>1, PTL DEF Spec, CompleteIsLeftAlone

\* Success is earned and lasts (history_backfill.py:428), for every number of
\* crashes, re-runs and drops.
THEOREM FinalHolds == Spec => CompleteIsFinal
BY SuccessHolds, LeftAloneHolds, PTL DEF CompleteIsFinal

-----------------------------------------------------------------------------
(* Live hours *)

\* The anchor is never ahead of the clock, and what is still to be written is
\* before the anchor, was not live when the Job looked and, where Spark no
\* longer reaches, has no live row since.
PendingIsDark ==
    /\ deriv.anchor <= now
    /\ meta # Absent => meta.deriv.anchor <= now
    /\ pc = "write" =>
          \A h \in pending : /\ h < deriv.anchor
                             /\ h \notin seen
                             /\ h + MaxLag < deriv.anchor => agg[h] # Live

LEMMA DarkInit == Init => PendingIsDark
BY BackfillAssumption DEF Init, PendingIsDark

\* Spark's upserts are never earlier than the anchor less its lag; the rest of
\* the Job leaves agg_1h alone or is not writing.
LEMMA DarkStep == IInv /\ PendingIsDark /\ [Next]_vars => PendingIsDark'
<1> SUFFICES ASSUME TypeOK, Control, PendingIsDark, [Next]_vars PROVE PendingIsDark'
    BY DEF IInv
<1> USE BackfillAssumption
<1>0. /\ now \in Nat /\ deriv.anchor \in Nat
      /\ meta # Absent => meta.deriv.anchor \in Nat
      BY DEF TypeOK, Derivation
<1>1. CASE Begin
  <2>1. Settled.anchor <= now
    <3>1. CASE meta = Absent
          BY <3>1, <1>0 DEF Settled
    <3>2. CASE meta # Absent
          BY <3>2, SettledType DEF PendingIsDark
    <3>3. QED  BY <3>1, <3>2
  <2>2. deriv' = Settled /\ now' = now /\ meta' = meta /\ pc' # "write"
        BY <1>1 DEF Begin, cassandra
  <2>3. QED  BY <2>1, <2>2 DEF PendingIsDark
<1>2. CASE Record
  <2>1. meta' = [deriv |-> deriv, completed |-> FALSE] /\ pc' # "write"
        BY <1>2 DEF Record
  <2>2. UNCHANGED <<deriv, now>> /\ meta'.deriv = deriv
        BY <1>2, <2>1 DEF Record, attempt
  <2>3. QED  BY <2>1, <2>2 DEF PendingIsDark
<1>3. CASE ReadExisting
      BY <1>0, <1>3 DEF ReadExisting, PendingIsDark, HoursOf, TypeOK, cassandra
<1>4. CASE \E g \in Hours : WriteHour(g)
      BY <1>0, <1>4 DEF WriteHour, PendingIsDark, TypeOK, Hours
<1>5. CASE Complete
  <2>1. meta' = [deriv |-> meta.deriv, completed |-> TRUE] /\ meta # Absent /\ pc' # "write"
        BY <1>5 DEF Complete, Control
  <2>2. UNCHANGED <<deriv, now>> /\ meta'.deriv = meta.deriv
        BY <1>5, <2>1 DEF Complete, attempt
  <2>3. QED  BY <2>1, <2>2 DEF PendingIsDark
<1>6. CASE \E g \in Hours : SparkUpsert(g)
  <2> PICK g \in Hours : SparkUpsert(g)
      BY <1>6
  <2>1. /\ UNCHANGED <<now, meta, pc, deriv, pending, seen>>
        /\ agg' = [agg EXCEPT ![g] = Live]
        /\ now - MaxLag <= g
        BY DEF SparkUpsert, attempt
  <2>2. ~(g + MaxLag < deriv.anchor)
        BY <1>0, <2>1 DEF PendingIsDark, Hours
  <2>3. \A h \in pending : h # g => agg'[h] = agg[h]
        BY <2>1 DEF TypeOK
  <2>4. QED  BY <2>1, <2>2, <2>3 DEF PendingIsDark
<1>7. CASE Tick
      BY <1>0, <1>7 DEF Tick, PendingIsDark, cassandra, attempt
<1>8. CASE DropKeyspace
      BY <1>8 DEF DropKeyspace, PendingIsDark, attempt, Ended
<1>9. CASE UNCHANGED <<now, agg, meta, deriv, pending, seen, pc>>
      BY <1>9 DEF PendingIsDark
<1>10. CASE UNCHANGED <<now, meta, deriv>> /\ pc' # "write"
      BY <1>10 DEF PendingIsDark
<1>11. QED
      BY <1>1, <1>2, <1>3, <1>4, <1>5, <1>6, <1>7, <1>8, <1>9, <1>10
      DEF Next, JobStep, vars, cassandra, attempt, Derive, OpenSidecar, DumpSidecar,
          Crash, Rerun, LoseCsv

\* FR-H2 as the code keeps it (existing_live_hours, write_agg_1h), for every
\* lag of Spark and any number of crashes, re-runs and drops: no attempt
\* overwrites a live row it has seen, nor one that lies more than the lag
\* before the anchor.
THEOREM LiveHolds == Spec => SeenLiveIsKept
<1> DEFINE Kept == \A h \in Hours : agg[h] = Live /\ agg'[h] # Live =>
                      DropKeyspace \/ (h \notin seen /\ h + MaxLag >= deriv.anchor)
<1>1. IInv /\ PendingIsDark /\ [Next]_vars => [Kept]_vars
  <2> SUFFICES ASSUME TypeOK, PendingIsDark, Next, ~DropKeyspace, NEW h \in Hours,
                      agg[h] = Live, agg'[h] # Live
               PROVE  h \notin seen /\ h + MaxLag >= deriv.anchor
      BY DEF IInv
  <2>1. \E g \in Hours : WriteHour(g)
    <3>1. CASE \E g \in Hours : SparkUpsert(g)
          BY <3>1 DEF SparkUpsert, TypeOK
    <3>2. QED
          BY <3>1
          DEF Next, JobStep, cassandra, Begin, Record, Derive, OpenSidecar, DumpSidecar,
              ReadExisting, Complete, Crash, Tick, Rerun, LoseCsv
  <2>2. pc = "write" /\ h \in pending
        BY <2>1 DEF WriteHour, TypeOK
  <2>3. h \notin seen /\ ~(h + MaxLag < deriv.anchor)
        BY <2>2 DEF PendingIsDark
  <2>4. h \in Int /\ MaxLag \in Int /\ deriv.anchor \in Int
        BY BackfillAssumption DEF TypeOK, Derivation, Hours
  <2>5. QED  BY <2>3, <2>4
<1>2. IInv /\ PendingIsDark /\ [Next]_vars => PendingIsDark'
      BY DarkStep
<1>3. Spec => []PendingIsDark
      BY Invariant, DarkInit, <1>2, PTL DEF Spec
<1>4. QED  BY Invariant, <1>1, <1>3, PTL DEF Spec, SeenLiveIsKept

\* Every variable of the Job keeps its type, and the failures of a Job never
\* exceed its backoffLimit by more than the one that ends it.
THEOREM TypeHolds == Spec => []TypeOK
<1>1. IInv => TypeOK
      BY DEF IInv
<1>2. QED  BY Invariant, <1>1, PTL

-----------------------------------------------------------------------------
(* The local calendar *)

LEMMA LeastNat ==
    ASSUME NEW T \in SUBSET Nat, T # {}
    PROVE  \E x \in T : \A y \in T : x <= y
<1>1. PICK x \in T : \A y \in T : ~(<<y, x>> \in OpToRel(<, Nat))
  BY NatLessThanWellFounded, WFMin
<1>2. \A y \in T : ~(y < x)
  BY <1>1 DEF OpToRel
<1> QED BY <1>2

LEMMA YearsGrow ==
    ASSUME NEW y \in Int, NEW z \in Int, y <= z
    PROVE  /\ DaysBeforeYear(y) \in Int /\ DaysBeforeYear(y) <= DaysBeforeYear(z)
BY DEF DaysBeforeYear

LEMMA YearLength ==
    ASSUME NEW y \in Int
    PROVE  DaysBeforeYear(y + 1) = DaysBeforeYear(y) + IF Leap(y) THEN 366 ELSE 365
BY DEF DaysBeforeYear, Leap

LEMMA YearsBounds ==
    ASSUME NEW y \in Nat, y >= 1
    PROVE  365 * (y - 1) <= DaysBeforeYear(y) /\ DaysBeforeYear(y) <= 366 * (y - 1)
BY DEF DaysBeforeYear

\* Every day from the first on is in one year.
LEMMA YearOfDay ==
    ASSUME NEW day \in Nat, day >= 1
    PROVE  /\ YearOf(day) \in Nat /\ YearOf(day) >= 1
           /\ DaysBeforeYear(YearOf(day)) < day /\ day <= DaysBeforeYear(YearOf(day) + 1)
<1> DEFINE Late == {y \in Nat : day <= DaysBeforeYear(y + 1)}
<1>1. day \in Late
  <2>1. 365 * ((day + 1) - 1) <= DaysBeforeYear(day + 1) /\ DaysBeforeYear(day + 1) \in Int
    BY YearsBounds, YearsGrow
  <2> QED BY <2>1
<1>2. PICK y \in Late : \A z \in Late : y <= z
  <2> HIDE DEF Late
  <2>1. Late \in SUBSET Nat
    BY DEF Late
  <2> QED BY <1>1, <2>1, LeastNat
<1>3. y >= 1
  <2>1. DaysBeforeYear(0 + 1) = 0
    BY DEF DaysBeforeYear
  <2>2. 0 \notin Late
    BY <2>1
  <2> QED BY <2>2
<1>4. DaysBeforeYear(y) < day
  <2>1. y - 1 \in Nat /\ (y - 1) + 1 = y /\ ~(y <= y - 1)
    BY <1>3
  <2>2. y - 1 \notin Late
    BY <1>2, <2>1
  <2>3. DaysBeforeYear(y) \in Int
    BY YearsGrow
  <2> QED BY <2>1, <2>2, <2>3
<1>5. y \in day \div 366 .. day \div 365 + 1
  <2>1. 365 * (y - 1) <= DaysBeforeYear(y) /\ DaysBeforeYear(y + 1) <= 366 * ((y + 1) - 1)
    BY <1>3, YearsBounds
  <2>2. DaysBeforeYear(y) \in Int /\ DaysBeforeYear(y + 1) \in Int
    BY YearsGrow
  <2>3. 365 * (y - 1) < day /\ day <= 366 * y
    BY <1>4, <2>1, <2>2
  <2> QED BY <2>3
<1>6. /\ YearOf(day) \in day \div 366 .. day \div 365 + 1
      /\ DaysBeforeYear(YearOf(day)) < day /\ day <= DaysBeforeYear(YearOf(day) + 1)
  BY <1>4, <1>5 DEF YearOf
<1>7. YearOf(day) \in Nat
  BY <1>6
<1>8. YearOf(day) # 0
  <2>1. DaysBeforeYear(0 + 1) = 0
    BY DEF DaysBeforeYear
  <2> QED BY <1>6, <2>1
<1> QED BY <1>6, <1>7, <1>8

LEMMA LastSundayIsDay ==
    ASSUME NEW year \in Nat, NEW month \in {3, 10}
    PROVE  LastSunday(year, month) \in Int
<1>1. ShiftMonth(<<year, month>>, 1) = <<year, month + 1>>
  <2>1. CASE month = 3
    <3>1. MonthIndex(<<year, 3>>) + 1 = year * 12 + 3
      BY DEF MonthIndex
    <3>2. (year * 12 + 3) \div 12 = year /\ (year * 12 + 3) % 12 = 3
      OBVIOUS
    <3> QED BY <2>1, <3>1, <3>2 DEF ShiftMonth
  <2>2. CASE month = 10
    <3>1. MonthIndex(<<year, 10>>) + 1 = year * 12 + 10
      BY DEF MonthIndex
    <3>2. (year * 12 + 10) \div 12 = year /\ (year * 12 + 10) % 12 = 10
      OBVIOUS
    <3> QED BY <2>2, <3>1, <3>2 DEF ShiftMonth
  <2> QED BY <2>1, <2>2
<1>2. FirstOf(<<year, month + 1>>) \in Int
  <2>1. DaysBefore(year, 4) \in Int /\ DaysBefore(year, 11) \in Int
    BY DEF DaysBefore
  <2>2. DaysBeforeYear(year) \in Int
    BY YearsGrow
  <2> QED BY <2>1, <2>2 DEF FirstOf, Ordinal
<1>3. PICK first \in Int : first = FirstOf(<<year, month + 1>>)
  BY <1>2
<1>4. LastSunday(year, month) = (first - 1) - (((((first - 1) + 6) % 7) + 1) % 7)
  BY <1>1, <1>3 DEF LastSunday, SundayBefore, WeekDay
<1>5. ((((first - 1) + 6) % 7) + 1) % 7 \in Int
  OBVIOUS
<1> QED BY <1>4, <1>5

\* What the clocks show: the zone is an hour ahead of UTC, or two.
LEMMA Offsets == ASSUME NEW t PROVE BerlinOffset(t) \in {2, 4}
BY DEF BerlinOffset, Hour

\* The changes are at one o'clock: after it, all of a UTC day has one offset.
LEMMA OneOffset ==
    ASSUME NEW day \in Nat, day >= 1,
           NEW t \in Midnight(day) + 2 .. Midnight(day) + 47, NEW u \in Midnight(day) + 2 .. Midnight(day) + 47
    PROVE  BerlinOffset(t) = BerlinOffset(u)
<1>1. DayOf(t) = day /\ DayOf(u) = day
  BY DEF Midnight, DayOf, HalfHoursADay
<1>2. PICK s \in Int, e \in Int : s = LastSunday(YearOf(day), 3) /\ e = LastSunday(YearOf(day), 10)
  BY YearOfDay, LastSundayIsDay
<1>3. /\ Midnight(s) + 2 <= t <=> Midnight(s) + 2 <= u
      /\ t < Midnight(e) + 2 <=> u < Midnight(e) + 2
  BY DEF Midnight, HalfHoursADay
<1> QED BY <1>1, <1>2, <1>3 DEF BerlinOffset, Hour

LEMMA HourIsEven ==
    ASSUME NEW t \in Nat
    PROVE  \E h \in Nat : t - (t % 2) = 2 * h /\ (t = 2 * h \/ t = 2 * h + 1)
<1>1. t % 2 \in {0, 1} /\ t = 2 * (t \div 2) + (t % 2) /\ t \div 2 \in Nat
  OBVIOUS
<1> QED BY <1>1

\* An hour of UTC has one offset.
LEMMA HourOffset ==
    ASSUME NEW t \in Nat, DayOf(t) >= 1
    PROVE  BerlinOffset(t - (t % 2)) = BerlinOffset(t)
<1>a. PICK h \in Nat : t - (t % 2) = 2 * h /\ (t = 2 * h \/ t = 2 * h + 1)
  BY HourIsEven
<1>b. (2 * h) \div 48 = (2 * h + 1) \div 48
  OBVIOUS
<1>0. PICK day \in Nat : day = DayOf(t) /\ day >= 1 /\ DayOf(t - (t % 2)) = day
  BY <1>a, <1>b DEF DayOf, HalfHoursADay
<1>2. PICK s \in Int, e \in Int : s = LastSunday(YearOf(day), 3) /\ e = LastSunday(YearOf(day), 10)
  BY <1>0, YearOfDay, LastSundayIsDay
<1>3. /\ Midnight(s) + 2 <= t <=> Midnight(s) + 2 <= t - (t % 2)
      /\ t < Midnight(e) + 2 <=> t - (t % 2) < Midnight(e) + 2
  <2>1. /\ 48 * s + 2 <= t <=> 48 * s + 2 <= 2 * h
        /\ t < 48 * e + 2 <=> 2 * h < 48 * e + 2
    BY <1>a
  <2> QED BY <1>a, <2>1 DEF Midnight, HalfHoursADay
<1> QED BY <1>0, <1>2, <1>3 DEF BerlinOffset, Hour

\* Each instant lies in the local day its wall clock shows.
LEMMA DayHasInstant ==
    ASSUME NEW t \in Nat, DayOf(t) >= 1
    PROVE  LET day == DayOf(ToLocal(t))
           IN  /\ day \in Nat /\ day >= 1
               /\ LocalMidnightUtc(day) <= t /\ t < LocalMidnightUtc(day + 1)
<1>1. PICK k \in {2, 4} : k = BerlinOffset(t)
  BY Offsets
<1>2. PICK day \in Nat : /\ day = DayOf(ToLocal(t)) /\ day >= 1
                         /\ 48 * day <= t + k /\ t + k < 48 * day + 48
  BY <1>1 DEF ToLocal, DayOf, HalfHoursADay
<1>3. PICK a \in {2, 4}, b \in {2, 4} :
          /\ a = BerlinOffset(48 * day - 2) /\ b = BerlinOffset(48 * (day + 1) - 2)
  BY Offsets
<1>4. /\ LocalMidnightUtc(day) = 48 * day - a
      /\ LocalMidnightUtc(day + 1) = 48 * (day + 1) - b
  BY <1>3 DEF LocalMidnightUtc, Midnight, Hour, HalfHoursADay
<1>5. 48 * day - a <= t
  <2>1. CASE a >= k \/ t >= 48 * day - 2
    BY <1>2, <2>1
  <2>2. CASE a < k /\ t < 48 * day - 2
    <3>0. t >= 48
      BY DEF DayOf, HalfHoursADay
    <3>1. /\ t \in 48 * (day - 1) + 2 .. 48 * (day - 1) + 47
          /\ 48 * day - 2 \in 48 * (day - 1) + 2 .. 48 * (day - 1) + 47
          /\ day - 1 \in Nat /\ day - 1 >= 1
      BY <1>2, <2>2, <3>0
    <3>2. a = k
      BY <1>1, <1>3, <3>1, OneOffset DEF Midnight, HalfHoursADay
    <3> QED BY <2>2, <3>2
  <2> QED BY <2>1, <2>2
<1>6. t < 48 * (day + 1) - b
  <2>1. CASE b <= k \/ t < 48 * day + 44
    BY <1>2, <2>1
  <2>2. CASE b > k /\ t >= 48 * day + 44
    <3>1. /\ t \in 48 * day + 2 .. 48 * day + 47
          /\ 48 * (day + 1) - 2 \in 48 * day + 2 .. 48 * day + 47
      BY <1>2, <2>2
    <3>2. b = k
      BY <1>1, <1>2, <1>3, <3>1, OneOffset DEF Midnight, HalfHoursADay
    <3> QED BY <2>2, <3>2
  <2> QED BY <2>1, <2>2
<1> QED BY <1>2, <1>4, <1>5, <1>6

\* Local days follow one another as instants do.
LEMMA DaysInOrder ==
    ASSUME NEW t \in Nat, NEW u \in Nat, DayOf(t) >= 1, DayOf(u) >= 1, t <= u
    PROVE  DayOf(ToLocal(t)) <= DayOf(ToLocal(u))
<1>1. PICK a \in Nat, b \in Nat :
          /\ a = DayOf(ToLocal(t)) /\ LocalMidnightUtc(a) <= t
          /\ b = DayOf(ToLocal(u)) /\ u < LocalMidnightUtc(b + 1)
  BY DayHasInstant
<1>2. PICK i \in {2, 4}, j \in {2, 4} :
          LocalMidnightUtc(a) = 48 * a - i /\ LocalMidnightUtc(b + 1) = 48 * (b + 1) - j /\ (a = b + 1 => i = j)
  BY Offsets DEF LocalMidnightUtc, Midnight, HalfHoursADay
<1> QED BY <1>1, <1>2

\* An hour lies in one local day.
LEMMA HourHasDay ==
    ASSUME NEW t \in Nat, DayOf(t) >= 1
    PROVE  DayOf(ToLocal(t - (t % 2))) = DayOf(ToLocal(t))
<1>1. PICK k \in {2, 4} : k = BerlinOffset(t) /\ k = BerlinOffset(t - (t % 2))
  BY HourOffset, Offsets
<1>a. PICK h \in Nat : t - (t % 2) = 2 * h /\ (t = 2 * h \/ t = 2 * h + 1)
  BY HourIsEven
<1>2. (t - (t % 2) + k) \div 48 = (t + k) \div 48
  <2>1. PICK j \in Nat : k = 2 * j
    <3>1. k = 2 * 1 \/ k = 2 * 2
      BY <1>1
    <3> QED BY <3>1
  <2>2. (2 * h + 2 * j) \div 48 = (2 * h + 1 + 2 * j) \div 48
    OBVIOUS
  <2> QED BY <1>a, <2>1, <2>2
<1> QED BY <1>1, <1>2 DEF ToLocal, DayOf, HalfHoursADay

\* The days of a year before each month.
LEMMA MonthsGrow ==
    ASSUME NEW year \in Nat
    PROVE  \E leap \in {0, 1} :
               /\ DaysBefore(year, 1) = 0  /\ DaysBefore(year, 2) = 31
               /\ DaysBefore(year, 3) = 59 + leap /\ DaysBefore(year, 4) = 90 + leap
               /\ DaysBefore(year, 5) = 120 + leap /\ DaysBefore(year, 6) = 151 + leap
               /\ DaysBefore(year, 7) = 181 + leap /\ DaysBefore(year, 8) = 212 + leap
               /\ DaysBefore(year, 9) = 243 + leap /\ DaysBefore(year, 10) = 273 + leap
               /\ DaysBefore(year, 11) = 304 + leap /\ DaysBefore(year, 12) = 334 + leap
<1>1. CASE Leap(year)
  BY <1>1 DEF DaysBefore
<1>2. CASE ~Leap(year)
  BY <1>2 DEF DaysBefore
<1> QED BY <1>1, <1>2

\* Every day of a year is in one month of it.
LEMMA MonthOfDay ==
    ASSUME NEW year \in Nat, NEW day \in Nat, DaysBeforeYear(year) < day
    PROVE  LET month == MonthIn(year, day)
           IN  /\ month \in 1 .. 12
               /\ Ordinal(year, month, 1) <= day
               /\ month < 12 => day < Ordinal(year, month + 1, 1)
<1>1. PICK base \in Int : base = DaysBeforeYear(year)
  BY YearsGrow
<1>2. \E month \in 1 .. 12 : /\ Ordinal(year, month, 1) <= day
                             /\ month < 12 => day < Ordinal(year, month + 1, 1)
  <2>1. PICK leap \in {0, 1} :
               /\ DaysBefore(year, 1) = 0  /\ DaysBefore(year, 2) = 31
               /\ DaysBefore(year, 3) = 59 + leap /\ DaysBefore(year, 4) = 90 + leap
               /\ DaysBefore(year, 5) = 120 + leap /\ DaysBefore(year, 6) = 151 + leap
               /\ DaysBefore(year, 7) = 181 + leap /\ DaysBefore(year, 8) = 212 + leap
               /\ DaysBefore(year, 9) = 243 + leap /\ DaysBefore(year, 10) = 273 + leap
               /\ DaysBefore(year, 11) = 304 + leap /\ DaysBefore(year, 12) = 334 + leap
    BY MonthsGrow
  <2> DEFINE First(month) == base + DaysBefore(year, month) + 1
             Fits(month)  == First(month) <= day /\ (month < 12 => day < First(month + 1))
  <2>2. Fits(1) \/ Fits(2) \/ Fits(3) \/ Fits(4) \/ Fits(5) \/ Fits(6)
            \/ Fits(7) \/ Fits(8) \/ Fits(9) \/ Fits(10) \/ Fits(11) \/ Fits(12)
    BY <1>1, <2>1
  <2>3. \A month \in 1 .. 12 : Fits(month) =>
            /\ Ordinal(year, month, 1) <= day
            /\ month < 12 => day < Ordinal(year, month + 1, 1)
    BY <1>1 DEF Ordinal
  <2> HIDE DEF Fits
  <2>4. \E month \in 1 .. 12 : Fits(month)
    BY <2>2
  <2> QED BY <2>3, <2>4
<1> QED BY <1>2 DEF MonthIn

\* Months follow one another as days do.
LEMMA MonthsInOrder ==
    ASSUME NEW t \in Nat, NEW u \in Nat, DayOf(t) >= 1, t <= u
    PROVE  /\ MonthIndex(MonthOf(t)) \in Int /\ MonthIndex(MonthOf(u)) \in Int
           /\ MonthIndex(MonthOf(t)) <= MonthIndex(MonthOf(u))
<1>1. PICK a \in Nat, b \in Nat : a = DayOf(t) /\ b = DayOf(u) /\ 1 <= a /\ a <= b
  BY DEF DayOf, HalfHoursADay
<1>2. PICK y \in Nat, z \in Nat :
          /\ y = YearOf(a) /\ DaysBeforeYear(y) < a /\ a <= DaysBeforeYear(y + 1)
          /\ z = YearOf(b) /\ DaysBeforeYear(z) < b /\ b <= DaysBeforeYear(z + 1)
  BY <1>1, YearOfDay
<1>3. y <= z
  <2> SUFFICES ASSUME z + 1 <= y PROVE FALSE
    OBVIOUS
  <2>1. DaysBeforeYear(z + 1) <= DaysBeforeYear(y) /\ DaysBeforeYear(z + 1) \in Int /\ DaysBeforeYear(y) \in Int
    BY YearsGrow
  <2> QED BY <1>1, <1>2, <2>1
<1>4. PICK m \in 1 .. 12, n \in 1 .. 12 :
          /\ m = MonthIn(y, a) /\ Ordinal(y, m, 1) <= a
          /\ n = MonthIn(z, b) /\ (n < 12 => b < Ordinal(z, n + 1, 1))
  BY <1>1, <1>2, MonthOfDay
<1>5. y = z => m <= n
  <2> SUFFICES ASSUME y = z, n + 1 <= m PROVE FALSE
    OBVIOUS
  <2>1. PICK base \in Int : base = DaysBeforeYear(y)
    BY YearsGrow
  <2>2. DaysBefore(y, n + 1) <= DaysBefore(y, m) /\ DaysBefore(y, n + 1) \in Int /\ DaysBefore(y, m) \in Int
    <3>1. m \in {1, 2, 3, 4, 5, 6, 7, 8, 9, 10, 11, 12} /\ n + 1 \in {1, 2, 3, 4, 5, 6, 7, 8, 9, 10, 11, 12}
      OBVIOUS
    <3> QED BY <3>1, MonthsGrow
  <2>3. base + DaysBefore(y, m) + 1 <= a /\ b < base + DaysBefore(y, n + 1) + 1
    <3>1. n < 12
      OBVIOUS
    <3>2. Ordinal(y, m, 1) <= a /\ b < Ordinal(y, n + 1, 1)
      BY <1>4, <3>1
    <3> QED BY <2>1, <3>2 DEF Ordinal
  <2>4. PICK p \in Int, q \in Int : p = DaysBefore(y, n + 1) /\ q = DaysBefore(y, m)
    BY <2>2
  <2> QED BY <1>1, <2>2, <2>3, <2>4
<1>6. MonthIndex(MonthOf(t)) = y * 12 + m - 1 /\ MonthIndex(MonthOf(u)) = z * 12 + n - 1
  <2>1. MonthOf(t) = <<y, m>> /\ MonthOf(u) = <<z, n>>
    BY <1>1, <1>2, <1>4 DEF MonthOf
  <2> QED BY <2>1 DEF MonthIndex
<1> QED BY <1>3, <1>5, <1>6

-----------------------------------------------------------------------------
(* Finite sets of numbers, images and parts *)

\* A finite set of numbers has a least one and a greatest one.
LEMMA Extremes ==
    ASSUME NEW S, IsFiniteSet(S), S # {}, S \subseteq Int
    PROVE  /\ Min(S) \in S /\ \A x \in S : Min(S) <= x
           /\ Max(S) \in S /\ \A x \in S : x <= Max(S)
<1> DEFINE Ends(T)  == (\E x \in T : \A y \in T : x <= y) /\ (\E x \in T : \A y \in T : y <= x)
           Open     == {T \in FiniteSubsetsOf(S) : T # {} /\ ~Ends(T)}
<1>1. S \in FiniteSubsetsOf(S)
  BY DEF FiniteSubsetsOf
<1>2. Open = {}
  <2> SUFFICES ASSUME Open # {} PROVE FALSE
    OBVIOUS
  <2>1. PICK T \in Open : \A U \in Open : ~(<<U, T>> \in StrictSubsetOrdering(S))
    <3> HIDE DEF Open
    <3>1. Open \subseteq FiniteSubsetsOf(S)
      BY DEF Open
    <3> QED BY <3>1, FS_StrictSubsetOrderingWellFounded, WFMin
  <2>2. T \subseteq S /\ IsFiniteSet(T) /\ T # {} /\ ~Ends(T)
    BY <2>1 DEF FiniteSubsetsOf
  <2>3. PICK x \in T : TRUE
    BY <2>2
  <2> DEFINE U == T \ {x}
  <2>4. U \in FiniteSubsetsOf(S)
    BY <2>2, FS_RemoveElement DEF FiniteSubsetsOf
  <2>5. <<U, T>> \in StrictSubsetOrdering(S)
    BY <2>2 DEF StrictSubsetOrdering
  <2>6. U = {} \/ Ends(U)
    BY <2>1, <2>4, <2>5
  <2>7. U # {}
    <3> SUFFICES ASSUME U = {} PROVE FALSE
      OBVIOUS
    <3>1. \A y \in T : y = x
      OBVIOUS
    <3>2. x <= x
      BY <2>2
    <3> QED BY <2>2, <3>1, <3>2
  <2>8. PICK a \in U, b \in U : \A y \in U : a <= y /\ y <= b
    BY <2>6, <2>7
  <2>9. a \in Int /\ b \in Int /\ x \in Int /\ T \subseteq Int
    BY <2>2
  <2>10. \E z \in T : \A y \in T : z <= y
    <3>1. CASE a <= x
      BY <2>8, <2>9, <3>1
    <3>2. CASE x <= a
      BY <2>8, <2>9, <3>2
    <3> QED BY <2>9, <3>1, <3>2
  <2>11. \E z \in T : \A y \in T : y <= z
    <3>1. CASE x <= b
      BY <2>8, <2>9, <3>1
    <3>2. CASE b <= x
      BY <2>8, <2>9, <3>2
    <3> QED BY <2>9, <3>1, <3>2
  <2> QED BY <2>2, <2>10, <2>11
<1>3. Ends(S)
  BY <1>1, <1>2
<1> QED BY <1>3 DEF Min, Max

\* A set's parts, as many pairs as each part has members.
PartsOf(S, key, K) == UNION {{k} \X (1 .. Cardinality({x \in S : key[x] = k})) : k \in K}

\* Parts of a set, each counted by itself, are counted together.
LEMMA Parts ==
    ASSUME NEW S, IsFiniteSet(S), NEW K, NEW key \in [S -> K]
    PROVE  Cardinality(PartsOf(S, key, K)) = Cardinality(S)
<1> DEFINE Part(k) == {x \in S : key[x] = k}
           Size(k) == Cardinality(Part(k))
           Listed  == UNION {{k} \X (1 .. Size(k)) : k \in K}
<1>1. \A k \in K : Size(k) \in Nat /\ ExistsBijection(Part(k), 1 .. Size(k))
  <2> TAKE k \in K
  <2>1. IsFiniteSet(Part(k))
    BY FS_Subset
  <2>2. Size(k) \in Nat
    BY <2>1, FS_CardinalityType
  <2>3. IsFiniteSet(1 .. Size(k)) /\ Cardinality(1 .. Size(k)) = Size(k)
    BY <2>2, FS_Interval
  <2> QED BY <2>1, <2>2, <2>3, FS_SameCardinalityBij
<1> DEFINE F == [k \in K |-> CHOOSE f : f \in Bijection(Part(k), 1 .. Size(k))]
           G == [x \in S |-> <<key[x], F[key[x]][x]>>]
<1>2. \A k \in K : F[k] \in Bijection(Part(k), 1 .. Size(k))
  BY <1>1 DEF ExistsBijection
<1>3. \A k \in K : /\ \A x \in Part(k) : F[k][x] \in 1 .. Size(k)
                   /\ \A x, y \in Part(k) : F[k][x] = F[k][y] => x = y
                   /\ \A n \in 1 .. Size(k) : \E x \in Part(k) : F[k][x] = n
  <2> SUFFICES ASSUME NEW k \in K
               PROVE  /\ \A x \in Part(k) : F[k][x] \in 1 .. Size(k)
                      /\ \A x, y \in Part(k) : F[k][x] = F[k][y] => x = y
                      /\ \A n \in 1 .. Size(k) : \E x \in Part(k) : F[k][x] = n
    OBVIOUS
  <2>1. PICK f : f = F[k]
    OBVIOUS
  <2> HIDE DEF F, Part, Size
  <2>2. f \in Bijection(Part(k), 1 .. Size(k))
    BY <1>2, <2>1
  <2>3. f \in [Part(k) -> 1 .. Size(k)]
    BY <2>2 DEF Bijection, Injection
  <2>4. \A x, y \in Part(k) : f[x] = f[y] => x = y
    BY <2>2, <2>3 DEF Bijection, Injection, IsInjective
  <2>5. \A n \in 1 .. Size(k) : \E x \in Part(k) : f[x] = n
    BY <2>2, <2>3 DEF Bijection, Surjection
  <2> QED BY <2>1, <2>3, <2>4, <2>5
<1> HIDE DEF F, Size
<1>4. G \in [S -> Listed]
  <2> SUFFICES ASSUME NEW x \in S PROVE <<key[x], F[key[x]][x]>> \in Listed
    OBVIOUS
  <2>1. key[x] \in K /\ x \in Part(key[x])
    OBVIOUS
  <2>2. F[key[x]][x] \in 1 .. Size(key[x])
    BY <1>3, <2>1
  <2> QED BY <2>1, <2>2
<1>5. \A x, y \in S : G[x] = G[y] => x = y
  <2> SUFFICES ASSUME NEW x \in S, NEW y \in S, G[x] = G[y] PROVE x = y
    OBVIOUS
  <2>1. key[x] = key[y] /\ F[key[x]][x] = F[key[y]][y]
    OBVIOUS
  <2>2. key[x] \in K /\ x \in Part(key[x]) /\ y \in Part(key[x])
    BY <2>1
  <2> QED BY <1>3, <2>1, <2>2
<1>6. \A l \in Listed : \E x \in S : G[x] = l
  <2> SUFFICES ASSUME NEW l \in Listed PROVE \E x \in S : G[x] = l
    OBVIOUS
  <2>0. PICK k \in K : l \in {k} \X (1 .. Size(k))
    OBVIOUS
  <2>n. PICK n \in 1 .. Size(k) : l = <<k, n>>
    BY <2>0
  <2>1. PICK x \in Part(k) : F[k][x] = n
    BY <1>3
  <2> QED BY <2>n, <2>1
<1>7. G \in Bijection(S, Listed)
  <2> HIDE DEF G, Listed
  <2> QED BY <1>4, <1>5, <1>6 DEF Bijection, Injection, Surjection, IsInjective
<1>8. Cardinality(Listed) = Cardinality(S)
  <2> HIDE DEF G, Listed
  <2> QED BY <1>7, FS_Bijection DEF ExistsBijection
<1> QED BY <1>8 DEF Size, PartsOf

-----------------------------------------------------------------------------
(* The derived rows *)

\* A row of the source file.
FileRow == [ts : Nat, values : [Recorded -> Int]]

\* An order of positions, and the position that each comes to in it.
Ordering(n, B) ==
    /\ \A i \in 1 .. n : <<i, i>> \notin B
    /\ \A i, j \in 1 .. n : i = j \/ <<i, j>> \in B \/ <<j, i>> \in B
    /\ \A i, j, k \in 1 .. n : <<i, j>> \in B /\ <<j, k>> \in B => <<i, k>> \in B
Placed(n, B) ==
    [k \in 1 .. n |-> CHOOSE i \in 1 .. n : 1 + Cardinality({j \in 1 .. n : <<j, i>> \in B}) = k]

\* Counting those before each is sorting.
LEMMA PlacedSorts ==
    ASSUME NEW n \in Nat, NEW B, Ordering(n, B)
    PROVE  /\ Placed(n, B) \in [1 .. n -> 1 .. n]
           /\ \A i \in 1 .. n : \E k \in 1 .. n : Placed(n, B)[k] = i
           /\ \A k, l \in 1 .. n : k <= l =>
                \/ Placed(n, B)[k] = Placed(n, B)[l]
                \/ <<Placed(n, B)[k], Placed(n, B)[l]>> \in B
<1> DEFINE Before(i, j) == <<i, j>> \in B
           Ahead(i)     == {j \in 1 .. n : Before(j, i)}
           Place(i)     == 1 + Cardinality(Ahead(i))
<1>1. /\ \A i \in 1 .. n : ~Before(i, i)
      /\ \A i, j \in 1 .. n : i = j \/ Before(i, j) \/ Before(j, i)
      /\ \A i, j, k \in 1 .. n : Before(i, j) /\ Before(j, k) => Before(i, k)
  BY DEF Ordering
<1>2. Placed(n, B) = [k \in 1 .. n |-> CHOOSE i \in 1 .. n : Place(i) = k]
  BY DEF Placed
<1> HIDE DEF Before
<1>3. \A i \in 1 .. n : IsFiniteSet(Ahead(i)) /\ Cardinality(Ahead(i)) \in 0 .. n - 1
  <2> TAKE i \in 1 .. n
  <2>1. IsFiniteSet(1 .. n) /\ Cardinality(1 .. n) = n
    BY FS_Interval
  <2>2. Ahead(i) \in SUBSET (1 .. n) /\ i \notin Ahead(i)
    BY <1>1
  <2> HIDE DEF Ahead
  <2>3. IsFiniteSet(Ahead(i)) /\ Cardinality(Ahead(i)) <= n /\ Cardinality(Ahead(i)) # n
    <3>1. Ahead(i) # 1 .. n
      BY <2>2
    <3> QED BY <2>1, <2>2, <3>1, FS_Subset
  <2>4. Cardinality(Ahead(i)) \in Nat
    BY <2>3, FS_CardinalityType
  <2> QED BY <2>3, <2>4
<1>4. \A i, j \in 1 .. n : Before(i, j) => Place(i) < Place(j)
  <2> HIDE DEF Ahead
  <2> SUFFICES ASSUME NEW i \in 1 .. n, NEW j \in 1 .. n, Before(i, j)
               PROVE  Cardinality(Ahead(i)) < Cardinality(Ahead(j))
    BY <1>3
  <2> USE DEF Ahead
  <2>1. Ahead(i) \in SUBSET Ahead(j)
    BY <1>1
  <2>2. i \in Ahead(j) /\ i \notin Ahead(i)
    BY <1>1
  <2> HIDE DEF Ahead
  <2>3. Cardinality(Ahead(i)) <= Cardinality(Ahead(j)) /\ Cardinality(Ahead(i)) # Cardinality(Ahead(j))
    BY <1>3, <2>1, <2>2, FS_Subset
  <2> QED BY <1>3, <2>3
<1> DEFINE P == [i \in 1 .. n |-> Place(i)]
<1>5. P \in [1 .. n -> 1 .. n]
  <2> HIDE DEF Ahead
  <2>1. \A i \in 1 .. n : Place(i) \in 1 .. n
    BY <1>3
  <2> QED BY <2>1
<1>6. \A i, j \in 1 .. n : Before(i, j) => P[i] < P[j]
  <2> HIDE DEF Place
  <2> QED BY <1>4
<1>7. Placed(n, B) = [k \in 1 .. n |-> CHOOSE i \in 1 .. n : P[i] = k]
  <2> HIDE DEF Place
  <2>1. \A k : (CHOOSE i \in 1 .. n : Place(i) = k) = (CHOOSE i \in 1 .. n : P[i] = k)
    OBVIOUS
  <2> QED BY <1>2, <2>1
<1> HIDE DEF P
<1>8. \A i, j \in 1 .. n : P[i] = P[j] => i = j
  <2> SUFFICES ASSUME NEW i \in 1 .. n, NEW j \in 1 .. n, P[i] = P[j], i # j PROVE FALSE
    OBVIOUS
  <2>1. P[i] < P[j] \/ P[j] < P[i]
    BY <1>1, <1>6
  <2> QED BY <1>5, <2>1
<1>9. \A k \in 1 .. n : \E i \in 1 .. n : P[i] = k
  <2>1. IsFiniteSet(1 .. n)
    BY FS_Interval
  <2>2. P \in Injection(1 .. n, 1 .. n)
    BY <1>5, <1>8 DEF Injection, IsInjective
  <2>3. P \in Surjection(1 .. n, 1 .. n)
    BY <2>1, <2>2, FS_Injection
  <2> QED BY <2>3 DEF Surjection
<1>10. PICK order : order = Placed(n, B)
  OBVIOUS
<1>11. order \in [1 .. n -> 1 .. n] /\ \A k \in 1 .. n : P[order[k]] = k
  <2>1. \A k \in 1 .. n : order[k] \in 1 .. n /\ P[order[k]] = k
    <3> TAKE k \in 1 .. n
    <3>1. order[k] = CHOOSE i \in 1 .. n : P[i] = k
      BY <1>7, <1>10
    <3>2. \E i \in 1 .. n : P[i] = k
      BY <1>9
    <3> QED BY <3>1, <3>2
  <2>2. order = [k \in 1 .. n |-> order[k]]
    BY <1>7, <1>10
  <2> QED BY <2>1, <2>2
<1>12. \A i \in 1 .. n : order[P[i]] = i /\ P[i] \in 1 .. n
  BY <1>5, <1>8, <1>11
<1>13. \A k, l \in 1 .. n : k <= l => order[k] = order[l] \/ <<order[k], order[l]>> \in B
  <2> SUFFICES ASSUME NEW k \in 1 .. n, NEW l \in 1 .. n, k <= l
               PROVE  order[k] = order[l] \/ <<order[k], order[l]>> \in B
    OBVIOUS
  <2>1. PICK i \in 1 .. n, j \in 1 .. n : i = order[k] /\ j = order[l] /\ P[i] = k /\ P[j] = l
    BY <1>11
  <2>2. ~Before(j, i)
    BY <1>6, <2>1
  <2>3. i = j \/ Before(i, j)
    BY <1>1, <2>2
  <2> QED BY <2>1, <2>3 DEF Before
<1> QED BY <1>10, <1>11, <1>12, <1>13

\* A stable sort is a permutation that puts the keys in order.
LEMMA OrderSorts ==
    ASSUME NEW n \in Nat, NEW keys \in [1 .. n -> Int]
    PROVE  /\ Order(keys) \in [1 .. n -> 1 .. n]
           /\ \A i \in 1 .. n : \E k \in 1 .. n : Order(keys)[k] = i
           /\ \A k, l \in 1 .. n : k <= l => keys[Order(keys)[k]] <= keys[Order(keys)[l]]
<1> DEFINE Before(i, j) == keys[i] < keys[j] \/ (keys[i] = keys[j] /\ i < j)
           B == {x \in (1 .. n) \X (1 .. n) : Before(x[1], x[2])}
<1>0. DOMAIN keys = 1 .. n /\ \A i \in 1 .. n : keys[i] \in Int
  OBVIOUS
<1>1. \A i, j \in 1 .. n : <<i, j>> \in B <=> Before(i, j)
  OBVIOUS
<1>2. Ordering(n, B)
  <2> HIDE DEF B
  <2> QED BY <1>0, <1>1 DEF Ordering
<1>3. Order(keys) = Placed(n, B)
  <2>1. \A i \in 1 .. n : {j \in 1 .. n : Before(j, i)} = {j \in 1 .. n : <<j, i>> \in B}
    <3> HIDE DEF B, Before
    <3> QED BY <1>1
  <2>2. Order(keys) = [k \in 1 .. n |->
                        CHOOSE i \in 1 .. n : 1 + Cardinality({j \in 1 .. n : Before(j, i)}) = k]
    BY <1>0 DEF Order
  <2> HIDE DEF B, Before
  <2> QED BY <2>1, <2>2 DEF Placed
<1>4. PICK order : order = Order(keys)
  OBVIOUS
<1>5. /\ order \in [1 .. n -> 1 .. n] /\ \A i \in 1 .. n : \E k \in 1 .. n : order[k] = i
      /\ \A k, l \in 1 .. n : k <= l => order[k] = order[l] \/ <<order[k], order[l]>> \in B
  <2> HIDE DEF B
  <2>1. PICK A : A = B
    OBVIOUS
  <2>2. Ordering(n, A) /\ order = Placed(n, A)
    BY <1>2, <1>3, <1>4, <2>1
  <2>3. /\ Placed(n, A) \in [1 .. n -> 1 .. n]
        /\ \A i \in 1 .. n : \E k \in 1 .. n : Placed(n, A)[k] = i
        /\ \A k, l \in 1 .. n : k <= l => \/ Placed(n, A)[k] = Placed(n, A)[l]
                                          \/ <<Placed(n, A)[k], Placed(n, A)[l]>> \in A
    BY <2>2, PlacedSorts
  <2> QED BY <2>1, <2>2, <2>3
<1>6. \A k, l \in 1 .. n : k <= l => keys[order[k]] <= keys[order[l]]
  <2> TAKE k \in 1 .. n, l \in 1 .. n
  <2>1. PICK i \in 1 .. n, j \in 1 .. n : i = order[k] /\ j = order[l]
    BY <1>5
  <2>2. i = j \/ Before(i, j) => keys[i] <= keys[j]
    BY <1>0
  <2> HIDE DEF B, Before
  <2> QED BY <1>1, <1>5, <2>1, <2>2
<1> QED BY <1>4, <1>5, <1>6

\* The rows of load_source are the rows of the file, in the order of time.
LEMMA RowsAreSorted ==
    ASSUME NEW d \in Devices
    PROVE  /\ Rows(d) \in Seq(FileRow) /\ Len(Rows(d)) >= 1
           /\ Len(Rows(d)) = Len(Source[d])
           /\ \A i \in 1 .. Len(Rows(d)) : \E k \in 1 .. Len(Rows(d)) : Rows(d)[k] = Source[d][i]
           /\ \A i \in 1 .. Len(Rows(d)) : \E k \in 1 .. Len(Rows(d)) : Rows(d)[i] = Source[d][k]
           /\ \A k, l \in 1 .. Len(Rows(d)) : k <= l => Rows(d)[k].ts <= Rows(d)[l].ts
<1>1. PICK file \in Seq(FileRow) : file = Source[d] /\ file # <<>>
  BY DerivationAssumption DEF FileRow
<1>2. PICK n \in Nat : n = Len(file) /\ DOMAIN file = 1 .. n /\ n >= 1
  BY <1>1
<1>3. \A i \in 1 .. n : file[i] \in FileRow /\ file[i].ts \in Nat
  <2>1. \A i \in 1 .. n : file[i] \in FileRow
    BY <1>1, <1>2
  <2> QED BY <2>1 DEF FileRow
<1> DEFINE keys == [i \in 1 .. n |-> file[i].ts]
<1>4. keys \in [1 .. n -> Int]
  BY <1>3
<1>5. PICK order : order = Order(keys)
  OBVIOUS
<1>6. /\ order \in [1 .. n -> 1 .. n]
      /\ \A i \in 1 .. n : \E k \in 1 .. n : order[k] = i
      /\ \A k, l \in 1 .. n : k <= l => keys[order[k]] <= keys[order[l]]
  <2>1. PICK k \in [1 .. n -> Int] : k = keys
    BY <1>4
  <2> HIDE DEF keys
  <2>2. /\ Order(k) \in [1 .. n -> 1 .. n]
        /\ \A i \in 1 .. n : \E j \in 1 .. n : Order(k)[j] = i
        /\ \A i, j \in 1 .. n : i <= j => k[Order(k)[i]] <= k[Order(k)[j]]
    BY OrderSorts
  <2> QED BY <1>5, <2>1, <2>2
<1>7. Rows(d) = [k \in 1 .. n |-> file[order[k]]]
  BY <1>1, <1>2, <1>5 DEF Rows
<1>8. Rows(d) \in [1 .. n -> FileRow]
  BY <1>3, <1>6, <1>7
<1>9. \A k, l \in 1 .. n : k <= l => Rows(d)[k].ts <= Rows(d)[l].ts
  <2>1. \A k \in 1 .. n : Rows(d)[k].ts = keys[order[k]]
    <3> TAKE k \in 1 .. n
    <3>1. order[k] \in 1 .. n /\ Rows(d)[k] = file[order[k]]
      BY <1>6, <1>7
    <3> QED BY <3>1
  <2> HIDE DEF keys
  <2> QED BY <1>6, <2>1
<1> HIDE DEF keys
<1>10. Len(Rows(d)) = n /\ Rows(d) \in Seq(FileRow)
  BY <1>8
<1>11. \A k \in 1 .. n : order[k] \in 1 .. n /\ Rows(d)[k] = Source[d][order[k]]
  <2> TAKE k \in 1 .. n
  <2>1. order[k] \in 1 .. n
    BY <1>6
  <2>2. Rows(d)[k] = file[order[k]]
    BY <1>7
  <2> QED BY <1>1, <2>1, <2>2
<1>12. \A i \in 1 .. n : \E k \in 1 .. n : Rows(d)[k] = Source[d][i]
  <2> TAKE i \in 1 .. n
  <2>1. PICK k \in 1 .. n : order[k] = i
    BY <1>6
  <2>2. Rows(d)[k] = Source[d][i]
    BY <1>11, <2>1
  <2> QED BY <2>2
<1>13. \A i \in 1 .. n : \E k \in 1 .. n : Rows(d)[i] = Source[d][k]
  BY <1>11
<1> QED BY <1>1, <1>2, <1>9, <1>10, <1>12, <1>13

\* The nearest row is one of the rows.
LEMMA NearestIsRow ==
    ASSUME NEW R, NEW rows \in Seq(R), Len(rows) >= 1, NEW target
    PROVE  Nearest(rows, target) \in 1 .. Len(rows)
<1> DEFINE Below  == {i \in DOMAIN rows : rows[i].ts < target}
           before == Cardinality(Below)
<1>1. before \in 0 .. Len(rows)
  <2>1. IsFiniteSet(1 .. Len(rows)) /\ Cardinality(1 .. Len(rows)) = Len(rows)
    BY FS_Interval
  <2>2. Below \in SUBSET (1 .. Len(rows))
    OBVIOUS
  <2> HIDE DEF Below
  <2>3. IsFiniteSet(Below) /\ before <= Len(rows)
    BY <2>1, <2>2, FS_Subset
  <2> QED BY <2>3, FS_CardinalityType
<1>2. Nearest(rows, target) \in {1, before, before + 1} /\ (before = 0 => Nearest(rows, target) = 1)
        /\ (before = Len(rows) => Nearest(rows, target) # before + 1)
  <2> HIDE DEF before
  <2>1. before \in Nat
    BY <1>1
  <2> QED BY <2>1 DEF Nearest, before
<1> HIDE DEF before
<1> QED BY <1>1, <1>2

\* The seasonal shift is a number on every day of the calendar.
LEMMA SeasonIsNumber ==
    ASSUME NEW t \in Nat, DayOf(t) >= 1, NEW m, NEW v \in Int
    PROVE  SeasonalOffset(m, t) \in Int /\ SeasonalApply(m, v, t) \in Int
<1>1. PICK day \in Nat : day = DayOf(t) /\ day >= 1
  BY DEF DayOf, HalfHoursADay
<1>2. PICK year \in Nat : /\ year = YearOf(day)
                          /\ DaysBeforeYear(year) < day /\ day <= DaysBeforeYear(year + 1)
  BY <1>1, YearOfDay
<1>3. PICK base \in Int : base = DaysBeforeYear(year) /\ base < day /\ day <= base + 366
  <2>1. DaysBeforeYear(year) \in Int
    BY YearsGrow
  <2>2. DaysBeforeYear(year + 1) \in {DaysBeforeYear(year) + 365, DaysBeforeYear(year) + 366}
    BY YearLength
  <2> QED BY <1>2, <2>1, <2>2
<1>4. Term(t) \in Int
  <2>1. day - base \in 1 .. 366
    BY <1>3
  <2> QED BY <1>1, <1>2, <1>3, <2>1, EnvironmentAssumption DEF Term
<1>5. SeasonalOffset(m, t) \in Int
  <2>1. PICK k \in Int : k = Term(t)
    BY <1>4
  <2>2. TempAmplitude \in Int /\ HumidityAmplitude \in Int
    BY EnvironmentAssumption
  <2>3. TempAmplitude * k \in Int /\ -(HumidityAmplitude * k) \in Int
    BY <2>2
  <2> QED BY <2>1, <2>3 DEF SeasonalOffset
<1>6. SeasonalApply(m, v, t) \in Int
  <2>1. PICK k \in Int : k = v + SeasonalOffset(m, t)
    BY <1>5
  <2>2. 100 * Unit \in Int
    BY EnvironmentAssumption
  <2> QED BY <2>1, <2>2 DEF SeasonalApply, AtMost, AtLeast
<1> QED BY <1>5, <1>6

\* What the pages may rely on of a sample, at some time.
SoundSample(s, time) ==
    /\ s.device \in Devices
    /\ s.at \in Nat /\ DayOf(s.at) >= 1 /\ s.at <= time
    /\ s.values \in [Recorded -> Int]

LEMMA DerivedIsSound ==
    ASSUME NEW d \in Devices, NEW t \in DerivedAt, NEW noise \in Noise, NEW baseline
    PROVE  SoundSample(DerivedSample(d, t, noise[t], baseline), Anchor)
<1>1. t \in Nat /\ DayOf(t) >= 1 /\ t < Anchor /\ Anchor \in Nat /\ noise[t] \in [Recorded -> Int]
  BY ObservationsAssumption
<1> DEFINE target == CycleOrigin + ((t - Epoch) % (CycleDays * HalfHoursADay))
           row    == Rows(d)[Nearest(Rows(d), target)]
<1>2. row \in FileRow
  <2>1. PICK rows \in Seq(FileRow) : rows = Rows(d) /\ Len(rows) >= 1
    BY RowsAreSorted
  <2>2. Nearest(rows, target) \in 1 .. Len(rows)
    BY <2>1, NearestIsRow
  <2> HIDE DEF target
  <2> QED BY <2>1, <2>2
<1>3. DerivedValues(row, noise[t], t) \in [Recorded -> Int]
  <2> HIDE DEF row
  <2>1. \A m \in Recorded : row.values[m] \in Int /\ noise[t][m] \in Int
    BY <1>1, <1>2 DEF FileRow
  <2> SUFFICES ASSUME NEW m \in Recorded
               PROVE  DerivedValues(row, noise[t], t)[m] \in Int
    BY DEF DerivedValues
  <2>2. PICK v \in Int : v = row.values[m] + noise[t][m]
    BY <2>1
  <2>3. AtLeast(v, 0) \in Int
    BY DEF AtLeast
  <2> QED BY <1>1, <2>2, <2>3, SeasonIsNumber DEF DerivedValues
<1>4. /\ DerivedSample(d, t, noise[t], baseline).device = d
      /\ DerivedSample(d, t, noise[t], baseline).at = t
      /\ DerivedSample(d, t, noise[t], baseline).values = DerivedValues(row, noise[t], t)
  BY DEF DerivedSample
<1> HIDE DEF row
<1> QED BY <1>1, <1>3, <1>4 DEF SoundSample

-----------------------------------------------------------------------------
(* The stored rows *)

\* The image of a finite set under a function is finite.
LEMMA ImageIsFinite ==
    ASSUME NEW S, IsFiniteSet(S), NEW f, DOMAIN f = S
    PROVE  IsFiniteSet({f[x] : x \in S})
<1>1. [x \in S |-> f[x]] \in Surjection(S, {f[x] : x \in S})
  BY DEF Surjection
<1> QED BY <1>1, FS_Surjection

\* The stored rows: finitely many sound samples, aggregated.
StoredInv ==
    /\ past \in 0 .. Len(Clock)
    /\ IsFiniteSet(derived) /\ \A s \in derived : SoundSample(s, Anchor)
    /\ IsFiniteSet(live) /\ \A s \in live : SoundSample(s, Now)
    /\ tables = Aggregated(derived, live)

LEMMA DaysGrow ==
    ASSUME NEW t \in Int, NEW u \in Int, t <= u
    PROVE  DayOf(t) \in Int /\ DayOf(u) \in Int /\ DayOf(t) <= DayOf(u)
BY DEF DayOf, HalfHoursADay

\* The clock is past the derived rows, and more than two years into the calendar.
LEMMA NowIsLate ==
    ASSUME past \in 0 .. Len(Clock)
    PROVE  Now \in Nat /\ Anchor \in Nat /\ Anchor <= Now /\ DayOf(Now) > 769
<1>1. Anchor \in Nat /\ DayOf(Anchor) > 769 /\ Clock \in Seq(Nat)
  BY ObservationsAssumption
<1>2. Now \in Nat /\ Anchor <= Now
  <2>1. CASE past = 0
    BY <1>1, <2>1 DEF Now
  <2>2. CASE past # 0
    <3>1. past \in DOMAIN Clock
      BY <1>1, <2>2
    <3>2. Clock[past] \in Nat /\ Anchor <= Clock[past]
      BY <1>1, <3>1, ObservationsAssumption
    <3> QED BY <2>2, <3>2 DEF Now
  <2> QED BY <2>1, <2>2
<1>3. DayOf(Anchor) <= DayOf(Now) /\ DayOf(Anchor) \in Int /\ DayOf(Now) \in Int
  <2>1. PICK t \in Int, u \in Int : t = Anchor /\ u = Now /\ t <= u
    BY <1>1, <1>2
  <2>2. DayOf(t) \in Int /\ DayOf(u) \in Int /\ DayOf(t) <= DayOf(u)
    BY <2>1, DaysGrow
  <2> QED BY <2>1, <2>2
<1> QED BY <1>1, <1>2, <1>3

LEMMA StoredInitial == StoredInit => StoredInv
<1> SUFFICES ASSUME StoredInit PROVE StoredInv
  OBVIOUS
<1>1. past \in 0 .. Len(Clock)
  BY ObservationsAssumption DEF StoredInit
<1>2. IsFiniteSet(derived) /\ \A s \in derived : SoundSample(s, Anchor)
  <2>1. CASE derived = {}
    BY <2>1, FS_EmptySet
  <2>2. CASE derived # {}
    <3>1. PICK noise \in Noise : derived = History(noise)
      BY <2>2 DEF StoredInit
    <3> DEFINE Row(d, t) == DerivedSample(d, t, noise[t], thresholds[d])
               f == [k \in Devices \X DerivedAt |-> Row(k[1], k[2])]
    <3>2. IsFiniteSet(Devices \X DerivedAt)
      BY DerivationAssumption, ObservationsAssumption, FS_Product
    <3>3. derived = {f[k] : k \in Devices \X DerivedAt}
      <4> HIDE DEF Row
      <4>1. \A d \in Devices, t \in DerivedAt : f[<<d, t>>] = Row(d, t)
        OBVIOUS
      <4>2. derived = {Row(d, t) : d \in Devices, t \in DerivedAt}
        BY <3>1 DEF History, Row
      <4>3. \A k \in Devices \X DerivedAt : \E d \in Devices, t \in DerivedAt : k = <<d, t>>
        OBVIOUS
      <4>4. \A d \in Devices, t \in DerivedAt : <<d, t>> \in Devices \X DerivedAt
        OBVIOUS
      <4> HIDE DEF f
      <4>5. \A s \in derived : \E k \in Devices \X DerivedAt : s = f[k]
        <5> TAKE s \in derived
        <5>1. PICK d \in Devices, t \in DerivedAt : s = Row(d, t)
          BY <4>2
        <5>2. s = f[<<d, t>>] /\ <<d, t>> \in Devices \X DerivedAt
          BY <4>1, <4>4, <5>1
        <5> QED BY <5>2
      <4>6. \A k \in Devices \X DerivedAt : f[k] \in derived
        BY <4>1, <4>2, <4>3
      <4> QED BY <4>5, <4>6
    <3>4. IsFiniteSet({f[k] : k \in Devices \X DerivedAt})
      <4>1. DOMAIN f = Devices \X DerivedAt
        OBVIOUS
      <4> HIDE DEF f
      <4> QED BY <3>2, <4>1, ImageIsFinite
    <3>5. \A s \in derived : SoundSample(s, Anchor)
      <4> SUFFICES ASSUME NEW s \in derived PROVE SoundSample(s, Anchor)
        OBVIOUS
      <4>1. PICK d \in Devices, t \in DerivedAt : s = DerivedSample(d, t, noise[t], thresholds[d])
        BY <3>1 DEF History
      <4> QED BY <4>1, DerivedIsSound
    <3> QED BY <3>3, <3>4, <3>5
  <2> QED BY <2>1, <2>2
<1>3. live = {} /\ tables = Aggregated(derived, live)
  BY DEF StoredInit
<1> QED BY <1>1, <1>2, <1>3, FS_EmptySet DEF StoredInv

LEMMA StoredStep == StoredInv /\ [StoredNext]_storedVars => StoredInv'
<1> SUFFICES ASSUME StoredInv, [StoredNext]_storedVars PROVE StoredInv'
  OBVIOUS
<1>1. CASE Read
  <2>1. past' \in 0 .. Len(Clock) /\ past' = past + 1 /\ past' \in DOMAIN Clock
    BY <1>1, ObservationsAssumption DEF Read, StoredInv
  <2>2. Now' = Clock[past'] /\ Now' \in Nat /\ Now <= Now' /\ Now \in Nat /\ DayOf(Now') > 769
    <3>1. Now' = Clock[past']
      BY <2>1 DEF Now, StoredInv
    <3>2. Now \in Nat
      BY NowIsLate DEF StoredInv
    <3>3. CASE past = 0
      <4>1. Now = Anchor /\ Anchor <= Clock[past'] /\ Clock[past'] \in Nat
        BY <2>1, <3>3, ObservationsAssumption DEF Now
      <4>2. DayOf(Anchor) > 769
        BY ObservationsAssumption
      <4> QED BY <3>1, <3>2, <4>1, <4>2, DaysGrow
    <3>4. CASE past # 0
      <4>1. past \in DOMAIN Clock
        BY <1>1, <3>4, ObservationsAssumption DEF StoredInv, Read
      <4>2. Now = Clock[past] /\ Clock[past] <= Clock[past'] /\ Clock[past'] \in Nat
        BY <2>1, <3>4, <4>1, ObservationsAssumption DEF Now
      <4>3. DayOf(Now) > 769
        BY NowIsLate DEF StoredInv
      <4> QED BY <3>1, <3>2, <4>2, <4>3, DaysGrow
    <3> QED BY <3>3, <3>4
  <2>3. PICK readings \in LiveChoices[past'] :
            live' = live \cup {[device |-> r.device, at |-> Clock[past'], values |-> r.values,
                                source_ts |-> None, flagged |-> r.flagged] : r \in readings}
    BY <1>1 DEF Read
  <2>4. /\ IsFiniteSet(readings)
        /\ \A r \in readings : r.device \in Devices /\ r.values \in [Recorded -> Int]
    BY <2>1, ObservationsAssumption
  <2> DEFINE f   == [r \in readings |-> [device |-> r.device, at |-> Clock[past'], values |-> r.values,
                                         source_ts |-> None, flagged |-> r.flagged]]
             new == {f[r] : r \in readings}
  <2>5. IsFiniteSet(new) /\ live' = live \cup new
    <3>1. DOMAIN f = readings
      OBVIOUS
    <3>2. live' = live \cup new
      BY <2>3
    <3> HIDE DEF f
    <3> QED BY <2>4, <3>1, <3>2, ImageIsFinite
  <2>6. \A s \in new : SoundSample(s, Now)'
    <3> SUFFICES ASSUME NEW r \in readings PROVE SoundSample(f[r], Now')
      BY DEF SoundSample
    <3>1. f[r].device = r.device /\ f[r].at = Now' /\ f[r].values = r.values
      BY <2>2
    <3>2. DayOf(f[r].at) >= 1 /\ f[r].at <= Now'
      <4>1. DayOf(Now') \in Int
        BY <2>2, DaysGrow
      <4> QED BY <2>2, <3>1, <4>1
    <3> QED BY <2>2, <2>4, <3>1, <3>2 DEF SoundSample
  <2>7. \A s \in live : SoundSample(s, Now)'
    BY <2>2 DEF StoredInv, SoundSample
  <2>8. IsFiniteSet(live') /\ \A s \in live' : SoundSample(s, Now)'
    <3>1. IsFiniteSet(live')
      BY <2>5, FS_Union DEF StoredInv
    <3> HIDE DEF new
    <3> QED BY <2>5, <2>6, <2>7, <3>1
  <2>9. derived' = derived /\ tables' = Aggregated(derived', live')
    BY <1>1 DEF Read
  <2> QED BY <2>1, <2>8, <2>9 DEF StoredInv
<1>2. CASE UNCHANGED storedVars
  BY <1>2 DEF storedVars, StoredInv, Now
<1> QED BY <1>1, <1>2 DEF StoredNext

\* The stored rows are finitely many readings of the recorded calendar, none
\* later than the clock, and the tables their aggregates (write_agg_1h, Spark).
THEOREM StoredHolds == StoredSpec => []StoredInv
BY StoredInitial, StoredStep, PTL DEF StoredSpec

-----------------------------------------------------------------------------
(* What is asked of the hourly rows *)

LEMMA SamplesAreSound ==
    ASSUME StoredInv
    PROVE  IsFiniteSet(Samples) /\ \A s \in Samples : SoundSample(s, Now)
<1>1. IsFiniteSet(Samples)
  BY FS_Union DEF StoredInv, Samples
<1>2. Now \in Nat /\ Anchor \in Nat /\ Anchor <= Now
  BY NowIsLate DEF StoredInv
<1>3. \A s \in derived : SoundSample(s, Now)
  BY <1>2 DEF StoredInv, SoundSample
<1> QED BY <1>1, <1>3 DEF StoredInv, Samples

\* The hour of a sample.
LEMMA HourOfSample ==
    ASSUME NEW s, NEW time \in Nat, SoundSample(s, time)
    PROVE  /\ HourStart(s) \in Nat /\ DayOf(HourStart(s)) >= 1 /\ HourStart(s) <= time
           /\ DayOf(ToLocal(HourStart(s))) = DayOf(ToLocal(s.at))
<1>1. s.at \in Nat /\ DayOf(s.at) >= 1 /\ s.at <= time
  BY DEF SoundSample
<1>2. HourStart(s) = s.at - (s.at % 2)
  BY DEF HourStart, WindowStart, Hour
<1>3. PICK h \in Nat : HourStart(s) = 2 * h /\ (s.at = 2 * h \/ s.at = 2 * h + 1)
  BY <1>1, <1>2, HourIsEven
<1>4. DayOf(HourStart(s)) = DayOf(s.at)
  <2>1. (2 * h) \div 48 = (2 * h + 1) \div 48
    OBVIOUS
  <2> QED BY <1>3, <2>1 DEF DayOf, HalfHoursADay
<1> QED BY <1>1, <1>2, <1>3, <1>4, HourHasDay

\* agg_1h: one row per device and hour that has samples.
LEMMA HourRows ==
    ASSUME StoredInv
    PROVE  /\ IsFiniteSet(tables["1h"])
           /\ \A s \in Samples : WindowAgg(s.device, HourStart(s), Hour, Samples) \in tables["1h"]
           /\ \A r \in tables["1h"] : \E s \in Samples :
                r = WindowAgg(s.device, HourStart(s), Hour, Samples)
<1> DEFINE Row(d, h) == WindowAgg(d, h, Hour, Samples)
           Keys == {<<s.device, WindowStart(s.at, Hour)>> : s \in Samples}
           key == [s \in Samples |-> <<s.device, WindowStart(s.at, Hour)>>]
           row == [k \in Keys |-> Row(k[1], k[2])]
<1>1. tables["1h"] = {Row(k[1], k[2]) : k \in Keys}
  BY DEF StoredInv, Aggregated, Windows, Samples
<1>2. IsFiniteSet(Keys)
  <2>1. Keys = {key[s] : s \in Samples} /\ DOMAIN key = Samples
    OBVIOUS
  <2> HIDE DEF key, Keys
  <2> QED BY <2>1, SamplesAreSound, ImageIsFinite
<1>3. IsFiniteSet(tables["1h"])
  <2> HIDE DEF Row, Keys
  <2>1. tables["1h"] = {row[k] : k \in Keys} /\ DOMAIN row = Keys
    BY <1>1
  <2> HIDE DEF row
  <2> QED BY <1>2, <2>1, ImageIsFinite
<1>4. \A s \in Samples : Row(s.device, HourStart(s)) \in tables["1h"]
  <2> HIDE DEF Row
  <2> TAKE s \in Samples
  <2> DEFINE k == <<s.device, WindowStart(s.at, Hour)>>
  <2>1. k \in Keys /\ k[1] = s.device /\ k[2] = HourStart(s)
    BY DEF HourStart
  <2> HIDE DEF k, Keys
  <2> QED BY <1>1, <2>1
<1>5. \A r \in tables["1h"] : \E s \in Samples : r = Row(s.device, HourStart(s))
  <2> HIDE DEF Row
  <2> TAKE r \in tables["1h"]
  <2>1. PICK k \in Keys : r = Row(k[1], k[2])
    <3> HIDE DEF Keys
    <3> QED BY <1>1
  <2>2. PICK s \in Samples : k = <<s.device, WindowStart(s.at, Hour)>>
    OBVIOUS
  <2> QED BY <2>1, <2>2 DEF HourStart
<1> QED BY <1>3, <1>4, <1>5

LEMMA TilesHold == StoredInv => LocalTimeTiles
<1> SUFFICES ASSUME StoredInv, NEW t \in Now - HalfHoursADay .. Now + HalfHoursADay
             PROVE  LET day == DayOf(ToLocal(t))
                    IN  LocalMidnightUtc(day) <= t /\ t < LocalMidnightUtc(day + 1)
  BY DEF LocalTimeTiles
<1>1. Now \in Nat /\ DayOf(Now) > 769
  BY NowIsLate DEF StoredInv
<1>2. t \in Nat /\ DayOf(t) >= 1
  BY <1>1 DEF DayOf, HalfHoursADay
<1> QED BY <1>2, DayHasInstant

\* The hours left outside an inquiry are those of the opposite inquiry.
LEMMA OppositeHours ==
    ASSUME NEW hour \in Int, NEW hours \in {<<22, 6>>, <<1, 3>>}
    PROVE  InHourWindow(hour, hours[2], hours[1]) <=> ~InHourWindow(hour, hours[1], hours[2])
<1>1. CASE hours = <<22, 6>>
  BY <1>1 DEF InHourWindow
<1>2. CASE hours = <<1, 3>>
  BY <1>2 DEF InHourWindow
<1> QED BY <1>1, <1>2

LEMMA InquiryHolds == StoredInv => InquirySplits
<1> SUFFICES ASSUME StoredInv PROVE InquirySplits
  OBVIOUS
<1> SUFFICES ASSUME NEW d \in Devices, NEW hours \in {<<22, 6>>, <<1, 3>>}
             PROVE  LET last == DayOf(ToLocal(Now))
                        Ask(from, to) ==
                            Inquiry(tables["1h"], d, thresholds[d], last - 30, last, from, to).metrics
                        Shared(asked, opposite, whole) ==
                            /\ asked.outside = opposite.inside /\ asked.inside = opposite.outside
                            /\ asked.inside.hours_with_data + opposite.inside.hours_with_data
                                    = whole.inside.hours_with_data
                        answers == <<Ask(hours[1], hours[2]), Ask(hours[2], hours[1]), Ask(0, 0)>>
                    IN  \A m \in Recorded : Shared(answers[1][m], answers[2][m], answers[3][m])
  BY Zenon DEF InquirySplits
<1> SUFFICES \A m \in Recorded :
                    LET last == DayOf(ToLocal(Now))
                        Ask(from, to) ==
                            Inquiry(tables["1h"], d, thresholds[d], last - 30, last, from, to).metrics
                        asked    == Ask(hours[1], hours[2])[m]
                        opposite == Ask(hours[2], hours[1])[m]
                        whole    == Ask(0, 0)[m]
                    IN  /\ asked.outside = opposite.inside /\ asked.inside = opposite.outside
                        /\ asked.inside.hours_with_data + opposite.inside.hours_with_data
                                = whole.inside.hours_with_data
  OBVIOUS
<1> TAKE m \in Recorded
<1> DEFINE last   == DayOf(ToLocal(Now))
           bounds == LocalPeriod(last - 30, last)
           year   == bounds[2] - 366 * HalfHoursADay
           rows   == HourlyBetween(tables["1h"], d, AtMost(year, bounds[1]), bounds[2])
           period == InPeriod(rows, bounds)
           inside(from, to)  == {r \in period : InHourWindow(LocalHour(r), from, to)}
           Ask(from, to)     == Inquiry(tables["1h"], d, thresholds[d], last - 30, last, from, to).metrics[m]
           Figures(some)     == MetricSummary(some, m, thresholds[d])
<1>1. \A from, to : /\ Ask(from, to).inside = Figures(inside(from, to))
                    /\ Ask(from, to).outside = Figures(period \ inside(from, to))
  BY DEF Inquiry, InquiryReport
<1> HIDE DEF bounds, year, rows
<1>2. IsFiniteSet(period) /\ \A r \in period : LocalHour(r) \in Int
  <2>1. period \in SUBSET tables["1h"]
    BY DEF InPeriod, HourlyBetween, rows
  <2>2. IsFiniteSet(period)
    BY <2>1, HourRows, FS_Subset
  <2>3. \A r \in tables["1h"] : LocalHour(r) \in Int
    <3> TAKE r \in tables["1h"]
    <3>1. PICK s \in Samples : r = WindowAgg(s.device, HourStart(s), Hour, Samples)
      BY HourRows
    <3>2. Now \in Nat
      BY NowIsLate DEF StoredInv
    <3>3. PICK h \in Nat : h = r.window_start
      BY <3>1, <3>2, SamplesAreSound, HourOfSample DEF WindowAgg
    <3>4. PICK k \in {2, 4} : k = BerlinOffset(h)
      BY Offsets
    <3>5. ((h + k) % 48) \div 2 \in Int
      OBVIOUS
    <3> QED BY <3>3, <3>4, <3>5 DEF LocalHour, HourOf, ToLocal, HalfHoursADay, Hour
  <2> QED BY <2>1, <2>2, <2>3
<1> HIDE DEF period
<1>3. inside(hours[2], hours[1]) = period \ inside(hours[1], hours[2])
  BY <1>2, OppositeHours
<1>4. inside(0, 0) = period
  BY DEF InHourWindow
<1>5. inside(hours[1], hours[2]) = period \ inside(hours[2], hours[1])
  BY <1>3
<1>6. Cardinality(inside(hours[1], hours[2])) + Cardinality(inside(hours[2], hours[1])) = Cardinality(period)
  <2> DEFINE A == inside(hours[1], hours[2])
  <2>1. A \in SUBSET period
    OBVIOUS
  <2> HIDE DEF A
  <2>2. Cardinality(period \ A) = Cardinality(period) - Cardinality(period \cap A) /\ period \cap A = A
    BY <1>2, <2>1, FS_Difference
  <2>3. Cardinality(period) \in Nat /\ Cardinality(A) \in Nat
    BY <1>2, <2>1, FS_Subset, FS_CardinalityType
  <2>c. PICK n \in Nat, a \in Nat : n = Cardinality(period) /\ a = Cardinality(A)
    BY <2>3
  <2>e. Cardinality(period \ A) = n - a
    BY <2>2, <2>c
  <2>4. Cardinality(A) + Cardinality(period \ A) = Cardinality(period)
    BY <2>c, <2>e
  <2> QED BY <1>3, <2>4 DEF A
<1>7. \A some : Figures(some).hours_with_data = Cardinality(some)
  BY DEF MetricSummary
<1> DEFINE A == inside(hours[1], hours[2])
           B == inside(hours[2], hours[1])
<1>a. /\ Ask(hours[1], hours[2]).inside = Figures(A) /\ Ask(hours[1], hours[2]).outside = Figures(B)
      /\ Ask(hours[2], hours[1]).inside = Figures(B) /\ Ask(hours[2], hours[1]).outside = Figures(A)
      /\ Ask(0, 0).inside = Figures(period)
  <2> HIDE DEF inside, Figures, Ask
  <2>1. Ask(hours[1], hours[2]).inside = Figures(A) /\ Ask(hours[1], hours[2]).outside = Figures(period \ A)
    BY <1>1
  <2>2. Ask(hours[2], hours[1]).inside = Figures(B) /\ Ask(hours[2], hours[1]).outside = Figures(period \ B)
    BY <1>1
  <2>3. Ask(0, 0).inside = Figures(period)
    BY <1>1, <1>4
  <2> QED BY <1>3, <1>5, <2>1, <2>2, <2>3
<1>b. Cardinality(A) + Cardinality(B) = Cardinality(period)
  BY <1>6
<1>c. /\ Figures(A).hours_with_data = Cardinality(A) /\ Figures(B).hours_with_data = Cardinality(B)
      /\ Figures(period).hours_with_data = Cardinality(period)
  BY <1>7
<1> HIDE DEF A, B, inside, Figures, Ask
<1>8. /\ Ask(hours[1], hours[2]).outside = Ask(hours[2], hours[1]).inside
      /\ Ask(hours[1], hours[2]).inside = Ask(hours[2], hours[1]).outside
      /\ Ask(hours[1], hours[2]).inside.hours_with_data + Ask(hours[2], hours[1]).inside.hours_with_data
            = Ask(0, 0).inside.hours_with_data
  BY <1>a, <1>b, <1>c
<1> QED BY <1>8 DEF Ask

\* A row's extremes are numbers on either side of each value of its hour.
LEMMA RowCovers ==
    ASSUME StoredInv, NEW s \in Samples, NEW m \in Recorded
    PROVE  LET row == WindowAgg(s.device, HourStart(s), Hour, Samples)
           IN  /\ row.min[m] \in Int /\ row.min[m] <= s.values[m]
               /\ row.max[m] \in Int /\ s.values[m] <= row.max[m]
<1> DEFINE row  == WindowAgg(s.device, HourStart(s), Hour, Samples)
           mine == {q \in Samples : q.device = s.device /\ WindowStart(q.at, Hour) = HourStart(s)}
           f    == [q \in mine |-> q.values[m]]
           values == {q.values[m] : q \in mine}
<1>1. row.min[m] = Min(values) /\ row.max[m] = Max(values)
  BY DEF WindowAgg
<1>2. s \in mine /\ mine \in SUBSET Samples
  BY DEF HourStart
<1>3. \A q \in mine : q.values[m] \in Int
  BY <1>2, SamplesAreSound DEF SoundSample
<1>4. IsFiniteSet(mine)
  BY <1>2, SamplesAreSound, FS_Subset
<1> HIDE DEF mine
<1>5. IsFiniteSet(values)
  <2>1. values = {f[q] : q \in mine} /\ DOMAIN f = mine
    OBVIOUS
  <2> HIDE DEF f, values
  <2> QED BY <1>4, <2>1, ImageIsFinite
<1>6. values \subseteq Int /\ s.values[m] \in values
  BY <1>2, <1>3
<1> HIDE DEF values, row
<1>7. /\ Min(values) \in values /\ \A x \in values : Min(values) <= x
      /\ Max(values) \in values /\ \A x \in values : x <= Max(values)
  <2>1. values # {}
    BY <1>6
  <2> QED BY <1>5, <1>6, <2>1, Extremes
<1> QED BY <1>1, <1>6, <1>7 DEF row

\* What the fact sheet of a device is made of, and where its days lie.
Since      == Now - FactSheetDays * HalfHoursADay
SheetRows(d) ==
    InPeriod(HourlyBetween(tables["1h"], d, Now - 366 * HalfHoursADay, Now + Hour), <<Since, Now + Hour>>)
RecentOf(d) == {s \in SamplesOf(d) : HourStart(s) >= Since}
RowAt(d, h) == WindowAgg(d, h, Hour, Samples)

LEMMA SinceIsRecent ==
    ASSUME StoredInv
    PROVE  /\ Now \in Nat /\ Since \in Nat /\ Since <= Now /\ DayOf(Since) >= 1
           /\ Now - 366 * HalfHoursADay \in Nat /\ Now - 366 * HalfHoursADay <= Since
           /\ DayOf(Now - 366 * HalfHoursADay) >= 1
<1>1. Now \in Nat /\ DayOf(Now) > 769
  BY NowIsLate DEF StoredInv
<1>2. PICK n \in Nat, k \in 1 .. 366 : n = Now /\ k = FactSheetDays
  BY <1>1, ReportsAssumption
<1>3. n \div 48 > 769
  BY <1>1, <1>2 DEF DayOf, HalfHoursADay
<1>4. /\ n - k * 48 \in Nat /\ n - k * 48 <= n /\ n - 366 * 48 \in Nat /\ n - 366 * 48 <= n - k * 48
      /\ (n - k * 48) \div 48 >= 1 /\ (n - 366 * 48) \div 48 >= 1
  BY <1>3
<1> QED BY <1>2, <1>4 DEF Since, DayOf, HalfHoursADay

LEMMA RecentRows ==
    ASSUME StoredInv, NEW d \in Devices
    PROVE  /\ IsFiniteSet(SheetRows(d))
           /\ \A s \in RecentOf(d) : RowAt(d, HourStart(s)) \in SheetRows(d)
           /\ \A r \in SheetRows(d) : \E s \in RecentOf(d) : r = RowAt(d, HourStart(s))
<1> DEFINE start == Now - 366 * HalfHoursADay
<1>1. SheetRows(d) \in SUBSET tables["1h"]
  BY DEF SheetRows, InPeriod, HourlyBetween
<1>2. \A r : r \in SheetRows(d) <=>
        /\ r \in tables["1h"] /\ r.device_id = d
        /\ PartitionOf(r, "1h") \in MonthsBetween(start, (Now + Hour) - Instant)
        /\ start <= r.window_start /\ r.window_start < Now + Hour
        /\ Since <= r.window_start
  BY DEF SheetRows, InPeriod, HourlyBetween
<1>3. \A s \in Samples : /\ RowAt(s.device, HourStart(s)).device_id = s.device
                         /\ RowAt(s.device, HourStart(s)).window_start = HourStart(s)
  BY DEF RowAt, WindowAgg
<1>4. \A s \in RecentOf(d) : RowAt(d, HourStart(s)) \in SheetRows(d)
  <2> SUFFICES ASSUME NEW s \in RecentOf(d) PROVE RowAt(d, HourStart(s)) \in SheetRows(d)
    OBVIOUS
  <2>1. s \in Samples /\ s.device = d /\ HourStart(s) >= Since
    BY DEF RecentOf, SamplesOf
  <2>2. PICK h \in Nat : h = HourStart(s) /\ DayOf(h) >= 1 /\ h <= Now
    BY <2>1, SamplesAreSound, SinceIsRecent, HourOfSample
  <2>3. PICK r : r = RowAt(d, h) /\ r \in tables["1h"] /\ r.device_id = d /\ r.window_start = h
    BY <1>3, <2>1, <2>2, HourRows DEF RowAt
  <2>4. PICK a \in Nat, n \in Nat : a = start /\ n = Now /\ a <= h /\ h < n + 2 /\ DayOf(a) >= 1
    BY <2>1, <2>2, SinceIsRecent
  <2>5. h <= (n + 2) - 1 /\ (n + 2) - 1 \in Nat
    BY <2>4
  <2>6. MonthIndex(MonthOf(h)) \in MonthIndex(MonthOf(a)) .. MonthIndex(MonthOf((n + 2) - 1))
    BY <2>2, <2>4, <2>5, MonthsInOrder
  <2>7. PartitionOf(r, "1h") \in MonthsBetween(start, (Now + Hour) - Instant)
    BY <2>3, <2>4, <2>6 DEF PartitionOf, MonthsBetween, Hour, Instant
  <2> QED BY <1>2, <2>1, <2>2, <2>3, <2>4, <2>7 DEF Hour
<1>5. \A r \in SheetRows(d) : \E s \in RecentOf(d) : r = RowAt(d, HourStart(s))
  <2> SUFFICES ASSUME NEW r \in SheetRows(d)
               PROVE  \E s \in RecentOf(d) : r = RowAt(d, HourStart(s))
    OBVIOUS
  <2>1. PICK s \in Samples : r = RowAt(s.device, HourStart(s))
    BY <1>1, HourRows DEF RowAt
  <2>2. s.device = d /\ Since <= HourStart(s)
    BY <1>2, <1>3, <2>1
  <2>3. HourStart(s) \in Nat
    BY SamplesAreSound, SinceIsRecent, HourOfSample
  <2>4. s \in RecentOf(d)
    BY <2>2, <2>3, SinceIsRecent DEF RecentOf, SamplesOf
  <2> QED BY <2>1, <2>2, <2>4
<1> QED BY <1>1, <1>4, <1>5, HourRows, FS_Subset

\* Each sample the sheet looks at has its row on its own local day, and that
\* day is on the sheet.
LEMMA RecentDays ==
    ASSUME StoredInv, NEW d \in Devices, NEW s \in RecentOf(d)
    PROVE  /\ RowAt(d, HourStart(s)).window_start = HourStart(s)
           /\ LocalDay(RowAt(d, HourStart(s))) = DayOf(ToLocal(s.at))
           /\ DayOf(ToLocal(s.at)) \in DayOf(ToLocal(Since)) .. DayOf(ToLocal(Now))
<1>1. s \in Samples /\ HourStart(s) >= Since
  BY DEF RecentOf, SamplesOf
<1>2. /\ HourStart(s) \in Nat /\ DayOf(HourStart(s)) >= 1 /\ HourStart(s) <= Now
      /\ DayOf(ToLocal(HourStart(s))) = DayOf(ToLocal(s.at))
  BY <1>1, SamplesAreSound, SinceIsRecent, HourOfSample
<1>3. RowAt(d, HourStart(s)).window_start = HourStart(s)
  BY DEF RowAt, WindowAgg
<1>4. Now \in Nat /\ Since \in Nat /\ DayOf(Since) >= 1 /\ DayOf(Now) >= 1 /\ Since <= Now
  BY SinceIsRecent, DaysGrow
<1>5. /\ DayOf(ToLocal(Since)) <= DayOf(ToLocal(HourStart(s)))
      /\ DayOf(ToLocal(HourStart(s))) <= DayOf(ToLocal(Now))
  BY <1>1, <1>2, <1>4, DaysInOrder
<1>6. DayOf(ToLocal(HourStart(s))) \in Int /\ DayOf(ToLocal(Since)) \in Int /\ DayOf(ToLocal(Now)) \in Int
  BY <1>2, <1>4, DayHasInstant
<1> QED BY <1>2, <1>3, <1>5, <1>6 DEF LocalDay

\* The days of the sheet, for one metric.
SheetDays == DayOf(ToLocal(Since)) .. DayOf(ToLocal(Now))
GroupOf(d, day) == {r \in SheetRows(d) : LocalDay(r) = day}
ListedOf(d, m, day) ==
    {day} \X (1 .. Cardinality({r \in GroupOf(d, day) : OutOfRange(r, m, thresholds[d])}))

LEMMA HoursSummed ==
    ASSUME NEW R, NEW m, NEW st
    PROVE  MetricSummary(R, m, st).out_of_range_hours = Cardinality({r \in R : OutOfRange(r, m, st)})
BY DEF MetricSummary

LEMMA SheetIsOfRows ==
    ASSUME NEW d \in Devices, NEW m \in Recorded
    PROVE  LET sheet == Sheet(tables["1h"], d, thresholds[d], Now)
               figures == sheet.metrics[m]
           IN  /\ sheet.hours_with_data = Cardinality(SheetRows(d))
               /\ figures.summary.out_of_range_hours
                    = Cardinality({r \in SheetRows(d) : OutOfRange(r, m, thresholds[d])})
               /\ DOMAIN figures.daily = SheetDays
               /\ \A day \in SheetDays :
                    /\ figures.daily[day].out_of_range_hours
                        = Cardinality({r \in GroupOf(d, day) : OutOfRange(r, m, thresholds[d])})
                    /\ GroupOf(d, day) # {} =>
                        /\ figures.daily[day].min = Min({r.min[m] : r \in GroupOf(d, day)})
                        /\ figures.daily[day].max = Max({r.max[m] : r \in GroupOf(d, day)})
<1> DEFINE sheet   == Sheet(tables["1h"], d, thresholds[d], Now)
           figures == sheet.metrics[m]
<1>1. sheet.hours_with_data = Cardinality(SheetRows(d))
  BY DEF Sheet, FactSheet, SheetRows, Since
<1>2. /\ figures.summary = MetricSummary(SheetRows(d), m, thresholds[d])
      /\ figures.daily = DailySeries(SheetRows(d), m, thresholds[d],
                                     DayOf(ToLocal(Since)), DayOf(ToLocal(Now)))
  BY DEF Sheet, FactSheet, SheetRows, Since
<1> HIDE DEF sheet
<1>3. figures.summary.out_of_range_hours
          = Cardinality({r \in SheetRows(d) : OutOfRange(r, m, thresholds[d])})
  BY <1>2, HoursSummed
<1>4. DOMAIN figures.daily = SheetDays
  BY <1>2 DEF DailySeries, SheetDays
<1>5. \A day \in SheetDays :
          /\ figures.daily[day].out_of_range_hours
                = Cardinality({r \in GroupOf(d, day) : OutOfRange(r, m, thresholds[d])})
          /\ GroupOf(d, day) # {} =>
                /\ figures.daily[day].min = Min({r.min[m] : r \in GroupOf(d, day)})
                /\ figures.daily[day].max = Max({r.max[m] : r \in GroupOf(d, day)})
  BY <1>2, HoursSummed DEF DailySeries, SheetDays, GroupOf
<1> QED BY <1>1, <1>3, <1>4, <1>5 DEF sheet

\* The out-of-range hours of the days are those of the whole sheet.
LEMMA DaysShareHours ==
    ASSUME StoredInv, NEW d \in Devices, NEW m \in Recorded
    PROVE  Cardinality(UNION {ListedOf(d, m, day) : day \in SheetDays})
               = Cardinality({r \in SheetRows(d) : OutOfRange(r, m, thresholds[d])})
<1> DEFINE S   == {r \in SheetRows(d) : OutOfRange(r, m, thresholds[d])}
           key == [r \in S |-> LocalDay(r)]
<1>1. IsFiniteSet(S)
  BY RecentRows, FS_Subset
<1>2. \A r \in SheetRows(d) : LocalDay(r) \in SheetDays
  BY RecentRows, RecentDays DEF SheetDays
<1>3. key \in [S -> SheetDays]
  BY <1>2
<1>4. \A day \in SheetDays :
          {r \in S : key[r] = day} = {r \in GroupOf(d, day) : OutOfRange(r, m, thresholds[d])}
  BY DEF GroupOf
<1> DEFINE Share(day) == {day} \X (1 .. Cardinality({r \in S : key[r] = day}))
<1>5. \A day \in SheetDays : ListedOf(d, m, day) = Share(day)
  BY <1>4 DEF ListedOf
<1>6. Cardinality(UNION {Share(day) : day \in SheetDays}) = Cardinality(S)
  <2>1. PartsOf(S, key, SheetDays) = UNION {Share(day) : day \in SheetDays}
    BY DEF PartsOf
  <2> HIDE DEF S, key, Share
  <2>2. Cardinality(PartsOf(S, key, SheetDays)) = Cardinality(S)
    BY <1>1, <1>3, Parts
  <2> QED BY <2>1, <2>2
<1>7. {ListedOf(d, m, day) : day \in SheetDays} = {Share(day) : day \in SheetDays}
  <2> HIDE DEF Share
  <2> QED BY <1>5
<1> QED BY <1>6, <1>7

\* A day's extremes lie on either side of each of its values.
LEMMA DayCovers ==
    ASSUME StoredInv, NEW d \in Devices, NEW m \in Recorded, NEW s \in RecentOf(d)
    PROVE  LET group == GroupOf(d, DayOf(ToLocal(s.at)))
           IN  /\ group # {}
               /\ Min({r.min[m] : r \in group}) \in Int /\ Min({r.min[m] : r \in group}) <= s.values[m]
               /\ Max({r.max[m] : r \in group}) \in Int /\ s.values[m] <= Max({r.max[m] : r \in group})
<1> DEFINE group == GroupOf(d, DayOf(ToLocal(s.at)))
           row   == RowAt(d, HourStart(s))
           low   == {r.min[m] : r \in group}
           high  == {r.max[m] : r \in group}
           f     == [r \in group |-> r.min[m]]
           g     == [r \in group |-> r.max[m]]
<1>1. row \in group
  BY RecentRows, RecentDays DEF GroupOf
<1>2. IsFiniteSet(group) /\ group \subseteq SheetRows(d)
  <2>1. group \in SUBSET SheetRows(d)
    BY DEF GroupOf
  <2> QED BY <2>1, RecentRows, FS_Subset
<1>3. \A r \in SheetRows(d) : r.min[m] \in Int /\ r.max[m] \in Int
  <2> SUFFICES ASSUME NEW r \in SheetRows(d) PROVE r.min[m] \in Int /\ r.max[m] \in Int
    OBVIOUS
  <2>1. PICK q \in RecentOf(d) : r = RowAt(d, HourStart(q))
    BY RecentRows
  <2>2. q \in Samples /\ q.device = d
    BY DEF RecentOf, SamplesOf
  <2> QED BY <2>1, <2>2, RowCovers DEF RowAt
<1>4. /\ row.min[m] \in Int /\ row.min[m] <= s.values[m]
      /\ row.max[m] \in Int /\ s.values[m] <= row.max[m]
  <2>1. s \in Samples /\ s.device = d
    BY DEF RecentOf, SamplesOf
  <2> QED BY <2>1, RowCovers DEF RowAt
<1>5. s.values[m] \in Int
  <2>1. s \in Samples
    BY DEF RecentOf, SamplesOf
  <2> QED BY <2>1, SamplesAreSound DEF SoundSample
<1> HIDE DEF group, row
<1>6. IsFiniteSet(low) /\ IsFiniteSet(high)
  <2>1. low = {f[r] : r \in group} /\ DOMAIN f = group /\ high = {g[r] : r \in group} /\ DOMAIN g = group
    OBVIOUS
  <2> HIDE DEF f, g, low, high
  <2> QED BY <1>2, <2>1, ImageIsFinite
<1>7. low \subseteq Int /\ high \subseteq Int /\ row.min[m] \in low /\ row.max[m] \in high
  BY <1>1, <1>2, <1>3
<1> HIDE DEF low, high
<1>8. low # {} /\ high # {}
  BY <1>7
<1>9. Min(low) \in Int /\ Min(low) <= row.min[m] /\ Max(high) \in Int /\ row.max[m] <= Max(high)
  BY <1>6, <1>7, <1>8, Extremes
<1>10. Min(low) <= s.values[m] /\ s.values[m] <= Max(high)
  <2>1. PICK a \in Int, b \in Int, v \in Int, e \in Int, f1 \in Int :
            a = Min(low) /\ b = row.min[m] /\ v = s.values[m] /\ e = row.max[m] /\ f1 = Max(high)
    BY <1>4, <1>5, <1>9
  <2> QED BY <1>4, <1>9, <2>1
<1> QED BY <1>1, <1>9, <1>10 DEF low, high, group

\* Each hour has one row.
LEMMA HoursAreRows ==
    ASSUME StoredInv, NEW d \in Devices
    PROVE  Cardinality(SheetRows(d)) = Cardinality({HourStart(s) : s \in RecentOf(d)})
<1> DEFINE H == {HourStart(s) : s \in RecentOf(d)}
           f == [r \in SheetRows(d) |-> r.window_start]
<1>1. \A s \in RecentOf(d) : RowAt(d, HourStart(s)).window_start = HourStart(s)
  BY RecentDays
<1>2. f \in [SheetRows(d) -> H]
  BY <1>1, RecentRows
<1>3. \A r, q \in SheetRows(d) : f[r] = f[q] => r = q
  BY <1>1, RecentRows
<1>4. \A h \in H : \E r \in SheetRows(d) : f[r] = h
  BY <1>1, RecentRows
<1> HIDE DEF f, H
<1>5. f \in Bijection(SheetRows(d), H)
  BY <1>2, <1>3, <1>4 DEF Bijection, Injection, Surjection, IsInjective
<1>6. Cardinality(H) = Cardinality(SheetRows(d))
  BY <1>5, RecentRows, FS_Bijection DEF ExistsBijection
<1> QED BY <1>6 DEF H

LEMMA SheetHolds == StoredInv => FactSheetLosesNothing
<1> SUFFICES ASSUME StoredInv, NEW d \in Devices, NEW m \in Recorded
             PROVE  LET sheet == Sheet(tables["1h"], d, thresholds[d], Now)
                        figures == sheet.metrics[m]
                        Listed(day) == {day} \X (1 .. figures.daily[day].out_of_range_hours)
                    IN  /\ Cardinality(UNION {Listed(day) : day \in DOMAIN figures.daily})
                                = figures.summary.out_of_range_hours
                        /\ \A s \in RecentOf(d) :
                            LET day == figures.daily[DayOf(ToLocal(s.at))]
                            IN  day.min # None /\ day.min <= s.values[m] /\ s.values[m] <= day.max
                        /\ sheet.hours_with_data = Cardinality({HourStart(s) : s \in RecentOf(d)})
  BY DEF FactSheetLosesNothing, RecentOf, Since
<1> DEFINE sheet   == Sheet(tables["1h"], d, thresholds[d], Now)
           figures == sheet.metrics[m]
           Listed(day) == {day} \X (1 .. figures.daily[day].out_of_range_hours)
<1>1. /\ sheet.hours_with_data = Cardinality(SheetRows(d))
      /\ figures.summary.out_of_range_hours
            = Cardinality({r \in SheetRows(d) : OutOfRange(r, m, thresholds[d])})
      /\ DOMAIN figures.daily = SheetDays
      /\ \A day \in SheetDays :
            /\ figures.daily[day].out_of_range_hours
                = Cardinality({r \in GroupOf(d, day) : OutOfRange(r, m, thresholds[d])})
            /\ GroupOf(d, day) # {} =>
                /\ figures.daily[day].min = Min({r.min[m] : r \in GroupOf(d, day)})
                /\ figures.daily[day].max = Max({r.max[m] : r \in GroupOf(d, day)})
  BY SheetIsOfRows
<1> HIDE DEF sheet
<1>2. Cardinality(UNION {Listed(day) : day \in DOMAIN figures.daily}) = figures.summary.out_of_range_hours
  <2>1. \A day \in SheetDays : Listed(day) = ListedOf(d, m, day)
    BY <1>1 DEF ListedOf
  <2> HIDE DEF Listed
  <2>2. {Listed(day) : day \in DOMAIN figures.daily} = {ListedOf(d, m, day) : day \in SheetDays}
    BY <1>1, <2>1
  <2> QED BY <1>1, <2>2, DaysShareHours
<1>3. ASSUME NEW s \in RecentOf(d)
      PROVE  LET day == figures.daily[DayOf(ToLocal(s.at))]
             IN  day.min # None /\ day.min <= s.values[m] /\ s.values[m] <= day.max
  <2>1. PICK day \in SheetDays : day = DayOf(ToLocal(s.at))
    BY RecentDays DEF SheetDays
  <2>2. /\ GroupOf(d, day) # {}
        /\ Min({r.min[m] : r \in GroupOf(d, day)}) \in Int
        /\ Min({r.min[m] : r \in GroupOf(d, day)}) <= s.values[m]
        /\ s.values[m] <= Max({r.max[m] : r \in GroupOf(d, day)})
    BY <2>1, DayCovers
  <2> QED BY <1>1, <2>1, <2>2, EnvironmentAssumption
<1> QED BY <1>1, <1>2, <1>3, HoursAreRows DEF sheet

\* Periods
THEOREM PeriodsHold == StoredSpec => []PeriodsLoseNothing
<1>1. StoredInv => PeriodsLoseNothing
  BY TilesHold, SheetHolds, InquiryHolds DEF PeriodsLoseNothing
<1> QED BY <1>1, StoredHolds, PTL

-----------------------------------------------------------------------------
(* Sums, roots and the baseline *)

\* What holds of the empty set, and of a set when it holds of the set less the
\* member picked, holds of all subsets: those for which it fails have a least one.
LEMMA NoLeastBad ==
    ASSUME NEW S, IsFiniteSet(S), NEW pick, \A s \in SUBSET S : s # {} => pick[s] \in s,
           NEW B \in SUBSET SUBSET S, {} \notin B,
           \A s \in SUBSET S : s # {} /\ s \in B => s \ {pick[s]} \in B
    PROVE  B = {}
<1> SUFFICES ASSUME B # {} PROVE FALSE
  OBVIOUS
<1>1. B \subseteq FiniteSubsetsOf(S)
  <2>1. \A s \in B : IsFiniteSet(s)
    BY FS_Subset
  <2> QED BY <2>1 DEF FiniteSubsetsOf
<1>2. PICK s \in B : \A t \in B : ~(<<t, s>> \in StrictSubsetOrdering(S))
  BY <1>1, FS_StrictSubsetOrderingWellFounded, WFMin
<1>3. s # {} /\ s \in SUBSET S
  OBVIOUS
<1>4. pick[s] \in s
  BY <1>3
<1>5. s \ {pick[s]} \in B /\ <<s \ {pick[s]}, s>> \in StrictSubsetOrdering(S)
  BY <1>3, <1>4 DEF StrictSubsetOrdering
<1> QED BY <1>2, <1>5

\* What g makes of the subsets of S, one picked member at a time.
FoldsTo(g, S, base, step, pick) ==
    /\ g[{}] = base
    /\ \A s \in SUBSET S : s # {} => g[s] = step[<<pick[s], g[s \ {pick[s]}]>>]

\* A function on the subsets of a finite set can be defined by taking the set
\* apart, one picked member at a time.
LEMMA FoldExists ==
    ASSUME NEW S, IsFiniteSet(S), NEW V, NEW base \in V, NEW step \in [S \X V -> V],
           NEW pick, \A s \in SUBSET S : s # {} => pick[s] \in s
    PROVE  \E g \in [SUBSET S -> V] : FoldsTo(g, S, base, step, pick)
<1> DEFINE D(n)    == {s \in SUBSET S : Cardinality(s) <= n}
           Is(g, n) == g = [s \in D(n) |-> IF s = {} THEN base
                                           ELSE step[<<pick[s], g[s \ {pick[s]}]>>]]
           Bad      == {n \in Nat : ~\E g \in [D(n) -> V] : Is(g, n)}
<1>0. \A s \in SUBSET S : IsFiniteSet(s) /\ Cardinality(s) \in Nat /\ (Cardinality(s) = 0 => s = {})
  BY FS_Subset, FS_CardinalityType, FS_EmptySet
<1>1. \E g \in [D(0) -> V] : Is(g, 0)
  <2>1. \A s \in D(0) : s = {}
    BY <1>0
  <2> DEFINE g == [s \in D(0) |-> base]
  <2>2. g \in [D(0) -> V] /\ Is(g, 0)
    <3> HIDE DEF D
    <3> QED BY <2>1
  <2> HIDE DEF g, Is
  <2> QED BY <2>2
<1>2. ASSUME NEW n \in Nat, NEW g \in [D(n) -> V], Is(g, n) PROVE \E h \in [D(n + 1) -> V] : Is(h, n + 1)
  <2> DEFINE h == [s \in D(n + 1) |-> IF s = {} THEN base ELSE step[<<pick[s], g[s \ {pick[s]}]>>]]
  <2>1. \A s \in D(n + 1) : s # {} => pick[s] \in S /\ s \ {pick[s]} \in D(n) /\ s \ {pick[s]} \in D(n + 1)
    <3> SUFFICES ASSUME NEW s \in SUBSET S, Cardinality(s) <= n + 1, s # {}
                 PROVE  pick[s] \in S /\ s \ {pick[s]} \in SUBSET S /\ Cardinality(s \ {pick[s]}) \in Nat
                            /\ Cardinality(s \ {pick[s]}) <= n
      OBVIOUS
    <3>1. pick[s] \in s /\ IsFiniteSet(s)
      BY <1>0
    <3>2. Cardinality(s \ {pick[s]}) = Cardinality(s) - 1
      BY <3>1, FS_RemoveElement
    <3>3. Cardinality(s) \in Nat /\ Cardinality(s \ {pick[s]}) \in Nat
      BY <1>0
    <3> QED BY <3>1, <3>2, <3>3
  <2>2. h \in [D(n + 1) -> V]
    <3> HIDE DEF D
    <3>1. \A s \in D(n + 1) : s # {} => step[<<pick[s], g[s \ {pick[s]}]>>] \in V
      BY <2>1
    <3> QED BY <3>1
  <2>3. \A s \in D(n) : s \in D(n + 1) /\ h[s] = g[s]
    <3>1. \A s \in D(n) : s \in D(n + 1)
      BY <1>0
    <3> HIDE DEF D
    <3>2. \A s \in D(n) : g[s] = IF s = {} THEN base ELSE step[<<pick[s], g[s \ {pick[s]}]>>]
      BY <1>2
    <3> QED BY <3>1, <3>2
  <2>4. \A s \in D(n + 1) : h[s] = IF s = {} THEN base ELSE step[<<pick[s], h[s \ {pick[s]}]>>]
    <3> HIDE DEF D
    <3> QED BY <2>1, <2>3
  <2>5. Is(h, n + 1)
    <3> HIDE DEF D
    <3> QED BY <2>4
  <2> HIDE DEF h, Is
  <2> QED BY <2>2, <2>5
<1>3. Bad = {}
  <2> SUFFICES ASSUME Bad # {} PROVE FALSE
    OBVIOUS
  <2>1. PICK m \in Bad : \A n \in Bad : m <= n
    <3>1. Bad \in SUBSET Nat
      OBVIOUS
    <3> HIDE DEF Bad
    <3> QED BY <3>1, LeastNat
  <2>2. m \in Nat /\ m # 0
    <3> HIDE DEF Is, D
    <3> QED BY <1>1, <2>1
  <2>3. PICK n \in Nat : n + 1 = m
    <3>1. m - 1 \in Nat /\ (m - 1) + 1 = m
      BY <2>2
    <3> QED BY <3>1
  <2>4. n \notin Bad
    <3>1. ~(m <= n)
      BY <2>3
    <3> QED BY <2>1, <3>1
  <2> HIDE DEF Is, D
  <2> QED BY <1>2, <2>3, <2>4
<1>4. D(Cardinality(S)) = SUBSET S
  <2>1. \A s \in SUBSET S : Cardinality(s) <= Cardinality(S)
    BY FS_Subset
  <2> QED BY <2>1
<1>5. Cardinality(S) \in Nat
  BY FS_CardinalityType
<1>6. PICK g \in [D(Cardinality(S)) -> V] : Is(g, Cardinality(S))
  <2> HIDE DEF Is, D
  <2> QED BY <1>3, <1>5
<1> HIDE DEF D
<1>7. \A s \in SUBSET S : g[s] = IF s = {} THEN base ELSE step[<<pick[s], g[s \ {pick[s]}]>>]
  BY <1>4, <1>6
<1>8. g \in [SUBSET S -> V]
  BY <1>4, <1>6
<1> QED BY <1>7, <1>8 DEF FoldsTo

\* A member that a set is taken apart at.
AnyOf(s) == CHOOSE x \in s : TRUE

\* The sums of f over the subsets of S, taken apart one member at a time.
SumsUp(g, f, S) ==
    /\ IsFiniteSet(S) /\ f \in [S -> Int]
    /\ g \in [SUBSET S -> Int] /\ g[{}] = 0
    /\ \A s \in SUBSET S : s # {} => g[s] = f[AnyOf(s)] + g[s \ {AnyOf(s)}]

LEMMA SumOf ==
    ASSUME NEW S, IsFiniteSet(S), NEW f \in [S -> Int]
    PROVE  \E g : SumsUp(g, f, S) /\ SumFunction(f) = g[S]
<1> DEFINE Is(g) == g = [s \in SUBSET S |-> IF s = {} THEN 0 ELSE f[AnyOf(s)] + g[s \ {AnyOf(s)}]]
           pick  == [s \in SUBSET S |-> AnyOf(s)]
           step  == [k \in S \X Int |-> f[k[1]] + k[2]]
<1>0. \A s \in SUBSET S : s # {} => AnyOf(s) \in s /\ pick[s] = AnyOf(s)
  BY DEF AnyOf
<1>1. \E g : Is(g)
  <2>1. \A s \in SUBSET S : s # {} => pick[s] \in s
    BY <1>0
  <2>2. step \in [S \X Int -> Int]
    OBVIOUS
  <2>3. PICK p, q : p = pick /\ q = step
    OBVIOUS
  <2>4. /\ q \in [S \X Int -> Int] /\ \A s \in SUBSET S : s # {} => p[s] \in s
        /\ \A s \in SUBSET S : s # {} => p[s] = AnyOf(s)
        /\ \A x \in S, n \in Int : q[<<x, n>>] = f[x] + n
    BY <1>0, <2>1, <2>2, <2>3
  <2> HIDE DEF pick, step
  <2>5. PICK g \in [SUBSET S -> Int] : FoldsTo(g, S, 0, q, p)
    <3>1. \E V, base : V = Int /\ base = 0 /\ base \in V
      OBVIOUS
    <3>2. PICK V, base : V = Int /\ base = 0 /\ base \in V
      BY <3>1
    <3>3. q \in [S \X V -> V] /\ \A s \in SUBSET S : s # {} => p[s] \in s
      BY <2>4, <3>2
    <3>4. \E g \in [SUBSET S -> V] : FoldsTo(g, S, base, q, p)
      BY <3>2, <3>3, FoldExists
    <3> QED BY <3>2, <3>4
  <2>6. \A s \in SUBSET S : s # {} => g[s] = f[AnyOf(s)] + g[s \ {AnyOf(s)}]
    <3> SUFFICES ASSUME NEW s \in SUBSET S, s # {}
                 PROVE  g[s] = f[AnyOf(s)] + g[s \ {AnyOf(s)}]
      OBVIOUS
    <3>1. PICK x \in S, t \in SUBSET S : x = AnyOf(s) /\ x = p[s] /\ t = s \ {x}
      BY <1>0, <2>4
    <3>2. g[s] = q[<<x, g[t]>>] /\ g[t] \in Int
      BY <2>5, <3>1 DEF FoldsTo
    <3> QED BY <2>4, <3>1, <3>2
  <2>7. Is(g)
    BY <2>5, <2>6 DEF FoldsTo
  <2> QED BY <2>7
<1>2. DOMAIN f = S
  OBVIOUS
<1> DEFINE g == CHOOSE g : Is(g)
<1>3. SumFunction(f) = g[S]
  BY <1>2 DEF SumFunction, SumFunctionOnSet, FoldFunctionOnSet, MapThenFoldSet, AnyOf
<1>4. Is(g)
  BY <1>1
<1> HIDE DEF g
<1>5. /\ g[{}] = 0 /\ DOMAIN g = SUBSET S /\ g = [s \in SUBSET S |-> g[s]]
      /\ \A s \in SUBSET S : s # {} => g[s] = f[AnyOf(s)] + g[s \ {AnyOf(s)}]
  BY <1>4
<1> DEFINE Fine(s) == g[s] \in Int
           Bad     == {s \in SUBSET S : ~Fine(s)}
<1>6. ASSUME NEW s \in SUBSET S, s # {}, s \in Bad PROVE s \ {pick[s]} \in Bad
  <2>1. PICK x \in S, t \in SUBSET S : x = AnyOf(s) /\ t = s \ {x} /\ x = pick[s]
    BY <1>0, <1>6
  <2>2. g[s] = f[x] + g[t] /\ f[x] \in Int
    BY <1>5, <1>6, <2>1
  <2>3. Fine(t) => Fine(s)
    BY <2>2
  <2> HIDE DEF Fine
  <2> QED BY <1>6, <2>1, <2>3
<1>7. {} \notin Bad
  BY <1>5
<1>8. Bad = {}
  <2>1. Bad \in SUBSET SUBSET S
    OBVIOUS
  <2>2. \A s \in SUBSET S : s # {} => pick[s] \in s
    BY <1>0
  <2> HIDE DEF Bad, pick
  <2> QED BY <1>6, <1>7, <2>1, <2>2, NoLeastBad
<1>9. g \in [SUBSET S -> Int]
  <2>1. \A s \in SUBSET S : g[s] \in Int
    BY <1>8
  <2> QED BY <1>5, <2>1
<1>10. SumsUp(g, f, S)
  BY <1>5, <1>9 DEF SumsUp
<1> QED BY <1>3, <1>10

\* A sum of integers is one, and not negative when its terms are not.
LEMMA SumIsNumber ==
    ASSUME NEW S, IsFiniteSet(S), NEW f \in [S -> Int]
    PROVE  SumFunction(f) \in Int /\ ((\A x \in S : f[x] >= 0) => SumFunction(f) >= 0)
<1>1. PICK g : SumsUp(g, f, S) /\ SumFunction(f) = g[S]
  BY SumOf
<1> DEFINE pick == [s \in SUBSET S |-> AnyOf(s)]
           Bad  == {s \in SUBSET S : ~(g[s] >= 0)}
<1>2. \A s \in SUBSET S : s # {} => pick[s] = AnyOf(s) /\ pick[s] \in s
  BY DEF AnyOf
<1>3. ASSUME \A x \in S : f[x] >= 0 PROVE Bad = {}
  <2>1. ASSUME NEW s \in SUBSET S, s # {}, s \in Bad PROVE s \ {pick[s]} \in Bad
    <3>1. PICK x \in S, t \in SUBSET S : x = AnyOf(s) /\ t = s \ {x} /\ x = pick[s]
      BY <1>2, <2>1
    <3>2. g[s] = f[x] + g[t] /\ g[t] \in Int /\ f[x] \in Int /\ f[x] >= 0
      BY <1>1, <1>3, <2>1, <3>1 DEF SumsUp
    <3>3. g[t] >= 0 => g[s] >= 0
      BY <3>2
    <3> QED BY <2>1, <3>1, <3>3
  <2>2. {} \notin Bad /\ Bad \in SUBSET SUBSET S
    BY <1>1 DEF SumsUp
  <2>3. \A s \in SUBSET S : s # {} => pick[s] \in s
    BY <1>2
  <2> HIDE DEF Bad, pick
  <2> QED BY <2>1, <2>2, <2>3, NoLeastBad
<1>4. g[S] \in Int
  BY <1>1 DEF SumsUp
<1> QED BY <1>1, <1>3, <1>4

LEMMA RootIsNumber ==
    ASSUME NEW n \in Nat
    PROVE  SquareRoot(n) \in Nat
<1> DEFINE T == {k \in Nat : n < (k + 1) * (k + 1)}
<1>1. n \in T
  <2>1. (n + 1) * (n + 1) = n * n + 2 * n + 1 /\ n * n \in Nat
    OBVIOUS
  <2> QED BY <2>1
<1>2. PICK x \in T : \A y \in T : x <= y
  <2>1. T \in SUBSET Nat /\ T # {}
    BY <1>1
  <2> HIDE DEF T
  <2> QED BY <2>1, LeastNat
<1>3. x \in 0 .. n
  BY <1>1, <1>2
<1>4. x * x <= n
  <2>1. CASE x = 0
    BY <2>1
  <2>2. CASE x # 0
    <3>1. PICK y \in Nat : y + 1 = x
      <4>1. x - 1 \in Nat /\ (x - 1) + 1 = x
        BY <2>2
      <4> QED BY <4>1
    <3>2. y \notin T
      <4>1. ~(x <= y)
        BY <3>1
      <4> QED BY <1>2, <4>1
    <3>3. ~(n < x * x)
      BY <3>1, <3>2
    <3>4. x * x \in Nat
      OBVIOUS
    <3> QED BY <3>3, <3>4
  <2> QED BY <2>1, <2>2
<1>5. \E k \in 0 .. n : k * k <= n /\ n < (k + 1) * (k + 1)
  BY <1>3, <1>4
<1>6. SquareRoot(n) \in 0 .. n
  BY <1>5 DEF SquareRoot
<1> QED BY <1>6

\* The baseline of a metric is made of numbers; it varies and no ceiling is zero.
LEMMA BaselineIsNumbers ==
    ASSUME NEW d \in Devices, NEW m \in Recorded
    PROVE  /\ Baseline(d, m).mean \in Int
           /\ Baseline(d, m).stddev \in Nat /\ Baseline(d, m).stddev >= 1
           /\ m \in CeilingMetrics => Baseline(d, m).ceiling \in Int /\ Baseline(d, m).ceiling > 0
<1>1. PICK file \in Seq(FileRow) : file = Source[d] /\ file # <<>>
  BY DerivationAssumption DEF FileRow
<1>2. PICK n \in Nat : n = Len(file) /\ DOMAIN file = 1 .. n /\ n >= 1
  BY <1>1
<1>3. \A i \in 1 .. n : file[i] \in FileRow
  BY <1>1, <1>2
<1>4. PICK values : values = Values(d, m)
  OBVIOUS
<1>5. values = [i \in 1 .. n |-> file[i].values[m]]
  BY <1>1, <1>2, <1>4 DEF Values
<1>6. values \in [1 .. n -> Int]
  BY <1>3, <1>5 DEF FileRow
<1>7. Len(values) = n /\ IsFiniteSet(1 .. n)
  BY <1>6, FS_Interval
<1>8. PICK order : order = Order(values)
  OBVIOUS
<1>9. order \in [1 .. n -> 1 .. n]
  BY <1>6, <1>8, OrderSorts
<1>10. PICK sorted : sorted = [k \in 1 .. n |-> values[order[k]]]
  OBVIOUS
<1>11. sorted \in [1 .. n -> Int] /\ Len(sorted) = n
  BY <1>6, <1>9, <1>10
<1>12. PICK mean \in Int : mean = SumFunction(values) \div n
  <2>1. SumFunction(values) \in Int
    BY <1>6, <1>7, SumIsNumber
  <2>2. SumFunction(values) \div n \in Int
    BY <1>2, <2>1
  <2> QED BY <2>2
<1>13. PICK spread \in Nat :
           spread = SumFunction([i \in 1 .. n |-> (values[i] - mean) * (values[i] - mean)])
  <2> DEFINE f == [i \in 1 .. n |-> (values[i] - mean) * (values[i] - mean)]
  <2>1. \A x \in Int : x * x \in Int /\ x * x >= 0
    OBVIOUS
  <2>2. \A i \in 1 .. n : values[i] - mean \in Int
    BY <1>6
  <2>3. f \in [1 .. n -> Int] /\ \A i \in 1 .. n : f[i] >= 0
    BY <2>1, <2>2
  <2> HIDE DEF f
  <2>4. SumFunction(f) \in Int /\ SumFunction(f) >= 0
    BY <1>7, <2>3, SumIsNumber
  <2>5. SumFunction(f) \in Nat
    BY <2>4
  <2> QED BY <2>5 DEF f
<1>14. PICK stddev : stddev = IF n > 1 THEN SquareRoot(spread \div (n - 1)) ELSE 0
  OBVIOUS
<1>15. stddev \in Nat
  <2>1. CASE n > 1
    <3>1. PICK k \in Nat : k = n - 1 /\ k > 0
      BY <2>1
    <3>2. spread \div k \in Nat
      BY <3>1
    <3> QED BY <1>14, <2>1, <3>1, <3>2, RootIsNumber
  <2>2. CASE ~(n > 1)
    BY <1>14, <2>2
  <2> QED BY <2>1, <2>2
<1>16. PICK highest \in Int : highest = sorted[n]
  BY <1>2, <1>11
<1>17. PICK quantile \in Int : quantile = Quantile(sorted, 999)
  <2>1. PICK above \in Int : above = -((-(999 * Len(sorted))) \div 1000)
    BY <1>11
  <2>2. AtMost(n, AtLeast(1, above)) \in 1 .. n
    BY <1>2 DEF AtMost, AtLeast
  <2>3. Quantile(sorted, 999) = sorted[AtMost(n, AtLeast(1, above))]
    BY <1>11, <2>1 DEF Quantile
  <2> QED BY <1>11, <2>2, <2>3
<1>18. (AtLeast(highest, quantile) * CeilingPercent) \div 100 \in Int
  <2>1. PICK x \in Int : x = AtLeast(highest, quantile)
    BY DEF AtLeast
  <2>2. x * CeilingPercent \in Int
    BY DerivationAssumption
  <2> QED BY <2>1, <2>2
<1>19. Baseline(d, m) =
        [mean |-> mean, stddev |-> stddev,
         ceiling |-> IF m \in CeilingMetrics
                     THEN (AtLeast(highest, quantile) * CeilingPercent) \div 100 ELSE None]
  <2> DEFINE V  == Values(d, m)
             N  == Len(V)
             O  == Order(V)
             In == [k \in 1 .. N |-> V[O[k]]]
             M  == SumFunction(V) \div N
             F  == [i \in 1 .. N |-> (V[i] - M) * (V[i] - M)]
             Sp == SumFunction(F)
  <2>1. Baseline(d, m) =
            [mean    |-> M,
             stddev  |-> IF N > 1 THEN SquareRoot(Sp \div (N - 1)) ELSE 0,
             ceiling |-> IF m \in CeilingMetrics
                         THEN (AtLeast(In[N], Quantile(In, 999)) * CeilingPercent) \div 100
                         ELSE None]
    BY DEF Baseline
  <2>2. V = values /\ N = n /\ O = order
    BY <1>4, <1>7, <1>8
  <2> HIDE DEF V, N, O
  <2>3. In = sorted
    BY <1>10, <2>2
  <2>4. M = mean
    BY <1>12, <2>2
  <2> HIDE DEF M, In
  <2>5. F = [i \in 1 .. n |-> (values[i] - mean) * (values[i] - mean)]
    BY <2>2, <2>4
  <2> HIDE DEF F
  <2>6. Sp = spread
    BY <1>13, <2>5
  <2> HIDE DEF Sp
  <2> QED BY <1>14, <1>16, <1>17, <2>1, <2>2, <2>3, <2>4, <2>6
<1>20. /\ Baseline(d, m).mean = mean /\ Baseline(d, m).stddev = stddev
       /\ m \in CeilingMetrics =>
            Baseline(d, m).ceiling = (AtLeast(highest, quantile) * CeilingPercent) \div 100
  BY <1>19
<1>21. /\ Baseline(d, m).stddev >= 1
       /\ m \in CeilingMetrics => Baseline(d, m).ceiling > 0
  BY SourceAssumption DEF MinStddev
<1> QED BY <1>15, <1>18, <1>20, <1>21

-----------------------------------------------------------------------------
(* The rows a derived row is taken from *)

\* The rows before an instant come first: they are as many as their last place.
LEMMA RowsBefore ==
    ASSUME NEW rows \in Seq(FileRow), NEW target \in Int,
           \A k, l \in 1 .. Len(rows) : k <= l => rows[k].ts <= rows[l].ts
    PROVE  \E before \in 0 .. Len(rows) :
               /\ before = Cardinality({i \in DOMAIN rows : rows[i].ts < target})
               /\ \A i \in 1 .. Len(rows) : rows[i].ts < target <=> i <= before
<1>1. PICK n \in Nat : n = Len(rows) /\ DOMAIN rows = 1 .. n
  OBVIOUS
<1>2. \A i \in 1 .. n : rows[i].ts \in Int
  <2>1. \A i \in 1 .. n : rows[i] \in FileRow
    BY <1>1
  <2> QED BY <2>1 DEF FileRow
<1> DEFINE Below == {i \in 1 .. n : rows[i].ts < target}
<1>3. IsFiniteSet(Below) /\ Cardinality(Below) \in 0 .. n
  <2>1. IsFiniteSet(1 .. n) /\ Cardinality(1 .. n) = n
    BY FS_Interval
  <2>2. Below \in SUBSET (1 .. n)
    OBVIOUS
  <2> HIDE DEF Below
  <2>3. IsFiniteSet(Below) /\ Cardinality(Below) <= n
    BY <2>1, <2>2, FS_Subset
  <2> QED BY <2>3, FS_CardinalityType
<1>4. ASSUME NEW i \in 1 .. n, i \in Below PROVE i <= Cardinality(Below)
  <2>1. 1 .. i \in SUBSET Below
    BY <1>1, <1>2, <1>4
  <2>2. Cardinality(1 .. i) = i
    BY FS_Interval
  <2> HIDE DEF Below
  <2> QED BY <1>3, <2>1, <2>2, FS_Subset
<1>5. ASSUME NEW i \in 1 .. n, i \notin Below PROVE Cardinality(Below) < i
  <2>1. Below \in SUBSET (1 .. i - 1)
    BY <1>1, <1>2, <1>5
  <2>2. IsFiniteSet(1 .. i - 1) /\ Cardinality(1 .. i - 1) = i - 1
    BY FS_Interval
  <2> HIDE DEF Below
  <2>4. PICK T : T = 1 .. i - 1 /\ IsFiniteSet(T) /\ Cardinality(T) = i - 1 /\ Below \in SUBSET T
    BY <2>1, <2>2
  <2>5. Cardinality(Below) <= Cardinality(T)
    BY <2>4, FS_Subset
  <2>3. Cardinality(Below) <= i - 1
    BY <2>4, <2>5
  <2> QED BY <1>3, <2>3
<1>6. \A i \in 1 .. n : i \in Below <=> i <= Cardinality(Below)
  <2> HIDE DEF Below
  <2> QED BY <1>3, <1>4, <1>5
<1>7. \A i \in 1 .. n : i \in Below <=> rows[i].ts < target
  OBVIOUS
<1>8. {i \in DOMAIN rows : rows[i].ts < target} = Below
  BY <1>1
<1> HIDE DEF Below
<1> QED BY <1>1, <1>3, <1>6, <1>7, <1>8

\* The cycle begins on the midnight before the first row of any device.
LEMMA OriginIsMidnight ==
    ASSUME Devices # {}
    PROVE  \E day \in Nat :
               /\ CycleOrigin = 48 * day
               /\ CycleOrigin = Midnight(Min({DayOf(Rows(d)[1].ts) : d \in Devices}))
<1> DEFINE first == [d \in Devices |-> DayOf(Rows(d)[1].ts)]
           A     == {first[d] : d \in Devices}
           B     == UNION {{DayOf(Source[d][i].ts) : i \in DOMAIN Source[d]} : d \in Devices}
<1>1. ASSUME NEW d \in Devices
      PROVE  /\ first[d] \in Nat
             /\ \E i \in DOMAIN Source[d] : first[d] = DayOf(Source[d][i].ts)
             /\ \A i \in DOMAIN Source[d] : first[d] <= DayOf(Source[d][i].ts)
  <2>1. PICK rows \in Seq(FileRow), n \in Nat : rows = Rows(d) /\ n = Len(rows) /\ n >= 1
    BY RowsAreSorted
  <2>2. PICK file \in Seq(FileRow) : file = Source[d] /\ Len(file) = n
    BY <2>1, RowsAreSorted, DerivationAssumption DEF FileRow
  <2>3. /\ \A i \in 1 .. n : \E k \in 1 .. n : rows[k] = file[i]
        /\ \A i \in 1 .. n : \E k \in 1 .. n : rows[i] = file[k]
        /\ \A k, l \in 1 .. n : k <= l => rows[k].ts <= rows[l].ts
    <3>1. /\ \A i \in 1 .. Len(Rows(d)) : \E k \in 1 .. Len(Rows(d)) : Rows(d)[k] = Source[d][i]
          /\ \A i \in 1 .. Len(Rows(d)) : \E k \in 1 .. Len(Rows(d)) : Rows(d)[i] = Source[d][k]
          /\ \A k, l \in 1 .. Len(Rows(d)) : k <= l => Rows(d)[k].ts <= Rows(d)[l].ts
      BY RowsAreSorted
    <3>2. Rows(d) = rows /\ Source[d] = file /\ Len(Rows(d)) = n
      BY <2>1, <2>2
    <3> QED BY <3>1, <3>2
  <2>4. \A i \in 1 .. n : rows[i].ts \in Nat
    <3>1. \A i \in 1 .. n : rows[i] \in FileRow
      BY <2>1
    <3> QED BY <3>1 DEF FileRow
  <2>5. first[d] = DayOf(rows[1].ts)
    BY <2>1
  <2> HIDE DEF first
  <2>6. first[d] \in Nat
    BY <2>1, <2>4, <2>5 DEF DayOf, HalfHoursADay
  <2>7. DOMAIN Source[d] = 1 .. n
    BY <2>2
  <2>8. \A i \in 1 .. n : rows[1].ts <= file[i].ts /\ file[i].ts \in Nat
    <3> TAKE i \in 1 .. n
    <3>1. PICK k \in 1 .. n : rows[k] = file[i]
      BY <2>3
    <3>2. 1 \in 1 .. n /\ 1 <= k
      BY <2>1
    <3> QED BY <2>3, <2>4, <3>1, <3>2
  <2>9. \A i \in 1 .. n : first[d] <= DayOf(file[i].ts)
    <3> TAKE i \in 1 .. n
    <3>1. PICK t \in Nat, u \in Nat : t = rows[1].ts /\ u = file[i].ts /\ t <= u
      BY <2>1, <2>4, <2>8
    <3>2. DayOf(t) <= DayOf(u)
      BY <3>1 DEF DayOf, HalfHoursADay
    <3> QED BY <2>5, <3>1, <3>2
  <2>10. PICK k \in 1 .. n : rows[1] = file[k]
    BY <2>1, <2>3
  <2> QED BY <2>2, <2>5, <2>6, <2>7, <2>9, <2>10
<1>2. IsFiniteSet(A) /\ A # {} /\ A \subseteq Int
  <2>1. DOMAIN first = Devices /\ \A d \in Devices : first[d] \in Int
    BY <1>1
  <2> HIDE DEF first
  <2> QED BY <2>1, DerivationAssumption, ImageIsFinite
<1>3. PICK day \in A : \A y \in A : day <= y
  <2> HIDE DEF A
  <2> QED BY <1>2, Extremes
<1>4. day \in Nat
  <2> HIDE DEF first
  <2> QED BY <1>1
<1>5. \A y \in B : y \in Int /\ day <= y
  <2> SUFFICES ASSUME NEW d \in Devices, NEW i \in DOMAIN Source[d]
               PROVE  DayOf(Source[d][i].ts) \in Int /\ day <= DayOf(Source[d][i].ts)
    OBVIOUS
  <2>1. first[d] <= DayOf(Source[d][i].ts) /\ first[d] \in Nat /\ day <= first[d]
    <3> HIDE DEF first
    <3> QED BY <1>1, <1>3
  <2>2. Source[d][i].ts \in Nat
    <3>1. PICK file \in Seq(FileRow) : file = Source[d]
      BY DerivationAssumption DEF FileRow
    <3>2. file[i] \in FileRow
      BY <3>1
    <3> QED BY <3>1, <3>2 DEF FileRow
  <2>3. DayOf(Source[d][i].ts) \in Int
    BY <2>2 DEF DayOf, HalfHoursADay
  <2> HIDE DEF first
  <2> QED BY <1>4, <2>1, <2>3
<1>6. day \in B
  <2> HIDE DEF first
  <2>1. PICK d \in Devices : day = first[d]
    OBVIOUS
  <2>2. PICK i \in DOMAIN Source[d] : first[d] = DayOf(Source[d][i].ts)
    BY <1>1
  <2> QED BY <2>1, <2>2
<1>7. Min(A) = day
  <2> HIDE DEF A
  <2>1. \A y \in A : y \in Int
    BY <1>2
  <2>2. \A x \in A : (\A y \in A : x <= y) => x = day
    BY <1>3, <2>1
  <2> QED BY <1>3, <2>2 DEF Min
<1>8. Min(B) = day
  <2> HIDE DEF B, A
  <2>1. \A x \in B : (\A y \in B : x <= y) => x = day
    BY <1>4, <1>5, <1>6
  <2> QED BY <1>5, <1>6, <2>1 DEF Min
<1>9. A = {DayOf(Rows(d)[1].ts) : d \in Devices}
  OBVIOUS
<1>10. CycleOrigin = Midnight(day)
  <2> HIDE DEF A
  <2> QED BY <1>8 DEF CycleOrigin
<1>11. Midnight(day) = 48 * day
  BY <1>4 DEF Midnight, HalfHoursADay
<1> HIDE DEF A
<1> QED BY <1>4, <1>7, <1>9, <1>10, <1>11

LEMMA DivMod ==
    ASSUME NEW x \in Int, NEW n \in Nat, n > 0
    PROVE  \E q \in Int, r \in 0 .. n - 1 : q = x \div n /\ r = x % n /\ x = n * q + r
<1>1. x \div n \in Int
  OBVIOUS
<1>2. x % n \in Int /\ 0 <= x % n
  OBVIOUS
<1>3. x % n < n
  OBVIOUS
<1>4. x = n * (x \div n) + (x % n)
  OBVIOUS
<1>5. x % n \in 0 .. n - 1
  BY <1>2, <1>3
<1> QED BY <1>1, <1>4, <1>5

\* Where in the cycle an instant falls, at the same time of day.
LEMMA CyclePosition ==
    ASSUME NEW t \in Nat, Devices # {}
    PROVE  \E place \in Int, days \in Int :
               /\ place = CycleOrigin + ((t - Epoch) % (CycleDays * HalfHoursADay))
               /\ CycleOrigin <= place /\ place < CycleOrigin + CycleDays * HalfHoursADay
               /\ t - place = 48 * days
<1>1. PICK c \in Nat : c = CycleDays /\ c > 0
  BY DerivationAssumption
<1>2. PICK span \in Nat : span = CycleDays * HalfHoursADay /\ span = 48 * c /\ span > 0
  <2>1. c * 48 = 48 * c /\ 48 * c \in Nat /\ 48 * c > 0
    BY <1>1
  <2> QED BY <1>1, <2>1 DEF HalfHoursADay
<1>3. PICK epoch \in Int : Epoch = 48 * epoch
  <2>1. Ordinal(1970, 1, 1) \in Int
    BY DEF Ordinal, DaysBeforeYear, DaysBefore, Leap
  <2> QED BY <2>1 DEF Epoch, Midnight, HalfHoursADay
<1>4. PICK day \in Nat : CycleOrigin = 48 * day
  BY OriginIsMidnight
<1>5. PICK x \in Int : x = t - Epoch /\ x = t - 48 * epoch
  BY <1>3
<1>6. PICK q \in Int, r \in Int : r = x % span /\ x = span * q + r /\ 0 <= r /\ r < span
  <2>1. \E k \in Int, r \in 0 .. span - 1 : k = x \div span /\ r = x % span /\ x = span * k + r
    BY <1>2, DivMod, Zenon
  <2>3. PICK k \in Int, r \in 0 .. span - 1 : r = x % span /\ x = span * k + r
    BY <2>1
  <2>2. r \in Int /\ 0 <= r /\ r < span
    BY <1>2
  <2> QED BY <2>2, <2>3
<1>7. span * q = 48 * (c * q) /\ c * q \in Int
  BY <1>2
<1>8. PICK k \in Int : k = c * q /\ x = 48 * k + r
  <2>1. PICK k \in Int : k = c * q /\ span * q = 48 * k
    BY <1>7
  <2> QED BY <1>6, <2>1
<1>9. PICK place \in Int : place = 48 * day + r
  OBVIOUS
<1>10. place = CycleOrigin + ((t - Epoch) % (CycleDays * HalfHoursADay))
  BY <1>2, <1>4, <1>5, <1>6, <1>9
<1>11. CycleOrigin <= place /\ place < CycleOrigin + CycleDays * HalfHoursADay
  BY <1>2, <1>4, <1>6, <1>9
<1>12. t - place = 48 * (epoch + k - day) /\ epoch + k - day \in Int
  BY <1>5, <1>8, <1>9
<1> QED BY <1>10, <1>11, <1>12

\* How far apart two times of day are is at most how far apart the instants are.
LEMMA TimesApart ==
    ASSUME NEW x \in Int, NEW days \in Int, NEW bound \in Int, x <= bound, -x <= bound
    PROVE  LET apart == (48 * days + x) % 48 IN AtMost(apart, 48 - apart) <= bound
<1>1. PICK apart \in 0 .. 47, k \in Int : apart = (48 * days + x) % 48 /\ apart = x + 48 * k
  <2>1. PICK y \in Int : y = 48 * days + x
    OBVIOUS
  <2>2. y % 48 \in 0 .. 47 /\ y = 48 * (y \div 48) + (y % 48) /\ y \div 48 \in Int
    OBVIOUS
  <2>3. y % 48 = x + 48 * (days - (y \div 48)) /\ days - (y \div 48) \in Int
    BY <2>1, <2>2
  <2> QED BY <2>1, <2>2, <2>3
<1>2. apart <= bound \/ 48 - apart <= bound
  BY <1>1
<1> QED BY <1>1, <1>2 DEF AtMost

\* The widest stretch of the cycle without a row of the device.
Widest(d) ==
    LET rows  == Rows(d)
        n     == Len(rows)
        first == Midnight(Min({DayOf(Rows(e)[1].ts) : e \in Devices}))
        last  == first + CycleDays * HalfHoursADay
    IN  Max({rows[1].ts - first, last - rows[n].ts}
                \cup {rows[i + 1].ts - rows[i].ts : i \in 1 .. n - 1})

LEMMA WidestStretch ==
    ASSUME NEW d \in Devices
    PROVE  \E rows \in Seq(FileRow), n \in Nat, last \in Int :
               /\ rows = Rows(d) /\ n = Len(rows) /\ n >= 1
               /\ last = CycleOrigin + CycleDays * HalfHoursADay
               /\ Widest(d) \in Int
               /\ rows[1].ts - CycleOrigin <= Widest(d)
               /\ last - rows[n].ts <= Widest(d)
               /\ \A i \in 1 .. n - 1 : rows[i + 1].ts - rows[i].ts <= Widest(d)
<1>1. PICK rows \in Seq(FileRow), n \in Nat : rows = Rows(d) /\ n = Len(rows) /\ n >= 1
  BY RowsAreSorted
<1>2. \A i \in 1 .. n : rows[i].ts \in Nat
  <2>1. \A i \in 1 .. n : rows[i] \in FileRow
    BY <1>1
  <2> QED BY <2>1 DEF FileRow
<1>3. PICK origin \in Int : /\ origin = CycleOrigin
                            /\ origin = Midnight(Min({DayOf(Rows(e)[1].ts) : e \in Devices}))
  <2>1. PICK day \in Nat :
            /\ CycleOrigin = 48 * day
            /\ CycleOrigin = Midnight(Min({DayOf(Rows(e)[1].ts) : e \in Devices}))
    BY OriginIsMidnight
  <2>2. 48 * day \in Int
    OBVIOUS
  <2> QED BY <2>1, <2>2
<1>4. PICK last \in Int : last = origin + CycleDays * HalfHoursADay
  <2>1. CycleDays * HalfHoursADay \in Int
    BY DerivationAssumption DEF HalfHoursADay
  <2> QED BY <2>1
<1> DEFINE gap  == [i \in 1 .. n - 1 |-> rows[i + 1].ts - rows[i].ts]
           Ends == {rows[1].ts - origin, last - rows[n].ts}
           Gaps == {gap[i] : i \in 1 .. n - 1}
<1>5. \A i \in 1 .. n - 1 : gap[i] \in Int
  BY <1>2
<1>6. IsFiniteSet(Gaps) /\ Gaps \subseteq Int
  <2>1. IsFiniteSet(1 .. n - 1) /\ DOMAIN gap = 1 .. n - 1
    BY FS_Interval
  <2> HIDE DEF gap
  <2> QED BY <1>5, <2>1, ImageIsFinite
<1>7. IsFiniteSet(Ends) /\ Ends \subseteq Int
  <2>1. rows[1].ts \in Int /\ rows[n].ts \in Int
    BY <1>1, <1>2
  <2>2. IsFiniteSet({rows[1].ts - origin}) /\ IsFiniteSet({last - rows[n].ts})
    BY FS_Singleton
  <2>3. Ends = {rows[1].ts - origin} \cup {last - rows[n].ts}
    OBVIOUS
  <2>4. Ends \subseteq Int
    BY <2>1
  <2> HIDE DEF Ends
  <2> QED BY <2>2, <2>3, <2>4, FS_Union
<1>8. Widest(d) = Max(Ends \cup Gaps)
  <2>1. Gaps = {rows[i + 1].ts - rows[i].ts : i \in 1 .. n - 1}
    OBVIOUS
  <2> HIDE DEF Gaps
  <2> QED BY <1>1, <1>3, <1>4, <2>1 DEF Widest
<1>9. \A x \in Ends \cup Gaps : x <= Widest(d) /\ Widest(d) \in Int
  <2>1. IsFiniteSet(Ends \cup Gaps) /\ Ends \cup Gaps # {} /\ Ends \cup Gaps \subseteq Int
    <3> HIDE DEF Gaps
    <3> QED BY <1>6, <1>7, FS_Union
  <2> HIDE DEF Ends, Gaps
  <2> QED BY <1>8, <2>1, Extremes
<1>10. rows[1].ts - origin \in Ends /\ last - rows[n].ts \in Ends
  OBVIOUS
<1>11. \A i \in 1 .. n - 1 : rows[i + 1].ts - rows[i].ts \in Gaps
  OBVIOUS
<1> HIDE DEF Ends, Gaps
<1> QED BY <1>1, <1>3, <1>4, <1>9, <1>10, <1>11

\* A derived row keeps to its time of day within the widest stretch.
LEMMA RowKeepsTheHour ==
    ASSUME NEW d \in Devices, NEW t \in Nat, NEW noise, NEW baseline
    PROVE  LET s     == DerivedSample(d, t, noise, baseline)
               apart == (s.at - s.source_ts) % HalfHoursADay
           IN  s.source_ts \in Nat /\ AtMost(apart, HalfHoursADay - apart) <= Widest(d)
<1>1. PICK rows \in Seq(FileRow), n \in Nat, last \in Int :
               /\ rows = Rows(d) /\ n = Len(rows) /\ n >= 1
               /\ last = CycleOrigin + CycleDays * HalfHoursADay
               /\ Widest(d) \in Int
               /\ rows[1].ts - CycleOrigin <= Widest(d)
               /\ last - rows[n].ts <= Widest(d)
               /\ \A i \in 1 .. n - 1 : rows[i + 1].ts - rows[i].ts <= Widest(d)
  BY WidestStretch
<1>2. \A i \in 1 .. n : rows[i].ts \in Nat
  <2>1. \A i \in 1 .. n : rows[i] \in FileRow
    BY <1>1
  <2> QED BY <2>1 DEF FileRow
<1>3. PICK place \in Int, days \in Int :
               /\ place = CycleOrigin + ((t - Epoch) % (CycleDays * HalfHoursADay))
               /\ CycleOrigin <= place /\ place < last
               /\ t - place = 48 * days
  BY <1>1, CyclePosition
<1>4. \A k, l \in 1 .. Len(rows) : k <= l => rows[k].ts <= rows[l].ts
  BY <1>1, RowsAreSorted
<1>5. PICK before \in 0 .. n :
          /\ before = Cardinality({i \in DOMAIN rows : rows[i].ts < place})
          /\ \A i \in 1 .. n : rows[i].ts < place <=> i <= before
  BY <1>1, <1>4, RowsBefore
<1>6. PICK origin \in Int : origin = CycleOrigin
  <2>1. PICK day \in Nat : CycleOrigin = 48 * day
    BY OriginIsMidnight
  <2>2. 48 * day \in Int
    OBVIOUS
  <2> QED BY <2>1, <2>2
<1>7. PICK near \in 1 .. n :
          /\ near = Nearest(rows, place)
          /\ place - rows[near].ts <= Widest(d) /\ rows[near].ts - place <= Widest(d)
  <2> DEFINE Found == \E near \in 1 .. n :
                 /\ near = Nearest(rows, place)
                 /\ place - rows[near].ts <= Widest(d) /\ rows[near].ts - place <= Widest(d)
  <2>1. ASSUME before = 0 PROVE Found
    <3>1. Nearest(rows, place) = 1
      BY <1>5, <2>1 DEF Nearest
    <3>2. 1 \in 1 .. n /\ ~(1 <= before)
      BY <1>1, <2>1
    <3>3. PICK a \in Nat : a = rows[1].ts /\ ~(a < place)
      BY <1>2, <1>5, <3>2
    <3>4. origin <= place /\ a - origin <= Widest(d)
      BY <1>1, <1>3, <1>6, <3>3
    <3>5. place - a <= Widest(d) /\ a - place <= Widest(d)
      <4>1. PICK w \in Int : w = Widest(d)
        BY <1>1
      <4>2. place - a <= 0 /\ a - place <= w
        BY <3>3, <3>4, <4>1
      <4>3. 0 <= a - place
        BY <3>3
      <4> QED BY <4>1, <4>2, <4>3
    <3> QED BY <3>1, <3>2, <3>3, <3>5
  <2>2. ASSUME before = n PROVE Found
    <3>1. Nearest(rows, place) = n
      BY <1>1, <1>5, <2>2 DEF Nearest
    <3>2. n \in 1 .. n /\ rows[n].ts \in Nat /\ rows[n].ts < place
      BY <1>1, <1>2, <1>5, <2>2
    <3>3. PICK a \in Nat, w \in Int : a = rows[n].ts /\ w = Widest(d) /\ a < place
      BY <1>1, <3>2
    <3>4. place - a <= w /\ a - place <= w
      BY <1>1, <1>3, <3>3
    <3> QED BY <3>1, <3>2, <3>3, <3>4
  <2>3. ASSUME before # 0, before # n PROVE Found
    <3>0. \A a \in Int, b \in Int, w \in Int, p \in Int : a < p /\ p <= b /\ b - a <= w =>
              p - a <= w /\ a - p <= w /\ p - b <= w /\ b - p <= w
      OBVIOUS
    <3>1. before \in 1 .. n - 1 /\ before \in 1 .. n /\ before + 1 \in 1 .. n
      BY <2>3
    <3>2. Nearest(rows, place) = IF rows[before + 1].ts - place < place - rows[before].ts
                                 THEN before + 1 ELSE before
      BY <1>1, <1>5, <2>3 DEF Nearest
    <3>3. PICK a \in Nat, b \in Nat : a = rows[before].ts /\ b = rows[before + 1].ts
      BY <1>2, <3>1
    <3>4. a < place /\ place <= b /\ b - a <= Widest(d)
      BY <1>1, <1>5, <3>1, <3>3
    <3>5. CASE b - place < place - a
      <4>1. Nearest(rows, place) = before + 1
        BY <3>2, <3>3, <3>5
      <4>2. PICK w \in Int : w = Widest(d)
        BY <1>1
      <4>3. b - a <= w /\ a < place /\ place <= b
        BY <3>4, <4>2
      <4>4. place - b <= w /\ b - place <= w
        BY <3>0, <4>3
      <4> QED BY <3>1, <3>3, <4>1, <4>2, <4>4
    <3>6. CASE ~(b - place < place - a)
      <4>1. Nearest(rows, place) = before
        BY <3>2, <3>3, <3>6
      <4>2. PICK w \in Int : w = Widest(d)
        BY <1>1
      <4>3. b - a <= w /\ a < place /\ place <= b
        BY <3>4, <4>2
      <4>4. place - a <= w /\ a - place <= w
        BY <3>0, <4>3
      <4> QED BY <3>1, <3>3, <4>1, <4>2, <4>4
    <3> QED BY <3>5, <3>6
  <2>4. Found
    <3> HIDE DEF Found
    <3> QED BY <2>1, <2>2, <2>3
  <2> QED BY <2>4
<1>8. /\ DerivedSample(d, t, noise, baseline).at = t
      /\ DerivedSample(d, t, noise, baseline).source_ts = rows[near].ts
  BY <1>1, <1>3, <1>7 DEF DerivedSample
<1>9. PICK ts \in Nat : ts = rows[near].ts
  <2>1. rows[near].ts \in Nat
    BY <1>2, <1>7
  <2> QED BY <2>1
<1>10. PICK x \in Int : x = place - ts /\ t - ts = 48 * days + x /\ x <= Widest(d) /\ -x <= Widest(d)
  BY <1>1, <1>3, <1>7, <1>9
<1>11. LET apart == (48 * days + x) % 48 IN AtMost(apart, 48 - apart) <= Widest(d)
  BY <1>1, <1>10, TimesApart
<1> QED BY <1>8, <1>9, <1>10, <1>11 DEF HalfHoursADay

-----------------------------------------------------------------------------
(* How a reading is judged *)

\* The standing of a value against the baseline: what makes it critical, what
\* leaves it ok, and the band drawn for it.
LEMMA ValueIsJudged ==
    ASSUME NEW d \in Devices, NEW m \in Recorded, NEW v \in Int,
           NEW t \in Nat, DayOf(t) >= 1
    PROVE  LET base == Baseline(d, m)
               over == m \in CeilingMetrics /\ v > base.ceiling
               apart == AbsoluteOf(v - SeasonalMean(m, base, t))
               status == MetricStatus(v, SeasonalMean(m, base, t), base.stddev, CeilingOf(m, base))
               band == NormalBand(m, base, t)
           IN  /\ base.stddev \in Nat /\ base.stddev > 0
               /\ apart \in Int
               /\ Over(v, CeilingOf(m, base)) <=> over
               /\ status = "critical" <=> over \/ apart > 3 * base.stddev
               /\ status = "ok" <=> ~over /\ apart <= 2 * base.stddev
               /\ (m = "temp" \/ v >= 0) =>
                    (apart <= 2 * base.stddev <=> band[1] <= v /\ v <= band[2])
<1>1. PICK std \in Nat : std = Baseline(d, m).stddev /\ std >= 1
  BY BaselineIsNumbers
<1>2. PICK mean \in Int : mean = SeasonalMean(m, Baseline(d, m), t)
  <2>1. Baseline(d, m).mean \in Int /\ SeasonalOffset(m, t) \in Int
    BY BaselineIsNumbers, SeasonIsNumber
  <2> QED BY <2>1 DEF SeasonalMean
<1>3. PICK ceiling : /\ ceiling = CeilingOf(m, Baseline(d, m))
                     /\ m \in CeilingMetrics => ceiling = Baseline(d, m).ceiling /\ ceiling \in Int
                     /\ m \notin CeilingMetrics => ceiling = None
  BY BaselineIsNumbers DEF CeilingOf
<1>4. PICK apart \in Int : /\ apart = AbsoluteOf(v - mean)
                           /\ (apart <= 2 * std <=> mean - 2 * std <= v /\ v <= mean + 2 * std)
  <2>1. PICK x \in Int : x = v - mean
    OBVIOUS
  <2>2. PICK apart \in Int : apart = AbsoluteOf(x) /\ (apart = x \/ apart = -x) /\ apart >= 0
    BY DEF AbsoluteOf
  <2>3. apart <= 2 * std <=> mean - 2 * std <= v /\ v <= mean + 2 * std
    BY <2>1, <2>2
  <2> QED BY <2>1, <2>2, <2>3
<1>5. Over(v, ceiling) <=> m \in CeilingMetrics /\ v > Baseline(d, m).ceiling
  BY <1>3, EnvironmentAssumption DEF Over
<1>6. AtLeast(std, MinStddev) = std
  BY <1>1 DEF AtLeast, MinStddev
<1>7. MetricStatus(v, mean, std, ceiling) =
          IF Over(v, ceiling) \/ apart > 3 * std THEN "critical"
          ELSE IF apart > 2 * std THEN "warning" ELSE "ok"
  BY <1>4, <1>6 DEF MetricStatus, CriticalSigma, WarningSigma
<1>8. /\ MetricStatus(v, mean, std, ceiling) = "critical" <=> Over(v, ceiling) \/ apart > 3 * std
      /\ MetricStatus(v, mean, std, ceiling) = "ok" <=> ~Over(v, ceiling) /\ apart <= 2 * std
  <2>1. apart > 3 * std => apart > 2 * std
    BY <1>1
  <2>2. apart > 2 * std <=> ~(apart <= 2 * std)
    BY <1>1
  <2> QED BY <1>7, <2>1, <2>2
<1>9. NormalBand(m, Baseline(d, m), t) =
          <<IF m = "temp" THEN mean - 2 * std ELSE AtLeast(mean - 2 * std, 0), mean + 2 * std>>
  BY <1>1, <1>2, <1>6 DEF NormalBand, WarningSigma
<1>10. (m = "temp" \/ v >= 0) =>
            (apart <= 2 * std <=> /\ NormalBand(m, Baseline(d, m), t)[1] <= v
                                  /\ v <= NormalBand(m, Baseline(d, m), t)[2])
  <2>1. PICK low \in Int, high \in Int : low = mean - 2 * std /\ high = mean + 2 * std
    OBVIOUS
  <2>2. v >= 0 => (AtLeast(low, 0) <= v <=> low <= v)
    BY DEF AtLeast
  <2> QED BY <1>4, <1>9, <2>1, <2>2
<1> QED BY <1>1, <1>2, <1>3, <1>4, <1>5, <1>8, <1>10

\* Thresholds of a device.
BaselineOf(d) == [m \in Recorded |-> Baseline(d, m)]

\* The status of a reading is critical when one metric breaks the rule of the
\* live pipeline, and ok when every metric is inside its band and limit.
LEMMA StatusIsRule ==
    ASSUME NEW d \in Devices, NEW values \in [Recorded -> Int], NEW t \in Nat, DayOf(t) >= 1
    PROVE  LET status == DeviceStatus(values, BaselineOf(d), t).overall
               Status(m) == MetricStatus(values[m], SeasonalMean(m, Baseline(d, m), t),
                                         Baseline(d, m).stddev, CeilingOf(m, Baseline(d, m)))
           IN  /\ IsAnomaly(values, BaselineOf(d), t) <=> status = "critical"
               /\ status = "critical" <=> \E m \in Recorded : Status(m) = "critical"
               /\ status = "ok" <=> \A m \in Recorded : Status(m) = "ok"
<1> DEFINE Status(m) == MetricStatus(values[m], SeasonalMean(m, Baseline(d, m), t),
                                     Baseline(d, m).stddev, CeilingOf(m, Baseline(d, m)))
           metrics == StatusAt(values, BaselineOf(d), t)
           status  == DeviceStatus(values, BaselineOf(d), t).overall
<1>1. Judged(values, BaselineOf(d)) = Recorded
  BY DEF Judged, BaselineOf
<1>2. metrics = [m \in Recorded |-> Status(m)]
  BY <1>1 DEF StatusAt, BaselineOf
<1>3. status = IF \E m \in DOMAIN metrics : metrics[m] = "critical" THEN "critical"
               ELSE IF \E m \in DOMAIN metrics : metrics[m] = "warning" THEN "warning"
               ELSE "ok"
  BY DEF DeviceStatus
<1>4. \A m \in Recorded : Status(m) \in {"critical", "warning", "ok"}
  BY DEF MetricStatus
<1> HIDE DEF metrics, Status, status
<1>5. /\ status = "critical" <=> \E m \in Recorded : Status(m) = "critical"
      /\ status = "ok" <=> \A m \in Recorded : Status(m) = "ok"
  <2>1. DOMAIN metrics = Recorded /\ \A m \in Recorded : metrics[m] = Status(m)
    BY <1>2
  <2> QED BY <1>3, <1>4, <2>1
<1>6. IsAnomaly(values, BaselineOf(d), t) <=> \E m \in Recorded : Status(m) = "critical"
  <2>1. ASSUME NEW m \in Recorded
        PROVE  Status(m) = "critical" <=>
                   \/ m \in CeilingMetrics /\ values[m] > BaselineOf(d)[m].ceiling
                   \/ /\ BaselineOf(d)[m].stddev > 0
                      /\ AbsoluteOf(values[m] - SeasonalMean(m, BaselineOf(d)[m], t))
                             > SigmaN * BaselineOf(d)[m].stddev
    <3>1. BaselineOf(d)[m] = Baseline(d, m) /\ SigmaN = 3
      BY SourceAssumption DEF BaselineOf, CriticalSigma
    <3>2. PICK v \in Int : v = values[m]
      OBVIOUS
    <3>3. /\ Baseline(d, m).stddev > 0
          /\ MetricStatus(v, SeasonalMean(m, Baseline(d, m), t), Baseline(d, m).stddev,
                          CeilingOf(m, Baseline(d, m))) = "critical"
                <=> \/ m \in CeilingMetrics /\ v > Baseline(d, m).ceiling
                    \/ AbsoluteOf(v - SeasonalMean(m, Baseline(d, m), t)) > 3 * Baseline(d, m).stddev
      BY ValueIsJudged
    <3> QED BY <3>1, <3>2, <3>3 DEF Status
  <2>2. DOMAIN values = Recorded
    OBVIOUS
  <2> QED BY <2>1, <2>2 DEF IsAnomaly
<1> QED BY <1>5, <1>6 DEF status, Status

\* What the pages may rely on of a reading besides: only temperatures are negative.
SoundReading(s) ==
    /\ s \in Sample /\ DayOf(s.at) >= 1
    /\ \A m \in Recorded \ {"temp"} : s.values[m] >= 0

\* Where the thresholds and the stored readings come from.
HistoryInv ==
    /\ thresholds = [d \in Devices |-> BaselineOf(d)]
    /\ \A s \in derived : \E d \in Devices, t \in DerivedAt, noise \in Noise :
           s = DerivedSample(d, t, noise[t], BaselineOf(d))
    /\ \A s \in live : SoundReading(s)

LEMMA DerivedIsReading ==
    ASSUME NEW d \in Devices, NEW t \in DerivedAt, NEW noise \in Noise
    PROVE  LET s == DerivedSample(d, t, noise[t], BaselineOf(d))
           IN  SoundReading(s) /\ s.device = d /\ s.at = t /\ s.values \in [Recorded -> Int]
                   /\ s.flagged = IsAnomaly(s.values, BaselineOf(d), t)
<1>1. PICK s : s = DerivedSample(d, t, noise[t], BaselineOf(d))
  OBVIOUS
<1>2. SoundSample(s, Anchor) /\ t \in Nat /\ noise[t] \in [Recorded -> Int] /\ DayOf(t) >= 1
  BY <1>1, DerivedIsSound, ObservationsAssumption
<1>3. s.values \in [Recorded -> Int] /\ s.device \in Devices /\ s.at \in Nat /\ DayOf(s.at) >= 1
  BY <1>2 DEF SoundSample
<1>4. s.source_ts \in Nat
  BY <1>1, <1>2, RowKeepsTheHour
<1>5. s.device = d /\ s.at = t /\ s.flagged = IsAnomaly(s.values, BaselineOf(d), t)
  BY <1>1 DEF DerivedSample
<1>6. s.flagged \in BOOLEAN
  BY <1>5 DEF IsAnomaly
<1>7. s = [device |-> s.device, at |-> s.at, values |-> s.values, source_ts |-> s.source_ts,
           flagged |-> s.flagged]
  BY <1>1 DEF DerivedSample
<1>8. s \in Sample
  BY <1>3, <1>4, <1>6, <1>7 DEF Sample
<1>9. ASSUME NEW m \in Recorded \ {"temp"} PROVE s.values[m] >= 0
  <2>0. PICK rows \in Seq(FileRow) : rows = Rows(d) /\ Len(rows) >= 1
    BY RowsAreSorted
  <2>1. PICK row \in FileRow : s.values = DerivedValues(row, noise[t], t)
    <3>1. PICK target : s.values = DerivedValues(rows[Nearest(rows, target)], noise[t], t)
      BY <1>1, <2>0 DEF DerivedSample
    <3>2. Nearest(rows, target) \in 1 .. Len(rows)
      BY <2>0, NearestIsRow
    <3> QED BY <3>1, <3>2
  <2>2. s.values[m] = LET noisy == row.values[m] + noise[t][m]
                      IN  SeasonalApply(m, IF m \in CeilingMetrics THEN AtLeast(noisy, 0) ELSE noisy, t)
    BY <2>1 DEF DerivedValues
  <2>3. m \in {"co", "humidity", "lpg", "smoke"}
    BY <1>9, DerivationAssumption DEF Metrics, NumericMetrics
  <2>4. CASE m = "humidity"
    <3>1. PICK x : s.values[m] = AtMost(AtLeast(x, 0), 100 * Unit)
      BY <2>2, <2>4 DEF SeasonalApply
    <3>2. 100 * Unit \in Int /\ 100 * Unit >= 0
      BY EnvironmentAssumption
    <3>3. s.values[m] \in Int
      BY <1>3
    <3>4. AtLeast(x, 0) = x \/ AtLeast(x, 0) = 0
      BY DEF AtLeast
    <3> QED BY <3>1, <3>2, <3>3, <3>4 DEF AtLeast, AtMost
  <2>5. CASE m # "humidity"
    <3>1. m \in CeilingMetrics /\ SeasonalOffset(m, t) = 0
      BY <2>3, <2>5 DEF CeilingMetrics, SeasonalOffset
    <3>2. PICK x \in Int : x = row.values[m] + noise[t][m]
      BY <1>2 DEF FileRow
    <3>3. s.values[m] = AtLeast(x, 0) + 0
      BY <2>2, <2>5, <3>1, <3>2 DEF SeasonalApply
    <3> QED BY <3>2, <3>3 DEF AtLeast
  <2> QED BY <2>4, <2>5
<1> QED BY <1>1, <1>3, <1>5, <1>8, <1>9 DEF SoundReading

LEMMA HistoryStarts == StoredInit => HistoryInv
<1> SUFFICES ASSUME StoredInit PROVE HistoryInv
  OBVIOUS
<1>1. thresholds = [d \in Devices |-> BaselineOf(d)] /\ live = {}
  BY DEF StoredInit, BaselineOf
<1>2. \A s \in derived : \E d \in Devices, t \in DerivedAt, noise \in Noise :
          s = DerivedSample(d, t, noise[t], BaselineOf(d))
  <2> SUFFICES ASSUME NEW s \in derived
               PROVE  \E d \in Devices, t \in DerivedAt, noise \in Noise :
                          s = DerivedSample(d, t, noise[t], BaselineOf(d))
    OBVIOUS
  <2>1. PICK noise \in Noise : derived = History(noise)
    BY DEF StoredInit
  <2>2. PICK d \in Devices, t \in DerivedAt : s = DerivedSample(d, t, noise[t], thresholds[d])
    BY <2>1 DEF History
  <2> QED BY <1>1, <2>2
<1> QED BY <1>1, <1>2 DEF HistoryInv

LEMMA HistoryKept == StoredInv /\ HistoryInv /\ [StoredNext]_storedVars => HistoryInv'
<1> SUFFICES ASSUME StoredInv, HistoryInv, [StoredNext]_storedVars PROVE HistoryInv'
  OBVIOUS
<1>1. CASE Read
  <2>1. past' \in DOMAIN Clock
    BY <1>1, ObservationsAssumption DEF Read, StoredInv
  <2>2. PICK readings \in LiveChoices[past'] :
            live' = live \cup {[device |-> r.device, at |-> Clock[past'], values |-> r.values,
                                source_ts |-> None, flagged |-> r.flagged] : r \in readings}
    BY <1>1 DEF Read
  <2>3. Clock[past'] \in Nat /\ Anchor \in Nat /\ Anchor <= Clock[past'] /\ DayOf(Clock[past']) >= 1
    <3>1. Clock[past'] \in Nat /\ Anchor \in Nat /\ Anchor <= Clock[past'] /\ DayOf(Anchor) > 769
      BY <2>1, ObservationsAssumption
    <3>2. DayOf(Anchor) \in Int /\ DayOf(Clock[past']) \in Int /\ DayOf(Anchor) <= DayOf(Clock[past'])
      BY <3>1, DaysGrow
    <3> QED BY <3>1, <3>2
  <2>4. \A r \in readings :
            /\ r.device \in Devices /\ r.values \in [Recorded -> Int] /\ r.flagged \in BOOLEAN
            /\ \A m \in Recorded \ {"temp"} : r.values[m] >= 0
    BY <2>1, ObservationsAssumption
  <2>5. \A s \in live' : SoundReading(s)
    <3> SUFFICES ASSUME NEW s \in live', s \notin live PROVE SoundReading(s)
      BY DEF HistoryInv
    <3>1. PICK r \in readings : s = [device |-> r.device, at |-> Clock[past'], values |-> r.values,
                                     source_ts |-> None, flagged |-> r.flagged]
      BY <2>2
    <3>2. s \in Sample
      BY <2>3, <2>4, <3>1 DEF Sample
    <3>3. s.at = Clock[past'] /\ s.values = r.values
      BY <3>1
    <3> QED BY <2>3, <2>4, <3>2, <3>3 DEF SoundReading
  <2>6. thresholds' = thresholds /\ derived' = derived
    BY <1>1 DEF Read
  <2> QED BY <2>5, <2>6 DEF HistoryInv
<1>2. CASE UNCHANGED storedVars
  BY <1>2 DEF storedVars, HistoryInv
<1> QED BY <1>1, <1>2 DEF StoredNext

\* Every derived row is one that derive makes, every reading is sound, and each
\* device is judged by its own baseline (load_source, derive, device_thresholds).
THEOREM HistoryHolds == StoredSpec => [](StoredInv /\ HistoryInv)
<1>1. StoredInit => StoredInv /\ HistoryInv
  BY StoredInitial, HistoryStarts
<1>2. StoredInv /\ HistoryInv /\ [StoredNext]_storedVars => (StoredInv /\ HistoryInv)'
  BY StoredStep, HistoryKept
<1> QED BY <1>1, <1>2, PTL DEF StoredSpec

LEMMA PlausibleOfHistory == HistoryInv => HistoryIsPlausible
<1> SUFFICES ASSUME HistoryInv PROVE HistoryIsPlausible
  OBVIOUS
<1>1. DerivedFlagMatchesStatus
  <2> SUFFICES ASSUME NEW s \in derived
               PROVE  s.flagged <=> DeviceStatus(s.values, thresholds[s.device], s.at).overall = "critical"
    BY DEF DerivedFlagMatchesStatus
  <2>1. PICK d \in Devices, t \in DerivedAt, noise \in Noise :
            s = DerivedSample(d, t, noise[t], BaselineOf(d))
    BY DEF HistoryInv
  <2>2. /\ s.device = d /\ s.at = t /\ s.values \in [Recorded -> Int]
        /\ s.flagged = IsAnomaly(s.values, BaselineOf(d), t)
    BY <2>1, DerivedIsReading
  <2>3. t \in Nat /\ DayOf(t) >= 1
    BY ObservationsAssumption
  <2>4. IsAnomaly(s.values, BaselineOf(d), t)
            <=> DeviceStatus(s.values, BaselineOf(d), t).overall = "critical"
    BY <2>2, <2>3, StatusIsRule
  <2>5. thresholds[d] = BaselineOf(d)
    BY DEF HistoryInv
  <2> QED BY <2>2, <2>4, <2>5
<1>2. DerivationKeepsTheHour
  <2> SUFFICES ASSUME NEW s \in derived
               PROVE  LET apart == (s.at - s.source_ts) % HalfHoursADay
                      IN  AtMost(apart, HalfHoursADay - apart) <= Widest(s.device)
    BY DEF DerivationKeepsTheHour, Widest
  <2>1. PICK d \in Devices, t \in DerivedAt, noise \in Noise :
            s = DerivedSample(d, t, noise[t], BaselineOf(d))
    BY DEF HistoryInv
  <2>2. s.device = d /\ t \in Nat
    BY <2>1, ObservationsAssumption DEF DerivedSample
  <2> QED BY <2>1, <2>2, RowKeepsTheHour
<1> QED BY <1>1, <1>2 DEF HistoryIsPlausible

\* The derived past could have been read: a derived row is flagged exactly when
\* the map would call its reading critical, and it is taken from the source
\* within the widest stretch without a row of its own time of day.
THEOREM PlausibleHolds == StoredSpec => []HistoryIsPlausible
BY HistoryHolds, PlausibleOfHistory, PTL

-----------------------------------------------------------------------------
(* The gauge and the badge *)

\* Every stored reading is sound, and judged by its device's own baseline.
LEMMA StoredReadings ==
    ASSUME HistoryInv
    PROVE  \A s \in Samples : /\ SoundReading(s) /\ s.device \in Devices
                              /\ thresholds[s.device] = BaselineOf(s.device)
<1> SUFFICES ASSUME NEW s \in Samples PROVE SoundReading(s)
  BY DEF HistoryInv, SoundReading, Sample
<1>1. CASE s \in derived
  BY <1>1, DerivedIsReading DEF HistoryInv
<1>2. CASE s \in live
  BY <1>2 DEF HistoryInv
<1> QED BY <1>1, <1>2 DEF Samples

\* The score is 0 once a pollutant is over its limit.
LEMMA ScoreAtLimit ==
    ASSUME NEW d \in Devices, NEW values \in [Recorded -> Int],
           NEW m \in Recorded \cap CeilingMetrics, values[m] > Baseline(d, m).ceiling
    PROVE  AirQualityScore(values, BaselineOf(d)) = 0
<1> DEFINE limits == BaselineOf(d)
           scored == {k \in CeilingMetrics \cap Judged(values, limits) :
                          limits[k].ceiling \notin {None, 0}}
           score  == [k \in scored |-> (100 * (limits[k].ceiling - values[k])) \div limits[k].ceiling]
           Scores == {score[k] : k \in scored}
<1>1. Judged(values, limits) = Recorded /\ \A k \in Recorded : limits[k] = Baseline(d, k)
  BY DEF Judged, BaselineOf
<1>2. \A k \in Recorded \cap CeilingMetrics : limits[k].ceiling \in Int /\ limits[k].ceiling > 0
  BY <1>1, BaselineIsNumbers
<1>3. scored = Recorded \cap CeilingMetrics
  BY <1>1, <1>2, EnvironmentAssumption
<1>4. ASSUME NEW k \in scored
      PROVE  score[k] \in Int /\ (values[k] > limits[k].ceiling => score[k] < 0)
  <2>1. PICK c \in Int, v \in Int : c = limits[k].ceiling /\ v = values[k] /\ c > 0
    BY <1>2, <1>3
  <2>2. PICK x \in Int : x = 100 * (c - v) /\ (v > c => x < 0)
    OBVIOUS
  <2>3. x \div c \in Int /\ (x < 0 => x \div c < 0)
    <3>1. x \div c \in Int
      BY <2>1
    <3>2. ASSUME x < 0 PROVE x \div c < 0
      <4>1. PICK q \in Int, r \in 0 .. c - 1 : q = x \div c /\ x = c * q + r
        <5>1. c \in Nat /\ c > 0
          BY <2>1
        <5>2. \E q \in Int, r \in 0 .. c - 1 : q = x \div c /\ r = x % c /\ x = c * q + r
          BY <5>1, DivMod, Zenon
        <5> QED BY <5>2
      <4>2. q >= 0 => c * q >= 0
        BY <2>1
      <4>3. c * q < 0
        <5>1. c * q \in Int
          BY <2>1
        <5> QED BY <3>2, <4>1, <5>1
      <4> QED BY <4>1, <4>2, <4>3
    <3> QED BY <3>1, <3>2
  <2>4. score[k] = x \div c
    BY <2>1, <2>2
  <2> HIDE DEF score, scored
  <2> QED BY <2>1, <2>2, <2>3, <2>4
<1>5. IsFiniteSet(scored)
  <2>1. IsFiniteSet(CeilingMetrics)
    <3>1. CeilingMetrics = {"co"} \cup ({"smoke"} \cup {"lpg"})
      BY DEF CeilingMetrics
    <3> QED BY <3>1, FS_Singleton, FS_Union
  <2>2. scored \in SUBSET CeilingMetrics
    BY <1>3
  <2> HIDE DEF scored
  <2> QED BY <2>1, <2>2, FS_Subset
<1>6. m \in scored /\ score[m] < 0
  <2>1. m \in scored
    BY <1>3
  <2> HIDE DEF score, scored
  <2> QED BY <1>1, <1>4, <2>1
<1>7. Min(Scores) \in Int /\ Min(Scores) < 0
  <2>1. DOMAIN score = scored
    OBVIOUS
  <2> HIDE DEF score, scored
  <2>2. IsFiniteSet(Scores) /\ Scores \subseteq Int /\ score[m] \in Scores
    BY <1>4, <1>5, <1>6, <2>1, ImageIsFinite
  <2> HIDE DEF Scores
  <2>3. Min(Scores) \in Scores /\ Min(Scores) <= score[m]
    BY <2>2, Extremes
  <2>4. score[m] \in Int /\ Min(Scores) \in Int
    BY <2>2, <2>3
  <2> QED BY <1>6, <2>3, <2>4
<1>8. Scores = {(100 * (limits[k].ceiling - values[k])) \div limits[k].ceiling : k \in scored}
  <2> HIDE DEF scored
  <2> QED OBVIOUS
<1>9. AirQualityScore(values, limits) = AtLeast(AtMost(Min(Scores), 100), 0)
  <2>1. scored # {}
    BY <1>6
  <2>2. AirQualityScore(values, limits) =
            IF scored = {} THEN None
            ELSE AtLeast(AtMost(Min({(100 * (limits[k].ceiling - values[k])) \div limits[k].ceiling
                                        : k \in scored}), 100), 0)
    BY DEF AirQualityScore
  <2> HIDE DEF scored, limits, Scores
  <2> QED BY <1>8, <2>1, <2>2
<1> HIDE DEF Scores, limits
<1>10. AirQualityScore(values, limits) = 0
  BY <1>7, <1>9 DEF AtLeast, AtMost
<1> QED BY <1>10 DEF limits

LEMMA GaugeHolds == HistoryInv => GaugeAgreesWithBadge
<1> SUFFICES ASSUME HistoryInv, NEW s \in Samples
             PROVE  LET entry == SensorEntry(s, thresholds[s.device])
                        range == entry.metric_ranges
                    IN  /\ (entry.status = "ok") <=> \A m \in DOMAIN range :
                                /\ range[m].normal_min <= range[m].value
                                /\ range[m].value <= range[m].normal_max
                                /\ ~Over(range[m].value, range[m].ceiling)
                        /\ (\E m \in DOMAIN range : Over(range[m].value, range[m].ceiling))
                                => entry.air_quality_score = 0 /\ entry.status = "critical"
  BY DEF GaugeAgreesWithBadge
<1>1. PICK d \in Devices, values \in [Recorded -> Int], t \in Nat :
          /\ d = s.device /\ values = s.values /\ t = s.at /\ DayOf(t) >= 1
          /\ thresholds[d] = BaselineOf(d) /\ s \in Sample
          /\ \A m \in Recorded \ {"temp"} : values[m] >= 0
  BY StoredReadings DEF SoundReading, Sample
<1> DEFINE status == DeviceStatus(values, BaselineOf(d), t).overall
           range  == MetricRanges(values, BaselineOf(d), t)
           score  == AirQualityScore(values, BaselineOf(d))
           entry  == SensorEntry(s, BaselineOf(d))
           Status(m) == MetricStatus(values[m], SeasonalMean(m, Baseline(d, m), t),
                                     Baseline(d, m).stddev, CeilingOf(m, Baseline(d, m)))
<1>2. s # None
  BY <1>1, ObservationsAssumption
<1>3. entry.status = status /\ entry.metric_ranges = range /\ entry.air_quality_score = score
  BY <1>1, <1>2 DEF SensorEntry
<1>4. /\ DOMAIN range = Recorded
      /\ \A m \in Recorded :
            /\ range[m].value = values[m] /\ range[m].ceiling = CeilingOf(m, Baseline(d, m))
            /\ range[m].normal_min = NormalBand(m, Baseline(d, m), t)[1]
            /\ range[m].normal_max = NormalBand(m, Baseline(d, m), t)[2]
  <2>1. Judged(values, BaselineOf(d)) = Recorded
    BY DEF Judged, BaselineOf
  <2>2. \A m \in Recorded : BaselineOf(d)[m] = Baseline(d, m)
    BY DEF BaselineOf
  <2> QED BY <2>1, <2>2 DEF MetricRanges
<1> HIDE DEF range
<1>5. ASSUME NEW m \in Recorded
      PROVE  /\ Status(m) = "ok" <=> /\ range[m].normal_min <= range[m].value
                                     /\ range[m].value <= range[m].normal_max
                                     /\ ~Over(range[m].value, range[m].ceiling)
             /\ Over(range[m].value, range[m].ceiling) =>
                    Status(m) = "critical" /\ m \in CeilingMetrics /\ values[m] > Baseline(d, m).ceiling
  <2>1. PICK v \in Int : v = values[m] /\ (m = "temp" \/ v >= 0)
    BY <1>1
  <2> HIDE DEF Status
  <2>2. LET base == Baseline(d, m)
            over == m \in CeilingMetrics /\ v > base.ceiling
            apart == AbsoluteOf(v - SeasonalMean(m, base, t))
            band == NormalBand(m, base, t)
        IN  /\ Over(v, CeilingOf(m, base)) <=> over
            /\ Status(m) = "critical" <=> over \/ apart > 3 * base.stddev
            /\ Status(m) = "ok" <=> ~over /\ apart <= 2 * base.stddev
            /\ apart <= 2 * base.stddev <=> band[1] <= v /\ v <= band[2]
    BY <1>1, <2>1, ValueIsJudged DEF Status
  <2> QED BY <1>4, <2>1, <2>2
<1>6. /\ status = "critical" <=> \E m \in Recorded : Status(m) = "critical"
      /\ status = "ok" <=> \A m \in Recorded : Status(m) = "ok"
  BY <1>1, StatusIsRule
<1>7. \A m \in Recorded \cap CeilingMetrics : values[m] > Baseline(d, m).ceiling => score = 0
  BY ScoreAtLimit
<1> HIDE DEF Status, status, score
<1>8. /\ status = "ok" <=> \A m \in DOMAIN range :
            /\ range[m].normal_min <= range[m].value
            /\ range[m].value <= range[m].normal_max
            /\ ~Over(range[m].value, range[m].ceiling)
      /\ (\E m \in DOMAIN range : Over(range[m].value, range[m].ceiling))
            => score = 0 /\ status = "critical"
  BY <1>4, <1>5, <1>6, <1>7
<1> HIDE DEF entry
<1> QED BY <1>1, <1>3, <1>8 DEF entry

-----------------------------------------------------------------------------
(* The log and the reports *)

\* The hourly rows of a device: one for each of its hours.
LEMMA DeviceRows ==
    ASSUME StoredInv, NEW d \in Devices
    PROVE  /\ IsFiniteSet(RowsOf(d))
           /\ \A r \in RowsOf(d) :
                /\ r = RowAt(d, r.window_start)
                /\ \E k \in Nat : r.window_start = 2 * k
                /\ DayOf(r.window_start) >= 1
                /\ \A m \in Recorded : r.min[m] \in Int /\ r.max[m] \in Int /\ r.min[m] <= r.max[m]
           /\ \A q \in RowsOf(d), r \in RowsOf(d) : q.window_start = r.window_start => q = r
<1>1. IsFiniteSet(RowsOf(d))
  <2>1. RowsOf(d) \in SUBSET tables["1h"]
    BY DEF RowsOf
  <2> QED BY <2>1, HourRows, FS_Subset
<1>2. ASSUME NEW r \in RowsOf(d)
      PROVE  /\ r = RowAt(d, r.window_start)
             /\ \E k \in Nat : r.window_start = 2 * k
             /\ DayOf(r.window_start) >= 1
             /\ \A m \in Recorded : r.min[m] \in Int /\ r.max[m] \in Int /\ r.min[m] <= r.max[m]
  <2>1. r \in tables["1h"] /\ r.device_id = d
    BY DEF RowsOf
  <2>2. PICK s \in Samples : r = WindowAgg(s.device, HourStart(s), Hour, Samples)
    BY <2>1, HourRows
  <2>3. r.device_id = s.device /\ r.window_start = HourStart(s)
    BY <2>2 DEF WindowAgg
  <2>4. SoundSample(s, Now) /\ Now \in Nat
    BY SamplesAreSound, NowIsLate DEF StoredInv
  <2>5. DayOf(HourStart(s)) >= 1
    BY <2>4, HourOfSample
  <2>6. \E k \in Nat : HourStart(s) = 2 * k
    <3>1. s.at \in Nat
      BY <2>4 DEF SoundSample
    <3> QED BY <3>1, HourIsEven DEF HourStart, WindowStart, Hour
  <2>7. ASSUME NEW m \in Recorded PROVE r.min[m] \in Int /\ r.max[m] \in Int /\ r.min[m] <= r.max[m]
    <3>1. s.values[m] \in Int
      BY <2>4 DEF SoundSample
    <3>2. /\ r.min[m] \in Int /\ r.min[m] <= s.values[m]
          /\ r.max[m] \in Int /\ s.values[m] <= r.max[m]
      BY <2>2, RowCovers
    <3> QED BY <3>1, <3>2
  <2> QED BY <2>1, <2>2, <2>3, <2>5, <2>6, <2>7 DEF RowAt
<1>3. \A q \in RowsOf(d), r \in RowsOf(d) : q.window_start = r.window_start => q = r
  BY <1>2
<1> QED BY <1>1, <1>2, <1>3

\* The widest of the bands of some instants is made of numbers.
LEMMA WidestIsNumbers ==
    ASSUME NEW d \in Devices, NEW m \in Recorded,
           NEW T \in SUBSET Nat, IsFiniteSet(T), T # {}, \A t \in T : DayOf(t) >= 1
    PROVE  /\ WidestBand(m, Baseline(d, m), T)[1] \in Int
           /\ WidestBand(m, Baseline(d, m), T)[2] \in Int
<1> DEFINE band  == [t \in T |-> NormalBand(m, Baseline(d, m), t)]
           Bands == {band[t] : t \in T}
           low   == [b \in Bands |-> b[1]]
           high  == [b \in Bands |-> b[2]]
<1>1. \A t \in T : band[t][1] \in Int /\ band[t][2] \in Int
  <2> TAKE t \in T
  <2>1. PICK std \in Nat : std = Baseline(d, m).stddev /\ std >= 1
    BY BaselineIsNumbers
  <2>2. PICK mean \in Int : mean = SeasonalMean(m, Baseline(d, m), t)
    <3>1. Baseline(d, m).mean \in Int /\ SeasonalOffset(m, t) \in Int
      BY BaselineIsNumbers, SeasonIsNumber
    <3> QED BY <3>1 DEF SeasonalMean
  <2>3. AtLeast(std, MinStddev) = std
    BY <2>1 DEF AtLeast, MinStddev
  <2>4. PICK a \in Int, b \in Int : a = mean - 2 * std /\ b = mean + 2 * std
    OBVIOUS
  <2>5. NormalBand(m, Baseline(d, m), t) = <<IF m = "temp" THEN a ELSE AtLeast(a, 0), b>>
    BY <2>1, <2>2, <2>3, <2>4 DEF NormalBand, WarningSigma
  <2> QED BY <2>5 DEF AtLeast
<1>2. Bands = {NormalBand(m, Baseline(d, m), t) : t \in T}
  OBVIOUS
<1> HIDE DEF band
<1>3. IsFiniteSet(Bands) /\ Bands # {}
  <2>1. IsFiniteSet(Bands)
    <3>1. DOMAIN band = T
      BY DEF band
    <3> QED BY <3>1, ImageIsFinite
  <2>2. Bands # {}
    OBVIOUS
  <2> QED BY <2>1, <2>2
<1>4. \A b \in Bands : b[1] \in Int /\ b[2] \in Int
  BY <1>1
<1> HIDE DEF Bands
<1>5. DOMAIN low = Bands /\ DOMAIN high = Bands
  OBVIOUS
<1>6. /\ {low[b] : b \in Bands} = {b[1] : b \in Bands} /\ {low[b] : b \in Bands} \subseteq Int
      /\ {high[b] : b \in Bands} = {b[2] : b \in Bands} /\ {high[b] : b \in Bands} \subseteq Int
  BY <1>4
<1> HIDE DEF low, high
<1>7. IsFiniteSet({b[1] : b \in Bands}) /\ IsFiniteSet({b[2] : b \in Bands})
  <2>1. IsFiniteSet({low[b] : b \in Bands}) /\ IsFiniteSet({high[b] : b \in Bands})
    BY <1>3, <1>5, ImageIsFinite
  <2> QED BY <1>6, <2>1
<1>8. {b[1] : b \in Bands} # {} /\ {b[2] : b \in Bands} # {}
  BY <1>3
<1>9. Min({b[1] : b \in Bands}) \in Int /\ Max({b[2] : b \in Bands}) \in Int
  BY <1>6, <1>7, <1>8, Extremes
<1>10. WidestBand(m, Baseline(d, m), T) = <<Min({b[1] : b \in Bands}), Max({b[2] : b \in Bands})>>
  BY <1>2 DEF WidestBand
<1> QED BY <1>9, <1>10

\* The log judges the point of an hour as the reports judge its row.
LEMMA PointIsRow ==
    ASSUME StoredInv, HistoryInv, NEW d \in Devices, NEW m \in Recorded, NEW r \in RowsOf(d)
    PROVE  LET base  == Baseline(d, m)
               band  == HourBand(m, base, r.window_start)
               OverOrOut(v) == Over(v, CeilingOf(m, base)) \/ v > band[2] \/ v < band[1]
           IN  r.anomaly_count > 0 /\ (\E v \in {r.max[m], r.min[m]} : OverOrOut(v))
                    <=> OutOfRange(r, m, thresholds[d])
<1>1. PICK base : base = Baseline(d, m) /\ base = thresholds[d][m] /\ m \in DOMAIN thresholds[d]
  BY DEF HistoryInv, BaselineOf
<1>2. PICK k \in Nat : k = r.window_start /\ DayOf(k) >= 1
  BY DeviceRows
<1>3. PICK low \in Int, high \in Int : low = r.min[m] /\ high = r.max[m] /\ low <= high
  BY DeviceRows
<1>4. PICK a \in Int, b \in Int : /\ a = HourBand(m, base, r.window_start)[1]
                                  /\ b = HourBand(m, base, r.window_start)[2]
  <2> DEFINE T == {k, k + 1, k + 2}
  <2>1. HourBand(m, base, k) = WidestBand(m, base, T)
    BY DEF HourBand, Hour
  <2>2. IsFiniteSet(T) /\ T # {} /\ T \in SUBSET Nat
    <3>1. T = {k} \cup ({k + 1} \cup {k + 2})
      OBVIOUS
    <3>2. IsFiniteSet({k}) /\ IsFiniteSet({k + 1} \cup {k + 2})
      BY FS_Singleton, FS_Union
    <3>3. T # {} /\ T \in SUBSET Nat
      OBVIOUS
    <3> HIDE DEF T
    <3> QED BY <3>1, <3>2, <3>3, FS_Union
  <2>3. \A t \in T : DayOf(t) >= 1
    <3>1. k + 1 \in Int /\ k + 2 \in Int /\ k <= k + 1 /\ k <= k + 2
      OBVIOUS
    <3>2. /\ DayOf(k) <= DayOf(k + 1) /\ DayOf(k) <= DayOf(k + 2)
          /\ DayOf(k) \in Int /\ DayOf(k + 1) \in Int /\ DayOf(k + 2) \in Int
      BY <3>1, DaysGrow
    <3> QED BY <1>2, <3>2
  <2> HIDE DEF T
  <2>4. WidestBand(m, base, T)[1] \in Int /\ WidestBand(m, base, T)[2] \in Int
    BY <1>1, <2>2, <2>3, WidestIsNumbers
  <2> QED BY <1>2, <2>1, <2>4
<1>5. PICK c : c = CeilingOf(m, base) /\ (c = None \/ c \in Int)
  BY <1>1, BaselineIsNumbers DEF CeilingOf
<1>6. Over(low, c) => Over(high, c)
  BY <1>3, <1>5 DEF Over
<1>7. OutOfRange(r, m, thresholds[d]) <=>
          r.anomaly_count > 0 /\ (Over(high, c) \/ high > b \/ low < a)
  BY <1>1, <1>3, <1>4, <1>5 DEF OutOfRange, OverLimit
<1>8. (\E v \in {high, low} : Over(v, c) \/ v > b \/ v < a) <=> Over(high, c) \/ high > b \/ low < a
  <2>1. low > b => high > b
    BY <1>3, <1>4
  <2>2. high < a => low < a
    BY <1>3, <1>4
  <2> QED BY <1>6, <2>1, <2>2
<1> QED BY <1>1, <1>3, <1>4, <1>5, <1>7, <1>8

\* The rows the hourly log of a device reads, and the point it shows for one.
LogRows(d) == Aggregates(tables["1h"], d, "1h", LookbackHours["1h"], 20000, Now)

LogPoint(r, m, stats) ==
    [Point(r.window_start, r.avg[m], r.min[m], r.max[m], r.anomaly_count, r.event_count,
           r.anomaly_count > 0) EXCEPT !.band = HourBand(m, stats, r.window_start)]

LEMMA LogPoints ==
    ASSUME StoredInv, NEW d \in Devices, NEW m \in Recorded, NEW stats
    PROVE  /\ LogRows(d) \subseteq RowsOf(d)
           /\ SensorTimeline(tables, d, m, stats, "1h", Now) = {LogPoint(r, m, stats) : r \in LogRows(d)}
<1>1. LogRows(d) \subseteq RowsOf(d)
  BY DEF LogRows, Aggregates, Newest, RowsOf
<1> DEFINE plain(r) == Point(r.window_start, r.avg[m], r.min[m], r.max[m],
                             r.anomaly_count, r.event_count, r.anomaly_count > 0)
           Points == {plain(r) : r \in LogRows(d)}
           Banded(p) ==
               LET start == p.window_start
                   end   == BucketEnd(start, "1h")
               IN  [p EXCEPT !.band = WidestBand(m, stats, {start, start + (end - start) \div 2, end})]
<1>2. SensorTimeline(tables, d, m, stats, "1h", Now) = {Banded(p) : p \in Points}
  <2>1. SourceTable("1h") = "1h" /\ "1h" \notin RollupGranularities
    BY DEF SourceTable, RollupGranularities
  <2>2. SensorTimeline(tables, d, m, stats, "1h", Now)
            = AttachNormalBands(MetricWindows(LogRows(d), m), m, stats, "1h")
    BY <2>1 DEF SensorTimeline, LogRows
  <2>3. MetricWindows(LogRows(d), m) = Points
    BY DEF MetricWindows
  <2> HIDE DEF Points
  <2>4. AttachNormalBands(Points, m, stats, "1h") = {Banded(p) : p \in Points}
    BY DEF AttachNormalBands
  <2> HIDE DEF Banded
  <2> QED BY <2>2, <2>3, <2>4
<1>3. ASSUME NEW r \in LogRows(d) PROVE Banded(plain(r)) = LogPoint(r, m, stats)
  <2>1. PICK k \in Nat : k = r.window_start
    BY <1>1, DeviceRows
  <2>2. plain(r).window_start = k
    BY <2>1 DEF Point
  <2>3. BucketEnd(k, "1h") = k + 2
    BY DEF BucketEnd, Hour
  <2>4. ((k + 2) - k) \div 2 = 1 /\ Hour \div 2 = 1
    BY DEF Hour
  <2>5. Banded(plain(r)) = [plain(r) EXCEPT !.band = WidestBand(m, stats, {k, k + 1, k + 2})]
    <3> HIDE DEF plain
    <3> QED BY <2>2, <2>3, <2>4
  <2>6. HourBand(m, stats, r.window_start) = WidestBand(m, stats, {k, k + 1, k + 2})
    BY <2>1, <2>4 DEF HourBand, Hour
  <2>7. LogPoint(r, m, stats) = [plain(r) EXCEPT !.band = HourBand(m, stats, r.window_start)]
    BY DEF LogPoint
  <2> HIDE DEF plain, Banded
  <2> QED BY <2>5, <2>6, <2>7
<1>4. {Banded(p) : p \in Points} = {LogPoint(r, m, stats) : r \in LogRows(d)}
  <2> HIDE DEF plain, Banded
  <2> QED BY <1>3
<1> HIDE DEF Points, Banded
<1> QED BY <1>1, <1>2, <1>4

\* "A report and the log never disagree".
LEMMA LogHolds == StoredInv /\ HistoryInv => ReportAgreesWithLog
<1> SUFFICES ASSUME StoredInv, HistoryInv, NEW d \in Devices, NEW m \in Recorded
             PROVE  LET points == SensorTimeline(tables, d, m, thresholds[d][m], "1h", Now)
                        shown  == {p.window_start : p \in points}
                        rows   == {r \in RowsOf(d) : r.window_start \in shown}
                    IN  /\ Entries(points, CeilingOf(m, thresholds[d][m]))
                                = {r.window_start : r \in {q \in rows : OutOfRange(q, m, thresholds[d])}}
                        /\ {e.local : e \in OutOfRangeSheet(rows, thresholds[d], {m})}
                                = {ToLocal(t) : t \in Entries(points, CeilingOf(m, thresholds[d][m]))}
  BY DEF ReportAgreesWithLog
<1>1. PICK base : base = Baseline(d, m) /\ base = thresholds[d][m]
  BY DEF HistoryInv, BaselineOf
<1>2. PICK rows : rows = LogRows(d) /\ rows \subseteq RowsOf(d)
  BY LogPoints
<1>3. PICK points : /\ points = SensorTimeline(tables, d, m, thresholds[d][m], "1h", Now)
                    /\ points = {LogPoint(r, m, base) : r \in rows}
  BY <1>1, <1>2, LogPoints
<1>4. ASSUME NEW r \in rows
      PROVE  /\ LogPoint(r, m, base).window_start = r.window_start
             /\ LogPoint(r, m, base).unhealthy /\ Breached(LogPoint(r, m, base), CeilingOf(m, base))
                    <=> OutOfRange(r, m, thresholds[d])
  <2>1. PICK p : p = LogPoint(r, m, base)
    OBVIOUS
  <2>2. /\ p.window_start = r.window_start /\ p.unhealthy = (r.anomaly_count > 0)
        /\ p.max = r.max[m] /\ p.min = r.min[m] /\ p.band = HourBand(m, base, r.window_start)
    BY <2>1 DEF LogPoint, Point
  <2>3. r.anomaly_count > 0 /\ (\E v \in {r.max[m], r.min[m]} :
                \/ Over(v, CeilingOf(m, base))
                \/ v > HourBand(m, base, r.window_start)[2]
                \/ v < HourBand(m, base, r.window_start)[1])
            <=> OutOfRange(r, m, thresholds[d])
    BY <1>1, <1>2, PointIsRow
  <2>4. Breached(p, CeilingOf(m, base)) <=> (\E v \in {r.max[m], r.min[m]} :
                \/ Over(v, CeilingOf(m, base))
                \/ v > HourBand(m, base, r.window_start)[2]
                \/ v < HourBand(m, base, r.window_start)[1])
    BY <2>2 DEF Breached
  <2> QED BY <2>1, <2>2, <2>3, <2>4
<1> DEFINE shown == {p.window_start : p \in points}
           Bad   == {q \in rows : OutOfRange(q, m, thresholds[d])}
<1>5. {r \in RowsOf(d) : r.window_start \in shown} = rows
  <2>1. \A r \in rows : r.window_start \in shown
    BY <1>3, <1>4
  <2>2. \A r \in RowsOf(d) : r.window_start \in shown => r \in rows
    <3> SUFFICES ASSUME NEW r \in RowsOf(d), NEW p \in points, r.window_start = p.window_start
                 PROVE  r \in rows
      OBVIOUS
    <3>1. PICK q \in rows : p = LogPoint(q, m, base)
      BY <1>3
    <3>2. q.window_start = r.window_start /\ q \in RowsOf(d)
      BY <1>2, <1>4, <3>1
    <3>3. q = r
      BY <3>2, DeviceRows
    <3> QED BY <3>3
  <2> HIDE DEF shown
  <2> QED BY <1>2, <2>1, <2>2
<1>6. Entries(points, CeilingOf(m, base)) = {r.window_start : r \in Bad}
  <2> DEFINE Listed(p) == p.unhealthy /\ Breached(p, CeilingOf(m, base))
  <2>1. Entries(points, CeilingOf(m, base)) = {p.window_start : p \in {q \in points : Listed(q)}}
    BY DEF Entries
  <2>2. \A r \in rows : /\ LogPoint(r, m, base).window_start = r.window_start
                        /\ Listed(LogPoint(r, m, base)) <=> r \in Bad
    BY <1>4
  <2> HIDE DEF Listed
  <2>3. \A r \in Bad : r \in rows
    OBVIOUS
  <2> HIDE DEF Bad
  <2> QED BY <1>3, <2>1, <2>2, <2>3
<1>7. {e.local : e \in OutOfRangeSheet(rows, thresholds[d], {m})} = {ToLocal(r.window_start) : r \in Bad}
  <2> DEFINE th == thresholds[d]
             Hs == {x \in OutOfRangeHours(rows, th) : x[2] \in {m}}
             Entry(r, k) == [metric |-> k, local |-> ToLocal(r.window_start),
                             lowest |-> r.min[k], highest |-> r.max[k],
                             range  |-> HourBand(k, th[k], r.window_start),
                             limit  |-> CeilingOf(k, th[k]), over_limit |-> OverLimit(r, k, th)]
  <2>1. OutOfRangeSheet(rows, th, {m}) = {Entry(h[1], h[2]) : h \in Hs}
    BY DEF OutOfRangeSheet
  <2>2. \A r, k : Entry(r, k).local = ToLocal(r.window_start)
    OBVIOUS
  <2>3. /\ \A h \in Hs : h[1] \in Bad
        /\ \A r \in Bad : <<r, m>> \in Hs
    BY DEF OutOfRangeHours
  <2> HIDE DEF Entry, Hs, Bad
  <2>4. \A r \in Bad : Entry(r, m) \in {Entry(h[1], h[2]) : h \in Hs}
    <3> TAKE r \in Bad
    <3>1. <<r, m>> \in Hs /\ <<r, m>>[1] = r /\ <<r, m>>[2] = m
      BY <2>3
    <3> QED BY <3>1
  <2>5. {e.local : e \in OutOfRangeSheet(rows, th, {m})} \subseteq {ToLocal(r.window_start) : r \in Bad}
    <3> SUFFICES ASSUME NEW h \in Hs
                 PROVE  Entry(h[1], h[2]).local \in {ToLocal(r.window_start) : r \in Bad}
      BY <2>1
    <3> QED BY <2>2, <2>3
  <2>6. {ToLocal(r.window_start) : r \in Bad} \subseteq {e.local : e \in OutOfRangeSheet(rows, th, {m})}
    <3> SUFFICES ASSUME NEW r \in Bad
                 PROVE  ToLocal(r.window_start) \in {e.local : e \in OutOfRangeSheet(rows, th, {m})}
      OBVIOUS
    <3>1. Entry(r, m) \in OutOfRangeSheet(rows, th, {m}) /\ Entry(r, m).local = ToLocal(r.window_start)
      BY <2>1, <2>2, <2>4
    <3> QED BY <3>1
  <2> QED BY <2>5, <2>6
<1>8. {ToLocal(t) : t \in {r.window_start : r \in Bad}} = {ToLocal(r.window_start) : r \in Bad}
  <2> HIDE DEF Bad
  <2> QED OBVIOUS
<1>9. {r.window_start : r \in {q \in rows : OutOfRange(q, m, thresholds[d])}} = {r.window_start : r \in Bad}
  OBVIOUS
<1> HIDE DEF Bad, shown
<1> QED BY <1>1, <1>3, <1>5, <1>6, <1>7, <1>8, <1>9 DEF shown

-----------------------------------------------------------------------------
(* Episodes *)

\* What MetricEpisodes makes of one more row.
Extended(row, found, device, metric, stats) ==
    LET start == row.window_start
        peak  == row.max[metric]
        over  == OverLimit(row, metric, stats)
        open  == Last(found)
    IN  IF found # <<>> /\ open.end = start
        THEN Append(Front(found),
                    [open EXCEPT !.end = start + Hour, !.hours = @ + 1,
                                 !.over_limit = @ \/ over,
                                 !.peak = AtLeast(@, peak),
                                 !.peak_at = IF peak > open.peak THEN start ELSE @])
        ELSE Append(found,
                    [device_id |-> device, metric |-> metric, start |-> start,
                     end |-> start + Hour, hours |-> 1, peak |-> peak,
                     peak_at |-> start, over_limit |-> over])

Episode(device, metric) ==
    [device_id : {device}, metric : {metric}, start : Int, end : Int, hours : Nat,
     peak : Int, peak_at : Int, over_limit : BOOLEAN]

\* A row opens an episode or lengthens the last one.
OpenedBy(e, r, m, stats) ==
    /\ e.start = r.window_start /\ e.end = r.window_start + Hour
    /\ e.hours = 1 /\ e.peak = r.max[m]
    /\ e.over_limit <=> OverLimit(r, m, stats)

LengthenedBy(e, o, r, m, stats) ==
    /\ o.end = r.window_start
    /\ e.start = o.start /\ e.end = r.window_start + Hour
    /\ e.hours = o.hours + 1 /\ e.peak = AtLeast(o.peak, r.max[m])
    /\ e.over_limit <=> o.over_limit \/ OverLimit(r, m, stats)

Grown(q, found, r, m, stats) ==
    LET n == Len(q)
    IN  /\ n # 0
        /\ \A i \in 1 .. n - 1 : i \in DOMAIN found /\ q[i] = found[i]
        /\ \/ /\ n = Len(found) + 1 /\ OpenedBy(q[n], r, m, stats)
              /\ \A i \in DOMAIN found : i = Len(found) => found[i].end # r.window_start
           \/ n = Len(found) /\ LengthenedBy(q[n], found[n], r, m, stats)

LEMMA OneMoreRow ==
    ASSUME NEW d, NEW m, NEW stats, NEW found \in Seq(Episode(d, m)),
           NEW r, r.window_start \in Int, r.max[m] \in Int
    PROVE  /\ Extended(r, found, d, m, stats) \in Seq(Episode(d, m))
           /\ Grown(Extended(r, found, d, m, stats), found, r, m, stats)
<1> DEFINE E == Episode(d, m)
<1>1. PICK t \in Int, p \in Int, over \in BOOLEAN :
          t = r.window_start /\ p = r.max[m] /\ over = OverLimit(r, m, stats)
  BY DEF OverLimit
<1>0. found \in Seq(E)
  OBVIOUS
<1>2. CASE found # <<>> /\ Last(found).end = t
  <2>1. PICK n \in Nat \ {0}, open \in E :
            n = Len(found) /\ open = found[n] /\ open = Last(found) /\ open.end = t
    BY <1>2 DEF Last
  <2>2. PICK front \in Seq(E) : /\ front = Front(found) /\ Len(front) = n - 1
                                /\ \A i \in 1 .. n - 1 : front[i] = found[i] /\ i \in DOMAIN found
    <3>1. /\ SubSeq(found, 1, n - 1) \in Seq(E) /\ Len(SubSeq(found, 1, n - 1)) = n - 1
          /\ \A i \in 1 .. n - 1 : SubSeq(found, 1, n - 1)[i] = found[i] /\ i \in DOMAIN found
      <4>1. found \in Seq(E) /\ n \in Nat \ {0} /\ n = Len(found)
        BY <2>1
      <4> HIDE DEF E
      <4>2. n - 1 \in Nat /\ n - 1 <= Len(found)
        BY <4>1
      <4>3. SubSeq(found, 1, n - 1) \in Seq(E) /\ Len(SubSeq(found, 1, n - 1)) = n - 1
        BY <4>1, <4>2
      <4>4. \A i \in 1 .. n - 1 : SubSeq(found, 1, n - 1)[i] = found[i] /\ i \in DOMAIN found
        BY <4>1, <4>2
      <4> QED BY <4>3, <4>4
    <3> QED BY <2>1, <3>1 DEF Front
  <2>3. PICK e : e = [open EXCEPT !.end = t + Hour, !.hours = @ + 1,
                                  !.over_limit = @ \/ over, !.peak = AtLeast(@, p),
                                  !.peak_at = IF p > open.peak THEN t ELSE @]
    OBVIOUS
  <2>4. /\ e.end = t + Hour /\ e.hours = open.hours + 1 /\ e.start = open.start
        /\ e.peak = AtLeast(open.peak, p)
        /\ e.over_limit = (open.over_limit \/ over)
    BY <2>1, <2>3 DEF Episode
  <2>5. e \in E
    <3>1. /\ open.hours \in Nat /\ open.peak \in Int /\ open.peak_at \in Int
          /\ open.over_limit \in BOOLEAN
      BY <2>1 DEF Episode
    <3>2. /\ t + Hour \in Int /\ open.hours + 1 \in Nat /\ AtLeast(open.peak, p) \in Int
          /\ (IF p > open.peak THEN t ELSE open.peak_at) \in Int
      BY <1>1, <3>1 DEF AtLeast, Hour
    <3>3. (open.over_limit \/ over) \in BOOLEAN
      OBVIOUS
    <3> QED BY <2>1, <2>3, <3>2, <3>3 DEF Episode
  <2>6. PICK q : q = Append(front, e)
    OBVIOUS
  <2>7. /\ q \in Seq(E) /\ Len(q) = n /\ q[n] = e
        /\ \A i \in 1 .. n - 1 : q[i] = found[i] /\ i \in DOMAIN found
    <3> HIDE DEF E
    <3> QED BY <2>2, <2>5, <2>6
  <2>8. q = Extended(r, found, d, m, stats)
    BY <1>1, <1>2, <2>1, <2>2, <2>3, <2>6 DEF Extended
  <2>9. LengthenedBy(q[n], found[n], r, m, stats)
    BY <1>1, <2>1, <2>4, <2>7 DEF LengthenedBy
  <2>10. n = Len(found) /\ n # 0
    BY <2>1
  <2>11. Grown(q, found, r, m, stats)
    BY <2>7, <2>9, <2>10 DEF Grown
  <2> QED BY <2>7, <2>8, <2>11
<1>3. CASE ~(found # <<>> /\ Last(found).end = t)
  <2>1. PICK e : e = [device_id |-> d, metric |-> m, start |-> t, end |-> t + Hour, hours |-> 1,
                      peak |-> p, peak_at |-> t, over_limit |-> over]
    OBVIOUS
  <2>2. e \in E /\ e.start = t /\ e.end = t + Hour /\ e.hours = 1 /\ e.peak = p /\ e.over_limit = over
    BY <2>1 DEF Episode, Hour
  <2>3. PICK n \in Nat \ {0}, q \in {Append(found, e)} : n = Len(found) + 1
    BY <1>0
  <2>4. /\ q \in Seq(E) /\ Len(q) = n /\ q[n] = e
        /\ \A i \in 1 .. n - 1 : q[i] = found[i] /\ i \in DOMAIN found
    <3> HIDE DEF E
    <3> QED BY <1>0, <2>2, <2>3
  <2>5. q = Extended(r, found, d, m, stats)
    BY <1>1, <1>3, <2>1, <2>3 DEF Extended
  <2>6. \A i \in DOMAIN found : i = Len(found) => found[i].end # r.window_start
    BY <1>1, <1>3 DEF Last
  <2>7. OpenedBy(q[n], r, m, stats)
    BY <1>1, <2>2, <2>4 DEF OpenedBy
  <2>8. n = Len(found) + 1 /\ n # 0
    BY <2>3
  <2>9. Grown(q, found, r, m, stats)
    BY <2>4, <2>6, <2>7, <2>8 DEF Grown
  <2> QED BY <2>4, <2>5, <2>9
<1> QED BY <1>2, <1>3

\* Rows of hours: one each, on the hour.
HourlyRows(S, m) ==
    /\ IsFiniteSet(S)
    /\ \A r \in S : r.max[m] \in Int /\ \E k \in Nat : r.window_start = 2 * k
    /\ \A q \in S, r \in S : q.window_start = r.window_start => q = r

LatestOf(x, s, S, m) ==
    HourlyRows(S, m) /\ s \in SUBSET S /\ x \in s /\ \A r \in s : r.window_start <= x.window_start

Within(e, s) == {r \in s : e.start <= r.window_start /\ r.window_start < e.end}

\* An episode says what its rows say, and has a row for each of its hours.
Says(e, s, m, stats) ==
    /\ e.start < e.end /\ e.end - e.start = e.hours * Hour /\ \E k \in Nat : e.start = 2 * k
    /\ \A k \in Nat : e.start <= 2 * k /\ 2 * k < e.end => \E r \in s : r.window_start = 2 * k
    /\ Cardinality(Within(e, s)) = e.hours
    /\ \E r \in Within(e, s) : r.max[m] = e.peak
    /\ \A r \in Within(e, s) : r.max[m] <= e.peak
    /\ e.over_limit <=> (\E r \in Within(e, s) : OverLimit(r, m, stats))

\* The episodes of some rows: apart from one another, each row in one of them,
\* the last one open at the end of the last row.
Merged(q, s, m, stats) ==
    /\ \A i \in DOMAIN q : Says(q[i], s, m, stats)
    /\ \A r \in s : \E i \in DOMAIN q : r \in Within(q[i], s)
    /\ \A i \in DOMAIN q, j \in DOMAIN q : i < j => q[i].end < q[j].start
    /\ q # <<>> => \E r \in s : q[Len(q)].end = r.window_start + Hour

\* The rows of an episode that ends before the latest row are the same without it.
LEMMA SaysBefore ==
    ASSUME NEW m, NEW stats, NEW S, NEW s, NEW x, LatestOf(x, s, S, m), NEW e,
           e.start \in Int, e.end \in Int, e.end <= x.window_start, Says(e, s \ {x}, m, stats)
    PROVE  Says(e, s, m, stats) /\ Within(e, s) = Within(e, s \ {x})
<1>2. x.window_start \in Int
  BY DEF LatestOf, HourlyRows
<1>3. ~(x.window_start < e.end)
  BY <1>2
<1>4. Within(e, s) = Within(e, s \ {x})
  BY <1>3 DEF Within
<1>5. \A k \in Nat : (\E r \in s \ {x} : r.window_start = 2 * k) => \E r \in s : r.window_start = 2 * k
  OBVIOUS
<1> QED BY <1>4, <1>5 DEF Says

\* An episode opened by the latest row.
LEMMA SaysNew ==
    ASSUME NEW m, NEW stats, NEW S, NEW s, NEW x, LatestOf(x, s, S, m),
           NEW e, OpenedBy(e, x, m, stats)
    PROVE  Says(e, s, m, stats) /\ Within(e, s) = {x}
<1>0. /\ HourlyRows(S, m) /\ s \in SUBSET S /\ x \in s
      /\ \A r \in s : r.window_start <= x.window_start
  BY DEF LatestOf
<1> USE <1>0 DEF OpenedBy
<1>1. PICK k \in Nat : x.window_start = 2 * k
  BY <1>0 DEF HourlyRows
<1>2. Within(e, s) = {x}
  <2>1. ASSUME NEW r \in s PROVE r \in Within(e, s) <=> r = x
    <3>1. PICK j \in Nat : r.window_start = 2 * j
      BY DEF HourlyRows
    <3>2. 2 * j <= 2 * k
      BY <1>1, <3>1
    <3>3. r \in Within(e, s) <=> 2 * k <= 2 * j /\ 2 * j < 2 * k + 2
      BY <1>1, <3>1 DEF Within, Hour
    <3>4. r \in Within(e, s) <=> j = k
      BY <3>2, <3>3
    <3>5. (r.window_start = x.window_start) <=> r = x
      BY DEF HourlyRows
    <3> QED BY <1>1, <3>1, <3>4, <3>5
  <2> QED BY <2>1 DEF Within
<1>3. e.start < e.end /\ e.end - e.start = e.hours * Hour
  BY <1>1 DEF Hour
<1>4. \A j \in Nat : e.start <= 2 * j /\ 2 * j < e.end => \E r \in s : r.window_start = 2 * j
  <2> SUFFICES ASSUME NEW j \in Nat, 2 * k <= 2 * j, 2 * j < 2 * k + 2 PROVE x.window_start = 2 * j
    BY <1>1 DEF Hour
  <2> QED BY <1>1
<1>5. Cardinality(Within(e, s)) = e.hours
  BY <1>2, FS_Singleton
<1>6. x.max[m] \in Int
  BY DEF HourlyRows
<1>7. /\ \E r \in Within(e, s) : r.max[m] = e.peak
      /\ \A r \in Within(e, s) : r.max[m] <= e.peak
      /\ e.over_limit <=> (\E r \in Within(e, s) : OverLimit(r, m, stats))
  BY <1>2, <1>6
<1> QED BY <1>1, <1>2, <1>3, <1>4, <1>5, <1>7 DEF Says

\* An episode lengthened by the latest row.
SaysWithout(o, t, x, s, m, stats) ==
    /\ t = s \ {x} /\ Says(o, t, m, stats)
    /\ o.start \in Int /\ o.hours \in Nat /\ o.peak \in Int

LEMMA SaysLonger ==
    ASSUME NEW m, NEW stats, NEW S, NEW s, NEW x, LatestOf(x, s, S, m),
           NEW t, NEW o, SaysWithout(o, t, x, s, m, stats),
           NEW e, LengthenedBy(e, o, x, m, stats)
    PROVE  Says(e, s, m, stats) /\ Within(e, s) = Within(o, t) \cup {x}
<1>0. /\ HourlyRows(S, m) /\ s \in SUBSET S /\ x \in s
      /\ \A r \in s : r.window_start <= x.window_start
      /\ t = s \ {x} /\ Says(o, t, m, stats)
      /\ o.start \in Int /\ o.hours \in Nat /\ o.peak \in Int
  BY DEF LatestOf, SaysWithout
<1> USE <1>0 DEF LengthenedBy
<1>1. PICK k \in Nat : x.window_start = 2 * k
  BY <1>0 DEF HourlyRows
<1>2. PICK a \in Int, n \in Nat : a = o.start /\ n = o.hours /\ e.start = a /\ e.hours = n + 1
  OBVIOUS
<1>3. a < 2 * k /\ 2 * k - a = n * Hour /\ \E j \in Nat : a = 2 * j
  BY <1>1, <1>2 DEF Says
<1>4. Within(e, s) = Within(o, t) \cup {x} /\ x \notin Within(o, t)
  <2>1. ASSUME NEW r \in s PROVE r \in Within(e, s) <=> r \in Within(o, t) \/ r = x
    <3>1. PICK j \in Nat : r.window_start = 2 * j
      BY DEF HourlyRows
    <3>2. 2 * j <= 2 * k /\ ((r = x) <=> (j = k))
      <4>1. (r.window_start = x.window_start) <=> r = x
        BY DEF HourlyRows
      <4> QED BY <1>1, <3>1, <4>1
    <3>3. r \in Within(e, s) <=> a <= 2 * j /\ 2 * j < 2 * k + 2
      BY <1>1, <1>2, <3>1 DEF Within, Hour
    <3>4. r \in Within(o, t) <=> r # x /\ a <= 2 * j /\ 2 * j < 2 * k
      BY <1>1, <1>2, <3>1 DEF Within
    <3> QED BY <1>3, <3>2, <3>3, <3>4
  <2> QED BY <2>1 DEF Within
<1>5. e.start < e.end /\ e.end - e.start = e.hours * Hour
  BY <1>1, <1>2, <1>3 DEF Hour
<1>6. \A j \in Nat : e.start <= 2 * j /\ 2 * j < e.end => \E r \in s : r.window_start = 2 * j
  <2> SUFFICES ASSUME NEW j \in Nat, a <= 2 * j, 2 * j < 2 * k + 2
               PROVE  \E r \in s : r.window_start = 2 * j
    BY <1>1, <1>2 DEF Hour
  <2>1. CASE j = k
    BY <1>1, <2>1
  <2>2. CASE j # k
    <3>1. a <= 2 * j /\ 2 * j < 2 * k
      BY <2>2
    <3>2. \E r \in t : r.window_start = 2 * j
      BY <1>1, <1>2, <3>1 DEF Says
    <3> QED BY <3>2
  <2> QED BY <2>1, <2>2
<1>7. Cardinality(Within(e, s)) = e.hours
  <2>1. Within(o, t) \in SUBSET S
    BY DEF Within
  <2>2. IsFiniteSet(Within(o, t))
    BY <2>1, FS_Subset DEF HourlyRows
  <2>3. Cardinality(Within(o, t)) = n
    BY <1>2 DEF Says
  <2>4. Cardinality(Within(o, t) \cup {x}) = n + 1
    <3> QED BY <1>4, <2>2, <2>3, FS_AddElement
  <2> QED BY <1>2, <1>4, <2>4
<1>8. /\ \E r \in Within(e, s) : r.max[m] = e.peak
      /\ \A r \in Within(e, s) : r.max[m] <= e.peak
  <2>1. PICK p \in Int, v \in Int : p = o.peak /\ v = x.max[m]
    BY DEF HourlyRows
  <2>2. /\ \E r \in Within(o, t) : r.max[m] = p
        /\ \A r \in Within(o, t) : r.max[m] <= p /\ r.max[m] \in Int
    <3>1. \A r \in Within(o, t) : r.max[m] \in Int
      BY DEF Within, HourlyRows
    <3> QED BY <2>1, <3>1 DEF Says
  <2>3. e.peak = IF p < v THEN v ELSE p
    BY <2>1 DEF AtLeast
  <2>4. PICK w \in Within(o, t) : w.max[m] = p
    BY <2>2
  <2>5. \A r \in Within(o, t) \cup {x} : r.max[m] <= e.peak
    <3>1. \A r \in Within(o, t) : r.max[m] <= e.peak
      <4> TAKE r \in Within(o, t)
      <4>1. PICK y \in Int : y = r.max[m] /\ y <= p
        BY <2>2
      <4> QED BY <2>1, <2>3, <4>1
    <3>2. x.max[m] <= e.peak
      BY <2>1, <2>3
    <3> QED BY <3>1, <3>2
  <2>6. w.max[m] = e.peak \/ x.max[m] = e.peak
    BY <2>1, <2>3, <2>4
  <2> QED BY <1>4, <2>4, <2>5, <2>6
<1>9. e.over_limit <=> (\E r \in Within(e, s) : OverLimit(r, m, stats))
  <2>1. o.over_limit <=> (\E r \in Within(o, t) : OverLimit(r, m, stats))
    BY DEF Says
  <2>2. (\E r \in Within(e, s) : OverLimit(r, m, stats))
            <=> (\E r \in Within(o, t) : OverLimit(r, m, stats)) \/ OverLimit(x, m, stats)
    BY <1>4
  <2> QED BY <2>1, <2>2
<1> QED BY <1>2, <1>3, <1>4, <1>5, <1>6, <1>7, <1>8, <1>9 DEF Says

\* One more row, the latest, keeps the episodes what they should be.
LEMMA MergedStep ==
    ASSUME NEW d, NEW m, NEW stats, NEW S, NEW s, NEW x, LatestOf(x, s, S, m),
           NEW found \in Seq(Episode(d, m)), Merged(found, s \ {x}, m, stats)
    PROVE  /\ Extended(x, found, d, m, stats) \in Seq(Episode(d, m))
           /\ Merged(Extended(x, found, d, m, stats), s, m, stats)
<1> DEFINE t == s \ {x}
           E == Episode(d, m)
<1>0. /\ HourlyRows(S, m) /\ s \in SUBSET S /\ x \in s
      /\ \A r \in s : r.window_start <= x.window_start
  BY DEF LatestOf
<1> USE <1>0
<1>1. PICK k \in Nat : x.window_start = 2 * k
  BY DEF HourlyRows
<1>2. x.max[m] \in Int /\ x.window_start \in Int
  BY <1>1 DEF HourlyRows
<1>3. PICK q \in Seq(E), n \in Nat \ {0} :
          /\ q = Extended(x, found, d, m, stats) /\ Len(q) = n
          /\ \A i \in 1 .. n - 1 : i \in DOMAIN found /\ q[i] = found[i]
          /\ \/ /\ n = Len(found) + 1 /\ OpenedBy(q[n], x, m, stats)
                /\ \A i \in DOMAIN found : i = Len(found) => found[i].end # x.window_start
             \/ n = Len(found) /\ LengthenedBy(q[n], found[n], x, m, stats)
  <2>1. PICK q \in Seq(E) : q = Extended(x, found, d, m, stats) /\ Grown(q, found, x, m, stats)
    BY <1>2, OneMoreRow
  <2>2. Len(q) \in Nat \ {0}
    BY <2>1 DEF Grown
  <2> QED BY <2>1, <2>2 DEF Grown
<1>4. \A i \in DOMAIN found : found[i] \in E /\ found[i].start \in Int /\ found[i].end \in Int
  <2> TAKE i \in DOMAIN found
  <2>1. found[i] \in Episode(d, m)
    OBVIOUS
  <2> QED BY <2>1 DEF Episode
<1>5. \A i \in DOMAIN found : found[i].start < found[i].end
  BY DEF Merged, Says
<1>6. \A i \in DOMAIN found : i < Len(found) => found[i].end < found[Len(found)].start
  <2> SUFFICES ASSUME NEW i \in DOMAIN found, i < Len(found)
               PROVE  found[i].end < found[Len(found)].start
    OBVIOUS
  <2>1. Len(found) \in DOMAIN found
    OBVIOUS
  <2> QED BY <2>1 DEF Merged
<1>7. \A i \in DOMAIN found : found[i].end <= x.window_start
  <2> SUFFICES ASSUME NEW i \in DOMAIN found PROVE found[i].end <= x.window_start
    OBVIOUS
  <2>1. found # <<>> /\ Len(found) \in DOMAIN found
    OBVIOUS
  <2>2. PICK r \in t : found[Len(found)].end = r.window_start + Hour
    BY <2>1 DEF Merged
  <2>3. PICK j \in Nat : r.window_start = 2 * j
    BY DEF HourlyRows
  <2>4. 2 * j <= 2 * k /\ j # k
    <3>1. r.window_start # x.window_start
      BY <2>2 DEF HourlyRows
    <3> QED BY <1>1, <2>3, <3>1
  <2>5. found[Len(found)].end <= x.window_start
    BY <1>1, <2>2, <2>3, <2>4 DEF Hour
  <2>6. PICK a \in Int, b \in Int, c \in Int :
            a = found[i].end /\ b = found[Len(found)].start /\ c = found[Len(found)].end
    BY <1>4, <2>1
  <2>7. b < c /\ (i < Len(found) => a < b) /\ (i = Len(found) => a = c)
    BY <1>5, <1>6, <2>1, <2>6
  <2>8. i <= Len(found)
    OBVIOUS
  <2> QED BY <1>1, <2>5, <2>6, <2>7, <2>8
<1>8. \A i \in 1 .. n - 1 : /\ i \in DOMAIN q /\ q[i] = found[i] /\ i \in DOMAIN found
                            /\ Says(q[i], s, m, stats) /\ Within(q[i], s) = Within(found[i], t)
  <2> TAKE i \in 1 .. n - 1
  <2>1. q[i] = found[i] /\ i \in DOMAIN found /\ i \in DOMAIN q
    BY <1>3
  <2>2. Says(found[i], t, m, stats)
    BY <2>1 DEF Merged
  <2>3. found[i].start \in Int /\ found[i].end \in Int /\ found[i].end <= x.window_start
    BY <1>4, <1>7, <2>1
  <2> QED BY <2>1, <2>2, <2>3, SaysBefore
<1>9. DOMAIN q = 1 .. n /\ n \in DOMAIN q /\ q[n] \in E
  BY <1>3
<1>10. /\ Says(q[n], s, m, stats) /\ x \in Within(q[n], s)
       /\ \A i \in 1 .. n - 1 : q[i].end < q[n].start
       /\ \A i \in DOMAIN found : i \in 1 .. n - 1 \/ Within(found[i], t) \subseteq Within(q[n], s)
  <2>1. CASE /\ n = Len(found) + 1 /\ OpenedBy(q[n], x, m, stats)
             /\ \A i \in DOMAIN found : i = Len(found) => found[i].end # x.window_start
    <3>1. /\ Says(q[n], s, m, stats) /\ Within(q[n], s) = {x}
          /\ q[n].start = x.window_start
      BY <2>1, SaysNew DEF OpenedBy
    <3>2. \A i \in 1 .. n - 1 : q[i].end < q[n].start
      <4> TAKE i \in 1 .. n - 1
      <4>1. i \in DOMAIN found /\ q[i] = found[i] /\ found[i].end <= x.window_start
        BY <1>3, <1>7
      <4>2. found[i].end # x.window_start
        <5>1. CASE i = Len(found)
          BY <2>1, <4>1, <5>1
        <5>2. CASE i < Len(found)
          <6>1. Len(found) \in DOMAIN found
            BY <4>1
          <6>2. PICK a \in Int, b \in Int, c \in Int :
                    a = found[i].end /\ b = found[Len(found)].start /\ c = found[Len(found)].end
            BY <1>4, <4>1, <6>1
          <6>3. a < b /\ b < c /\ c <= 2 * k
            BY <1>1, <1>5, <1>6, <1>7, <4>1, <5>2, <6>1, <6>2
          <6> QED BY <1>1, <6>2, <6>3
        <5> QED BY <4>1, <5>1, <5>2
      <4>3. found[i].end \in Int
        BY <1>4, <4>1
      <4> QED BY <1>1, <3>1, <4>1, <4>2, <4>3
    <3>3. \A i \in DOMAIN found : i \in 1 .. n - 1
      BY <2>1
    <3> QED BY <3>1, <3>2, <3>3
  <2>2. CASE n = Len(found) /\ LengthenedBy(q[n], found[n], x, m, stats)
    <3>1. n \in DOMAIN found /\ found[n] \in E
      BY <1>4, <2>2
    <3>2. PICK o : /\ o = found[n] /\ Says(o, t, m, stats) /\ LengthenedBy(q[n], o, x, m, stats)
                   /\ o.start \in Int /\ o.hours \in Nat /\ o.peak \in Int
      BY <2>2, <3>1 DEF Merged, Episode
    <3>3. q[n].start = o.start
      BY <3>2 DEF LengthenedBy
    <3>4. Says(q[n], s, m, stats) /\ Within(q[n], s) = Within(o, t) \cup {x}
      <4>1. SaysWithout(o, t, x, s, m, stats)
        BY <3>2 DEF SaysWithout
      <4> QED BY <3>2, <4>1, SaysLonger
    <3>5. \A i \in 1 .. n - 1 : q[i].end < q[n].start
      <4> TAKE i \in 1 .. n - 1
      <4>1. i \in DOMAIN found /\ q[i] = found[i] /\ i < Len(found)
        BY <1>3, <2>2
      <4>2. found[i].end < found[Len(found)].start
        BY <1>6, <4>1
      <4> QED BY <2>2, <3>2, <3>3, <4>1, <4>2
    <3>6. \A i \in DOMAIN found : i \in 1 .. n - 1 \/ i = n
      BY <2>2
    <3> QED BY <3>2, <3>4, <3>5, <3>6
  <2> QED BY <1>3, <2>1, <2>2
<1>11. \A i \in DOMAIN q : Says(q[i], s, m, stats)
  <2>1. \A i \in DOMAIN q : i \in 1 .. n - 1 \/ i = n
    BY <1>9
  <2> QED BY <1>8, <1>10, <2>1
<1>12. \A r \in s : \E i \in DOMAIN q : r \in Within(q[i], s)
  <2> TAKE r \in s
  <2>1. CASE r = x
    BY <1>9, <1>10, <2>1
  <2>2. CASE r # x
    <3>1. PICK i \in DOMAIN found : r \in Within(found[i], t)
      BY <2>2 DEF Merged
    <3>2. CASE i \in 1 .. n - 1
      BY <1>8, <3>1, <3>2
    <3>3. CASE Within(found[i], t) \subseteq Within(q[n], s)
      BY <1>9, <3>1, <3>3
    <3> QED BY <1>10, <3>2, <3>3
  <2> QED BY <2>1, <2>2
<1>13. \A i \in DOMAIN q, j \in DOMAIN q : i < j => q[i].end < q[j].start
  <2> SUFFICES ASSUME NEW i \in DOMAIN q, NEW j \in DOMAIN q, i < j
               PROVE  q[i].end < q[j].start
    OBVIOUS
  <2>1. i \in 1 .. n - 1 /\ (j = n \/ j \in 1 .. n - 1)
    BY <1>9
  <2>2. CASE j = n
    BY <1>10, <2>1, <2>2
  <2>3. CASE j \in 1 .. n - 1
    <3>1. q[i] = found[i] /\ q[j] = found[j] /\ i \in DOMAIN found /\ j \in DOMAIN found
      BY <1>8, <2>1, <2>3
    <3> QED BY <3>1 DEF Merged
  <2> QED BY <2>1, <2>2, <2>3
<1>14. \E r \in s : q[Len(q)].end = r.window_start + Hour
  BY <1>3 DEF OpenedBy, LengthenedBy
<1> QED BY <1>3, <1>11, <1>12, <1>13, <1>14 DEF Merged

\* Latest is the row that starts last.
LEMMA LatestIs ==
    ASSUME NEW m, NEW S, HourlyRows(S, m), NEW s \in SUBSET S, s # {}
    PROVE  LatestOf(Latest(s), s, S, m)
<1> DEFINE start  == [r \in s |-> r.window_start]
           Starts == {start[r] : r \in s}
<1>1. IsFiniteSet(s)
  BY FS_Subset DEF HourlyRows
<1>2. IsFiniteSet(Starts)
  <2>1. DOMAIN start = s
    OBVIOUS
  <2> HIDE DEF start
  <2> QED BY <1>1, <2>1, ImageIsFinite
<1>3. Starts \subseteq Int /\ Starts # {}
  BY DEF HourlyRows
<1>4. \A r \in s : r.window_start \in Starts
  OBVIOUS
<1>5. PICK r \in s : r.window_start = Max(Starts)
  <2>1. Max(Starts) \in Starts
    BY <1>2, <1>3, Extremes
  <2> QED BY <2>1
<1>6. \A q \in s : q.window_start <= r.window_start
  <2> HIDE DEF Starts
  <2>1. \A y \in Starts : y <= Max(Starts)
    BY <1>2, <1>3, Extremes
  <2> QED BY <1>4, <1>5, <2>1
<1>7. \A q \in s : q.window_start \in Int
  BY DEF HourlyRows
<1>8. \E x \in s : \A q \in s : x.window_start >= q.window_start
  BY <1>6, <1>7
<1>9. Latest(s) \in s /\ \A q \in s : Latest(s).window_start >= q.window_start
  BY <1>8 DEF Latest
<1> QED BY <1>7, <1>9 DEF LatestOf

\* What the rows are merged into, one at a time, is what their episodes should be.
MergesInto(g, S, d, m, stats) ==
    /\ g[{}] = <<>>
    /\ \A s \in SUBSET S :
        s # {} => g[s] = Extended(Latest(s), g[s \ {Latest(s)}], d, m, stats)

LEMMA MergedAll ==
    ASSUME NEW d, NEW m, NEW stats, NEW S, HourlyRows(S, m), NEW g, MergesInto(g, S, d, m, stats)
    PROVE  g[S] \in Seq(Episode(d, m)) /\ Merged(g[S], S, m, stats)
<1> DEFINE V       == Seq(Episode(d, m))
           pick    == [s \in SUBSET S |-> Latest(s)]
           Fine(s) == g[s] \in V /\ Merged(g[s], s, m, stats)
           Bad     == {s \in SUBSET S : ~Fine(s)}
<1>1. IsFiniteSet(S)
  BY DEF HourlyRows
<1>2. \A s \in SUBSET S : s # {} => /\ LatestOf(Latest(s), s, S, m) /\ pick[s] = Latest(s)
                                    /\ Latest(s) \in s
  <2>1. \A s \in SUBSET S : s # {} => LatestOf(Latest(s), s, S, m)
    BY LatestIs
  <2> QED BY <2>1 DEF LatestOf
<1>3. ASSUME NEW s \in SUBSET S, s # {}, s \in Bad PROVE s \ {pick[s]} \in Bad
  <2>1. PICK x \in S, t \in SUBSET S : x = Latest(s) /\ t = s \ {x} /\ x = pick[s]
    <3>1. Latest(s) \in S /\ pick[s] = Latest(s)
      <4> HIDE DEF pick, Bad
      <4>1. Latest(s) \in s /\ pick[s] = Latest(s)
        BY <1>2, <1>3
      <4> QED BY <4>1
    <3>2. s \ {Latest(s)} \in SUBSET S
      OBVIOUS
    <3> HIDE DEF pick, Bad
    <3> QED BY <3>1, <3>2
  <2>2. g[s] = Extended(x, g[t], d, m, stats) /\ LatestOf(x, s, S, m)
    BY <1>2, <1>3, <2>1 DEF MergesInto
  <2>3. ASSUME Fine(t) PROVE Fine(s)
    <3>1. PICK found \in Seq(Episode(d, m)) : found = g[t] /\ Merged(found, s \ {x}, m, stats)
      BY <2>1, <2>3
    <3>2. /\ Extended(x, found, d, m, stats) \in Seq(Episode(d, m))
          /\ Merged(Extended(x, found, d, m, stats), s, m, stats)
      BY <2>2, <3>1, MergedStep
    <3> QED BY <2>2, <3>1, <3>2
  <2> HIDE DEF Fine, pick
  <2> QED BY <1>3, <2>1, <2>3
<1>4. {} \notin Bad
  <2>1. Fine({})
    BY DEF Merged, MergesInto
  <2> HIDE DEF Fine
  <2> QED BY <2>1
<1>5. Bad = {}
  <2>1. Bad \in SUBSET SUBSET S
    OBVIOUS
  <2>2. \A s \in SUBSET S : s # {} => pick[s] \in s
    BY <1>2
  <2>3. \A s \in SUBSET S : s # {} /\ s \in Bad => s \ {pick[s]} \in Bad
    BY <1>3
  <2> HIDE DEF Bad, pick
  <2>4. {} \notin Bad
    BY <1>4
  <2> QED BY <1>1, <2>1, <2>2, <2>3, <2>4, NoLeastBad
<1>6. Fine(S)
  <2> HIDE DEF Fine
  <2> QED BY <1>5
<1> QED BY <1>6

\* The episodes of a metric are those of its out-of-range rows.
LEMMA EpisodesAre ==
    ASSUME NEW d, NEW m, NEW stats, NEW rows, NEW S,
           S = {r \in rows : OutOfRange(r, m, stats)}, HourlyRows(S, m)
    PROVE  /\ MetricEpisodes(rows, d, m, stats) \in Seq(Episode(d, m))
           /\ Merged(MetricEpisodes(rows, d, m, stats), S, m, stats)
<1> DEFINE V     == Seq(Episode(d, m))
           Is(g) == g = [s \in SUBSET S |-> IF s = {} THEN <<>>
                                            ELSE Extended(Latest(s), g[s \ {Latest(s)}], d, m, stats)]
           pick  == [s \in SUBSET S |-> Latest(s)]
           step  == [k \in S \X V |-> Extended(k[1], k[2], d, m, stats)]
<1>1. IsFiniteSet(S) /\ \A r \in S : r.max[m] \in Int /\ r.window_start \in Int
  BY DEF HourlyRows
<1>2. \A s \in SUBSET S : s # {} => /\ LatestOf(Latest(s), s, S, m) /\ pick[s] = Latest(s)
                                    /\ Latest(s) \in s
  <2>1. \A s \in SUBSET S : s # {} => LatestOf(Latest(s), s, S, m)
    BY LatestIs
  <2> QED BY <2>1 DEF LatestOf
<1>3. \A r \in S, found \in V : Extended(r, found, d, m, stats) \in V
  BY <1>1, OneMoreRow
<1>4. \E g : Is(g)
  <2>1. PICK p, q, W, base : p = pick /\ q = step /\ W = V /\ base = <<>>
    OBVIOUS
  <2>2. /\ q \in [S \X W -> W] /\ \A s \in SUBSET S : s # {} => p[s] \in s
        /\ \A s \in SUBSET S : s # {} => p[s] = Latest(s)
        /\ \A x \in S, f \in W : q[<<x, f>>] = Extended(x, f, d, m, stats)
        /\ base \in W
    <3>1. step \in [S \X V -> V]
      <4> HIDE DEF V
      <4> QED BY <1>3
    <3>2. <<>> \in V
      OBVIOUS
    <3>3. \A x \in S, f \in V : step[<<x, f>>] = Extended(x, f, d, m, stats)
      <4> HIDE DEF V
      <4> QED OBVIOUS
    <3> HIDE DEF V, pick, step
    <3> QED BY <1>2, <2>1, <3>1, <3>2, <3>3
  <2> HIDE DEF pick, step, V
  <2>3. PICK g \in [SUBSET S -> W] : FoldsTo(g, S, base, q, p)
    BY <1>1, <2>2, FoldExists
  <2>4. \A s \in SUBSET S : s # {} => g[s] = Extended(Latest(s), g[s \ {Latest(s)}], d, m, stats)
    <3> SUFFICES ASSUME NEW s \in SUBSET S, s # {}
                 PROVE  g[s] = Extended(Latest(s), g[s \ {Latest(s)}], d, m, stats)
      OBVIOUS
    <3>1. PICK x \in S, t \in SUBSET S : x = Latest(s) /\ x = p[s] /\ t = s \ {x}
      BY <1>2, <2>2
    <3>2. g[s] = q[<<x, g[t]>>] /\ g[t] \in W
      BY <2>3, <3>1 DEF FoldsTo
    <3> QED BY <2>2, <3>1, <3>2
  <2>5. g[{}] = <<>>
    BY <2>1, <2>3 DEF FoldsTo
  <2>6. Is(g)
    BY <2>4, <2>5
  <2> QED BY <2>6
<1> DEFINE g == CHOOSE g : Is(g)
<1>5. MetricEpisodes(rows, d, m, stats) = g[S]
  BY DEF MetricEpisodes, MapThenFoldSet, Extended
<1>6. Is(g)
  BY <1>4
<1> HIDE DEF g
<1>7. /\ g[{}] = <<>>
      /\ \A s \in SUBSET S : s # {} => g[s] = Extended(Latest(s), g[s \ {Latest(s)}], d, m, stats)
  BY <1>6
<1>8. PICK h : h = g /\ MergesInto(h, S, d, m, stats)
  BY <1>7 DEF MergesInto
<1>9. h[S] \in Seq(Episode(d, m)) /\ Merged(h[S], S, m, stats)
  BY <1>8, MergedAll
<1> QED BY <1>5, <1>8, <1>9

\* The hours of an episode are rows of its metric out of range.
EpisodeHours(e, d) == {r \in RowsOf(d) : e.start <= r.window_start /\ r.window_start < e.end}

BadRows(d, m) == {r \in RowsOf(d) : OutOfRange(r, m, thresholds[d])}

LEMMA EpisodeRows ==
    ASSUME StoredInv, NEW d \in Devices, NEW m \in Recorded
    PROVE  /\ HourlyRows(BadRows(d, m), m)
           /\ \A e : Says(e, BadRows(d, m), m, thresholds[d]) =>
                /\ EpisodeHours(e, d) = Within(e, BadRows(d, m))
                /\ e.peak = Max({r.max[m] : r \in EpisodeHours(e, d)})
<1>1. HourlyRows(BadRows(d, m), m)
  <2>1. BadRows(d, m) \in SUBSET RowsOf(d)
    BY DEF BadRows
  <2>2. IsFiniteSet(BadRows(d, m))
    BY <2>1, DeviceRows, FS_Subset
  <2> QED BY <2>1, <2>2, DeviceRows DEF HourlyRows
<1>2. ASSUME NEW e, Says(e, BadRows(d, m), m, thresholds[d])
      PROVE  /\ EpisodeHours(e, d) = Within(e, BadRows(d, m))
             /\ e.peak = Max({r.max[m] : r \in EpisodeHours(e, d)})
  <2>1. EpisodeHours(e, d) = Within(e, BadRows(d, m))
    <3>1. ASSUME NEW r \in RowsOf(d), e.start <= r.window_start, r.window_start < e.end
          PROVE  r \in BadRows(d, m)
      <4>1. PICK k \in Nat : r.window_start = 2 * k
        BY DeviceRows
      <4>2. PICK q \in BadRows(d, m) : q.window_start = 2 * k
        BY <1>2, <3>1, <4>1 DEF Says
      <4>3. q = r
        BY <4>1, <4>2, DeviceRows DEF BadRows
      <4> QED BY <4>3
    <3> QED BY <3>1 DEF EpisodeHours, Within, BadRows
  <2> DEFINE H     == Within(e, BadRows(d, m))
             peak  == [r \in H |-> r.max[m]]
             Peaks == {peak[r] : r \in H}
  <2>2. \A r \in H : r.max[m] \in Int
    BY <1>1 DEF HourlyRows, Within
  <2>3. (\E r \in H : r.max[m] = e.peak) /\ \A r \in H : r.max[m] <= e.peak
    BY <1>2 DEF Says
  <2>4. IsFiniteSet(H)
    <3>1. H \in SUBSET BadRows(d, m)
      BY DEF Within
    <3> HIDE DEF H
    <3> QED BY <1>1, <3>1, FS_Subset DEF HourlyRows
  <2> HIDE DEF H
  <2>5. Peaks = {r.max[m] : r \in H}
    OBVIOUS
  <2>6. IsFiniteSet(Peaks)
    <3>1. DOMAIN peak = H
      OBVIOUS
    <3> HIDE DEF peak
    <3> QED BY <2>4, <3>1, ImageIsFinite
  <2>7. Peaks \subseteq Int /\ e.peak \in Peaks /\ \A v \in Peaks : v <= e.peak
    BY <2>2, <2>3
  <2> HIDE DEF Peaks, peak
  <2>8. Max(Peaks) \in Peaks /\ e.peak <= Max(Peaks)
    BY <2>6, <2>7, Extremes
  <2>9. e.peak = Max(Peaks)
    <3>1. PICK a \in Int, b \in Int : a = e.peak /\ b = Max(Peaks)
      BY <2>7, <2>8
    <3>2. a <= b /\ b <= a
      BY <2>7, <2>8, <3>1
    <3> QED BY <3>1, <3>2
  <2>10. {r.max[m] : r \in EpisodeHours(e, d)} = Peaks
    BY <2>1, <2>5 DEF H
  <2> QED BY <2>1, <2>9, <2>10 DEF H
<1> QED BY <1>1, <1>2

\* Episodes cover the out-of-range hours, each once, and none could be merged.
LEMMA EpisodesHold == StoredInv => EpisodesAreMaximal
<1> SUFFICES ASSUME StoredInv, NEW d \in Devices
             PROVE  LET found == Episodes(RowsOf(d), d, thresholds[d])
                    IN  /\ \A e \in found :
                            /\ e.end - e.start = e.hours * Hour /\ Cardinality(EpisodeHours(e, d)) = e.hours
                            /\ e.peak = Max({r.max[e.metric] : r \in EpisodeHours(e, d)})
                            /\ e.over_limit <=> \E r \in EpisodeHours(e, d) : OverLimit(r, e.metric, thresholds[d])
                        /\ \A e \in found : \A f \in found : e.metric = f.metric => e.end # f.start
                        /\ OutOfRangeHours(RowsOf(d), thresholds[d])
                                = UNION {EpisodeHours(e, d) \X {e.metric} : e \in found}
  BY DEF EpisodesAreMaximal, EpisodeHours
<1> DEFINE found == Episodes(RowsOf(d), d, thresholds[d])
           Of(m) == MetricEpisodes(RowsOf(d), d, m, thresholds[d])
<1>1. ASSUME NEW m \in Recorded
      PROVE  Of(m) \in Seq(Episode(d, m)) /\ Merged(Of(m), BadRows(d, m), m, thresholds[d])
  <2>1. HourlyRows(BadRows(d, m), m)
    BY EpisodeRows
  <2>2. PICK S : S = BadRows(d, m) /\ S = {r \in RowsOf(d) : OutOfRange(r, m, thresholds[d])}
    BY DEF BadRows
  <2> QED BY <2>1, <2>2, EpisodesAre
<1>2. \A e : e \in found <=> \E m \in Recorded : \E i \in DOMAIN Of(m) : e = Of(m)[i]
  BY DEF Episodes
<1> HIDE DEF found, Of
<1>3. ASSUME NEW m \in Recorded, NEW i \in DOMAIN Of(m)
      PROVE  /\ Of(m)[i].metric = m /\ Says(Of(m)[i], BadRows(d, m), m, thresholds[d])
             /\ Of(m)[i].start \in Int /\ Of(m)[i].end \in Int
  <2>1. PICK q \in Seq(Episode(d, m)) : q = Of(m)
    BY <1>1
  <2>2. q[i] \in Episode(d, m)
    BY <2>1
  <2> QED BY <1>1, <2>1, <2>2 DEF Episode, Merged
<1>4. ASSUME NEW e \in found
      PROVE  /\ e.end - e.start = e.hours * Hour /\ Cardinality(EpisodeHours(e, d)) = e.hours
             /\ e.peak = Max({r.max[e.metric] : r \in EpisodeHours(e, d)})
             /\ e.over_limit <=> \E r \in EpisodeHours(e, d) : OverLimit(r, e.metric, thresholds[d])
  <2>0. PICK m \in Recorded : \E i \in DOMAIN Of(m) : e = Of(m)[i]
    BY <1>2
  <2>1. PICK i \in DOMAIN Of(m) : e = Of(m)[i]
    BY <2>0
  <2>2. e.metric = m /\ Says(e, BadRows(d, m), m, thresholds[d])
    BY <1>3, <2>1
  <2>3. /\ EpisodeHours(e, d) = Within(e, BadRows(d, m))
        /\ e.peak = Max({r.max[m] : r \in EpisodeHours(e, d)})
    BY <2>2, EpisodeRows
  <2> QED BY <2>2, <2>3 DEF Says
<1>5. ASSUME NEW e \in found, NEW f \in found, e.metric = f.metric PROVE e.end # f.start
  <2>0. PICK m \in Recorded : \E i \in DOMAIN Of(m) : e = Of(m)[i]
    BY <1>2
  <2>1. PICK i \in DOMAIN Of(m) : e = Of(m)[i]
    BY <2>0
  <2>2. PICK j \in DOMAIN Of(m) : f = Of(m)[j]
    <3>0. PICK k \in Recorded : \E j \in DOMAIN Of(k) : f = Of(k)[j]
      BY <1>2
    <3>1. PICK j \in DOMAIN Of(k) : f = Of(k)[j]
      BY <3>0
    <3>2. k = m
      BY <1>3, <1>5, <2>1, <3>1
    <3> QED BY <3>1, <3>2
  <2>3. PICK a \in Int, b \in Int, c \in Int, h \in Int :
            a = e.start /\ b = e.end /\ c = f.start /\ h = f.end
    BY <1>3, <2>1, <2>2
  <2>4. a < b /\ c < h
    <3>1. Says(e, BadRows(d, m), m, thresholds[d]) /\ Says(f, BadRows(d, m), m, thresholds[d])
      BY <1>3, <2>1, <2>2
    <3> QED BY <2>3, <3>1 DEF Says
  <2>5. (i < j => b < c) /\ (j < i => h < a)
    <3>1. \A k \in DOMAIN Of(m), l \in DOMAIN Of(m) : k < l => Of(m)[k].end < Of(m)[l].start
      BY <1>1 DEF Merged
    <3> QED BY <2>1, <2>2, <2>3, <3>1
  <2>6. i = j => a = c
    BY <2>1, <2>2, <2>3
  <2>7. i < j \/ j < i \/ i = j
    <3>1. PICK q \in Seq(Episode(d, m)) : q = Of(m)
      BY <1>1
    <3>2. i \in Nat /\ j \in Nat
      BY <3>1
    <3> QED BY <3>2
  <2> QED BY <2>3, <2>4, <2>5, <2>6, <2>7
<1>6. OutOfRangeHours(RowsOf(d), thresholds[d]) = UNION {EpisodeHours(e, d) \X {e.metric} : e \in found}
  <2>1. ASSUME NEW r \in RowsOf(d), NEW m \in Recorded, r \in BadRows(d, m)
        PROVE  \E e \in found : r \in EpisodeHours(e, d) /\ e.metric = m
    <3>1. PICK i \in DOMAIN Of(m) : r \in Within(Of(m)[i], BadRows(d, m))
      BY <1>1, <2>1 DEF Merged
    <3>2. EpisodeHours(Of(m)[i], d) = Within(Of(m)[i], BadRows(d, m))
      BY <1>3, EpisodeRows
    <3>3. Of(m)[i] \in found /\ Of(m)[i].metric = m
      BY <1>2, <1>3
    <3> QED BY <3>1, <3>2, <3>3
  <2>2. ASSUME NEW e \in found, NEW r \in EpisodeHours(e, d)
        PROVE  e.metric \in Recorded /\ r \in BadRows(d, e.metric) /\ r \in RowsOf(d)
    <3>0. PICK m \in Recorded : \E i \in DOMAIN Of(m) : e = Of(m)[i]
      BY <1>2
    <3>1. PICK i \in DOMAIN Of(m) : e = Of(m)[i]
      BY <3>0
    <3>2. e.metric = m /\ Says(e, BadRows(d, m), m, thresholds[d])
      BY <1>3, <3>1
    <3>3. EpisodeHours(e, d) = Within(e, BadRows(d, m))
      BY <3>2, EpisodeRows
    <3>4. r \in BadRows(d, m)
      BY <2>2, <3>3 DEF Within
    <3> QED BY <3>2, <3>4 DEF BadRows
  <2>3. \A h : h \in OutOfRangeHours(RowsOf(d), thresholds[d]) <=>
            \E r \in RowsOf(d), m \in Recorded : h = <<r, m>> /\ r \in BadRows(d, m)
    BY DEF OutOfRangeHours, BadRows
  <2>4. \A h : h \in UNION {EpisodeHours(e, d) \X {e.metric} : e \in found} <=>
            \E e \in found : \E r \in EpisodeHours(e, d) : h = <<r, e.metric>>
    OBVIOUS
  <2> QED BY <2>1, <2>2, <2>3, <2>4
<1> QED BY <1>4, <1>5, <1>6 DEF found

\* What is out of range is so for the log, the reports, the extract, the
\* episodes, the gauge and the badge alike, in every stored state.
THEOREM ViewsHold == StoredSpec => []ViewsAgree
<1>1. StoredInv /\ HistoryInv => ViewsAgree
  BY LogHolds, EpisodesHold, GaugeHolds DEF ViewsAgree
<1> QED BY <1>1, HistoryHolds, PTL

-----------------------------------------------------------------------------
(* Charts and exposure *)

\* Each set in B has a smaller one in B, which the empty set is not.
Descends(S, pick, B) ==
    /\ IsFiniteSet(S) /\ B \in SUBSET SUBSET S /\ {} \notin B
    /\ \A s \in SUBSET S : s # {} => pick[s] \in s
    /\ \A s \in SUBSET S : s # {} /\ s \in B => s \ {pick[s]} \in B

LEMMA NoDescent ==
    ASSUME NEW S, NEW pick, NEW B, Descends(S, pick, B)
    PROVE  B = {}
BY NoLeastBad DEF Descends

\* A sum may be begun at any member.
FromAny(g, f, S) == \A s \in SUBSET S : \A x \in s : g[s] = f[x] + g[s \ {x}]

LEMMA SumFromAny ==
    ASSUME NEW S, NEW f, NEW g, SumsUp(g, f, S)
    PROVE  FromAny(g, f, S)
<1> DEFINE Bad == {s \in SUBSET S : \E x \in s : g[s] # f[x] + g[s \ {x}]}
<1>0. /\ IsFiniteSet(S) /\ f \in [S -> Int] /\ g \in [SUBSET S -> Int]
      /\ \A s \in SUBSET S : s # {} => AnyOf(s) \in s /\ g[s] = f[AnyOf(s)] + g[s \ {AnyOf(s)}]
  BY DEF SumsUp, AnyOf
<1> SUFFICES ASSUME Bad # {} PROVE FALSE
  BY DEF FromAny
<1>1. PICK s \in Bad : \A t \in Bad : ~(<<t, s>> \in StrictSubsetOrdering(S))
  <2>1. Bad \subseteq FiniteSubsetsOf(S)
    <3>1. \A s \in Bad : s \in SUBSET S /\ IsFiniteSet(s)
      BY <1>0, FS_Subset
    <3> HIDE DEF Bad
    <3> QED BY <3>1 DEF FiniteSubsetsOf
  <2> HIDE DEF Bad
  <2> QED BY <2>1, FS_StrictSubsetOrderingWellFounded, WFMin
<1>2. PICK x \in s : s \in SUBSET S /\ g[s] # f[x] + g[s \ {x}]
  BY <1>1
<1>3. PICK y \in s : y = AnyOf(s) /\ g[s] = f[y] + g[s \ {y}]
  BY <1>0, <1>2
<1>4. x # y
  BY <1>2, <1>3
<1>5. PICK a, b, c : a = s \ {x} /\ b = s \ {y} /\ c = (s \ {x}) \ {y}
  OBVIOUS
<1>6. c = a \ {y} /\ c = b \ {x} /\ y \in a /\ x \in b
  BY <1>2, <1>3, <1>4, <1>5
<1>7. a \in SUBSET S /\ b \in SUBSET S /\ c \in SUBSET S /\ a \notin Bad /\ b \notin Bad
  <2>1. <<a, s>> \in StrictSubsetOrdering(S) /\ <<b, s>> \in StrictSubsetOrdering(S)
    BY <1>2, <1>3, <1>5 DEF StrictSubsetOrdering
  <2> HIDE DEF Bad
  <2> QED BY <1>1, <1>2, <1>5, <2>1
<1>8. g[a] = f[y] + g[c] /\ g[b] = f[x] + g[c]
  BY <1>6, <1>7
<1>9. f[x] \in Int /\ f[y] \in Int /\ g[c] \in Int
  BY <1>0, <1>2, <1>3, <1>7
<1> QED BY <1>2, <1>3, <1>5, <1>8, <1>9

\* A sum over a set is the sums over two parts of it.
LEMMA SumOfTwo ==
    ASSUME NEW S, NEW f, NEW g, SumsUp(g, f, S),
           NEW A \in SUBSET S, NEW B \in SUBSET S, A \cap B = {}
    PROVE  g[A \cup B] = g[A] + g[B]
<1> DEFINE pick == [s \in SUBSET A |-> AnyOf(s)]
           Bad  == {s \in SUBSET A : g[s \cup B] # g[s] + g[B]}
<1>1. \A s \in SUBSET A : s # {} => pick[s] \in s
  BY DEF AnyOf
<1>2. \A s \in SUBSET S : \A x \in s : g[s] = f[x] + g[s \ {x}]
  <2>1. FromAny(g, f, S)
    BY SumFromAny
  <2> QED BY <2>1 DEF FromAny
<1>3. IsFiniteSet(S) /\ f \in [S -> Int] /\ g \in [SUBSET S -> Int] /\ g[{}] = 0
  BY DEF SumsUp
<1>4. {} \notin Bad
  <2>1. {} \cup B = B /\ g[B] \in Int
    BY <1>3
  <2> QED BY <1>3, <2>1
<1>5. ASSUME NEW s \in SUBSET A, s # {}, s \in Bad PROVE s \ {pick[s]} \in Bad
  <2>1. PICK x \in s, t \in SUBSET A : x = pick[s] /\ t = s \ {x}
    BY <1>1, <1>5
  <2>2. PICK u, v : u = s \cup B /\ v = t \cup B
    OBVIOUS
  <2>3. v = u \ {x} /\ x \in u /\ u \in SUBSET S /\ v \in SUBSET S /\ s \in SUBSET S
    BY <2>1, <2>2
  <2>4. g[u] = f[x] + g[v] /\ g[s] = f[x] + g[t]
    BY <1>2, <2>1, <2>3
  <2>5. f[x] \in Int /\ g[t] \in Int /\ g[B] \in Int /\ g[v] \in Int
    BY <1>3, <2>1, <2>3
  <2>6. g[v] = g[t] + g[B] => g[u] = g[s] + g[B]
    BY <2>4, <2>5
  <2> QED BY <1>5, <2>1, <2>2, <2>6
<1>6. Bad = {}
  <2>1. Bad \in SUBSET SUBSET A /\ IsFiniteSet(A)
    BY <1>3, FS_Subset
  <2> HIDE DEF Bad, pick
  <2>3. Descends(A, pick, Bad)
    BY <1>1, <1>4, <1>5, <2>1 DEF Descends
  <2> QED BY <2>3, NoDescent
<1> QED BY <1>6

\* The sum over a part is that of the function restricted to it.
LEMMA SumOfPart ==
    ASSUME NEW S, NEW f, NEW g, SumsUp(g, f, S), NEW A \in SUBSET S
    PROVE  SumFunction([x \in A |-> f[x]]) = g[A]
<1> DEFINE h == [x \in A |-> f[x]]
<1>1. h \in [A -> Int] /\ IsFiniteSet(A) /\ \A x \in A : h[x] = f[x]
  <2>1. IsFiniteSet(S) /\ f \in [S -> Int]
    BY DEF SumsUp
  <2> QED BY <2>1, FS_Subset
<1> HIDE DEF h
<1>2. PICK k : SumsUp(k, h, A) /\ SumFunction(h) = k[A]
  BY <1>1, SumOf
<1> DEFINE pick == [s \in SUBSET A |-> AnyOf(s)]
           Bad  == {s \in SUBSET A : k[s] # g[s]}
<1>3. \A s \in SUBSET A : s # {} => pick[s] = AnyOf(s) /\ pick[s] \in s
  BY DEF AnyOf
<1>4. ASSUME NEW s \in SUBSET A, s # {}, s \in Bad PROVE s \ {pick[s]} \in Bad
  <2>1. PICK x \in s, t \in SUBSET A : x = pick[s] /\ x = AnyOf(s) /\ t = s \ {x}
    BY <1>3, <1>4
  <2>2. k[s] = h[x] + k[t] /\ g[s] = f[x] + g[t] /\ h[x] = f[x]
    BY <1>1, <1>2, <1>4, <2>1 DEF SumsUp
  <2> QED BY <1>4, <2>1, <2>2
<1>5. {} \notin Bad
  BY <1>2 DEF SumsUp
<1>6. Bad = {}
  <2>1. Bad \in SUBSET SUBSET A
    OBVIOUS
  <2>2. \A s \in SUBSET A : s # {} => pick[s] \in s
    BY <1>3
  <2> HIDE DEF Bad, pick
  <2>3. Descends(A, pick, Bad)
    BY <1>1, <1>4, <1>5, <2>1, <2>2 DEF Descends
  <2> QED BY <2>3, NoDescent
<1>7. k[A] = g[A]
  BY <1>6
<1> QED BY <1>2, <1>7 DEF h

\* The sums of the parts of a set add up to its sum.
LEMMA SumOfParts ==
    ASSUME NEW P, IsFiniteSet(P), NEW S, IsFiniteSet(S), NEW at \in [S -> P],
           NEW f \in [S -> Int], NEW tot \in [P -> Int],
           \A p \in P : tot[p] = SumFunction([x \in {y \in S : at[y] = p} |-> f[x]])
    PROVE  SumFunction(tot) = SumFunction(f)
<1>1. PICK g : SumsUp(g, f, S) /\ SumFunction(f) = g[S]
  BY SumOf
<1>2. PICK k : SumsUp(k, tot, P) /\ SumFunction(tot) = k[P]
  BY SumOf
<1> DEFINE Of(s) == {y \in S : at[y] \in s}
           pick  == [s \in SUBSET P |-> AnyOf(s)]
           Bad   == {s \in SUBSET P : k[s] # g[Of(s)]}
<1>3. \A s \in SUBSET P : s # {} => pick[s] = AnyOf(s) /\ pick[s] \in s
  BY DEF AnyOf
<1>4. \A p \in P : tot[p] = g[{y \in S : at[y] = p}]
  <2> TAKE p \in P
  <2>1. PICK A \in SUBSET S : A = {y \in S : at[y] = p}
    OBVIOUS
  <2>2. SumFunction([x \in A |-> f[x]]) = g[A]
    BY <1>1, SumOfPart
  <2>3. tot[p] = SumFunction([x \in A |-> f[x]])
    BY <2>1
  <2> QED BY <2>1, <2>2, <2>3
<1>5. ASSUME NEW s \in SUBSET P, s # {}, s \in Bad PROVE s \ {pick[s]} \in Bad
  <2>1. PICK x \in s, t \in SUBSET P : x = pick[s] /\ x = AnyOf(s) /\ t = s \ {x}
    BY <1>3, <1>5
  <2>2. PICK A \in SUBSET S, B \in SUBSET S : A = {y \in S : at[y] = x} /\ B = Of(t)
    OBVIOUS
  <2>3. Of(s) = A \cup B /\ A \cap B = {}
    BY <2>1, <2>2
  <2> HIDE DEF Of
  <2>4. g[Of(s)] = g[A] + g[B]
    BY <1>1, <2>3, SumOfTwo
  <2>5. k[s] = tot[x] + k[t] /\ tot[x] = g[A]
    BY <1>2, <1>4, <1>5, <2>1, <2>2 DEF SumsUp
  <2> QED BY <1>5, <2>1, <2>2, <2>4, <2>5
<1>6. {} \notin Bad
  <2>1. Of({}) = {}
    OBVIOUS
  <2> HIDE DEF Of
  <2> QED BY <1>1, <1>2, <2>1 DEF SumsUp
<1>7. Bad = {}
  <2>1. Bad \in SUBSET SUBSET P
    OBVIOUS
  <2>2. \A s \in SUBSET P : s # {} => pick[s] \in s
    BY <1>3
  <2> HIDE DEF Bad, pick, Of
  <2>3. Descends(P, pick, Bad)
    BY <1>5, <1>6, <2>1, <2>2 DEF Descends
  <2> QED BY <2>3, NoDescent
<1>8. Of(P) = S
  OBVIOUS
<1> HIDE DEF Of
<1>9. k[P] = g[S]
  BY <1>7, <1>8
<1> QED BY <1>1, <1>2, <1>9

\* How many members of a set are in T, as a sum.
LEMMA CountIsSum ==
    ASSUME NEW S, IsFiniteSet(S), NEW T
    PROVE  SumFunction([x \in S |-> IF x \in T THEN 1 ELSE 0]) = Cardinality(S \cap T)
<1> DEFINE f == [x \in S |-> IF x \in T THEN 1 ELSE 0]
<1>1. f \in [S -> Int] /\ \A x \in S : f[x] = IF x \in T THEN 1 ELSE 0
  OBVIOUS
<1> HIDE DEF f
<1>2. PICK g : SumsUp(g, f, S) /\ SumFunction(f) = g[S]
  BY <1>1, SumOf
<1> DEFINE pick == [s \in SUBSET S |-> AnyOf(s)]
           Bad  == {s \in SUBSET S : g[s] # Cardinality(s \cap T)}
<1>3. \A s \in SUBSET S : s # {} => pick[s] = AnyOf(s) /\ pick[s] \in s
  BY DEF AnyOf
<1>4. ASSUME NEW s \in SUBSET S, s # {}, s \in Bad PROVE s \ {pick[s]} \in Bad
  <2>1. PICK x \in s, t \in SUBSET S : x = pick[s] /\ x = AnyOf(s) /\ t = s \ {x}
    BY <1>3, <1>4
  <2>2. g[s] = f[x] + g[t] /\ f[x] = IF x \in T THEN 1 ELSE 0
    BY <1>1, <1>2, <1>4, <2>1 DEF SumsUp
  <2>3. PICK a, b : a = s \cap T /\ b = t \cap T
    OBVIOUS
  <2>4. IsFiniteSet(a) /\ Cardinality(a) \in Nat
    <3>1. a \in SUBSET S
      BY <2>3
    <3> QED BY <3>1, FS_Subset, FS_CardinalityType
  <2>5. CASE x \in T
    <3>1. b = a \ {x} /\ x \in a
      BY <2>1, <2>3, <2>5
    <3>2. Cardinality(b) = Cardinality(a) - 1
      BY <2>4, <3>1, FS_RemoveElement
    <3>3. g[t] = Cardinality(b) => g[s] = Cardinality(a)
      BY <2>2, <2>4, <2>5, <3>2
    <3> QED BY <1>4, <2>1, <2>3, <3>3
  <2>6. CASE x \notin T
    <3>1. b = a
      BY <2>1, <2>3, <2>6
    <3>2. g[t] = Cardinality(b) => g[s] = Cardinality(a)
      BY <2>2, <2>4, <2>6, <3>1
    <3> QED BY <1>4, <2>1, <2>3, <3>2
  <2> QED BY <2>5, <2>6
<1>5. {} \notin Bad
  <2>1. {} \cap T = {}
    OBVIOUS
  <2> QED BY <1>2, <2>1, FS_EmptySet DEF SumsUp
<1>6. Bad = {}
  <2>1. Bad \in SUBSET SUBSET S
    OBVIOUS
  <2>2. \A s \in SUBSET S : s # {} => pick[s] \in s
    BY <1>3
  <2> HIDE DEF Bad, pick
  <2>3. Descends(S, pick, Bad)
    BY <1>4, <1>5, <2>1, <2>2 DEF Descends
  <2> QED BY <2>3, NoDescent
<1>7. g[S] = Cardinality(S \cap T)
  BY <1>6
<1> QED BY <1>2, <1>7 DEF f

\* Counts by parts add up to how many there are.
LEMMA CountsOfParts ==
    ASSUME NEW P, IsFiniteSet(P), NEW S, IsFiniteSet(S), NEW at \in [S -> P], NEW T,
           NEW tot \in [P -> Int],
           \A p \in P : tot[p] = Cardinality({y \in S : at[y] = p} \cap T)
    PROVE  SumFunction(tot) = Cardinality(S \cap T)
<1> DEFINE f == [x \in S |-> IF x \in T THEN 1 ELSE 0]
<1>1. f \in [S -> Int]
  OBVIOUS
<1>2. SumFunction(f) = Cardinality(S \cap T)
  BY CountIsSum
<1>3. ASSUME NEW p \in P
      PROVE  tot[p] = SumFunction([x \in {y \in S : at[y] = p} |-> f[x]])
  <2>1. PICK A : A = {y \in S : at[y] = p}
    OBVIOUS
  <2>2. A \in SUBSET S /\ IsFiniteSet(A) /\ IsFiniteSet(A \cap T) /\ A \cap T \in SUBSET S
    <3>1. A \in SUBSET S /\ A \cap T \in SUBSET S
      BY <2>1
    <3> QED BY <3>1, FS_Subset
  <2>3. [x \in A |-> f[x]] = [x \in A |-> IF x \in T THEN 1 ELSE 0]
    BY <2>2
  <2>4. SumFunction([x \in A |-> IF x \in T THEN 1 ELSE 0]) = Cardinality(A \cap T)
    BY <2>2, CountIsSum
  <2> HIDE DEF f
  <2> QED BY <2>1, <2>3, <2>4
<1> HIDE DEF f
<1>4. SumFunction(tot) = SumFunction(f)
  BY <1>1, <1>3, SumOfParts
<1> QED BY <1>2, <1>4

\* The sum of the counts of some rows, or of some points.
EventsOf(P) == MapThenSumSet(LAMBDA p : p.event_count, P)

LEMMA EventsAreSum ==
    ASSUME NEW S
    PROVE  EventsOf(S) = SumFunction([x \in S |-> x.event_count])
<1> DEFINE f       == [x \in S |-> x.event_count]
           Drawn(g) == g = [s \in SUBSET S |-> IF s = {} THEN 0
                                              ELSE AnyOf(s).event_count + g[s \ {AnyOf(s)}]]
           Is(g)   == g = [s \in SUBSET S |-> IF s = {} THEN 0
                                              ELSE f[AnyOf(s)] + g[s \ {AnyOf(s)}]]
<1>1. \A s \in SUBSET S : s # {} => f[AnyOf(s)] = AnyOf(s).event_count
  BY DEF AnyOf
<1>2. EventsOf(S) = (CHOOSE g : Drawn(g))[S]
  BY DEF EventsOf, MapThenSumSet, MapThenFoldSet, AnyOf
<1>3. DOMAIN f = S
  OBVIOUS
<1> HIDE DEF f
<1>4. SumFunction(f) = (CHOOSE g : Is(g))[S]
  BY <1>3 DEF SumFunction, SumFunctionOnSet, FoldFunctionOnSet, MapThenFoldSet, AnyOf
<1>5. \A g : Drawn(g) <=> Is(g)
  BY <1>1
<1> HIDE DEF Drawn, Is
<1>6. (CHOOSE g : Drawn(g)) = (CHOOSE g : Is(g))
  BY <1>5
<1> QED BY <1>2, <1>4, <1>6 DEF f

\* Each of some rows or points counts the members of S that belong to it.
CountedBy(P, S, at) ==
    /\ IsFiniteSet(P) /\ IsFiniteSet(S) /\ at \in [S -> P]
    /\ \A p \in P : p.event_count = Cardinality({s \in S : at[s] = p})

\* The counts add up to how many there are.
LEMMA EventsCounted ==
    ASSUME NEW P, NEW S, NEW at, CountedBy(P, S, at)
    PROVE  EventsOf(P) = Cardinality(S)
<1>1. /\ IsFiniteSet(P) /\ IsFiniteSet(S) /\ at \in [S -> P]
      /\ \A p \in P : p.event_count = Cardinality({x \in S : at[x] = p})
  BY DEF CountedBy
<1> DEFINE tot == [p \in P |-> p.event_count]
<1>2. \A p \in P : /\ Cardinality({x \in S : at[x] = p}) \in Nat
                   /\ {x \in S : at[x] = p} \cap S = {x \in S : at[x] = p}
  <2> TAKE p \in P
  <2>1. IsFiniteSet({x \in S : at[x] = p})
    BY <1>1, FS_Subset
  <2> QED BY <2>1, FS_CardinalityType
<1>3. tot \in [P -> Int] /\ \A p \in P : tot[p] = Cardinality({x \in S : at[x] = p} \cap S)
  <2>1. \A p \in P : p.event_count \in Int /\ p.event_count = Cardinality({x \in S : at[x] = p} \cap S)
    <3> TAKE p \in P
    <3>1. PICK A : A = {x \in S : at[x] = p}
      OBVIOUS
    <3>2. A \cap S = A /\ Cardinality(A) \in Nat /\ p.event_count = Cardinality(A)
      BY <1>1, <1>2, <3>1
    <3> QED BY <3>1, <3>2
  <2> QED BY <2>1
<1>4. EventsOf(P) = SumFunction(tot)
  BY EventsAreSum
<1> HIDE DEF tot
<1>5. SumFunction(tot) = Cardinality(S \cap S)
  BY <1>1, <1>3, CountsOfParts
<1>6. S \cap S = S
  OBVIOUS
<1> QED BY <1>4, <1>5, <1>6

\* The rows of a device in a table, the samples they are aggregated from, and
\* the row that a sample belongs to.
WidthOf(g) == IF g = "1m" THEN Instant ELSE Hour

Stored(g) == IF g = "1m" THEN live ELSE Samples

OwnRows(d, g) == {r \in tables[g] : r.device_id = d}

StartOf(s, g) == WindowStart(s.at, WidthOf(g))

RowOf(s, g) == WindowAgg(s.device, StartOf(s, g), WidthOf(g), Stored(g))

\* The instant a window begins at, around its samples.
LEMMA StartIsBefore ==
    ASSUME NEW s, NEW time \in Nat, SoundSample(s, time), NEW g \in {"1m", "1h"}
    PROVE  StartOf(s, g) \in Nat /\ DayOf(StartOf(s, g)) >= 1 /\ StartOf(s, g) <= time
<1>1. s.at \in Nat /\ DayOf(s.at) >= 1 /\ s.at <= time
  BY DEF SoundSample
<1>2. CASE g = "1m"
  <2>1. s.at % 1 = 0
    BY <1>1
  <2>2. StartOf(s, g) = s.at - (s.at % 1)
    BY <1>2 DEF StartOf, WindowStart, WidthOf, Instant
  <2> QED BY <1>1, <2>1, <2>2
<1>3. CASE g = "1h"
  <2>1. StartOf(s, g) = HourStart(s)
    BY <1>3 DEF StartOf, HourStart, WidthOf
  <2> QED BY <2>1, HourOfSample
<1> QED BY <1>2, <1>3

LEMMA StoredIsSound ==
    ASSUME StoredInv, NEW g \in {"1m", "1h"}
    PROVE  /\ IsFiniteSet(Stored(g)) /\ \A s \in Stored(g) : SoundSample(s, Now)
           /\ tables[g] = Windows(Stored(g), WidthOf(g))
<1>1. IsFiniteSet(Stored(g)) /\ \A s \in Stored(g) : SoundSample(s, Now)
  BY SamplesAreSound DEF StoredInv, Stored
<1>2. tables[g] = Windows(Stored(g), WidthOf(g))
  BY DEF StoredInv, Aggregated, Stored, WidthOf, Samples
<1> QED BY <1>1, <1>2

\* One row per device and window that has samples, which it counts.
LEMMA TableRows ==
    ASSUME StoredInv, NEW d \in Devices, NEW g \in {"1m", "1h"}
    PROVE  /\ IsFiniteSet(OwnRows(d, g))
           /\ \A s \in Stored(g) : s.device = d =>
                /\ RowOf(s, g) \in OwnRows(d, g)
                /\ RowOf(s, g).window_start = StartOf(s, g)
           /\ \A r \in OwnRows(d, g) :
                /\ \E s \in Stored(g) : s.device = d /\ r = RowOf(s, g)
                /\ r.window_start \in Nat /\ DayOf(r.window_start) >= 1 /\ r.window_start <= Now
                /\ r = WindowAgg(d, r.window_start, WidthOf(g), Stored(g))
<1> DEFINE Row(e, t) == WindowAgg(e, t, WidthOf(g), Stored(g))
           key  == [s \in Stored(g) |-> <<s.device, StartOf(s, g)>>]
           Keys == {key[s] : s \in Stored(g)}
           row  == [k \in Keys |-> Row(k[1], k[2])]
<1>1. tables[g] = {Row(k[1], k[2]) : k \in Keys}
  <2>1. Keys = {<<s.device, WindowStart(s.at, WidthOf(g))>> : s \in Stored(g)}
    BY DEF StartOf
  <2> HIDE DEF Keys
  <2> QED BY <2>1, StoredIsSound DEF Windows
<1>2. \A e, t : Row(e, t).device_id = e /\ Row(e, t).window_start = t
  BY DEF WindowAgg
<1>3. IsFiniteSet(tables[g])
  <2>1. IsFiniteSet(Keys)
    <3>1. DOMAIN key = Stored(g)
      OBVIOUS
    <3> HIDE DEF key
    <3> QED BY <3>1, StoredIsSound, ImageIsFinite
  <2> HIDE DEF Row, Keys
  <2>2. tables[g] = {row[k] : k \in Keys} /\ DOMAIN row = Keys
    BY <1>1
  <2> HIDE DEF row
  <2> QED BY <2>1, <2>2, ImageIsFinite
<1>4. IsFiniteSet(OwnRows(d, g))
  <2>1. OwnRows(d, g) \in SUBSET tables[g]
    BY DEF OwnRows
  <2> QED BY <1>3, <2>1, FS_Subset
<1>5. ASSUME NEW s \in Stored(g), s.device = d
      PROVE  RowOf(s, g) \in OwnRows(d, g) /\ RowOf(s, g).window_start = StartOf(s, g)
  <2>1. PICK k \in Keys : k[1] = d /\ k[2] = StartOf(s, g)
    <3>1. key[s] \in Keys /\ key[s] = <<d, StartOf(s, g)>>
      BY <1>5
    <3> HIDE DEF key, Keys
    <3> QED BY <3>1
  <2>2. Row(k[1], k[2]) \in tables[g]
    <3> HIDE DEF Row, Keys
    <3> QED BY <1>1, <2>1
  <2>3. RowOf(s, g) = Row(k[1], k[2])
    BY <1>5, <2>1 DEF RowOf
  <2> HIDE DEF Row, Keys
  <2> QED BY <1>2, <2>1, <2>2, <2>3 DEF OwnRows
<1>6. ASSUME NEW r \in OwnRows(d, g)
      PROVE  /\ \E s \in Stored(g) : s.device = d /\ r = RowOf(s, g)
             /\ r.window_start \in Nat /\ DayOf(r.window_start) >= 1 /\ r.window_start <= Now
             /\ r = Row(d, r.window_start)
  <2>1. r \in tables[g] /\ r.device_id = d
    BY DEF OwnRows
  <2>2. PICK s \in Stored(g) : r = Row(s.device, StartOf(s, g))
    <3>1. PICK k \in Keys : r = Row(k[1], k[2])
      <4> HIDE DEF Row, Keys
      <4> QED BY <1>1, <2>1
    <3>2. PICK s \in Stored(g) : k = <<s.device, StartOf(s, g)>>
      OBVIOUS
    <3> HIDE DEF Row
    <3> QED BY <3>1, <3>2
  <2>3. r = RowOf(s, g)
    BY <2>2 DEF RowOf
  <2> HIDE DEF Row
  <2>4. s.device = d /\ r.window_start = StartOf(s, g)
    BY <1>2, <2>1, <2>2
  <2>5. StartOf(s, g) \in Nat /\ DayOf(StartOf(s, g)) >= 1 /\ StartOf(s, g) <= Now
    <3>1. SoundSample(s, Now) /\ Now \in Nat
      BY StoredIsSound, NowIsLate DEF StoredInv
    <3> QED BY <3>1, StartIsBefore
  <2> QED BY <2>2, <2>3, <2>4, <2>5
<1> QED BY <1>4, <1>5, <1>6

\* Rows that begin in a stretch of time, at instants of their own.
RowsWithin(R, from, to) ==
    /\ \A r \in R : r.window_start \in Nat /\ from <= r.window_start /\ r.window_start <= to
    /\ \A q \in R, r \in R : q.window_start = r.window_start => q = r

\* Rows are as many as their starts.
LEMMA AsManyStarts ==
    ASSUME NEW R, NEW from, NEW to, RowsWithin(R, from, to), IsFiniteSet(R)
    PROVE  Cardinality({r.window_start : r \in R}) = Cardinality(R)
<1> DEFINE start == [r \in R |-> r.window_start]
           T == {r.window_start : r \in R}
<1>1. start \in [R -> T]
  OBVIOUS
<1>2. \A q, r \in R : start[q] = start[r] => q = r
  BY DEF RowsWithin
<1>3. \A t \in T : \E r \in R : start[r] = t
  OBVIOUS
<1>4. start \in Bijection(R, T)
  <2> HIDE DEF start, T
  <2> QED BY <1>1, <1>2, <1>3 DEF Bijection, Injection, Surjection, IsInjective
<1> HIDE DEF start, T
<1>5. Cardinality(T) = Cardinality(R)
  BY <1>4, FS_Bijection DEF ExistsBijection
<1> QED BY <1>5 DEF T

\* No more rows than instants.
LEMMA FewRows ==
    ASSUME NEW R, NEW from \in Int, NEW to \in Int, from <= to, RowsWithin(R, from, to), IsFiniteSet(R)
    PROVE  Cardinality(R) <= to - from + 1
<1>1. {r.window_start : r \in R} \in SUBSET (from .. to)
  BY DEF RowsWithin
<1>2. IsFiniteSet(from .. to) /\ Cardinality(from .. to) = to - from + 1
  BY FS_Interval
<1>3. Cardinality({r.window_start : r \in R}) <= Cardinality(from .. to)
  BY <1>1, <1>2, FS_Subset
<1> QED BY <1>2, <1>3, AsManyStarts

\* A limit above that cuts nothing off.
LEMMA NothingCutOff ==
    ASSUME NEW R, NEW from \in Int, NEW to \in Int, from <= to, RowsWithin(R, from, to), IsFiniteSet(R),
           NEW limit \in Int, limit > to - from + 1
    PROVE  Newest(R, limit) = R
<1> SUFFICES ASSUME NEW r \in R
             PROVE  Cardinality({q \in R : q.window_start > r.window_start}) < limit
  BY DEF Newest
<1>1. PICK Q \in SUBSET R : Q = {q \in R : q.window_start > r.window_start}
  OBVIOUS
<1>2. IsFiniteSet(Q) /\ RowsWithin(Q, from, to)
  <2>1. IsFiniteSet(Q)
    BY FS_Subset
  <2> QED BY <2>1 DEF RowsWithin
<1>3. Cardinality(Q) \in Nat /\ Cardinality(Q) <= to - from + 1
  BY <1>2, FewRows, FS_CardinalityType
<1> QED BY <1>1, <1>3

\* The partitioned read of the hours up to an instant finds each row of them.
LEMMA ReadsUpTo ==
    ASSUME StoredInv, NEW d \in Devices, NEW g \in {"1m", "1h"}, NEW upto \in Nat,
           NEW hours \in Nat, upto - 2 * hours >= 48, NEW limit \in Nat, limit > 2 * hours + 1
    PROVE  Aggregates(tables[g], d, g, hours, limit, upto)
               = {r \in OwnRows(d, g) : upto - 2 * hours <= r.window_start /\ r.window_start <= upto}
<1>1. PICK since \in Nat : since = upto - 2 * hours /\ DayOf(since) >= 1 /\ since <= upto
  <2>1. (upto - 2 * hours) \div 48 >= 1
    OBVIOUS
  <2> QED BY <2>1 DEF DayOf, HalfHoursADay
<1> DEFINE parts == IF g = "1m" THEN DaysBetween(since, upto) ELSE MonthsBetween(since, upto)
           found == {r \in tables[g] : /\ r.device_id = d /\ PartitionOf(r, g) \in parts
                                       /\ since <= r.window_start /\ r.window_start <= upto}
           asked == {r \in OwnRows(d, g) : since <= r.window_start /\ r.window_start <= upto}
<1>2. ASSUME NEW r \in OwnRows(d, g), since <= r.window_start, r.window_start <= upto
      PROVE  PartitionOf(r, g) \in parts
  <2>1. PICK t \in Nat : t = r.window_start /\ DayOf(t) >= 1 /\ t <= upto /\ since <= t
    BY <1>1, <1>2, TableRows
  <2>2. CASE g = "1m"
    <3>1. DayOf(since) \in Int /\ DayOf(t) \in Int /\ DayOf(upto) \in Int
          /\ DayOf(since) <= DayOf(t) /\ DayOf(t) <= DayOf(upto)
      BY <2>1, DaysGrow
    <3> QED BY <2>1, <2>2, <3>1 DEF PartitionOf, DaysBetween
  <2>3. CASE g = "1h"
    <3>1. /\ MonthIndex(MonthOf(since)) \in Int /\ MonthIndex(MonthOf(t)) \in Int
          /\ MonthIndex(MonthOf(upto)) \in Int
          /\ MonthIndex(MonthOf(since)) <= MonthIndex(MonthOf(t))
          /\ MonthIndex(MonthOf(t)) <= MonthIndex(MonthOf(upto))
      BY <1>1, <2>1, MonthsInOrder
    <3>2. PICK a \in Int, b \in Int, c \in Int :
              /\ a = MonthIndex(MonthOf(since)) /\ b = MonthIndex(MonthOf(t))
              /\ c = MonthIndex(MonthOf(upto)) /\ b \in a .. c
      BY <3>1
    <3>3. PartitionOf(r, g) = b /\ parts = a .. c
      BY <2>1, <2>3, <3>2 DEF PartitionOf, MonthsBetween
    <3> QED BY <2>1, <3>2, <3>3
  <2> QED BY <2>2, <2>3
<1>3. found = asked
  <2> HIDE DEF parts
  <2> QED BY <1>2 DEF OwnRows
<1>4. RowsWithin(asked, since, upto) /\ IsFiniteSet(asked)
  <2>1. IsFiniteSet(asked)
    BY TableRows, FS_Subset
  <2>2. \A r \in asked : r.window_start \in Nat /\ since <= r.window_start /\ r.window_start <= upto
    BY <1>1, TableRows
  <2>3. \A q \in asked, r \in asked : q.window_start = r.window_start => q = r
    BY TableRows
  <2> QED BY <2>1, <2>2, <2>3 DEF RowsWithin
<1>5. Newest(asked, limit) = asked
  <2>1. limit > upto - since + 1
    BY <1>1
  <2> HIDE DEF asked
  <2> QED BY <1>1, <1>4, <2>1, NothingCutOff
<1>6. Aggregates(tables[g], d, g, hours, limit, upto) = Newest(found, limit)
  <2>1. upto - hours * Hour = since
    BY <1>1 DEF Hour
  <2> DEFINE Cover(a, b) == IF g = "1m" THEN DaysBetween(a, b) ELSE MonthsBetween(a, b)
             Found(a, b) == {r \in tables[g] : /\ r.device_id = d /\ PartitionOf(r, g) \in Cover(a, b)
                                               /\ a <= r.window_start /\ r.window_start <= b}
  <2>2. Aggregates(tables[g], d, g, hours, limit, upto) = Newest(Found(upto - hours * Hour, upto), limit)
    BY DEF Aggregates
  <2>3. Found(since, upto) = found
    OBVIOUS
  <2> HIDE DEF Found, found
  <2> QED BY <2>1, <2>2, <2>3
<1> HIDE DEF found
<1> QED BY <1>1, <1>3, <1>5, <1>6

LEMMA ReadsAll ==
    ASSUME StoredInv, NEW d \in Devices, NEW g \in {"1m", "1h"},
           NEW hours \in Nat, hours <= 9672, NEW limit \in Nat, limit > 2 * hours + 1
    PROVE  Aggregates(tables[g], d, g, hours, limit, Now)
               = {r \in OwnRows(d, g) : Now - 2 * hours <= r.window_start}
<1>1. PICK upto \in Nat : upto = Now /\ upto >= 48 * 770
  <2>1. Now \in Nat /\ DayOf(Now) > 769
    BY NowIsLate DEF StoredInv
  <2>2. PICK upto \in Nat : upto = Now /\ upto \div 48 > 769
    BY <2>1 DEF DayOf, HalfHoursADay
  <2> QED BY <2>2
<1>2. upto - 2 * hours >= 48
  BY <1>1
<1>3. Aggregates(tables[g], d, g, hours, limit, upto)
          = {r \in OwnRows(d, g) : upto - 2 * hours <= r.window_start /\ r.window_start <= upto}
  BY <1>2, ReadsUpTo
<1>4. \A r \in OwnRows(d, g) : r.window_start <= upto
  BY <1>1, TableRows
<1> QED BY <1>1, <1>3, <1>4

\* The hours of a device with samples, and those with a flagged one.
HoursBetween(d, from, to) == {t \in {HourStart(s) : s \in SamplesOf(d)} : from <= t /\ t < to}

FlaggedOf(d, hours) == {t \in hours : \E s \in SamplesOf(d) : HourStart(s) = t /\ s.flagged}

ShareOf(d, hours) ==
    IF hours = {} THEN None
    ELSE (100 * Cardinality(FlaggedOf(d, hours))) \div Cardinality(hours)

\* The exposure of some hours is the share of those with a flagged reading.
LEMMA ExposureOfHours ==
    ASSUME StoredInv, NEW d \in Devices, NEW from \in Int, NEW to \in Int
    PROVE  ChronicExposureRatio({r \in OwnRows(d, "1h") : from <= r.window_start /\ r.window_start < to})
               = ShareOf(d, HoursBetween(d, from, to))
<1> DEFINE g == "1h"
<1>0. PICK rows, hours :
          /\ rows = {r \in OwnRows(d, g) : from <= r.window_start /\ r.window_start < to}
          /\ hours = HoursBetween(d, from, to)
  OBVIOUS
<1>1. \A s : StartOf(s, g) = HourStart(s)
  BY DEF StartOf, HourStart, WidthOf
<1>2. \A s : s \in SamplesOf(d) <=> s \in Stored(g) /\ s.device = d
  BY DEF SamplesOf, Stored
<1>3. hours = {r.window_start : r \in rows}
  <2>1. ASSUME NEW t \in hours PROVE \E r \in rows : r.window_start = t
    <3>1. PICK s \in SamplesOf(d) : HourStart(s) = t /\ from <= t /\ t < to
      BY <1>0 DEF HoursBetween
    <3>2. RowOf(s, g) \in OwnRows(d, g) /\ RowOf(s, g).window_start = t
      BY <1>1, <1>2, <3>1, TableRows
    <3> QED BY <1>0, <3>1, <3>2
  <2>2. ASSUME NEW r \in rows PROVE r.window_start \in hours
    <3>1. PICK s \in Stored(g) : s.device = d /\ r = RowOf(s, g)
      BY <1>0, TableRows
    <3>2. r.window_start = HourStart(s) /\ s \in SamplesOf(d)
      BY <1>1, <1>2, <3>1, TableRows
    <3> QED BY <1>0, <3>2 DEF HoursBetween
  <2> QED BY <2>1, <2>2
<1>4. RowsWithin(rows, 0, Now) /\ IsFiniteSet(rows)
  <2>1. IsFiniteSet(rows)
    BY <1>0, TableRows, FS_Subset
  <2>2. \A r \in rows : r.window_start \in Nat /\ 0 <= r.window_start /\ r.window_start <= Now
    BY <1>0, TableRows
  <2>3. \A q \in rows, r \in rows : q.window_start = r.window_start => q = r
    BY <1>0, TableRows
  <2> QED BY <2>1, <2>2, <2>3 DEF RowsWithin
<1>5. PICK bad \in SUBSET rows : bad = {r \in rows : r.anomaly_count > 0}
  OBVIOUS
<1>6. ASSUME NEW r \in rows
      PROVE  r.anomaly_count > 0 <=> \E s \in SamplesOf(d) : HourStart(s) = r.window_start /\ s.flagged
  <2> DEFINE mine == {s \in Stored(g) : s.device = d /\ WindowStart(s.at, WidthOf(g)) = r.window_start}
             marked == {s \in mine : s.flagged}
  <2>1. r.anomaly_count = Cardinality(marked)
    <3>1. r = WindowAgg(d, r.window_start, WidthOf(g), Stored(g))
      BY <1>0, TableRows
    <3> QED BY <3>1 DEF WindowAgg
  <2>2. IsFiniteSet(marked)
    <3>1. IsFiniteSet(Stored(g)) /\ marked \in SUBSET Stored(g)
      BY StoredIsSound
    <3> QED BY <3>1, FS_Subset
  <2>3. Cardinality(marked) \in Nat /\ (Cardinality(marked) = 0 <=> marked = {})
    BY <2>2, FS_CardinalityType, FS_EmptySet
  <2>4. marked # {} <=> \E s \in SamplesOf(d) : HourStart(s) = r.window_start /\ s.flagged
    BY <1>1, <1>2 DEF StartOf
  <2> HIDE DEF marked
  <2> QED BY <2>1, <2>3, <2>4
<1>7. FlaggedOf(d, hours) = {r.window_start : r \in bad}
  BY <1>3, <1>5, <1>6 DEF FlaggedOf
<1>8. RowsWithin(bad, 0, Now) /\ IsFiniteSet(bad)
  <2>1. IsFiniteSet(bad)
    BY <1>4, FS_Subset
  <2> QED BY <1>4, <2>1 DEF RowsWithin
<1>9. Cardinality(hours) = Cardinality(rows) /\ Cardinality(FlaggedOf(d, hours)) = Cardinality(bad)
  BY <1>3, <1>4, <1>7, <1>8, AsManyStarts
<1>10. hours = {} <=> rows = {}
  BY <1>3
<1>11. ChronicExposureRatio(rows) = ShareOf(d, hours)
  BY <1>5, <1>9, <1>10 DEF ChronicExposureRatio, ShareOf
<1> QED BY <1>0, <1>11

\* Exposure and its trend are of the last day and of the day before.
LEMMA ExposureHolds == StoredInv => ExposureIsRecent
<1> SUFFICES ASSUME StoredInv, NEW d \in Devices
             PROVE  LET told   == SensorHistory(tables, d, "1h", 24, 200, Now)
                        recent == ShareOf(d, HoursBetween(d, Now - HalfHoursADay, Now + Instant))
                        past_  == ShareOf(d, HoursBetween(d, Now - 2 * HalfHoursADay, Now - HalfHoursADay))
                    IN  /\ told.ratio = recent
                        /\ told.trend = TrendDirection(recent, past_)
  <2> DEFINE H(d, from, to) == {t \in {HourStart(s) : s \in SamplesOf(d)} : from <= t /\ t < to}
             Share(d, hours) ==
                IF hours = {} THEN None
                ELSE (100 * Cardinality({t \in hours : \E s \in SamplesOf(d) :
                                            HourStart(s) = t /\ s.flagged})) \div Cardinality(hours)
             Told(d) == SensorHistory(tables, d, "1h", 24, 200, Now)
             Recent(d) == Share(d, H(d, Now - HalfHoursADay, Now + Instant))
             Before(d) == Share(d, H(d, Now - 2 * HalfHoursADay, Now - HalfHoursADay))
  <2>1. \A d, from, to : H(d, from, to) = HoursBetween(d, from, to)
    BY DEF HoursBetween
  <2>2. \A d, hours : Share(d, hours) = ShareOf(d, hours)
    BY DEF ShareOf, FlaggedOf
  <2>3. ExposureIsRecent <=>
            \A d \in Devices : /\ Told(d).ratio = Recent(d)
                               /\ Told(d).trend = TrendDirection(Recent(d), Before(d))
    BY Zenon DEF ExposureIsRecent
  <2> HIDE DEF H, Share
  <2>4. \A d : /\ Recent(d) = ShareOf(d, HoursBetween(d, Now - HalfHoursADay, Now + Instant))
               /\ Before(d) = ShareOf(d, HoursBetween(d, Now - 2 * HalfHoursADay, Now - HalfHoursADay))
    BY <2>1, <2>2
  <2> HIDE DEF Told, Recent, Before
  <2>5. (\A d \in Devices : /\ Told(d).ratio = Recent(d)
                            /\ Told(d).trend = TrendDirection(Recent(d), Before(d))) => ExposureIsRecent
    BY <2>3
  <2> QED BY <2>4, <2>5 DEF Told
<1>1. PICK present \in Nat : present = Now
  BY NowIsLate DEF StoredInv
<1>2. PICK rows : /\ rows = Aggregates(tables["1h"], d, "1h", 48, 400, Now)
                  /\ rows = {r \in OwnRows(d, "1h") : present - 96 <= r.window_start}
  BY <1>1, ReadsAll
<1>3. \A r \in OwnRows(d, "1h") : r.window_start \in Nat /\ r.window_start <= present
  BY <1>1, TableRows
<1>4. PICK late : /\ late = {r \in rows : r.window_start >= present - 48}
                  /\ late = {r \in OwnRows(d, "1h") : present - 48 <= r.window_start /\ r.window_start < present + 1}
  <2>1. \A r \in OwnRows(d, "1h") :
            /\ r.window_start >= present - 48 => present - 96 <= r.window_start
            /\ r.window_start < present + 1
    BY <1>3
  <2>2. {r \in rows : r.window_start >= present - 48}
            = {r \in OwnRows(d, "1h") : present - 48 <= r.window_start /\ r.window_start < present + 1}
    BY <1>2, <1>3, <2>1
  <2> QED BY <2>2
<1>5. PICK early : /\ early = {r \in rows : r.window_start < present - 48}
                   /\ early = {r \in OwnRows(d, "1h") : present - 96 <= r.window_start /\ r.window_start < present - 48}
  BY <1>2
<1>6. Newest(late, 200) = late
  <2>1. IsFiniteSet(late)
    BY <1>4, TableRows, FS_Subset
  <2>2. RowsWithin(late, present - 48, present)
    <3>1. \A r \in late : r.window_start \in Nat /\ present - 48 <= r.window_start /\ r.window_start <= present
      BY <1>3, <1>4
    <3>2. \A q \in late, r \in late : q.window_start = r.window_start => q = r
      BY <1>4, TableRows
    <3> QED BY <3>1, <3>2 DEF RowsWithin
  <2>3. present - 48 \in Int /\ present - 48 <= present /\ 200 > present - (present - 48) + 1
    OBVIOUS
  <2> QED BY <2>1, <2>2, <2>3, NothingCutOff
<1>7. SensorHistory(tables, d, "1h", 24, 200, Now)
          = [ratio |-> ChronicExposureRatio(late),
             trend |-> TrendDirection(ChronicExposureRatio(late), ChronicExposureRatio(early))]
  <2>1. 24 * 2 = 48 /\ 200 * 2 = 400 /\ Now - 24 * Hour = present - 48
    BY <1>1 DEF Hour
  <2> DEFINE after(c)  == Newest({r \in rows : r.window_start >= c}, 200)
             before(c) == {r \in rows : r.window_start < c}
  <2>2. SensorHistory(tables, d, "1h", 24, 200, Now)
            = [ratio |-> ChronicExposureRatio(after(Now - 24 * Hour)),
               trend |-> TrendDirection(ChronicExposureRatio(after(Now - 24 * Hour)),
                                        ChronicExposureRatio(before(Now - 24 * Hour)))]
    BY <1>2, <2>1 DEF SensorHistory
  <2>3. after(Now - 24 * Hour) = late /\ before(Now - 24 * Hour) = early
    BY <1>4, <1>5, <1>6, <2>1
  <2> HIDE DEF after, before
  <2> QED BY <2>2, <2>3
<1>8. /\ ChronicExposureRatio(late) = ShareOf(d, HoursBetween(d, present - 48, present + 1))
      /\ ChronicExposureRatio(early) = ShareOf(d, HoursBetween(d, present - 96, present - 48))
  <2>1. present - 96 \in Int /\ present - 48 \in Int /\ present + 1 \in Int
    OBVIOUS
  <2> QED BY <1>4, <1>5, <2>1, ExposureOfHours
<1>9. present + Instant = present + 1 /\ present - 2 * HalfHoursADay = present - 96 /\ present - HalfHoursADay = present - 48
  BY DEF Instant, HalfHoursADay
<1> QED BY <1>1, <1>7, <1>8, <1>9

\* Points drawn from the members of X, at different instants, each counting
\* what belongs to its member.
LEMMA PointsCount ==
    ASSUME NEW X, IsFiniteSet(X), NEW W, IsFiniteSet(W), NEW of \in [W -> X], NEW pt, DOMAIN pt = X,
           \A x \in X : pt[x].event_count = Cardinality({s \in W : of[s] = x}),
           \A x \in X, y \in X : pt[x].window_start = pt[y].window_start => x = y
    PROVE  EventsOf({pt[x] : x \in X}) = Cardinality(W)
<1> DEFINE P  == {pt[x] : x \in X}
           at == [s \in W |-> pt[of[s]]]
<1>1. IsFiniteSet(P)
  BY ImageIsFinite
<1>2. at \in [W -> P]
  OBVIOUS
<1>3. ASSUME NEW p \in P PROVE p.event_count = Cardinality({s \in W : at[s] = p})
  <2>1. PICK x \in X : p = pt[x]
    OBVIOUS
  <2>2. \A s \in W : at[s] = p <=> of[s] = x
    BY <2>1
  <2>3. {s \in W : at[s] = p} = {s \in W : of[s] = x}
    BY <2>2
  <2> QED BY <2>1, <2>3
<1> HIDE DEF P, at
<1>4. CountedBy(P, W, at)
  BY <1>1, <1>2, <1>3 DEF CountedBy
<1> QED BY <1>4, EventsCounted DEF P

\* The rows that a chart up to an instant reads, and the samples it is asked for.
ChartRows(d, g, upto) ==
    Aggregates(tables[SourceTable(g)], d, SourceTable(g), LookbackHours[g], 20000, upto)

Asked(d, g, upto) ==
    {s \in Stored(SourceTable(g)) :
        /\ s.device = d /\ StartOf(s, SourceTable(g)) <= upto
        /\ StartOf(s, SourceTable(g)) >= upto - LookbackHours[g] * Hour}

\* A chart does not look back past the beginning of the calendar.
Reached(g, upto) == upto \in Nat /\ upto - 2 * LookbackHours[g] >= 48

\* Each row counts the samples of its window, all of which are asked for.
LEMMA ChartIsRead ==
    ASSUME StoredInv, NEW d \in Devices, NEW g \in Granularities, NEW upto, Reached(g, upto)
    PROVE  /\ CountedBy(ChartRows(d, g, upto), Asked(d, g, upto), [s \in Asked(d, g, upto) |-> RowOf(s, SourceTable(g))])
           /\ \A r \in ChartRows(d, g, upto) : r.window_start \in Nat
           /\ \A q \in ChartRows(d, g, upto), r \in ChartRows(d, g, upto) : q.window_start = r.window_start => q = r
<1>1. PICK src \in {"1m", "1h"} : src = SourceTable(g)
  BY DEF SourceTable, Granularities, RollupGranularities
<1>2. PICK hours \in Nat : hours = LookbackHours[g] /\ hours <= 9672
  BY DEF LookbackHours, Granularities
<1>3. upto \in Nat /\ upto - 2 * hours >= 48
  BY <1>2 DEF Reached
<1>4. PICK R : R = ChartRows(d, g, upto) /\ R = {r \in OwnRows(d, src) : upto - 2 * hours <= r.window_start /\ r.window_start <= upto}
  <2>1. 20000 > 2 * hours + 1
    BY <1>2
  <2> QED BY <1>1, <1>2, <1>3, <2>1, ReadsUpTo DEF ChartRows
<1>5. PICK W : W = Asked(d, g, upto)
  OBVIOUS
<1>6. /\ \A s \in W : s \in Stored(src) /\ s.device = d /\ upto - 2 * hours <= StartOf(s, src) /\ StartOf(s, src) <= upto
      /\ \A s \in Stored(src) : s.device = d /\ upto - 2 * hours <= StartOf(s, src) /\ StartOf(s, src) <= upto
            => s \in W
  <2>1. upto - LookbackHours[g] * Hour = upto - 2 * hours
    BY <1>2, <1>3 DEF Hour
  <2> QED BY <1>1, <1>5, <2>1 DEF Asked
<1> DEFINE at == [s \in W |-> RowOf(s, src)]
<1>7. IsFiniteSet(R) /\ IsFiniteSet(W)
  <2>1. IsFiniteSet(R)
    BY <1>4, TableRows, FS_Subset
  <2>2. IsFiniteSet(Stored(src)) /\ W \in SUBSET Stored(src)
    BY <1>6, StoredIsSound
  <2> QED BY <2>1, <2>2, FS_Subset
<1>8. at \in [W -> R]
  <2> SUFFICES ASSUME NEW s \in W PROVE RowOf(s, src) \in R
    OBVIOUS
  <2>1. RowOf(s, src) \in OwnRows(d, src) /\ RowOf(s, src).window_start = StartOf(s, src)
    BY <1>6, TableRows
  <2> QED BY <1>4, <1>6, <2>1
<1>9. ASSUME NEW r \in R PROVE r.event_count = Cardinality({s \in W : at[s] = r})
  <2> DEFINE mine == {s \in Stored(src) : s.device = d /\ WindowStart(s.at, WidthOf(src)) = r.window_start}
  <2>1. r \in OwnRows(d, src) /\ upto - 2 * hours <= r.window_start /\ r.window_start <= upto
    BY <1>4
  <2>2. r.event_count = Cardinality(mine)
    <3>1. r = WindowAgg(d, r.window_start, WidthOf(src), Stored(src))
      BY <2>1, TableRows
    <3> QED BY <3>1 DEF WindowAgg
  <2>3. ASSUME NEW s \in mine PROVE s \in W /\ at[s] = r
    <3>1. s \in Stored(src) /\ s.device = d /\ StartOf(s, src) = r.window_start
      BY DEF StartOf
    <3>2. s \in W
      BY <1>6, <2>1, <3>1
    <3>3. RowOf(s, src) = WindowAgg(d, r.window_start, WidthOf(src), Stored(src))
      BY <3>1 DEF RowOf
    <3>4. RowOf(s, src) = r
      BY <2>1, <3>3, TableRows
    <3> QED BY <3>2, <3>4
  <2>4. ASSUME NEW s \in W, at[s] = r PROVE s \in mine
    <3>1. s \in Stored(src) /\ s.device = d /\ RowOf(s, src) = r
      BY <1>6, <2>4
    <3>2. StartOf(s, src) = r.window_start
      BY <3>1, TableRows
    <3> QED BY <3>1, <3>2 DEF StartOf
  <2>5. mine = {s \in W : at[s] = r}
    <3> HIDE DEF at
    <3>1. \A s : s \in mine => s \in W /\ at[s] = r
      BY <2>3
    <3>2. \A s \in W : at[s] = r => s \in mine
      BY <2>4
    <3> HIDE DEF mine
    <3> QED BY <3>1, <3>2
  <2> HIDE DEF mine, at
  <2> QED BY <2>2, <2>5
<1>10. /\ \A r \in R : r.window_start \in Nat
       /\ \A q \in R, r \in R : q.window_start = r.window_start => q = r
  BY <1>4, TableRows
<1>11. CountedBy(R, W, at)
  <2> HIDE DEF at
  <2> QED BY <1>7, <1>8, <1>9 DEF CountedBy
<1> QED BY <1>1, <1>4, <1>5, <1>10, <1>11

\* A point with its band.
Banded(p, m, stats, g) ==
    LET start == p.window_start
        end   == BucketEnd(start, g)
    IN  [p EXCEPT !.band = WidestBand(m, stats, {start, start + (end - start) \div 2, end})]

LEMMA BandChangesNothing ==
    ASSUME NEW m, NEW stats, NEW g, NEW start, NEW avg, NEW low, NEW high, NEW a, NEW n, NEW u
    PROVE  /\ Banded(Point(start, avg, low, high, a, n, u), m, stats, g).window_start = start
           /\ Banded(Point(start, avg, low, high, a, n, u), m, stats, g).event_count = n
BY DEF Banded, Point

\* The point of a row.
PlainPoint(r, m) ==
    Point(r.window_start, r.avg[m], r.min[m], r.max[m], r.anomaly_count, r.event_count, r.anomaly_count > 0)

\* A chart of minutes or hours has a point for each row.
LEMMA FineChart ==
    ASSUME StoredInv, NEW d \in Devices, NEW m, NEW stats, NEW g \in {"1m", "1h"},
           NEW upto, Reached(g, upto)
    PROVE  EventsOf(SensorTimeline(tables, d, m, stats, g, upto)) = Cardinality(Asked(d, g, upto))
<1>0. g \in Granularities /\ g \notin RollupGranularities /\ SourceTable(g) = g
  BY DEF Granularities, RollupGranularities, SourceTable
<1>1. PICK R, W, of : /\ R = ChartRows(d, g, upto) /\ W = Asked(d, g, upto)
                      /\ of = [s \in W |-> RowOf(s, g)] /\ CountedBy(R, W, of)
                      /\ \A q \in R, r \in R : q.window_start = r.window_start => q = r
  <2>1. \E R, W, of : R = ChartRows(d, g, upto) /\ W = Asked(d, g, upto) /\ of = [s \in W |-> RowOf(s, g)]
    OBVIOUS
  <2>2. PICK R, W, of : R = ChartRows(d, g, upto) /\ W = Asked(d, g, upto) /\ of = [s \in W |-> RowOf(s, g)]
    BY <2>1
  <2>3. /\ CountedBy(ChartRows(d, g, upto), Asked(d, g, upto), [s \in Asked(d, g, upto) |-> RowOf(s, SourceTable(g))])
        /\ \A q \in ChartRows(d, g, upto), r \in ChartRows(d, g, upto) : q.window_start = r.window_start => q = r
    BY <1>0, ChartIsRead
  <2>4. CountedBy(R, W, of)
    BY <1>0, <2>2, <2>3
  <2> QED BY <2>2, <2>3, <2>4
<1> DEFINE pt == [r \in R |-> Banded(PlainPoint(r, m), m, stats, g)]
<1>2. \A r \in R : pt[r].window_start = r.window_start /\ pt[r].event_count = r.event_count
  BY BandChangesNothing DEF PlainPoint
<1>3. SensorTimeline(tables, d, m, stats, g, upto) = {pt[r] : r \in R}
  <2>1. SensorTimeline(tables, d, m, stats, g, upto)
            = AttachNormalBands(MetricWindows(ChartRows(d, g, upto), m), m, stats, g)
    BY <1>0 DEF SensorTimeline, ChartRows
  <2>2. MetricWindows(R, m) = {PlainPoint(r, m) : r \in R}
    BY DEF MetricWindows, PlainPoint
  <2>3. \A P : AttachNormalBands(P, m, stats, g) = {Banded(p, m, stats, g) : p \in P}
    BY DEF AttachNormalBands, Banded
  <2>4. {Banded(p, m, stats, g) : p \in {PlainPoint(r, m) : r \in R}} = {pt[r] : r \in R}
    OBVIOUS
  <2> QED BY <1>1, <2>1, <2>2, <2>3, <2>4
<1>4. DOMAIN pt = R
  OBVIOUS
<1> HIDE DEF pt
<1>5. /\ IsFiniteSet(R) /\ IsFiniteSet(W) /\ of \in [W -> R]
      /\ \A r \in R : pt[r].event_count = Cardinality({s \in W : of[s] = r})
      /\ \A q \in R, r \in R : pt[q].window_start = pt[r].window_start => q = r
  BY <1>1, <1>2 DEF CountedBy
<1>6. EventsOf({pt[r] : r \in R}) = Cardinality(W)
  BY <1>4, <1>5, PointsCount
<1> QED BY <1>1, <1>3, <1>6

\* A chart of days, weeks or months has a point for each period with rows.
LEMMA RolledChart ==
    ASSUME StoredInv, NEW d \in Devices, NEW m, NEW stats, NEW g \in RollupGranularities,
           NEW upto, Reached(g, upto)
    PROVE  EventsOf(SensorTimeline(tables, d, m, stats, g, upto)) = Cardinality(Asked(d, g, upto))
<1>0. g \in Granularities /\ SourceTable(g) = "1h"
  BY DEF Granularities, RollupGranularities, SourceTable
<1>1. PICK R, W, row : /\ R = ChartRows(d, g, upto) /\ W = Asked(d, g, upto)
                       /\ row = [s \in W |-> RowOf(s, "1h")] /\ CountedBy(R, W, row)
  <2>1. \E R, W, row : R = ChartRows(d, g, upto) /\ W = Asked(d, g, upto)
                       /\ row = [s \in W |-> RowOf(s, "1h")]
    OBVIOUS
  <2>2. PICK R, W, row : R = ChartRows(d, g, upto) /\ W = Asked(d, g, upto)
                       /\ row = [s \in W |-> RowOf(s, "1h")]
    BY <2>1
  <2>3. CountedBy(ChartRows(d, g, upto), Asked(d, g, upto),
                  [s \in Asked(d, g, upto) |-> RowOf(s, SourceTable(g))])
    BY <1>0, ChartIsRead
  <2>4. CountedBy(R, W, row)
    BY <1>0, <2>2, <2>3
  <2> QED BY <2>2, <2>4
<1>2. /\ IsFiniteSet(R) /\ IsFiniteSet(W) /\ row \in [W -> R]
      /\ \A r \in R : r.event_count = Cardinality({s \in W : row[s] = r})
  BY <1>1 DEF CountedBy
<1> DEFINE key == [r \in R |-> RollupBucketKey(r.window_start, g)]
           Keys == {key[r] : r \in R}
           Bucket(k) == {r \in R : RollupBucketKey(r.window_start, g) = k}
           Rolled(k) ==
               LET weighted  == MapThenSumSet(LAMBDA r : r.avg[m] * Weight(r), Bucket(k))
                   anomalies == MapThenSumSet(LAMBDA r : r.anomaly_count, Bucket(k))
               IN  Point(k, weighted \div MapThenSumSet(Weight, Bucket(k)),
                         Min({r.min[m] : r \in Bucket(k)}), Max({r.max[m] : r \in Bucket(k)}),
                         anomalies, EventsOf(Bucket(k)), anomalies > 0)
           pt == [k \in Keys |-> Banded(Rolled(k), m, stats, g)]
           of == [s \in W |-> key[row[s]]]
<1>3. \A k \in Keys : pt[k].window_start = k /\ pt[k].event_count = EventsOf(Bucket(k))
  <2> TAKE k \in Keys
  <2>1. PICK avg, low, high, a, n, u : Rolled(k) = Point(k, avg, low, high, a, n, u) /\ n = EventsOf(Bucket(k))
    OBVIOUS
  <2>2. pt[k] = Banded(Rolled(k), m, stats, g)
    OBVIOUS
  <2> HIDE DEF pt, Rolled, Bucket
  <2> QED BY <2>1, <2>2, BandChangesNothing
<1>4. SensorTimeline(tables, d, m, stats, g, upto) = {pt[k] : k \in Keys}
  <2>1. SensorTimeline(tables, d, m, stats, g, upto)
            = AttachNormalBands(RollupMetricWindows(ChartRows(d, g, upto), m, g), m, stats, g)
    BY <1>0 DEF SensorTimeline, ChartRows
  <2>2. RollupMetricWindows(R, m, g) = {Rolled(k) : k \in {RollupBucketKey(r.window_start, g) : r \in R}}
    BY DEF RollupMetricWindows, EventsOf
  <2>3. Keys = {RollupBucketKey(r.window_start, g) : r \in R}
    OBVIOUS
  <2> HIDE DEF Rolled, Keys
  <2>4. \A P : AttachNormalBands(P, m, stats, g) = {Banded(p, m, stats, g) : p \in P}
    BY DEF AttachNormalBands, Banded
  <2>5. {Banded(p, m, stats, g) : p \in {Rolled(k) : k \in Keys}} = {pt[k] : k \in Keys}
    OBVIOUS
  <2> HIDE DEF pt
  <2> QED BY <1>1, <2>1, <2>2, <2>3, <2>4, <2>5
<1>5. DOMAIN pt = Keys
  OBVIOUS
<1> HIDE DEF pt, Rolled
<1>6. IsFiniteSet(Keys)
  <2>1. DOMAIN key = R
    OBVIOUS
  <2> HIDE DEF key
  <2> QED BY <1>2, <2>1, ImageIsFinite
<1>7. of \in [W -> Keys]
  BY <1>2
<1>8. ASSUME NEW k \in Keys PROVE EventsOf(Bucket(k)) = Cardinality({s \in W : of[s] = k})
  <2>1. PICK B \in SUBSET R, V \in SUBSET W : B = Bucket(k) /\ V = {s \in W : of[s] = k}
    OBVIOUS
  <2>2. \A s \in W : s \in V <=> row[s] \in B
    BY <1>2, <2>1
  <2>3. IsFiniteSet(B) /\ IsFiniteSet(V)
    BY <1>2, FS_Subset
  <2> DEFINE at == [s \in V |-> row[s]]
  <2>4. at \in [V -> B]
    BY <2>2
  <2>5. ASSUME NEW r \in B PROVE r.event_count = Cardinality({s \in V : at[s] = r})
    <3>1. {s \in V : at[s] = r} = {s \in W : row[s] = r}
      BY <2>2
    <3> QED BY <1>2, <3>1
  <2>6. CountedBy(B, V, at)
    <3> HIDE DEF at
    <3> QED BY <2>3, <2>4, <2>5 DEF CountedBy
  <2> HIDE DEF at, of, Bucket
  <2> QED BY <2>1, <2>6, EventsCounted
<1> HIDE DEF key, Keys, of, Bucket
<1>9. /\ \A k \in Keys : pt[k].event_count = Cardinality({s \in W : of[s] = k})
      /\ \A k \in Keys, l \in Keys : pt[k].window_start = pt[l].window_start => k = l
  BY <1>3, <1>8
<1>10. EventsOf({pt[k] : k \in Keys}) = Cardinality(W)
  BY <1>2, <1>5, <1>6, <1>7, <1>9, PointsCount
<1> QED BY <1>1, <1>4, <1>10

\* The present is late enough for every chart, a year ago too.
LEMMA TimesReached ==
    ASSUME StoredInv, NEW g \in Granularities
    PROVE  /\ Now \in Nat /\ LookbackHours[g] \in Nat /\ CompareOffsetHours[g] \in Nat
           /\ Reached(g, Now) /\ Reached(g, Now - CompareOffsetHours[g] * Hour)
           /\ Now - CompareOffsetHours[g] * Hour - LookbackHours[g] * Hour >= Now - 768 * HalfHoursADay
<1>1. PICK present \in Nat : present = Now /\ present >= 48 * 770
  <2>1. Now \in Nat /\ DayOf(Now) > 769
    BY NowIsLate DEF StoredInv
  <2>2. PICK present \in Nat : present = Now /\ present \div 48 > 769
    BY <2>1 DEF DayOf, HalfHoursADay
  <2> QED BY <2>2
<1>2. PICK back \in Nat, off \in Nat :
          back = LookbackHours[g] /\ off = CompareOffsetHours[g] /\ back + off <= 768 * 24
  <2>1. /\ g = "1m"  => LookbackHours[g] = 2 /\ CompareOffsetHours[g] = 1
        /\ g = "1h"  => LookbackHours[g] = 48 /\ CompareOffsetHours[g] = 24
        /\ g = "1d"  => LookbackHours[g] = 24 * 30 /\ CompareOffsetHours[g] = 24 * 7
        /\ g = "1w"  => LookbackHours[g] = 24 * 7 * 26 /\ CompareOffsetHours[g] = 24 * 30
        /\ g = "1mo" => LookbackHours[g] = 24 * 31 * 13 /\ CompareOffsetHours[g] = 24 * 365
    BY DEF LookbackHours, CompareOffsetHours, Granularities
  <2> QED BY <2>1 DEF Granularities
<1>3. Now - CompareOffsetHours[g] * Hour = present - 2 * off /\ LookbackHours[g] * Hour = 2 * back
  BY <1>1, <1>2 DEF Hour
<1>4. /\ present - 2 * off \in Nat /\ present - 2 * off - 2 * back >= 48 /\ present - 2 * back >= 48
      /\ present - 2 * off - 2 * back >= present - 768 * 48
  BY <1>1, <1>2
<1> QED BY <1>1, <1>2, <1>3, <1>4 DEF Reached, HalfHoursADay

\* What a chart counts is what it is asked for.
LEMMA ChartCounts ==
    ASSUME StoredInv, NEW d \in Devices, NEW m, NEW stats, NEW g \in Granularities,
           NEW upto, Reached(g, upto)
    PROVE  EventsOf(SensorTimeline(tables, d, m, stats, g, upto)) = Cardinality(Asked(d, g, upto))
<1>1. CASE g \in {"1m", "1h"}
  BY <1>1, FineChart
<1>2. CASE g \in RollupGranularities
  BY <1>2, RolledChart
<1> QED BY <1>1, <1>2 DEF Granularities, RollupGranularities

\* No chart loses a window where its partitions meet.
LEMMA ChartsHold == StoredInv => ChartsMissNothing
<1> DEFINE metric      == CHOOSE m \in Recorded : TRUE
           Chart(d, g)  == SensorTimeline(tables, d, metric, thresholds[d][metric], g, Now)
           Shown(d, g)  == Total(LAMBDA p : p.event_count, Chart(d, g))
           Width(g)     == IF g = "1m" THEN Instant ELSE Hour
           Kept(g)      == IF g = "1m" THEN live ELSE Samples
           Due(d, g) == {s \in Kept(g) :
                                /\ s.device = d /\ WindowStart(s.at, Width(g)) <= Now
                                /\ WindowStart(s.at, Width(g)) >= Now - LookbackHours[g] * Hour}
<1>1. (\A d \in Devices : \A g \in Granularities : Shown(d, g) = Cardinality(Due(d, g)))
          => ChartsMissNothing
  BY Zenon DEF ChartsMissNothing
<1>2. \A d, g : Shown(d, g) = EventsOf(Chart(d, g))
  BY DEF Total, EventsOf
<1>3. ASSUME NEW d \in Devices, NEW g \in Granularities PROVE Due(d, g) = Asked(d, g, Now)
  <2>1. CASE g = "1m"
    <3>1. SourceTable(g) = "1m"
      BY <2>1 DEF SourceTable, RollupGranularities
    <3> QED BY <2>1, <3>1 DEF Asked, Stored, StartOf, WidthOf
  <2>2. CASE g # "1m"
    <3>1. SourceTable(g) = "1h"
      BY <2>2 DEF SourceTable, RollupGranularities, Granularities
    <3> QED BY <2>2, <3>1 DEF Asked, Stored, StartOf, WidthOf
  <2> QED BY <2>1, <2>2
<1>4. ASSUME StoredInv, NEW d \in Devices, NEW g \in Granularities
      PROVE  EventsOf(Chart(d, g)) = Cardinality(Asked(d, g, Now))
  <2>1. PICK upto, m, stats : upto = Now /\ m = metric /\ stats = thresholds[d][metric]
    OBVIOUS
  <2>2. Reached(g, upto)
    BY <1>4, <2>1, TimesReached
  <2>3. EventsOf(SensorTimeline(tables, d, m, stats, g, upto)) = Cardinality(Asked(d, g, upto))
    BY <1>4, <2>2, ChartCounts
  <2> QED BY <2>1, <2>3
<1> HIDE DEF metric, Chart, Shown, Due
<1> QED BY <1>1, <1>2, <1>3, <1>4

\* What a chart or the exposure beside it reads back from the partitions is every
\* reading of its range, once, in every stored state.
THEOREM ReadsHold == StoredSpec => []ReadsAreComplete
<1>1. StoredInv => ReadsAreComplete
  BY ChartsHold, ExposureHolds DEF ReadsAreComplete
<1> QED BY <1>1, StoredHolds, PTL

-----------------------------------------------------------------------------
(* What rows add up to *)

\* What the reports and the charts add up, of samples and of rows.
ValuesOf(S, m)    == MapThenSumSet(LAMBDA s : s.values[m], S)
WeightedOf(R, m)  == MapThenSumSet(LAMBDA r : r.avg[m] * Weight(r), R)
WeightOf(R)       == MapThenSumSet(Weight, R)
AnomaliesOf(R)    == MapThenSumSet(LAMBDA r : r.anomaly_count, R)

\* Each is the sum of a function.
LEMMA ValuesAreSum ==
    ASSUME NEW S, NEW m
    PROVE  ValuesOf(S, m) = SumFunction([x \in S |-> x.values[m]])
<1> DEFINE f       == [x \in S |-> x.values[m]]
           Drawn(g) == g = [s \in SUBSET S |-> IF s = {} THEN 0
                                              ELSE AnyOf(s).values[m] + g[s \ {AnyOf(s)}]]
           Is(g)   == g = [s \in SUBSET S |-> IF s = {} THEN 0
                                              ELSE f[AnyOf(s)] + g[s \ {AnyOf(s)}]]
<1>1. \A s \in SUBSET S : s # {} => f[AnyOf(s)] = AnyOf(s).values[m]
  BY DEF AnyOf
<1>2. ValuesOf(S, m) = (CHOOSE g : Drawn(g))[S]
  BY DEF ValuesOf, MapThenSumSet, MapThenFoldSet, AnyOf
<1>3. DOMAIN f = S
  OBVIOUS
<1> HIDE DEF f
<1>4. SumFunction(f) = (CHOOSE g : Is(g))[S]
  BY <1>3 DEF SumFunction, SumFunctionOnSet, FoldFunctionOnSet, MapThenFoldSet, AnyOf
<1>5. \A g : Drawn(g) <=> Is(g)
  BY <1>1
<1> HIDE DEF Drawn, Is
<1>6. (CHOOSE g : Drawn(g)) = (CHOOSE g : Is(g))
  BY <1>5
<1> QED BY <1>2, <1>4, <1>6 DEF f

LEMMA WeightedIsSum ==
    ASSUME NEW S, NEW m
    PROVE  WeightedOf(S, m) = SumFunction([x \in S |-> x.avg[m] * Weight(x)])
<1> DEFINE f       == [x \in S |-> x.avg[m] * Weight(x)]
           Drawn(g) == g = [s \in SUBSET S |-> IF s = {} THEN 0
                                              ELSE AnyOf(s).avg[m] * Weight(AnyOf(s)) + g[s \ {AnyOf(s)}]]
           Is(g)   == g = [s \in SUBSET S |-> IF s = {} THEN 0
                                              ELSE f[AnyOf(s)] + g[s \ {AnyOf(s)}]]
<1>1. \A s \in SUBSET S : s # {} => f[AnyOf(s)] = AnyOf(s).avg[m] * Weight(AnyOf(s))
  BY DEF AnyOf
<1>2. WeightedOf(S, m) = (CHOOSE g : Drawn(g))[S]
  BY DEF WeightedOf, MapThenSumSet, MapThenFoldSet, AnyOf
<1>3. DOMAIN f = S
  OBVIOUS
<1> HIDE DEF f
<1>4. SumFunction(f) = (CHOOSE g : Is(g))[S]
  BY <1>3 DEF SumFunction, SumFunctionOnSet, FoldFunctionOnSet, MapThenFoldSet, AnyOf
<1>5. \A g : Drawn(g) <=> Is(g)
  BY <1>1
<1> HIDE DEF Drawn, Is
<1>6. (CHOOSE g : Drawn(g)) = (CHOOSE g : Is(g))
  BY <1>5
<1> QED BY <1>2, <1>4, <1>6 DEF f

LEMMA WeightIsSum ==
    ASSUME NEW S
    PROVE  WeightOf(S) = SumFunction([x \in S |-> Weight(x)])
<1> DEFINE f       == [x \in S |-> Weight(x)]
           Drawn(g) == g = [s \in SUBSET S |-> IF s = {} THEN 0
                                              ELSE Weight(AnyOf(s)) + g[s \ {AnyOf(s)}]]
           Is(g)   == g = [s \in SUBSET S |-> IF s = {} THEN 0
                                              ELSE f[AnyOf(s)] + g[s \ {AnyOf(s)}]]
<1>1. \A s \in SUBSET S : s # {} => f[AnyOf(s)] = Weight(AnyOf(s))
  BY DEF AnyOf
<1>2. WeightOf(S) = (CHOOSE g : Drawn(g))[S]
  BY DEF WeightOf, MapThenSumSet, MapThenFoldSet, AnyOf
<1>3. DOMAIN f = S
  OBVIOUS
<1> HIDE DEF f
<1>4. SumFunction(f) = (CHOOSE g : Is(g))[S]
  BY <1>3 DEF SumFunction, SumFunctionOnSet, FoldFunctionOnSet, MapThenFoldSet, AnyOf
<1>5. \A g : Drawn(g) <=> Is(g)
  BY <1>1
<1> HIDE DEF Drawn, Is
<1>6. (CHOOSE g : Drawn(g)) = (CHOOSE g : Is(g))
  BY <1>5
<1> QED BY <1>2, <1>4, <1>6 DEF f

LEMMA AnomaliesAreSum ==
    ASSUME NEW S
    PROVE  AnomaliesOf(S) = SumFunction([x \in S |-> x.anomaly_count])
<1> DEFINE f       == [x \in S |-> x.anomaly_count]
           Drawn(g) == g = [s \in SUBSET S |-> IF s = {} THEN 0
                                              ELSE AnyOf(s).anomaly_count + g[s \ {AnyOf(s)}]]
           Is(g)   == g = [s \in SUBSET S |-> IF s = {} THEN 0
                                              ELSE f[AnyOf(s)] + g[s \ {AnyOf(s)}]]
<1>1. \A s \in SUBSET S : s # {} => f[AnyOf(s)] = AnyOf(s).anomaly_count
  BY DEF AnyOf
<1>2. AnomaliesOf(S) = (CHOOSE g : Drawn(g))[S]
  BY DEF AnomaliesOf, MapThenSumSet, MapThenFoldSet, AnyOf
<1>3. DOMAIN f = S
  OBVIOUS
<1> HIDE DEF f
<1>4. SumFunction(f) = (CHOOSE g : Is(g))[S]
  BY <1>3 DEF SumFunction, SumFunctionOnSet, FoldFunctionOnSet, MapThenFoldSet, AnyOf
<1>5. \A g : Drawn(g) <=> Is(g)
  BY <1>1
<1> HIDE DEF Drawn, Is
<1>6. (CHOOSE g : Drawn(g)) = (CHOOSE g : Is(g))
  BY <1>5
<1> QED BY <1>2, <1>4, <1>6 DEF f

\* The samples of a device whose hour begins at t.
SamplesAt(d, t) == {s \in SamplesOf(d) : HourStart(s) = t}

\* The model divides integers where the code divides floats: an hour's average
\* is exact when the number of its samples divides their sum.
AveragesAreWhole ==
    \A d \in Devices : \A s \in SamplesOf(d), m \in Recorded :
        ValuesOf(SamplesAt(d, HourStart(s)), m) % Cardinality(SamplesAt(d, HourStart(s))) = 0

\* R are the hourly rows of W, samples of a device that are whole hours of it.
RowsFor(R, W, d) ==
    /\ W \in SUBSET SamplesOf(d) /\ R \in SUBSET OwnRows(d, "1h")
    /\ \A s \in W : SamplesAt(d, HourStart(s)) \in SUBSET W /\ RowAt(d, HourStart(s)) \in R
    /\ \A r \in R : \E s \in W : r = RowAt(d, HourStart(s))

\* What the row of a sample's hour is made of.
LEMMA HourlyRow ==
    ASSUME StoredInv, NEW d \in Devices, NEW s \in SamplesOf(d)
    PROVE  LET mine == SamplesAt(d, HourStart(s))
               r    == RowAt(d, HourStart(s))
           IN  /\ IsFiniteSet(mine) /\ s \in mine
               /\ r.window_start = HourStart(s) /\ r.event_count = Cardinality(mine)
               /\ r.anomaly_count = Cardinality({q \in mine : q.flagged})
               /\ \A m \in Recorded :
                    /\ r.avg[m] = ValuesOf(mine, m) \div Cardinality(mine)
                    /\ r.min[m] = Min({q.values[m] : q \in mine})
                    /\ r.max[m] = Max({q.values[m] : q \in mine})
<1> DEFINE mine == SamplesAt(d, HourStart(s))
           r    == RowAt(d, HourStart(s))
<1>1. mine = {q \in Samples : q.device = d /\ WindowStart(q.at, Hour) = HourStart(s)}
  BY DEF SamplesAt, SamplesOf, HourStart
<1>2. IsFiniteSet(mine) /\ s \in mine
  <2>1. mine \in SUBSET Samples
    BY <1>1
  <2> QED BY <2>1, SamplesAreSound, FS_Subset DEF SamplesAt
<1> HIDE DEF mine
<1>3. /\ r.window_start = HourStart(s) /\ r.event_count = Cardinality(mine)
      /\ r.anomaly_count = Cardinality({q \in mine : q.flagged})
      /\ \A m \in Recorded :
            /\ r.avg[m] = MapThenSumSet(LAMBDA q : q.values[m], mine) \div Cardinality(mine)
            /\ r.min[m] = Min({q.values[m] : q \in mine})
            /\ r.max[m] = Max({q.values[m] : q \in mine})
  BY <1>1 DEF RowAt, WindowAgg
<1> HIDE DEF r
<1> QED BY <1>2, <1>3 DEF ValuesOf, mine, r

\* The rows and the samples that they are made of, as functions.
LEMMA RowsOfSamples ==
    ASSUME StoredInv, NEW d \in Devices, NEW R, NEW W, RowsFor(R, W, d)
    PROVE  /\ IsFiniteSet(R) /\ IsFiniteSet(W) /\ (R = {} <=> W = {})
           /\ \A s \in W : s \in SamplesOf(d) /\ RowAt(d, HourStart(s)) \in R
           /\ \A r \in R : /\ \E s \in W : r = RowAt(d, HourStart(s))
                           /\ {s \in W : RowAt(d, HourStart(s)) = r} = SamplesAt(d, r.window_start)
<1>1. /\ W \in SUBSET SamplesOf(d) /\ R \in SUBSET OwnRows(d, "1h")
      /\ \A s \in W : SamplesAt(d, HourStart(s)) \in SUBSET W /\ RowAt(d, HourStart(s)) \in R
      /\ \A r \in R : \E s \in W : r = RowAt(d, HourStart(s))
  BY DEF RowsFor
<1>2. IsFiniteSet(R) /\ IsFiniteSet(W)
  <2>1. IsFiniteSet(OwnRows(d, "1h"))
    BY TableRows
  <2>2. W \in SUBSET Samples /\ IsFiniteSet(Samples)
    BY <1>1, SamplesAreSound DEF SamplesOf
  <2> QED BY <1>1, <2>1, <2>2, FS_Subset
<1>3. ASSUME NEW r \in R PROVE {s \in W : RowAt(d, HourStart(s)) = r} = SamplesAt(d, r.window_start)
  <2>1. PICK q \in W : r = RowAt(d, HourStart(q))
    BY <1>1
  <2>2. \A s \in W : RowAt(d, HourStart(s)).window_start = HourStart(s)
    BY <1>1, HourlyRow
  <2>3. r.window_start = HourStart(q) /\ SamplesAt(d, HourStart(q)) \in SUBSET W
    BY <1>1, <2>1, <2>2
  <2>4. \A s \in W : s \in SamplesAt(d, HourStart(q)) <=> HourStart(s) = HourStart(q)
    BY <1>1 DEF SamplesAt
  <2>5. \A s \in W : RowAt(d, HourStart(s)) = r <=> HourStart(s) = HourStart(q)
    BY <2>1, <2>2, <2>3
  <2> QED BY <2>3, <2>4, <2>5
<1> QED BY <1>1, <1>2, <1>3

\* The rows of some hours count and add up what their samples are.
LEMMA RowsAddUp ==
    ASSUME StoredInv, AveragesAreWhole, NEW d \in Devices, NEW m \in Recorded,
           NEW R, NEW W, RowsFor(R, W, d)
    PROVE  /\ EventsOf(R) = Cardinality(W) /\ WeightOf(R) = Cardinality(W)
           /\ AnomaliesOf(R) = Cardinality({s \in W : s.flagged})
           /\ WeightedOf(R, m) = ValuesOf(W, m)
<1> DEFINE at      == [s \in W |-> RowAt(d, HourStart(s))]
           Mine(r) == {s \in W : at[s] = r}
           flagged == {s \in W : s.flagged}
           value   == [s \in W |-> s.values[m]]
           events  == [r \in R |-> r.event_count]
           bad     == [r \in R |-> r.anomaly_count]
           weight  == [r \in R |-> Weight(r)]
           total   == [r \in R |-> r.avg[m] * Weight(r)]
<1>1. IsFiniteSet(R) /\ IsFiniteSet(W) /\ at \in [W -> R]
  BY RowsOfSamples
<1>2. value \in [W -> Int]
  <2>1. \A s \in W : s.values[m] \in Int
    <3>1. \A s \in W : s \in Samples
      BY RowsOfSamples DEF SamplesOf
    <3> QED BY <3>1, SamplesAreSound DEF SoundSample
  <2> QED BY <2>1
<1>3. ASSUME NEW r \in R
      PROVE  /\ r.event_count = Cardinality(Mine(r)) /\ r.event_count \in Nat \ {0} /\ r.event_count \in Int
             /\ r.anomaly_count = Cardinality(Mine(r) \cap flagged) /\ r.anomaly_count \in Nat
             /\ r.avg[m] * r.event_count = ValuesOf(Mine(r), m) /\ r.avg[m] \in Int
  <2>1. PICK s \in W : r = RowAt(d, HourStart(s)) /\ s \in SamplesOf(d)
    BY RowsOfSamples
  <2>2. PICK A : A = SamplesAt(d, HourStart(s))
    OBVIOUS
  <2>3. /\ IsFiniteSet(A) /\ s \in A
        /\ r.window_start = HourStart(s) /\ r.event_count = Cardinality(A)
        /\ r.anomaly_count = Cardinality({q \in A : q.flagged})
        /\ r.avg[m] = ValuesOf(A, m) \div Cardinality(A)
    BY <2>1, <2>2, HourlyRow
  <2>4. Mine(r) = A
    <3>1. {q \in W : RowAt(d, HourStart(q)) = r} = SamplesAt(d, r.window_start)
      BY RowsOfSamples
    <3> QED BY <2>2, <2>3, <3>1
  <2>5. {q \in A : q.flagged} = A \cap flagged
    BY <2>4
  <2>6. Cardinality(A) \in Nat \ {0} /\ Cardinality(A \cap flagged) \in Nat
    <3>1. IsFiniteSet(A \cap flagged)
      <4>1. A \cap flagged \in SUBSET A
        OBVIOUS
      <4> QED BY <2>3, <4>1, FS_Subset
    <3> QED BY <2>3, <3>1, FS_CardinalityType, FS_EmptySet
  <2>7. ValuesOf(A, m) \in Int
    <3>1. [q \in A |-> q.values[m]] \in [A -> Int]
      <4>1. \A q \in A : q \in W
        BY <2>4
      <4> QED BY <1>2, <4>1
    <3>2. SumFunction([q \in A |-> q.values[m]]) \in Int
      BY <2>3, <3>1, SumIsNumber
    <3> QED BY <3>2, ValuesAreSum
  <2>8. ValuesOf(A, m) % Cardinality(A) = 0
    <3> HIDE DEF Mine, flagged
    <3> QED BY <2>1, <2>2 DEF AveragesAreWhole
  <2>9. \A v \in Int, n \in Nat \ {0} : v % n = 0 => (v \div n) * n = v /\ v \div n \in Int
    OBVIOUS
  <2> HIDE DEF Mine, flagged
  <2>10. r.avg[m] * r.event_count = ValuesOf(A, m) /\ r.avg[m] \in Int
    BY <2>3, <2>6, <2>7, <2>8, <2>9
  <2>11. Cardinality(A) \in Int
    BY <2>6
  <2> QED BY <2>3, <2>4, <2>5, <2>6, <2>10, <2>11
<1>4. ASSUME NEW r \in R PROVE Weight(r) = r.event_count
  <2>1. \A n \in Nat \ {0} : AtLeast(n, 1) = n
    BY DEF AtLeast
  <2> QED BY <1>3, <2>1 DEF Weight
<1> HIDE DEF at
<1>5. SumFunction(events) = Cardinality(W)
  <2>1. events \in [R -> Int] /\ \A r \in R : events[r] = Cardinality({s \in W : at[s] = r} \cap W)
    <3>1. ASSUME NEW r \in R
          PROVE  r.event_count \in Int /\ r.event_count = Cardinality({s \in W : at[s] = r} \cap W)
      <4>1. PICK A : A = Mine(r)
        OBVIOUS
      <4>2. A \cap W = A
        BY <4>1
      <4>3. r.event_count \in Int /\ r.event_count = Cardinality(A)
        <5> HIDE DEF Mine
        <5> QED BY <1>3, <4>1
      <4> QED BY <4>1, <4>2, <4>3
    <3> QED BY <3>1
  <2> HIDE DEF events
  <2>2. SumFunction(events) = Cardinality(W \cap W)
    BY <1>1, <2>1, CountsOfParts
  <2>3. W \cap W = W
    OBVIOUS
  <2> QED BY <2>2, <2>3
<1>6. SumFunction(bad) = Cardinality(flagged)
  <2>1. bad \in [R -> Int] /\ \A r \in R : bad[r] = Cardinality({s \in W : at[s] = r} \cap flagged)
    <3>1. ASSUME NEW r \in R
          PROVE  /\ r.anomaly_count \in Int
                 /\ r.anomaly_count = Cardinality({s \in W : at[s] = r} \cap flagged)
      <4>1. PICK A : A = Mine(r)
        OBVIOUS
      <4>2. r.anomaly_count \in Int /\ r.anomaly_count = Cardinality(A \cap flagged)
        <5> HIDE DEF Mine, flagged
        <5> QED BY <1>3, <4>1
      <4> HIDE DEF flagged
      <4> QED BY <4>1, <4>2
    <3> HIDE DEF flagged
    <3> QED BY <3>1
  <2>2. W \cap flagged = flagged
    OBVIOUS
  <2> HIDE DEF bad, flagged
  <2>3. SumFunction(bad) = Cardinality(W \cap flagged)
    BY <1>1, <2>1, CountsOfParts
  <2> QED BY <2>2, <2>3
<1>7. SumFunction(total) = SumFunction(value)
  <2>1. total \in [R -> Int]
    <3>1. \A r \in R : r.avg[m] * Weight(r) \in Int
      <4> TAKE r \in R
      <4>1. r.avg[m] \in Int /\ Weight(r) \in Int
        <5> HIDE DEF Mine, flagged
        <5> QED BY <1>3, <1>4
      <4> QED BY <4>1
    <3> QED BY <3>1
  <2>2. ASSUME NEW r \in R
        PROVE  total[r] = SumFunction([x \in {s \in W : at[s] = r} |-> value[x]])
    <3>1. total[r] = ValuesOf(Mine(r), m)
      <4> HIDE DEF Mine
      <4> QED BY <1>3, <1>4
    <3>2. ValuesOf(Mine(r), m) = SumFunction([x \in Mine(r) |-> x.values[m]])
      <4> HIDE DEF Mine
      <4> QED BY ValuesAreSum
    <3>3. [x \in Mine(r) |-> x.values[m]] = [x \in Mine(r) |-> value[x]]
      OBVIOUS
    <3> QED BY <3>1, <3>2, <3>3
  <2> HIDE DEF total, value
  <2> QED BY <1>1, <1>2, <2>1, <2>2, SumOfParts
<1>8. EventsOf(R) = SumFunction(events) /\ AnomaliesOf(R) = SumFunction(bad)
  BY EventsAreSum, AnomaliesAreSum
<1>9. WeightOf(R) = SumFunction(weight) /\ weight = events
  <2>1. weight = events
    BY <1>4
  <2> QED BY <2>1, WeightIsSum
<1>10. WeightedOf(R, m) = SumFunction(total) /\ ValuesOf(W, m) = SumFunction(value)
  BY WeightedIsSum, ValuesAreSum
<1> HIDE DEF events, bad, weight, total, value
<1> QED BY <1>5, <1>6, <1>7, <1>8, <1>9, <1>10

\* The extremes of the rows of some hours are those of their samples.
LEMMA RowsReach ==
    ASSUME StoredInv, NEW d \in Devices, NEW m \in Recorded,
           NEW R, NEW W, RowsFor(R, W, d), W # {}
    PROVE  /\ Max({r.max[m] : r \in R}) = Max({s.values[m] : s \in W})
           /\ Min({r.min[m] : r \in R}) = Min({s.values[m] : s \in W})
<1> DEFINE value  == [s \in W |-> s.values[m]]
           top    == [r \in R |-> r.max[m]]
           bottom == [r \in R |-> r.min[m]]
<1>1. IsFiniteSet(R) /\ IsFiniteSet(W) /\ R # {}
  BY RowsOfSamples
<1>2. \A s \in W : s \in SamplesOf(d) /\ s \in Samples /\ s.values[m] \in Int
  <2>1. \A s \in W : s \in SamplesOf(d) /\ s \in Samples
    BY RowsOfSamples DEF SamplesOf
  <2> QED BY <2>1, SamplesAreSound DEF SoundSample
<1>3. ASSUME NEW s \in W
      PROVE  \E r \in R : /\ r.max[m] \in Int /\ s.values[m] <= r.max[m]
                          /\ r.min[m] \in Int /\ r.min[m] <= s.values[m]
  <2>1. RowAt(d, HourStart(s)) \in R
    BY RowsOfSamples
  <2>2. RowAt(d, HourStart(s)) = WindowAgg(s.device, HourStart(s), Hour, Samples)
    BY <1>2 DEF RowAt, SamplesOf
  <2> QED BY <1>2, <2>1, <2>2, RowCovers
<1>4. ASSUME NEW r \in R
      PROVE  \E s \in W, q \in W : r.max[m] = s.values[m] /\ r.min[m] = q.values[m]
  <2>1. PICK s \in W : r = RowAt(d, HourStart(s)) /\ s \in SamplesOf(d)
    BY RowsOfSamples
  <2>2. PICK A : A = SamplesAt(d, HourStart(s))
    OBVIOUS
  <2>3. /\ IsFiniteSet(A) /\ s \in A /\ r.window_start = HourStart(s)
        /\ r.min[m] = Min({q.values[m] : q \in A}) /\ r.max[m] = Max({q.values[m] : q \in A})
    BY <2>1, <2>2, HourlyRow
  <2>4. A \in SUBSET W
    <3>1. {q \in W : RowAt(d, HourStart(q)) = r} = SamplesAt(d, r.window_start)
      BY RowsOfSamples
    <3> QED BY <2>2, <2>3, <3>1
  <2>5. PICK V : V = {q.values[m] : q \in A}
    OBVIOUS
  <2>6. V \subseteq Int /\ V # {}
    BY <1>2, <2>3, <2>4, <2>5
  <2>7. IsFiniteSet(V)
    <3> DEFINE f == [q \in A |-> q.values[m]]
    <3>1. V = {f[q] : q \in A} /\ DOMAIN f = A
      BY <2>5
    <3> HIDE DEF f
    <3> QED BY <2>3, <3>1, ImageIsFinite
  <2>8. Min(V) \in V /\ Max(V) \in V
    BY <2>6, <2>7, Extremes
  <2>9. r.min[m] \in V /\ r.max[m] \in V
    BY <2>3, <2>5, <2>8
  <2> QED BY <2>4, <2>5, <2>9
<1>5. PICK V, T, B : V = {s.values[m] : s \in W} /\ T = {r.max[m] : r \in R} /\ B = {r.min[m] : r \in R}
  OBVIOUS
<1>6. IsFiniteSet(V) /\ IsFiniteSet(T) /\ IsFiniteSet(B)
  <2>1. V = {value[s] : s \in W} /\ T = {top[r] : r \in R} /\ B = {bottom[r] : r \in R}
    BY <1>5
  <2>2. DOMAIN value = W /\ DOMAIN top = R /\ DOMAIN bottom = R
    OBVIOUS
  <2> HIDE DEF value, top, bottom
  <2> QED BY <1>1, <2>1, <2>2, ImageIsFinite
<1>7. V \subseteq Int /\ V # {}
  BY <1>2, <1>5
<1>8. T \subseteq V /\ B \subseteq V /\ T # {} /\ B # {}
  BY <1>1, <1>4, <1>5
<1>9. \A v \in V : (\E t \in T : v <= t) /\ (\E b \in B : b <= v)
  BY <1>3, <1>5
<1>10. /\ Max(V) \in V /\ \A v \in V : v <= Max(V)
       /\ Min(V) \in V /\ \A v \in V : Min(V) <= v
  BY <1>6, <1>7, Extremes
<1>11. Max(T) \in T /\ \A t \in T : t <= Max(T)
  <2>1. T \subseteq Int
    BY <1>7, <1>8
  <2> QED BY <1>6, <1>8, <2>1, Extremes
<1>12. Min(B) \in B /\ \A b \in B : Min(B) <= b
  <2>1. B \subseteq Int
    BY <1>7, <1>8
  <2> QED BY <1>6, <1>8, <2>1, Extremes
<1>13. Max(T) = Max(V)
  <2>1. PICK x \in Int, y \in Int : x = Max(T) /\ y = Max(V)
    BY <1>7, <1>8, <1>10, <1>11
  <2>2. x <= y
    BY <1>8, <1>10, <1>11, <2>1
  <2>3. PICK t \in T : y <= t
    BY <1>9, <1>10, <2>1
  <2>4. t <= x /\ t \in Int
    BY <1>7, <1>8, <1>11, <2>1
  <2> QED BY <2>1, <2>2, <2>3, <2>4
<1>14. Min(B) = Min(V)
  <2>1. PICK x \in Int, y \in Int : x = Min(B) /\ y = Min(V)
    BY <1>7, <1>8, <1>10, <1>12
  <2>2. y <= x
    BY <1>8, <1>10, <1>12, <2>1
  <2>3. PICK b \in B : b <= y
    BY <1>9, <1>10, <2>1
  <2>4. x <= b /\ b \in Int
    BY <1>7, <1>8, <1>12, <2>1
  <2> QED BY <2>1, <2>2, <2>3, <2>4
<1> QED BY <1>5, <1>13, <1>14

\* There are as many rows as hours.
LEMMA RowsAreHours ==
    ASSUME StoredInv, NEW d \in Devices, NEW R, NEW W, RowsFor(R, W, d)
    PROVE  Cardinality(R) = Cardinality({HourStart(s) : s \in W})
<1> DEFINE H == {HourStart(s) : s \in W}
           f == [r \in R |-> r.window_start]
<1>1. /\ IsFiniteSet(R)
      /\ \A s \in W : s \in SamplesOf(d) /\ RowAt(d, HourStart(s)) \in R
      /\ \A r \in R : \E s \in W : r = RowAt(d, HourStart(s))
  BY RowsOfSamples
<1>2. \A s \in W : RowAt(d, HourStart(s)).window_start = HourStart(s)
  BY <1>1, HourlyRow
<1>3. f \in [R -> H]
  BY <1>1, <1>2
<1>4. \A r, q \in R : f[r] = f[q] => r = q
  BY <1>1, <1>2
<1>5. \A h \in H : \E r \in R : f[r] = h
  BY <1>1, <1>2
<1> HIDE DEF f, H
<1>6. f \in Bijection(R, H)
  BY <1>3, <1>4, <1>5 DEF Bijection, Injection, Surjection, IsInjective
<1>7. Cardinality(H) = Cardinality(R)
  BY <1>1, <1>6, FS_Bijection DEF ExistsBijection
<1> QED BY <1>7 DEF H

\* The rows and the samples of some of a device's hours.
RowsIn(d, H)    == {r \in RowsOf(d) : r.window_start \in H}
SamplesIn(d, H) == {s \in SamplesOf(d) : HourStart(s) \in H}

LEMMA RowsOfHours ==
    ASSUME StoredInv, NEW d \in Devices, NEW H
    PROVE  RowsFor(RowsIn(d, H), SamplesIn(d, H), d)
<1>1. ASSUME NEW s \in SamplesOf(d)
      PROVE  RowAt(d, HourStart(s)) \in RowsOf(d) /\ RowAt(d, HourStart(s)).window_start = HourStart(s)
  <2>1. s \in Stored("1h") /\ s \in Samples /\ s.device = d
    BY DEF SamplesOf, Stored
  <2>2. RowOf(s, "1h") \in OwnRows(d, "1h")
    BY <2>1, TableRows
  <2>3. RowOf(s, "1h") = RowAt(d, HourStart(s)) /\ OwnRows(d, "1h") = RowsOf(d)
    BY <2>1 DEF RowOf, RowAt, StartOf, WidthOf, Stored, HourStart, OwnRows, RowsOf
  <2> QED BY <2>2, <2>3, HourlyRow
<1>2. ASSUME NEW r \in RowsOf(d) PROVE \E s \in SamplesOf(d) : r = RowAt(d, HourStart(s))
  <2>1. r \in OwnRows(d, "1h")
    BY DEF OwnRows, RowsOf
  <2>2. PICK s \in Stored("1h") : s.device = d /\ r = RowOf(s, "1h")
    BY <2>1, TableRows
  <2>3. s \in SamplesOf(d) /\ RowOf(s, "1h") = RowAt(d, HourStart(s))
    BY <2>2 DEF RowOf, RowAt, StartOf, WidthOf, Stored, HourStart, SamplesOf
  <2> QED BY <2>2, <2>3
<1>3. RowsIn(d, H) \in SUBSET OwnRows(d, "1h") /\ SamplesIn(d, H) \in SUBSET SamplesOf(d)
  BY DEF RowsIn, SamplesIn, OwnRows, RowsOf
<1>4. ASSUME NEW s \in SamplesIn(d, H)
      PROVE  /\ SamplesAt(d, HourStart(s)) \in SUBSET SamplesIn(d, H)
             /\ RowAt(d, HourStart(s)) \in RowsIn(d, H)
  <2>1. s \in SamplesOf(d) /\ HourStart(s) \in H
    BY DEF SamplesIn
  <2>2. SamplesAt(d, HourStart(s)) \in SUBSET SamplesIn(d, H)
    BY <2>1 DEF SamplesAt, SamplesIn
  <2> QED BY <1>1, <2>1, <2>2 DEF RowsIn
<1>5. ASSUME NEW r \in RowsIn(d, H)
      PROVE  \E s \in SamplesIn(d, H) : r = RowAt(d, HourStart(s))
  <2>1. r \in RowsOf(d) /\ r.window_start \in H
    BY DEF RowsIn
  <2>2. PICK s \in SamplesOf(d) : r = RowAt(d, HourStart(s))
    BY <1>2, <2>1
  <2> QED BY <1>1, <2>1, <2>2 DEF SamplesIn
<1>6. PICK R, W : R = RowsIn(d, H) /\ W = SamplesIn(d, H)
  OBVIOUS
<1>7. /\ R \in SUBSET OwnRows(d, "1h") /\ W \in SUBSET SamplesOf(d)
      /\ \A s \in W : SamplesAt(d, HourStart(s)) \in SUBSET W /\ RowAt(d, HourStart(s)) \in R
      /\ \A r \in R : \E s \in W : r = RowAt(d, HourStart(s))
  BY <1>3, <1>4, <1>5, <1>6
<1>8. RowsFor(R, W, d)
  BY <1>7 DEF RowsFor
<1> QED BY <1>6, <1>8

\* A day, week or month that an hour begins in is that of the hour's samples.
LEMMA HourInBucket ==
    ASSUME StoredInv, NEW s \in Samples, NEW g \in RollupGranularities
    PROVE  RollupBucketKey(HourStart(s), g) = RollupBucketKey(s.at, g)
<1>1. s.at \in Nat
  BY SamplesAreSound DEF SoundSample
<1>2. HourStart(s) = s.at - (s.at % 2)
  BY DEF HourStart, WindowStart, Hour
<1>3. PICK h \in Nat : HourStart(s) = 2 * h /\ (s.at = 2 * h \/ s.at = 2 * h + 1)
  BY <1>1, <1>2, HourIsEven
<1>4. DayOf(HourStart(s)) = DayOf(s.at)
  <2>1. (2 * h) \div 48 = (2 * h + 1) \div 48
    OBVIOUS
  <2> QED BY <1>3, <2>1 DEF DayOf, HalfHoursADay
<1> QED BY <1>4 DEF RollupBucketKey, MonthOf

\* The rows and the samples of one bucket.
BucketRows(d, k, g)    == {r \in RowsOf(d) : RollupBucketKey(r.window_start, g) = k}
BucketSamples(d, k, g) == {s \in SamplesOf(d) : RollupBucketKey(s.at, g) = k}

LEMMA BucketIsRows ==
    ASSUME StoredInv, NEW d \in Devices, NEW g \in RollupGranularities, NEW k
    PROVE  RowsFor(BucketRows(d, k, g), BucketSamples(d, k, g), d)
<1> DEFINE R == BucketRows(d, k, g)
           W == BucketSamples(d, k, g)
           H == {h \in Nat : RollupBucketKey(h, g) = k}
<1>1. W = SamplesIn(d, H)
  <2>1. ASSUME NEW s \in SamplesOf(d)
        PROVE  HourStart(s) \in H <=> RollupBucketKey(s.at, g) = k
    <3>1. s \in Samples /\ Now \in Nat
      BY NowIsLate DEF SamplesOf, StoredInv
    <3>2. HourStart(s) \in Nat
      BY <3>1, SamplesAreSound, HourOfSample
    <3> QED BY <3>1, <3>2, HourInBucket
  <2> HIDE DEF H
  <2> QED BY <2>1 DEF BucketSamples, SamplesIn
<1>2. R = RowsIn(d, H)
  <2>1. ASSUME NEW r \in RowsOf(d) PROVE r.window_start \in Nat
    BY TableRows DEF OwnRows, RowsOf
  <2> QED BY <2>1 DEF BucketRows, RowsIn
<1> HIDE DEF R, W, H
<1>3. RowsFor(RowsIn(d, H), SamplesIn(d, H), d)
  BY RowsOfHours
<1>4. RowsFor(R, W, d)
  BY <1>1, <1>2, <1>3
<1> QED BY <1>4 DEF R, W

\* The point of a bucket, from its rows and from its samples.
RolledPoint(k, R, m) ==
    Point(k, WeightedOf(R, m) \div WeightOf(R), Min({r.min[m] : r \in R}), Max({r.max[m] : r \in R}),
          AnomaliesOf(R), EventsOf(R), AnomaliesOf(R) > 0)

DirectPoint(k, W, m) ==
    Point(k, ValuesOf(W, m) \div Cardinality(W), Min({s.values[m] : s \in W}),
          Max({s.values[m] : s \in W}), 0, Cardinality(W), FALSE)

\* A point of readings, once counted and once judged.
WithCount(p, c) == [p EXCEPT !.anomaly_count = c]
WithBadge(p, b) == [p EXCEPT !.unhealthy = b]

LEMMA PointCounted ==
    ASSUME NEW k, NEW avg, NEW low, NEW high, NEW n, NEW z, NEW c, NEW w
    PROVE  WithCount(Point(k, avg, low, high, z, n, w), c) = Point(k, avg, low, high, c, n, w)
BY DEF Point, WithCount

LEMMA PointBadged ==
    ASSUME NEW k, NEW avg, NEW low, NEW high, NEW n, NEW c, NEW w, NEW b
    PROVE  WithBadge(Point(k, avg, low, high, c, n, w), b) = Point(k, avg, low, high, c, n, b)
BY DEF Point, WithBadge

\* A roll-up of hours says what the samples do.
LEMMA RollupsHold == StoredInv /\ AveragesAreWhole => RollupIsExact
<1> DEFINE Flagged(d, g, p) == Cardinality({s \in SamplesOf(d) :
                                    /\ RollupBucketKey(s.at, g) = p.window_start
                                    /\ s.flagged})
           Counted(d, g, p) == [p EXCEPT !.anomaly_count = Flagged(d, g, p)]
           Badged(d, g, p)  == [Counted(d, g, p) EXCEPT
                                    !.unhealthy = Counted(d, g, p).anomaly_count > 0]
           Rolled(d, m, g) == RollupMetricWindows(RowsOf(d), m, g)
           Direct(d, m, g) == BucketDatasetRows(SamplesOf(d), m, g)
           RowKeys(d, g)   == {RollupBucketKey(r.window_start, g) : r \in RowsOf(d)}
           Keys(d, g)      == {RollupBucketKey(s.at, g) : s \in SamplesOf(d)}
<1>1. RollupIsExact <=> \A d \in Devices : \A m \in Recorded : \A g \in RollupGranularities :
            Rolled(d, m, g) = {Badged(d, g, p) : p \in Direct(d, m, g)}
  BY Zenon DEF RollupIsExact
<1>2. \A d, m, g : Rolled(d, m, g) = {RolledPoint(k, BucketRows(d, k, g), m) : k \in RowKeys(d, g)}
  BY Zenon DEF RollupMetricWindows, RolledPoint, BucketRows, WeightedOf, WeightOf, AnomaliesOf, EventsOf
<1>3. \A d, m, g : g \in RollupGranularities =>
            Direct(d, m, g) = {DirectPoint(k, BucketSamples(d, k, g), m) : k \in Keys(d, g)}
  <2> SUFFICES ASSUME NEW d, NEW m, NEW g \in RollupGranularities
               PROVE  Direct(d, m, g) = {DirectPoint(k, BucketSamples(d, k, g), m) : k \in Keys(d, g)}
    OBVIOUS
  <2>1. g \notin {"1m", "1h"}
    BY DEF RollupGranularities
  <2> QED BY <2>1 DEF BucketDatasetRows, DirectPoint, BucketSamples, ValuesOf
<1> SUFFICES ASSUME StoredInv, AveragesAreWhole,
                    NEW d \in Devices, NEW m \in Recorded, NEW g \in RollupGranularities
             PROVE  Rolled(d, m, g) = {Badged(d, g, p) : p \in Direct(d, m, g)}
  <2> HIDE DEF Rolled, Badged, Direct
  <2> QED BY <1>1
<1>4. RowKeys(d, g) = Keys(d, g)
  <2>1. ASSUME NEW k PROVE BucketRows(d, k, g) = {} <=> BucketSamples(d, k, g) = {}
    BY BucketIsRows, RowsOfSamples
  <2>2. \A k : k \in RowKeys(d, g) <=> BucketRows(d, k, g) # {}
    BY DEF BucketRows
  <2>3. \A k : k \in Keys(d, g) <=> BucketSamples(d, k, g) # {}
    BY DEF BucketSamples
  <2> HIDE DEF RowKeys, Keys
  <2> QED BY <2>1, <2>2, <2>3
<1>5. ASSUME NEW k \in Keys(d, g)
      PROVE  RolledPoint(k, BucketRows(d, k, g), m) = Badged(d, g, DirectPoint(k, BucketSamples(d, k, g), m))
  <2>1. PICK R, W : R = BucketRows(d, k, g) /\ W = BucketSamples(d, k, g)
    OBVIOUS
  <2>2. RowsFor(R, W, d) /\ W # {}
    BY <2>1, BucketIsRows DEF BucketSamples
  <2>3. /\ EventsOf(R) = Cardinality(W) /\ WeightOf(R) = Cardinality(W)
        /\ AnomaliesOf(R) = Cardinality({s \in W : s.flagged}) /\ WeightedOf(R, m) = ValuesOf(W, m)
    BY <2>2, RowsAddUp
  <2>4. /\ Max({r.max[m] : r \in R}) = Max({s.values[m] : s \in W})
        /\ Min({r.min[m] : r \in R}) = Min({s.values[m] : s \in W})
    BY <2>2, RowsReach
  <2>5. PICK avg, low, high, n, c : DirectPoint(k, W, m) = Point(k, avg, low, high, 0, n, FALSE)
                /\ avg = ValuesOf(W, m) \div Cardinality(W) /\ low = Min({s.values[m] : s \in W})
                /\ high = Max({s.values[m] : s \in W}) /\ n = Cardinality(W)
                /\ c = Cardinality({s \in W : s.flagged})
    BY DEF DirectPoint
  <2>6. RolledPoint(k, R, m) = Point(k, avg, low, high, c, n, c > 0)
    BY <2>3, <2>4, <2>5 DEF RolledPoint
  <2>7. Flagged(d, g, DirectPoint(k, W, m)) = c
    <3>1. DirectPoint(k, W, m).window_start = k
      BY DEF DirectPoint, Point
    <3>2. {s \in W : s.flagged} = {s \in SamplesOf(d) : RollupBucketKey(s.at, g) = k /\ s.flagged}
      BY <2>1 DEF BucketSamples
    <3> QED BY <2>5, <3>1, <3>2
  <2>8. PICK p : p = DirectPoint(k, W, m)
    OBVIOUS
  <2>9. PICK q : q = Counted(d, g, p)
    OBVIOUS
  <2> HIDE DEF Flagged
  <2>10. q = Point(k, avg, low, high, c, n, FALSE)
    <3>1. q = WithCount(p, c)
      BY <2>7, <2>8, <2>9 DEF WithCount
    <3>2. p = Point(k, avg, low, high, 0, n, FALSE)
      BY <2>5, <2>8
    <3>3. PICK no : no = FALSE
      OBVIOUS
    <3>4. p = Point(k, avg, low, high, 0, n, no)
      BY <3>2, <3>3
    <3>5. q = Point(k, avg, low, high, c, n, no)
      BY <3>1, <3>4, PointCounted
    <3> QED BY <3>3, <3>5
  <2>11. WithBadge(q, c > 0) = Point(k, avg, low, high, c, n, c > 0)
    <3>1. PICK b, no : b = (c > 0) /\ no = FALSE
      OBVIOUS
    <3>2. q = Point(k, avg, low, high, c, n, no)
      BY <2>10, <3>1
    <3>3. WithBadge(q, b) = Point(k, avg, low, high, c, n, b)
      BY <3>2, PointBadged
    <3> QED BY <3>1, <3>3
  <2>12. q.anomaly_count = c
    BY <2>10 DEF Point
  <2> HIDE DEF Counted
  <2>13. Badged(d, g, p) = WithBadge(q, q.anomaly_count > 0)
    BY <2>9 DEF WithBadge
  <2> HIDE DEF Badged
  <2>14. WithBadge(q, q.anomaly_count > 0) = WithBadge(q, c > 0)
    BY <2>12
  <2> QED BY <2>1, <2>6, <2>8, <2>11, <2>13, <2>14
<1>6. Direct(d, m, g) = {DirectPoint(k, BucketSamples(d, k, g), m) : k \in Keys(d, g)}
  <2> HIDE DEF Direct, Keys
  <2> QED BY <1>3
<1>7. Rolled(d, m, g) = {RolledPoint(k, BucketRows(d, k, g), m) : k \in Keys(d, g)}
  <2> HIDE DEF Rolled, Keys, RowKeys
  <2> QED BY <1>2, <1>4
<1> HIDE DEF Rolled, Direct, Keys, RowKeys, Badged
<1> QED BY <1>5, <1>6, <1>7

-----------------------------------------------------------------------------
(* Monthly reports *)

\* Months by year and month, numbered as the code shifts them.
IsMonth(month)    == \E y \in Nat, m \in 1 .. 12 : y >= 1 /\ month = <<y, m>>
MonthAt(index)    == <<index \div 12, (index % 12) + 1>>

LEMMA MonthNumbers ==
    ASSUME NEW month, IsMonth(month)
    PROVE  /\ MonthIndex(month) \in Nat /\ MonthIndex(month) >= 12
           /\ MonthAt(MonthIndex(month)) = month
<1>1. PICK y \in Nat, m \in 1 .. 12 : y >= 1 /\ month = <<y, m>>
  BY DEF IsMonth
<1>2. MonthIndex(month) = y * 12 + m - 1
  BY <1>1 DEF MonthIndex
<1>3. (y * 12 + m - 1) \div 12 = y /\ (y * 12 + m - 1) % 12 = m - 1
  BY <1>1
<1> QED BY <1>1, <1>2, <1>3 DEF MonthAt

LEMMA NumberedMonths ==
    ASSUME NEW index \in Nat, index >= 12
    PROVE  IsMonth(MonthAt(index)) /\ MonthIndex(MonthAt(index)) = index
<1>1. PICK y, m : y = index \div 12 /\ m = (index % 12) + 1
  OBVIOUS
<1>2. y \in Nat /\ y >= 1 /\ m \in 1 .. 12 /\ y * 12 + m - 1 = index
  BY <1>1
<1>3. MonthAt(index) = <<y, m>>
  BY <1>1 DEF MonthAt
<1>4. IsMonth(<<y, m>>)
  BY <1>2 DEF IsMonth
<1>5. MonthIndex(<<y, m>>) = y * 12 + m - 1
  BY <1>2 DEF MonthIndex
<1> QED BY <1>2, <1>3, <1>4, <1>5

\* Shifting is adding.
LEMMA Shifting ==
    ASSUME NEW month, IsMonth(month), NEW k \in Int, MonthIndex(month) + k >= 12
    PROVE  /\ IsMonth(ShiftMonth(month, k)) /\ ShiftMonth(month, k) = MonthAt(MonthIndex(month) + k)
           /\ MonthIndex(ShiftMonth(month, k)) = MonthIndex(month) + k
<1>1. ShiftMonth(month, k) = MonthAt(MonthIndex(month) + k)
  BY DEF ShiftMonth, MonthAt
<1>2. MonthIndex(month) + k \in Nat
  BY MonthNumbers
<1> QED BY <1>1, <1>2, NumberedMonths

LEMMA SameNumber ==
    ASSUME NEW M, NEW N, IsMonth(M), IsMonth(N), MonthIndex(M) = MonthIndex(N)
    PROVE  M = N
BY MonthNumbers

\* The first days of the months grow with them.
LEMMA FirstsOfYear ==
    ASSUME NEW y \in Nat, NEW m \in 1 .. 12
    PROVE  /\ FirstOf(<<y, m>>) \in Int
           /\ DaysBeforeYear(y) + 1 <= FirstOf(<<y, m>>) /\ FirstOf(<<y, m>>) <= DaysBeforeYear(y) + 336
<1>1. PICK base \in Int : base = DaysBeforeYear(y)
  BY YearsGrow
<1>2. PICK a \in 0 .. 335 : a = DaysBefore(y, m)
  <2>1. m \in {1, 2, 3, 4, 5, 6, 7, 8, 9, 10, 11, 12}
    OBVIOUS
  <2> QED BY <2>1, MonthsGrow
<1>3. FirstOf(<<y, m>>) = base + a + 1
  BY <1>1, <1>2 DEF FirstOf, Ordinal
<1> QED BY <1>1, <1>2, <1>3

LEMMA FirstIsDay ==
    ASSUME NEW month, IsMonth(month)
    PROVE  FirstOf(month) \in Int
<1>1. PICK y \in Nat, m \in 1 .. 12 : month = <<y, m>>
  BY DEF IsMonth
<1>2. FirstOf(<<y, m>>) \in Int
  BY FirstsOfYear
<1> QED BY <1>1, <1>2

LEMMA FirstsGrow ==
    ASSUME NEW M, NEW N, IsMonth(M), IsMonth(N), MonthIndex(M) < MonthIndex(N)
    PROVE  FirstOf(M) \in Int /\ FirstOf(N) \in Int /\ FirstOf(M) + 28 <= FirstOf(N)
<1>1. PICK y \in Nat, m \in 1 .. 12 : y >= 1 /\ M = <<y, m>>
  BY DEF IsMonth
<1>2. PICK z \in Nat, n \in 1 .. 12 : z >= 1 /\ N = <<z, n>>
  BY DEF IsMonth
<1>3. y * 12 + m - 1 < z * 12 + n - 1
  BY <1>1, <1>2 DEF MonthIndex
<1>4. CASE y < z
  <2>1. DaysBeforeYear(y) \in Int /\ DaysBeforeYear(z) \in Int /\ DaysBeforeYear(y) + 365 <= DaysBeforeYear(z)
    <3>1. PICK before \in Int, on \in Int, late \in Int :
              before = DaysBeforeYear(y) /\ on = DaysBeforeYear(y + 1) /\ late = DaysBeforeYear(z)
      BY YearsGrow
    <3>2. on <= late
      BY <1>4, <3>1, YearsGrow
    <3>3. before + 365 <= on
      BY <3>1, YearLength
    <3> QED BY <3>1, <3>2, <3>3
  <2>2. PICK f \in Int, g \in Int : f = FirstOf(M) /\ g = FirstOf(N)
    BY FirstIsDay
  <2>3. f <= DaysBeforeYear(y) + 336
    BY <1>1, <2>2, FirstsOfYear
  <2>4. DaysBeforeYear(z) + 1 <= g
    BY <1>2, <2>2, FirstsOfYear
  <2> QED BY <2>1, <2>2, <2>3, <2>4
<1>5. CASE y = z
  <2>1. m < n
    BY <1>3, <1>5
  <2>2. \A i, j \in {1, 2, 3, 4, 5, 6, 7, 8, 9, 10, 11, 12} :
            i < j => DaysBefore(y, i) \in Int /\ DaysBefore(y, j) \in Int /\ DaysBefore(y, i) + 28 <= DaysBefore(y, j)
    BY MonthsGrow
  <2>3. m \in {1, 2, 3, 4, 5, 6, 7, 8, 9, 10, 11, 12} /\ n \in {1, 2, 3, 4, 5, 6, 7, 8, 9, 10, 11, 12}
    OBVIOUS
  <2>4. PICK a \in Int, b \in Int : a = DaysBefore(y, m) /\ b = DaysBefore(y, n) /\ a + 28 <= b
    BY <2>1, <2>2, <2>3
  <2>5. PICK base \in Int : base = DaysBeforeYear(y)
    BY YearsGrow
  <2>6. FirstOf(M) = base + a + 1 /\ FirstOf(N) = base + b + 1
    BY <1>1, <1>2, <1>5, <2>4, <2>5 DEF FirstOf, Ordinal
  <2> QED BY <2>4, <2>5, <2>6
<1> QED BY <1>3, <1>4, <1>5

\* The month of a day is the one whose first days enclose it.
LEMMA DaysOfMonth ==
    ASSUME NEW t \in Nat, DayOf(t) >= 1, NEW month, IsMonth(month)
    PROVE  /\ IsMonth(MonthOf(t))
           /\ MonthOf(t) = month <=> FirstOf(month) <= DayOf(t) /\ DayOf(t) < FirstOf(ShiftMonth(month, 1))
<1>1. PICK day \in Nat : day = DayOf(t) /\ day >= 1
  BY DEF DayOf, HalfHoursADay
<1>2. PICK y \in Nat : y = YearOf(day) /\ y >= 1 /\ DaysBeforeYear(y) < day /\ day <= DaysBeforeYear(y + 1)
  BY <1>1, YearOfDay
<1>3. PICK m \in 1 .. 12 : /\ m = MonthIn(y, day) /\ Ordinal(y, m, 1) <= day
                           /\ m < 12 => day < Ordinal(y, m + 1, 1)
  BY <1>2, MonthOfDay
<1>4. PICK M : M = MonthOf(t) /\ M = <<y, m>>
  BY <1>1, <1>2, <1>3 DEF MonthOf
<1>5. IsMonth(M)
  BY <1>2, <1>4 DEF IsMonth
<1>6. FirstOf(M) <= day
  BY <1>3, <1>4 DEF FirstOf
<1>7. PICK N : N = ShiftMonth(M, 1) /\ IsMonth(N) /\ MonthIndex(N) = MonthIndex(M) + 1
  BY <1>5, MonthNumbers, Shifting
<1>8. day < FirstOf(N)
  <2>1. MonthIndex(M) = y * 12 + m - 1
    BY <1>4 DEF MonthIndex
  <2>2. CASE m < 12
    <3>1. MonthIndex(<<y, m + 1>>) = MonthIndex(N) /\ IsMonth(<<y, m + 1>>)
      BY <1>2, <1>7, <2>1, <2>2 DEF MonthIndex, IsMonth
    <3>2. N = <<y, m + 1>>
      BY <1>7, <3>1, SameNumber
    <3> QED BY <1>3, <2>2, <3>2 DEF FirstOf
  <2>3. CASE m = 12
    <3>1. MonthIndex(<<y + 1, 1>>) = MonthIndex(N) /\ IsMonth(<<y + 1, 1>>)
      BY <1>2, <1>7, <2>1, <2>3 DEF MonthIndex, IsMonth
    <3>2. N = <<y + 1, 1>>
      BY <1>7, <3>1, SameNumber
    <3>3. PICK before \in Int : before = DaysBeforeYear(y + 1)
      BY YearsGrow
    <3>4. FirstOf(N) \in Int /\ before + 1 <= FirstOf(N)
      <4>1. PICK z \in Nat, one \in 1 .. 12 : z = y + 1 /\ one = 1
        OBVIOUS
      <4>2. FirstOf(<<z, one>>) \in Int /\ DaysBeforeYear(z) + 1 <= FirstOf(<<z, one>>)
        BY FirstsOfYear
      <4> QED BY <3>2, <3>3, <4>1, <4>2
    <3> QED BY <1>2, <3>3, <3>4
  <2> QED BY <2>2, <2>3
<1>9. PICK P : P = ShiftMonth(month, 1) /\ IsMonth(P) /\ MonthIndex(P) = MonthIndex(month) + 1
  BY MonthNumbers, Shifting
<1>10. PICK i \in Nat, j \in Nat : i = MonthIndex(M) /\ j = MonthIndex(month)
  BY <1>5, MonthNumbers
<1>11. PICK a \in Int, b \in Int, c \in Int, e \in Int :
           a = FirstOf(M) /\ b = FirstOf(N) /\ c = FirstOf(month) /\ e = FirstOf(P)
  <2> QED BY <1>5, <1>7, <1>9, FirstIsDay
<1>12. CASE i = j
  <2>1. M = month /\ N = P
    BY <1>5, <1>7, <1>9, <1>10, <1>12, SameNumber
  <2> QED BY <1>1, <1>4, <1>5, <1>6, <1>7, <1>8, <2>1
<1>13. CASE i < j
  <2>1. M # month
    BY <1>10, <1>13
  <2>2. b <= c
    <3>1. CASE i + 1 = j
      <4>1. N = month
        BY <1>7, <1>10, <3>1, SameNumber
      <4> QED BY <1>11, <4>1
    <3>2. CASE i + 1 < j
      <4>1. b + 28 <= c
        BY <1>7, <1>10, <1>11, <3>2, FirstsGrow
      <4> QED BY <4>1
    <3> QED BY <1>13, <3>1, <3>2
  <2> QED BY <1>1, <1>4, <1>5, <1>8, <1>11, <2>1, <2>2
<1>14. CASE j < i
  <2>1. M # month
    BY <1>10, <1>14
  <2>2. e <= a
    <3>1. CASE j + 1 = i
      <4>1. P = M
        BY <1>5, <1>9, <1>10, <3>1, SameNumber
      <4> QED BY <1>11, <4>1
    <3>2. CASE j + 1 < i
      <4>1. e + 28 <= a
        BY <1>5, <1>9, <1>10, <1>11, <3>2, FirstsGrow
      <4> QED BY <4>1
    <3> QED BY <1>14, <3>1, <3>2
  <2> QED BY <1>1, <1>4, <1>5, <1>6, <1>9, <1>11, <2>1, <2>2
<1> QED BY <1>10, <1>12, <1>13, <1>14

\* An instant is past a local midnight when its local day is.
LEMMA PastMidnight ==
    ASSUME NEW t \in Nat, DayOf(t) >= 1, NEW day \in Int
    PROVE  LocalMidnightUtc(day) \in Int /\ (LocalMidnightUtc(day) <= t <=> day <= DayOf(ToLocal(t)))
<1>1. PICK a \in Nat : /\ a = DayOf(ToLocal(t))
                       /\ LocalMidnightUtc(a) <= t /\ t < LocalMidnightUtc(a + 1)
  BY DayHasInstant
<1>2. PICK i \in {2, 4}, j \in {2, 4}, k \in {2, 4} :
          /\ LocalMidnightUtc(a) = 48 * a - i /\ LocalMidnightUtc(a + 1) = 48 * (a + 1) - j
          /\ LocalMidnightUtc(day) = 48 * day - k /\ (day = a => k = i) /\ (day = a + 1 => k = j)
  BY Offsets DEF LocalMidnightUtc, Midnight, HalfHoursADay
<1> QED BY <1>1, <1>2

\* The instants of a local month are those between its bounds.
LEMMA MonthHasInstant ==
    ASSUME NEW t \in Nat, DayOf(t) >= 1, NEW month, IsMonth(month)
    PROVE  /\ IsMonth(LocalMonth(t))
           /\ LocalMonth(t) = month <=> MonthBounds(month)[1] <= t /\ t < MonthBounds(month)[2]
<1>1. ToLocal(t) \in Nat /\ DayOf(ToLocal(t)) \in Nat /\ DayOf(ToLocal(t)) >= 1
  <2>1. ToLocal(t) \in Nat
    <3>1. PICK k \in {2, 4} : k = BerlinOffset(t)
      BY Offsets
    <3> QED BY <3>1 DEF ToLocal
  <2> QED BY <2>1, DayHasInstant
<1>2. PICK first \in Int, next \in Int : first = FirstOf(month) /\ next = FirstOf(ShiftMonth(month, 1))
  <2>2. IsMonth(ShiftMonth(month, 1))
    BY MonthNumbers, Shifting
  <2> QED BY <2>2, FirstIsDay
<1>3. /\ IsMonth(LocalMonth(t))
      /\ LocalMonth(t) = month <=> first <= DayOf(ToLocal(t)) /\ DayOf(ToLocal(t)) < next
  BY <1>1, <1>2, DaysOfMonth DEF LocalMonth
<1>4. MonthBounds(month)[1] = LocalMidnightUtc(first) /\ MonthBounds(month)[2] = LocalMidnightUtc(next)
  BY <1>2 DEF MonthBounds
<1>5. /\ LocalMidnightUtc(first) <= t <=> first <= DayOf(ToLocal(t))
      /\ LocalMidnightUtc(next) \in Int
      /\ LocalMidnightUtc(next) <= t <=> next <= DayOf(ToLocal(t))
  BY <1>2, PastMidnight
<1>6. t < LocalMidnightUtc(next) <=> DayOf(ToLocal(t)) < next
  BY <1>1, <1>2, <1>5
<1> QED BY <1>3, <1>4, <1>5, <1>6

\* A read of an interval is the device's rows that begin in it, whichever
\* partitions they are in.
LEMMA ReadOfInterval ==
    ASSUME StoredInv, NEW d \in Devices, NEW a \in Nat, NEW b \in Nat, DayOf(a) >= 1
    PROVE  HourlyBetween(tables["1h"], d, a, b)
                = {r \in RowsOf(d) : a <= r.window_start /\ r.window_start < b}
<1>1. ASSUME NEW r \in RowsOf(d), a <= r.window_start, r.window_start < b
      PROVE  PartitionOf(r, "1h") \in MonthsBetween(a, b - Instant)
  <2>1. PICK t \in Nat : t = r.window_start /\ DayOf(t) >= 1
    BY TableRows DEF OwnRows, RowsOf
  <2>2. PICK c \in Nat : c = b - 1 /\ t <= c
    BY <1>1, <2>1
  <2>3. /\ MonthIndex(MonthOf(a)) \in Int /\ MonthIndex(MonthOf(t)) \in Int
        /\ MonthIndex(MonthOf(a)) <= MonthIndex(MonthOf(t))
    BY <1>1, <2>1, MonthsInOrder
  <2>4. MonthIndex(MonthOf(c)) \in Int /\ MonthIndex(MonthOf(t)) <= MonthIndex(MonthOf(c))
    BY <2>1, <2>2, MonthsInOrder
  <2> QED BY <2>1, <2>2, <2>3, <2>4 DEF PartitionOf, MonthsBetween, Instant
<1> QED BY <1>1 DEF HourlyBetween, RowsOf

\* Every month a report looks at begins after the calendar does.
LEMMA EarlyMonths ==
    ASSUME NEW month, IsMonth(month), MonthIndex(month) >= 13
    PROVE  /\ MonthBounds(month)[1] \in Nat /\ DayOf(MonthBounds(month)[1]) >= 1
           /\ MonthBounds(month)[2] \in Nat
<1>1. FirstOf(<<1, 1>>) = 1
  BY DEF FirstOf, Ordinal, DaysBeforeYear, DaysBefore
<1>2. IsMonth(<<1, 1>>) /\ MonthIndex(<<1, 1>>) = 12
  BY DEF IsMonth, MonthIndex
<1>3. ASSUME NEW M, IsMonth(M), MonthIndex(M) >= 13
      PROVE  FirstOf(M) \in Nat /\ FirstOf(M) >= 2
  <2>1. PICK f \in Int : f = FirstOf(M) /\ 1 + 28 <= f
    <3>1. MonthIndex(<<1, 1>>) < MonthIndex(M)
      BY <1>2, <1>3, MonthNumbers
    <3>2. FirstOf(M) \in Int /\ FirstOf(<<1, 1>>) + 28 <= FirstOf(M)
      BY <1>2, <1>3, <3>1, FirstsGrow
    <3> QED BY <1>1, <3>2
  <2> QED BY <2>1
<1>4. IsMonth(ShiftMonth(month, 1)) /\ MonthIndex(ShiftMonth(month, 1)) >= 13
  BY MonthNumbers, Shifting
<1>5. PICK f \in Nat, g \in Nat : f = FirstOf(month) /\ f >= 2 /\ g = FirstOf(ShiftMonth(month, 1)) /\ g >= 2
  BY <1>3, <1>4
<1>6. PICK i \in {2, 4}, j \in {2, 4} : MonthBounds(month)[1] = 48 * f - i /\ MonthBounds(month)[2] = 48 * g - j
  BY <1>5, Offsets DEF MonthBounds, LocalMidnightUtc, Midnight, HalfHoursADay
<1> QED BY <1>5, <1>6 DEF DayOf, HalfHoursADay

\* Where the months of a report are, seen from an instant.
LEMMA MonthAround ==
    ASSUME NEW t \in Nat, DayOf(t) >= 1, NEW M, NEW N, IsMonth(M), IsMonth(N),
           MonthIndex(M) <= MonthIndex(N), MonthIndex(M) >= 13
    PROVE  /\ MonthBounds(N)[1] <= t => MonthBounds(M)[1] <= t
           /\ t < MonthBounds(M)[2] => t < MonthBounds(N)[2]
<1>1. ASSUME NEW P, NEW Q, IsMonth(P), IsMonth(Q), MonthIndex(P) <= MonthIndex(Q)
      PROVE  FirstOf(P) \in Int /\ FirstOf(Q) \in Int /\ FirstOf(P) <= FirstOf(Q)
  <2>1. CASE MonthIndex(P) = MonthIndex(Q)
    <3>1. P = Q
      BY <1>1, <2>1, SameNumber
    <3> QED BY <1>1, <3>1, FirstIsDay
  <2>2. CASE MonthIndex(P) < MonthIndex(Q)
    <3>1. FirstOf(P) \in Int /\ FirstOf(Q) \in Int /\ FirstOf(P) + 28 <= FirstOf(Q)
      BY <1>1, <2>2, FirstsGrow
    <3> QED BY <3>1
  <2>3. MonthIndex(P) \in Nat /\ MonthIndex(Q) \in Nat
    BY <1>1, MonthNumbers
  <2> QED BY <1>1, <2>1, <2>2, <2>3
<1>2. /\ IsMonth(ShiftMonth(M, 1)) /\ IsMonth(ShiftMonth(N, 1))
      /\ MonthIndex(ShiftMonth(M, 1)) <= MonthIndex(ShiftMonth(N, 1))
  BY MonthNumbers, Shifting
<1>3. PICK a \in Int, b \in Int, c \in Int, e \in Int :
        /\ a = FirstOf(M) /\ b = FirstOf(N) /\ a <= b
        /\ c = FirstOf(ShiftMonth(M, 1)) /\ e = FirstOf(ShiftMonth(N, 1)) /\ c <= e
  BY <1>1, <1>2
<1>4. PICK day \in Int : day = DayOf(ToLocal(t))
  BY DayHasInstant
<1>5. /\ LocalMidnightUtc(a) <= t <=> a <= day
      /\ LocalMidnightUtc(b) <= t <=> b <= day
      /\ LocalMidnightUtc(c) \in Int /\ (LocalMidnightUtc(c) <= t <=> c <= day)
      /\ LocalMidnightUtc(e) \in Int /\ (LocalMidnightUtc(e) <= t <=> e <= day)
  BY <1>4, PastMidnight
<1>6. /\ MonthBounds(M)[1] = LocalMidnightUtc(a) /\ MonthBounds(M)[2] = LocalMidnightUtc(c)
      /\ MonthBounds(N)[1] = LocalMidnightUtc(b) /\ MonthBounds(N)[2] = LocalMidnightUtc(e)
  BY <1>3 DEF MonthBounds
<1>7. /\ t < LocalMidnightUtc(c) <=> day < c
      /\ t < LocalMidnightUtc(e) <=> day < e
  BY <1>3, <1>4, <1>5
<1> QED BY <1>3, <1>4, <1>5, <1>6, <1>7

\* The rows and the samples of a local month, and what a report reads.
MonthRows(d, month)    == {r \in RowsOf(d) : LocalMonth(r.window_start) = month}
MonthSamples(d, month) == {s \in SamplesOf(d) : LocalMonth(HourStart(s)) = month}
ReportRows(d, month) ==
    HourlyBetween(tables["1h"], d, MonthBounds(ShiftMonth(month, -12))[1],
                                   MonthBounds(ShiftMonth(month, -12))[2])
        \cup HourlyBetween(tables["1h"], d, MonthBounds(ShiftMonth(month, -1))[1], MonthBounds(month)[2])

\* Of what a report reads, each period has the rows of its month.
LEMMA PeriodRows ==
    ASSUME StoredInv, NEW d \in Devices, NEW month, IsMonth(month), MonthIndex(month) >= 25
    PROVE  /\ InPeriod(ReportRows(d, month), MonthBounds(month)) = MonthRows(d, month)
           /\ \A k \in {-12, -1} :
                InPeriod(ReportRows(d, month), MonthBounds(ShiftMonth(month, k)))
                    = MonthRows(d, ShiftMonth(month, k))
<1>1. PICK n \in Nat : n = MonthIndex(month) /\ n >= 25
  BY MonthNumbers
<1>2. PICK Y, P : Y = ShiftMonth(month, -12) /\ P = ShiftMonth(month, -1)
  OBVIOUS
<1>3. /\ IsMonth(Y) /\ MonthIndex(Y) = n - 12 /\ IsMonth(P) /\ MonthIndex(P) = n - 1
  BY <1>1, <1>2, Shifting
<1>4. PICK y1 \in Nat, y2 \in Nat, from \in Nat, to \in Nat :
        /\ y1 = MonthBounds(Y)[1] /\ DayOf(y1) >= 1 /\ y2 = MonthBounds(Y)[2]
        /\ from = MonthBounds(P)[1] /\ DayOf(from) >= 1 /\ to = MonthBounds(month)[2]
  <2>1. /\ MonthBounds(Y)[1] \in Nat /\ DayOf(MonthBounds(Y)[1]) >= 1 /\ MonthBounds(Y)[2] \in Nat
    BY <1>1, <1>3, EarlyMonths
  <2>2. MonthBounds(P)[1] \in Nat /\ DayOf(MonthBounds(P)[1]) >= 1
    BY <1>1, <1>3, EarlyMonths
  <2>3. MonthBounds(month)[2] \in Nat
    BY <1>1, EarlyMonths
  <2> QED BY <2>1, <2>2, <2>3
<1>5. ReportRows(d, month) =
        {r \in RowsOf(d) : (y1 <= r.window_start /\ r.window_start < y2)
                            \/ (from <= r.window_start /\ r.window_start < to)}
  <2>1. HourlyBetween(tables["1h"], d, y1, y2)
            = {r \in RowsOf(d) : y1 <= r.window_start /\ r.window_start < y2}
    BY <1>4, ReadOfInterval
  <2>2. HourlyBetween(tables["1h"], d, from, to)
            = {r \in RowsOf(d) : from <= r.window_start /\ r.window_start < to}
    BY <1>4, ReadOfInterval
  <2>3. ReportRows(d, month)
            = HourlyBetween(tables["1h"], d, y1, y2) \cup HourlyBetween(tables["1h"], d, from, to)
    BY <1>2, <1>4 DEF ReportRows
  <2> QED BY <2>1, <2>2, <2>3
<1>6. ASSUME NEW r \in RowsOf(d), NEW Q \in {Y, P, month}
      PROVE  /\ LocalMonth(r.window_start) = Q
                    <=> MonthBounds(Q)[1] <= r.window_start /\ r.window_start < MonthBounds(Q)[2]
             /\ LocalMonth(r.window_start) = Q => r \in ReportRows(d, month)
  <2>1. PICK t \in Nat : t = r.window_start /\ DayOf(t) >= 1
    BY TableRows DEF OwnRows, RowsOf
  <2>2. IsMonth(Q)
    BY <1>3
  <2>3. LocalMonth(t) = Q <=> MonthBounds(Q)[1] <= t /\ t < MonthBounds(Q)[2]
    BY <2>1, <2>2, MonthHasInstant
  <2>4. ASSUME LocalMonth(t) = Q
        PROVE  (y1 <= t /\ t < y2) \/ (from <= t /\ t < to)
    <3>1. CASE Q = Y
      BY <1>4, <2>3, <2>4, <3>1
    <3>2. CASE Q = P
      <4>1. MonthIndex(P) <= MonthIndex(month) /\ MonthIndex(P) >= 13
        BY <1>1, <1>3
      <4>2. t < MonthBounds(P)[2] => t < MonthBounds(month)[2]
        BY <1>3, <2>1, <4>1, MonthAround
      <4> QED BY <1>4, <2>3, <2>4, <3>2, <4>2
    <3>3. CASE Q = month
      <4>1. MonthIndex(P) <= MonthIndex(month) /\ MonthIndex(P) >= 13
        BY <1>1, <1>3
      <4>2. MonthBounds(month)[1] <= t => MonthBounds(P)[1] <= t
        BY <1>3, <2>1, <4>1, MonthAround
      <4> QED BY <1>4, <2>3, <2>4, <3>3, <4>2
    <3> QED BY <3>1, <3>2, <3>3
  <2> QED BY <1>5, <2>1, <2>3, <2>4
<1>7. ASSUME NEW Q \in {Y, P, month}
      PROVE  InPeriod(ReportRows(d, month), MonthBounds(Q)) = MonthRows(d, Q)
  <2>1. ReportRows(d, month) \in SUBSET RowsOf(d)
    BY <1>5
  <2> QED BY <1>6, <2>1 DEF InPeriod, MonthRows
<1> QED BY <1>2, <1>7

\* They are the rows of the month's samples.
LEMMA MonthIsRows ==
    ASSUME StoredInv, NEW d \in Devices, NEW month
    PROVE  RowsFor(MonthRows(d, month), MonthSamples(d, month), d)
<1> DEFINE H == {h \in Nat : LocalMonth(h) = month}
<1>1. MonthSamples(d, month) = SamplesIn(d, H)
  <2>1. \A s \in SamplesOf(d) : HourStart(s) \in Nat
    <3> TAKE s \in SamplesOf(d)
    <3>1. s \in Samples /\ Now \in Nat
      BY NowIsLate DEF SamplesOf, StoredInv
    <3> QED BY <3>1, SamplesAreSound, HourOfSample
  <2> QED BY <2>1 DEF MonthSamples, SamplesIn
<1>2. MonthRows(d, month) = RowsIn(d, H)
  <2>1. \A r \in RowsOf(d) : r.window_start \in Nat
    BY TableRows DEF OwnRows, RowsOf
  <2> QED BY <2>1 DEF MonthRows, RowsIn
<1> HIDE DEF H
<1>3. RowsFor(RowsIn(d, H), SamplesIn(d, H), d)
  BY RowsOfHours
<1> QED BY <1>1, <1>2, <1>3

\* The months asked for, and those they are compared with, are late enough.
LEMMA ReportMonths ==
    ASSUME StoredInv, NEW month \in Months
    PROVE  IsMonth(month) /\ MonthIndex(month) >= 37
<1>1. PICK t \in Nat : month = LocalMonth(t) /\ DayOf(t) >= 769
  <2>1. PICK n \in Nat, a \in Nat : n = Now /\ a = Anchor /\ a <= n /\ DayOf(a) > 769
    BY NowIsLate, ObservationsAssumption DEF StoredInv
  <2>2. a - 1 \in Nat /\ DayOf(a - 1) >= 769 /\ DayOf(n) >= 769
    BY <2>1 DEF DayOf, HalfHoursADay
  <2>3. month = LocalMonth(n) \/ month = LocalMonth(a - 1)
    BY <2>1 DEF Months, Instant
  <2> QED BY <2>1, <2>2, <2>3
<1>2. PICK u \in Nat : u = ToLocal(t) /\ DayOf(u) \in Nat /\ DayOf(u) >= 769
  <2>1. PICK k \in {2, 4} : k = BerlinOffset(t)
    BY Offsets
  <2> QED BY <1>1, <2>1 DEF ToLocal, DayOf, HalfHoursADay
<1>3. IsMonth(<<1, 1>>)
  BY DEF IsMonth
<1>4. IsMonth(month)
  <2>1. DayOf(u) >= 1
    BY <1>2
  <2> QED BY <1>1, <1>2, <1>3, <2>1, DaysOfMonth DEF LocalMonth
<1>5. PICK next : next = ShiftMonth(month, 1) /\ IsMonth(next) /\ MonthIndex(next) = MonthIndex(month) + 1
  BY <1>4, MonthNumbers, Shifting
<1>6. DayOf(u) < FirstOf(next)
  <2>1. DayOf(u) >= 1
    BY <1>2
  <2> QED BY <1>1, <1>2, <1>4, <1>5, <2>1, DaysOfMonth DEF LocalMonth
<1>7. FirstOf(<<3, 2>>) = 762 /\ IsMonth(<<3, 2>>) /\ MonthIndex(<<3, 2>>) = 37
  BY DEF FirstOf, Ordinal, DaysBeforeYear, DaysBefore, IsMonth, MonthIndex
<1>8. CASE MonthIndex(month) < 37
  <2>1. MonthIndex(next) <= 37 /\ MonthIndex(next) \in Nat
    BY <1>4, <1>5, <1>8, MonthNumbers
  <2>2. CASE MonthIndex(next) = 37
    BY <1>2, <1>5, <1>6, <1>7, <2>2, SameNumber
  <2>3. CASE MonthIndex(next) < 37
    <3>1. FirstOf(next) \in Int /\ FirstOf(next) + 28 <= 762
      BY <1>5, <1>7, <2>3, FirstsGrow
    <3> QED BY <1>2, <1>6, <3>1
  <2> QED BY <2>1, <2>2, <2>3
<1> QED BY <1>4, <1>8, MonthNumbers

\* The order of the ranking: three numbers, the first that differs decides.
LEMMA LexOfThree ==
    ASSUME NEW a \in Int, NEW b \in Int, NEW c \in Int, NEW e \in Int, NEW f \in Int, NEW g \in Int
    PROVE  LexLess(<<a, b, c>>, <<e, f, g>>)
                <=> (a < e \/ (a = e /\ b < f) \/ (a = e /\ b = f /\ c < g))
<1>1. PICK x, y : x = <<a, b, c>> /\ y = <<e, f, g>>
  OBVIOUS
<1>2. DOMAIN x = {1, 2, 3} /\ x[1] = a /\ x[2] = b /\ x[3] = c /\ y[1] = e /\ y[2] = f /\ y[3] = g
  BY <1>1
<1>3. 1 .. 1 - 1 = {} /\ 1 .. 2 - 1 = {1} /\ 1 .. 3 - 1 = {1, 2}
  OBVIOUS
<1>4. LexLess(x, y) <=> \/ x[1] < y[1] /\ \A j \in 1 .. 1 - 1 : x[j] = y[j]
                        \/ x[2] < y[2] /\ \A j \in 1 .. 2 - 1 : x[j] = y[j]
                        \/ x[3] < y[3] /\ \A j \in 1 .. 3 - 1 : x[j] = y[j]
  BY <1>2 DEF LexLess
<1>5. LexLess(x, y) <=> (a < e \/ (a = e /\ b < f) \/ (a = e /\ b = f /\ c < g))
  BY <1>2, <1>3, <1>4
<1> QED BY <1>1, <1>5

LEMMA LexOrderSorts ==
    ASSUME NEW n \in Nat, NEW keys \in [1 .. n -> Int \X Int \X Int]
    PROVE  /\ LexOrder(keys) \in [1 .. n -> 1 .. n]
           /\ \A i \in 1 .. n : \E k \in 1 .. n : LexOrder(keys)[k] = i
<1> DEFINE Before(i, j) == LexLess(keys[i], keys[j]) \/ (keys[i] = keys[j] /\ i < j)
           B == {x \in (1 .. n) \X (1 .. n) : Before(x[1], x[2])}
<1>0. DOMAIN keys = 1 .. n /\ \A i \in 1 .. n : keys[i] \in Int \X Int \X Int
  OBVIOUS
<1>1. \A i, j \in 1 .. n : <<i, j>> \in B <=> Before(i, j)
  <2> HIDE DEF Before
  <2> QED OBVIOUS
<1>2. ASSUME NEW i \in 1 .. n, NEW j \in 1 .. n
      PROVE  /\ ~Before(i, i) /\ (i = j \/ Before(i, j) \/ Before(j, i))
             /\ \A k \in 1 .. n : Before(i, j) /\ Before(j, k) => Before(i, k)
  <2>1. PICK a \in Int, b \in Int, c \in Int : keys[i] = <<a, b, c>>
    BY <1>0
  <2>2. PICK e \in Int, f \in Int, g \in Int : keys[j] = <<e, f, g>>
    BY <1>0
  <2>3. /\ LexLess(keys[i], keys[i]) <=> (a < a \/ (a = a /\ b < b) \/ (a = a /\ b = b /\ c < c))
        /\ LexLess(keys[i], keys[j]) <=> (a < e \/ (a = e /\ b < f) \/ (a = e /\ b = f /\ c < g))
        /\ LexLess(keys[j], keys[i]) <=> (e < a \/ (e = a /\ f < b) \/ (e = a /\ f = b /\ g < c))
    BY <2>1, <2>2, LexOfThree
  <2>4. keys[i] = keys[j] <=> a = e /\ b = f /\ c = g
    BY <2>1, <2>2
  <2>5. ASSUME NEW k \in 1 .. n, Before(i, j), Before(j, k) PROVE Before(i, k)
    <3>1. PICK x \in Int, y \in Int, z \in Int : keys[k] = <<x, y, z>>
      BY <1>0
    <3>2. /\ LexLess(keys[j], keys[k]) <=> (e < x \/ (e = x /\ f < y) \/ (e = x /\ f = y /\ g < z))
          /\ LexLess(keys[i], keys[k]) <=> (a < x \/ (a = x /\ b < y) \/ (a = x /\ b = y /\ c < z))
      <4>1. LexLess(<<e, f, g>>, <<x, y, z>>) <=> (e < x \/ (e = x /\ f < y) \/ (e = x /\ f = y /\ g < z))
        BY LexOfThree
      <4>2. LexLess(<<a, b, c>>, <<x, y, z>>) <=> (a < x \/ (a = x /\ b < y) \/ (a = x /\ b = y /\ c < z))
        BY LexOfThree
      <4> QED BY <2>1, <2>2, <3>1, <4>1, <4>2
    <3>3. /\ keys[j] = keys[k] <=> e = x /\ f = y /\ g = z
          /\ keys[i] = keys[k] <=> a = x /\ b = y /\ c = z
      BY <2>1, <2>2, <3>1
    <3> QED BY <2>3, <2>4, <2>5, <3>2, <3>3
  <2> QED BY <2>3, <2>4, <2>5
<1>3. Ordering(n, B)
  <2> HIDE DEF B, Before
  <2> QED BY <1>1, <1>2 DEF Ordering
<1>4. LexOrder(keys) = Placed(n, B)
  <2>1. \A i \in 1 .. n : {j \in 1 .. n : Before(j, i)} = {j \in 1 .. n : <<j, i>> \in B}
    <3> HIDE DEF B, Before
    <3> QED BY <1>1
  <2>2. LexOrder(keys) = [k \in 1 .. n |->
                            CHOOSE i \in 1 .. n : 1 + Cardinality({j \in 1 .. n : Before(j, i)}) = k]
    BY <1>0 DEF LexOrder
  <2> HIDE DEF B, Before
  <2>3. \A k : (CHOOSE i \in 1 .. n : 1 + Cardinality({j \in 1 .. n : Before(j, i)}) = k)
              = (CHOOSE i \in 1 .. n : 1 + Cardinality({j \in 1 .. n : <<j, i>> \in B}) = k)
    BY <2>1
  <2> QED BY <2>2, <2>3 DEF Placed
<1> HIDE DEF B
<1>5. PICK A : A = B
  OBVIOUS
<1>6. /\ Placed(n, A) \in [1 .. n -> 1 .. n]
      /\ \A i \in 1 .. n : \E k \in 1 .. n : Placed(n, A)[k] = i
  <2>1. Ordering(n, A)
    BY <1>3, <1>5
  <2> QED BY <2>1, PlacedSorts
<1> QED BY <1>4, <1>5, <1>6

\* The hours over a limit, over the metrics that have one.
ExceededOf(R, stats, S) == MapThenSumSet(LAMBDA m : MetricSummary(R, m, stats).over_limit_hours, S)

LEMMA ExceededIsSum ==
    ASSUME NEW S, NEW R, NEW stats
    PROVE  ExceededOf(R, stats, S) = SumFunction([m \in S |-> MetricSummary(R, m, stats).over_limit_hours])
<1> DEFINE OverHours(m) == MetricSummary(R, m, stats).over_limit_hours
           f        == [m \in S |-> OverHours(m)]
           Drawn(g) == g = [s \in SUBSET S |-> IF s = {} THEN 0
                                              ELSE OverHours(AnyOf(s)) + g[s \ {AnyOf(s)}]]
           Is(g)    == g = [s \in SUBSET S |-> IF s = {} THEN 0
                                              ELSE f[AnyOf(s)] + g[s \ {AnyOf(s)}]]
<1>0. ExceededOf(R, stats, S) = MapThenSumSet(OverHours, S)
  BY DEF ExceededOf
<1> HIDE DEF OverHours
<1>1. \A s \in SUBSET S : s # {} => f[AnyOf(s)] = OverHours(AnyOf(s))
  BY DEF AnyOf
<1>2. ExceededOf(R, stats, S) = (CHOOSE g : Drawn(g))[S]
  BY <1>0 DEF MapThenSumSet, MapThenFoldSet, AnyOf
<1>3. DOMAIN f = S
  OBVIOUS
<1> HIDE DEF f
<1>4. SumFunction(f) = (CHOOSE g : Is(g))[S]
  BY <1>3 DEF SumFunction, SumFunctionOnSet, FoldFunctionOnSet, MapThenFoldSet, AnyOf
<1>5. \A g : Drawn(g) <=> Is(g)
  BY <1>1
<1> HIDE DEF Drawn, Is
<1>6. (CHOOSE g : Drawn(g)) = (CHOOSE g : Is(g))
  BY <1>5
<1> QED BY <1>2, <1>4, <1>6 DEF f, OverHours

LEMMA ExceededIsNumber ==
    ASSUME NEW R, IsFiniteSet(R), NEW stats, NEW S, IsFiniteSet(S)
    PROVE  ExceededOf(R, stats, S) \in Int
<1> DEFINE f == [m \in S |-> MetricSummary(R, m, stats).over_limit_hours]
<1>1. f \in [S -> Int]
  <2>1. ASSUME NEW m PROVE MetricSummary(R, m, stats).over_limit_hours \in Int
    <3>1. MetricSummary(R, m, stats).over_limit_hours = Cardinality({r \in R : OverLimit(r, m, stats)})
      BY DEF MetricSummary
    <3>2. IsFiniteSet({r \in R : OverLimit(r, m, stats)})
      BY FS_Subset
    <3> QED BY <3>1, <3>2, FS_CardinalityType
  <2> QED BY <2>1
<1>2. ExceededOf(R, stats, S) = SumFunction(f)
  BY ExceededIsSum
<1> HIDE DEF f
<1> QED BY <1>1, <1>2, SumIsNumber

\* What a report says of a device, from its rows of each month.
FiguresOf(d, month) == LocationFigures(d, ReportRows(d, month), thresholds[d], month)
SummaryOf(d, month, m) == MetricSummary(MonthRows(d, month), m, thresholds[d])

LEMMA FiguresAreOfMonths ==
    ASSUME StoredInv, NEW d \in Devices, NEW month, IsMonth(month), MonthIndex(month) >= 25
    PROVE  /\ FiguresOf(d, month).device_id = d
           /\ FiguresOf(d, month).hours_with_data = Cardinality(MonthRows(d, month))
           /\ \A m \in Recorded :
                /\ FiguresOf(d, month).metrics[m].current = SummaryOf(d, month, m)
                /\ FiguresOf(d, month).metrics[m]["previous"] = SummaryOf(d, ShiftMonth(month, -1), m)
                /\ FiguresOf(d, month).metrics[m]["year_ago"] = SummaryOf(d, ShiftMonth(month, -12), m)
<1>1. PICK R : R = ReportRows(d, month)
  OBVIOUS
<1>2. /\ InPeriod(R, MonthBounds(month)) = MonthRows(d, month)
      /\ InPeriod(R, MonthBounds(ShiftMonth(month, -1))) = MonthRows(d, ShiftMonth(month, -1))
      /\ InPeriod(R, MonthBounds(ShiftMonth(month, -12))) = MonthRows(d, ShiftMonth(month, -12))
  BY <1>1, PeriodRows
<1>3. PICK F : F = FiguresOf(d, month)
  OBVIOUS
<1>4. /\ F.device_id = d
      /\ F.hours_with_data = Cardinality(InPeriod(R, MonthBounds(month)))
      /\ \A m \in Recorded :
            /\ F.metrics[m].current = MetricSummary(InPeriod(R, MonthBounds(month)), m, thresholds[d])
            /\ F.metrics[m]["previous"]
                    = MetricSummary(InPeriod(R, MonthBounds(ShiftMonth(month, -1))), m, thresholds[d])
            /\ F.metrics[m]["year_ago"]
                    = MetricSummary(InPeriod(R, MonthBounds(ShiftMonth(month, -12))), m, thresholds[d])
  BY <1>1, <1>3 DEF FiguresOf, LocationFigures, Periods
<1> QED BY <1>2, <1>3, <1>4 DEF SummaryOf

\* The key a device is ranked by is made of numbers.
LEMMA RankKeyIsNumbers ==
    ASSUME StoredInv, NEW d \in Devices, NEW month, IsMonth(month), MonthIndex(month) >= 25
    PROVE  RankKey(FiguresOf(d, month)) \in Int \X Int \X Int
<1>1. PICK R : R = MonthRows(d, month) /\ IsFiniteSet(R)
  <2>1. IsFiniteSet(RowsOf(d))
    BY TableRows DEF OwnRows, RowsOf
  <2>2. MonthRows(d, month) \in SUBSET RowsOf(d)
    BY DEF MonthRows
  <2> QED BY <2>1, <2>2, FS_Subset
<1>2. InPeriod(ReportRows(d, month), MonthBounds(month)) = R
  BY <1>1, PeriodRows
<1>3. PICK F : F = FiguresOf(d, month)
  OBVIOUS
<1>4. /\ F.device_id = d
      /\ F.out_of_range_hours = HoursAnyOutOfRange(R, thresholds[d])
      /\ F.over_limit_hours = ExceededOf(R, thresholds[d], Recorded \cap CeilingMetrics)
  <2>1. F.device_id = d
    BY <1>3 DEF FiguresOf, LocationFigures
  <2>2. F.out_of_range_hours
            = HoursAnyOutOfRange(InPeriod(ReportRows(d, month), MonthBounds(month)), thresholds[d])
    BY <1>3 DEF FiguresOf, LocationFigures, Periods
  <2>3. F.over_limit_hours
            = ExceededOf(InPeriod(ReportRows(d, month), MonthBounds(Periods(month)["current"])), thresholds[d],
                         Recorded \cap CeilingMetrics)
    <3> DEFINE by_period == [k \in DOMAIN Periods(month) |->
                                InPeriod(ReportRows(d, month), MonthBounds(Periods(month)[k]))]
               OverHours(rows, m) == MetricSummary(rows, m, thresholds[d]).over_limit_hours
    <3>1. F.over_limit_hours
            = MapThenSumSet(LAMBDA m : OverHours(by_period["current"], m), Recorded \cap CeilingMetrics)
      BY <1>3 DEF FiguresOf, LocationFigures
    <3>2. "current" \in DOMAIN Periods(month)
      BY DEF Periods
    <3>3. by_period["current"] = InPeriod(ReportRows(d, month), MonthBounds(Periods(month)["current"]))
      BY <3>2
    <3>4. PICK B : B = by_period["current"]
      OBVIOUS
    <3> HIDE DEF by_period
    <3>5. F.over_limit_hours = MapThenSumSet(LAMBDA m : OverHours(B, m), Recorded \cap CeilingMetrics)
      BY <3>1, <3>4
    <3>6. F.over_limit_hours = ExceededOf(B, thresholds[d], Recorded \cap CeilingMetrics)
      BY <3>5 DEF ExceededOf
    <3> QED BY <3>3, <3>4, <3>6
  <2>4. Periods(month)["current"] = month
    BY DEF Periods
  <2> QED BY <1>2, <2>1, <2>2, <2>3, <2>4
<1>5. F.out_of_range_hours \in Int
  <2>1. PICK H : H = {h[1] : h \in OutOfRangeHours(R, thresholds[d])}
    OBVIOUS
  <2>2. H \in SUBSET R
    BY <2>1 DEF OutOfRangeHours
  <2>3. Cardinality(H) \in Nat
    BY <1>1, <2>2, FS_Subset, FS_CardinalityType
  <2> QED BY <1>4, <2>1, <2>3 DEF HoursAnyOutOfRange
<1>6. F.over_limit_hours \in Int
  <2>1. IsFiniteSet(Recorded \cap CeilingMetrics)
    <3>1. IsFiniteSet({"co"}) /\ IsFiniteSet({"smoke"}) /\ IsFiniteSet({"lpg"})
      BY FS_Singleton
    <3>2. IsFiniteSet(({"co"} \cup {"smoke"}) \cup {"lpg"})
      BY <3>1, FS_Union
    <3>3. CeilingMetrics = ({"co"} \cup {"smoke"}) \cup {"lpg"}
      BY DEF CeilingMetrics
    <3>4. Recorded \cap CeilingMetrics \in SUBSET CeilingMetrics
      OBVIOUS
    <3> QED BY <3>2, <3>3, <3>4, FS_Subset
  <2> QED BY <1>1, <1>4, <2>1, ExceededIsNumber
<1>7. PlaceOf(Locations, d) \in Int
  <2>1. \E i \in DOMAIN Locations : Locations[i] = d
    BY ReportsAssumption
  <2>2. DOMAIN Locations \subseteq Int
    BY ReportsAssumption
  <2> QED BY <2>1, <2>2 DEF PlaceOf
<1>8. PICK a \in Int, b \in Int, c \in Int :
        a = F.out_of_range_hours /\ b = F.over_limit_hours /\ c = PlaceOf(Locations, F.device_id)
  BY <1>4, <1>5, <1>6, <1>7
<1>9. RankKey(F) = <<-a, -b, c>>
  BY <1>8 DEF RankKey
<1>10. -a \in Int /\ -b \in Int
  BY <1>8
<1>11. <<-a, -b, c>> \in Int \X Int \X Int
  BY <1>8, <1>10
<1> QED BY <1>3, <1>9, <1>11

\* A report has each device once or more, and no other.
LEMMA ReportHasDevices ==
    ASSUME StoredInv, NEW month, IsMonth(month), MonthIndex(month) >= 25
    PROVE  LET report == Monthly(tables["1h"], thresholds, month)
           IN  /\ report.month = month
               /\ \A f \in Range(report.ranking) : \E d \in Devices : f = FiguresOf(d, month)
               /\ \A d \in Devices : FiguresOf(d, month) \in Range(report.ranking)
<1>1. PICK n \in Nat : n = Len(Locations) /\ DOMAIN Locations = 1 .. n
  BY ReportsAssumption
<1>2. \A i \in 1 .. n : Locations[i] \in Devices
  BY <1>1, ReportsAssumption
<1>3. \A d \in Devices : \E i \in 1 .. n : Locations[i] = d
  BY <1>1, ReportsAssumption
<1> DEFINE report  == Monthly(tables["1h"], thresholds, month)
           figures == [i \in 1 .. n |-> FiguresOf(Locations[i], month)]
           keys    == [i \in 1 .. n |-> RankKey(figures[i])]
<1>4. report.month = month /\ report.ranking = [k \in DOMAIN figures |-> figures[LexOrder(keys)[k]]]
  <2> DEFINE read == [d \in Devices |->
                        HourlyBetween(tables["1h"], d, MonthBounds(ShiftMonth(month, -12))[1],
                                                       MonthBounds(ShiftMonth(month, -12))[2])
                            \cup HourlyBetween(tables["1h"], d, MonthBounds(ShiftMonth(month, -1))[1],
                                                               MonthBounds(month)[2])]
             told == [i \in DOMAIN Locations |->
                        LocationFigures(Locations[i], read[Locations[i]], thresholds[Locations[i]], month)]
  <2>1. report = MonthlyReport(month, read, thresholds)
    BY DEF Monthly
  <2>2. /\ MonthlyReport(month, read, thresholds).month = month
        /\ MonthlyReport(month, read, thresholds).ranking
                = [k \in DOMAIN told |-> told[LexOrder([i \in DOMAIN told |-> RankKey(told[i])])[k]]]
    <3> HIDE DEF read
    <3> QED BY Zenon DEF MonthlyReport
  <2>3. \A d \in Devices : read[d] = ReportRows(d, month)
    BY DEF ReportRows
  <2> HIDE DEF read
  <2>4. told = figures
    BY <1>1, <1>2, <2>3 DEF FiguresOf
  <2>5. DOMAIN figures = 1 .. n
    OBVIOUS
  <2> HIDE DEF told, figures
  <2> QED BY <2>1, <2>2, <2>4, <2>5
<1>5. keys \in [1 .. n -> Int \X Int \X Int]
  <2>1. \A i \in 1 .. n : RankKey(FiguresOf(Locations[i], month)) \in Int \X Int \X Int
    BY <1>2, RankKeyIsNumbers
  <2> QED BY <2>1
<1> HIDE DEF report, keys
<1>6. PICK order : order = LexOrder(keys)
  OBVIOUS
<1>7. order \in [1 .. n -> 1 .. n] /\ \A i \in 1 .. n : \E k \in 1 .. n : order[k] = i
  <2>1. PICK given : given = keys
    OBVIOUS
  <2>2. given \in [1 .. n -> Int \X Int \X Int] /\ order = LexOrder(given)
    BY <1>5, <1>6, <2>1
  <2>3. /\ LexOrder(given) \in [1 .. n -> 1 .. n]
        /\ \A i \in 1 .. n : \E k \in 1 .. n : LexOrder(given)[k] = i
    BY <2>2, LexOrderSorts
  <2> QED BY <2>2, <2>3
<1>8. report.ranking = [k \in 1 .. n |-> FiguresOf(Locations[order[k]], month)]
  BY <1>4, <1>6, <1>7
<1>9. Range(report.ranking) = {FiguresOf(Locations[order[k]], month) : k \in 1 .. n}
  BY <1>8 DEF Range
<1>10. ASSUME NEW d \in Devices PROVE FiguresOf(d, month) \in Range(report.ranking)
  <2>1. PICK i \in 1 .. n : Locations[i] = d
    BY <1>3
  <2>2. PICK k \in 1 .. n : order[k] = i
    BY <1>7
  <2> QED BY <1>9, <2>1, <2>2
<1>11. ASSUME NEW f \in Range(report.ranking) PROVE \E d \in Devices : f = FiguresOf(d, month)
  <2>1. PICK k \in 1 .. n : f = FiguresOf(Locations[order[k]], month)
    BY <1>9
  <2>2. Locations[order[k]] \in Devices
    BY <1>2, <1>7
  <2> QED BY <2>1, <2>2
<1> QED BY <1>4, <1>10, <1>11 DEF report

\* A monthly report says of a month what its readings say.
LEMMA MonthlyHolds == StoredInv /\ AveragesAreWhole => MonthlyIsExact
<1> SUFFICES ASSUME StoredInv, AveragesAreWhole, NEW month \in Months
             PROVE  \A f \in Range(Monthly(tables["1h"], thresholds, month).ranking) :
                        LET mine == {s \in SamplesOf(f.device_id) : LocalMonth(HourStart(s)) = month}
                        IN  /\ f.hours_with_data = Cardinality({HourStart(s) : s \in mine})
                            /\ mine # {} => \A m \in Recorded :
                                /\ f.metrics[m].current.average
                                        = Total(LAMBDA s : s.values[m], mine) \div Cardinality(mine)
                                /\ f.metrics[m].current.peak = Max({s.values[m] : s \in mine})
  BY DEF MonthlyIsExact
<1>1. IsMonth(month) /\ MonthIndex(month) \in Nat /\ MonthIndex(month) >= 25
  BY ReportMonths, MonthNumbers
<1> SUFFICES ASSUME NEW d \in Devices
             PROVE  LET f    == FiguresOf(d, month)
                        mine == MonthSamples(d, month)
                    IN  /\ f.device_id = d /\ f.hours_with_data = Cardinality({HourStart(s) : s \in mine})
                        /\ mine # {} => \A m \in Recorded :
                            /\ f.metrics[m].current.average = ValuesOf(mine, m) \div Cardinality(mine)
                            /\ f.metrics[m].current.peak = Max({s.values[m] : s \in mine})
  <2> TAKE f \in Range(Monthly(tables["1h"], thresholds, month).ranking)
  <2>1. PICK d \in Devices : f = FiguresOf(d, month)
    BY <1>1, ReportHasDevices
  <2>2. /\ f.device_id = d
        /\ f.hours_with_data = Cardinality({HourStart(s) : s \in MonthSamples(d, month)})
        /\ MonthSamples(d, month) # {} => \A m \in Recorded :
            /\ f.metrics[m].current.average
                    = ValuesOf(MonthSamples(d, month), m) \div Cardinality(MonthSamples(d, month))
            /\ f.metrics[m].current.peak = Max({s.values[m] : s \in MonthSamples(d, month)})
    BY <2>1
  <2> DEFINE mine == {s \in SamplesOf(f.device_id) : LocalMonth(HourStart(s)) = month}
  <2>3. mine = MonthSamples(d, month)
    BY <2>2 DEF MonthSamples
  <2> HIDE DEF mine
  <2>4. f.hours_with_data = Cardinality({HourStart(s) : s \in mine})
    BY <2>2, <2>3
  <2>5. ASSUME mine # {}, NEW m \in Recorded
        PROVE  /\ f.metrics[m].current.average
                        = Total(LAMBDA s : s.values[m], mine) \div Cardinality(mine)
               /\ f.metrics[m].current.peak = Max({s.values[m] : s \in mine})
    <3>1. Total(LAMBDA s : s.values[m], mine) = ValuesOf(mine, m)
      BY DEF Total, ValuesOf
    <3>2. /\ f.metrics[m].current.average = ValuesOf(mine, m) \div Cardinality(mine)
          /\ f.metrics[m].current.peak = Max({s.values[m] : s \in mine})
      BY <2>2, <2>3, <2>5
    <3> QED BY <3>1, <3>2
  <2> QED BY Zenon, <2>4, <2>5 DEF mine
<1>2. PICK R, W : R = MonthRows(d, month) /\ W = MonthSamples(d, month)
  OBVIOUS
<1>3. RowsFor(R, W, d)
  BY <1>2, MonthIsRows
<1>4. PICK F : F = FiguresOf(d, month)
  OBVIOUS
<1>5. /\ F.device_id = d /\ F.hours_with_data = Cardinality(R)
      /\ \A m \in Recorded : F.metrics[m].current = MetricSummary(R, m, thresholds[d])
  BY <1>1, <1>2, <1>4, FiguresAreOfMonths DEF SummaryOf
<1>6. Cardinality(R) = Cardinality({HourStart(s) : s \in W})
  BY <1>3, RowsAreHours
<1>7. ASSUME W # {}, NEW m \in Recorded
      PROVE  /\ F.metrics[m].current.average = ValuesOf(W, m) \div Cardinality(W)
             /\ F.metrics[m].current.peak = Max({s.values[m] : s \in W})
  <2>1. R # {}
    BY <1>3, <1>7, RowsOfSamples
  <2>2. /\ MetricSummary(R, m, thresholds[d]).average = WeightedOf(R, m) \div WeightOf(R)
        /\ MetricSummary(R, m, thresholds[d]).peak = Max({r.max[m] : r \in R})
    BY <2>1 DEF MetricSummary, WeightedOf, WeightOf
  <2>3. WeightOf(R) = Cardinality(W) /\ WeightedOf(R, m) = ValuesOf(W, m)
    BY <1>3, RowsAddUp
  <2>4. Max({r.max[m] : r \in R}) = Max({s.values[m] : s \in W})
    BY <1>3, <1>7, RowsReach
  <2> QED BY <1>5, <2>2, <2>3, <2>4
<1> QED BY <1>2, <1>4, <1>5, <1>6, <1>7

\* The columns a month is compared with are the reports of the earlier months.
LEMMA ChainHolds == StoredInv => ReportsChain
<1> DEFINE Told  == {ShiftMonth(month, k) : month \in Months, k \in {-12, -1, 0}}
           Of(month) == Monthly(tables["1h"], thresholds, month)
           Chained(told, earlier, column) ==
              \A f \in Range(told.ranking) : \E g \in Range(earlier.ranking) :
                /\ f.device_id = g.device_id
                /\ \A m \in Recorded : f.metrics[m][column] = g.metrics[m].current
<1> SUFFICES ASSUME StoredInv, NEW M \in Told, NEW N \in Told
             PROVE  /\ Of(N).month = ShiftMonth(Of(M).month, -1)  => Chained(Of(M), Of(N), "previous")
                    /\ Of(N).month = ShiftMonth(Of(M).month, -12) => Chained(Of(M), Of(N), "year_ago")
  <2>1. ReportsChain <=> \A told \in {Of(month) : month \in Told} : \A earlier \in {Of(month) : month \in Told} :
            /\ earlier.month = ShiftMonth(told.month, -1)  => Chained(told, earlier, "previous")
            /\ earlier.month = ShiftMonth(told.month, -12) => Chained(told, earlier, "year_ago")
    BY DEF ReportsChain
  <2> HIDE DEF Of, Told, Chained
  <2> QED BY <2>1
<1>1. ASSUME NEW P \in Told PROVE IsMonth(P) /\ MonthIndex(P) \in Nat /\ MonthIndex(P) >= 25
  <2>1. PICK month \in Months, k \in {-12, -1, 0} : P = ShiftMonth(month, k)
    OBVIOUS
  <2>2. IsMonth(month) /\ MonthIndex(month) \in Nat /\ MonthIndex(month) >= 37
    BY ReportMonths, MonthNumbers
  <2>3. k \in Int /\ MonthIndex(month) + k >= 25
    BY <2>2
  <2> QED BY <2>1, <2>2, <2>3, Shifting
<1>2. /\ IsMonth(M) /\ MonthIndex(M) >= 25 /\ IsMonth(N) /\ MonthIndex(N) >= 25
  BY <1>1
<1> HIDE DEF Told
<1>3. /\ Of(M).month = M /\ Of(N).month = N
      /\ \A f \in Range(Of(M).ranking) : \E d \in Devices : f = FiguresOf(d, M)
      /\ \A d \in Devices : FiguresOf(d, N) \in Range(Of(N).ranking)
  BY <1>2, ReportHasDevices
<1>4. ASSUME NEW d \in Devices
      PROVE  /\ FiguresOf(d, M).device_id = d /\ FiguresOf(d, N).device_id = d
             /\ \A m \in Recorded :
                /\ FiguresOf(d, N).metrics[m].current = SummaryOf(d, N, m)
                /\ FiguresOf(d, M).metrics[m]["previous"] = SummaryOf(d, ShiftMonth(M, -1), m)
                /\ FiguresOf(d, M).metrics[m]["year_ago"] = SummaryOf(d, ShiftMonth(M, -12), m)
  BY <1>2, FiguresAreOfMonths
<1> HIDE DEF Of
<1>5. ASSUME N = ShiftMonth(M, -1) PROVE Chained(Of(M), Of(N), "previous")
  <2> SUFFICES ASSUME NEW f \in Range(Of(M).ranking)
               PROVE  \E g \in Range(Of(N).ranking) :
                        /\ f.device_id = g.device_id
                        /\ \A m \in Recorded : f.metrics[m]["previous"] = g.metrics[m].current
    OBVIOUS
  <2>1. PICK d \in Devices : f = FiguresOf(d, M)
    BY <1>3
  <2>2. FiguresOf(d, N) \in Range(Of(N).ranking)
    BY <1>3
  <2> QED BY <1>4, <1>5, <2>1, <2>2
<1>6. ASSUME N = ShiftMonth(M, -12) PROVE Chained(Of(M), Of(N), "year_ago")
  <2> SUFFICES ASSUME NEW f \in Range(Of(M).ranking)
               PROVE  \E g \in Range(Of(N).ranking) :
                        /\ f.device_id = g.device_id
                        /\ \A m \in Recorded : f.metrics[m]["year_ago"] = g.metrics[m].current
    OBVIOUS
  <2>1. PICK d \in Devices : f = FiguresOf(d, M)
    BY <1>3
  <2>2. FiguresOf(d, N) \in Range(Of(N).ranking)
    BY <1>3
  <2> QED BY <1>4, <1>6, <2>1, <2>2
<1> QED BY <1>3, <1>5, <1>6

\* The derived past begins so long before its end that the look-back of each
\* overlay lies in it, as its 770 days do (history_backfill.py:89).
LongHistory == \E t \in DerivedAt : Midnight(DayOf(t)) <= Anchor - 768 * HalfHoursADay

LEMMA HistoryCovers ==
    ASSUME StoredInv, LongHistory, derived # {}
    PROVE  HistoryStart \in Int /\ HistoryStart # None /\ HistoryStart <= Now - 768 * HalfHoursADay
<1>1. PICK t \in DerivedAt : Midnight(DayOf(t)) <= Anchor - 768 * HalfHoursADay
  BY DEF LongHistory
<1>2. PICK T : T = DerivedAt
  OBVIOUS
<1>3. Min(T) \in T /\ \A u \in T : Min(T) <= u
  <2>1. T # {} /\ T \subseteq Int /\ IsFiniteSet(T)
    BY <1>1, <1>2, ObservationsAssumption
  <2> QED BY <2>1, Extremes
<1>4. PICK first \in Nat, given \in Nat : first = Min(DerivedAt) /\ given = t /\ first <= given
  BY <1>2, <1>3, ObservationsAssumption
<1>5. HistoryStart = 48 * (first \div 48) /\ Midnight(DayOf(t)) = 48 * (given \div 48)
  BY <1>4 DEF HistoryStart, Midnight, DayOf, HalfHoursADay
<1>6. first \div 48 <= given \div 48 /\ first \div 48 \in Int /\ given \div 48 \in Int
  BY <1>4
<1>7. PICK present \in Nat, anchor \in Nat : present = Now /\ anchor = Anchor /\ anchor <= present
  BY NowIsLate DEF StoredInv
<1>8. 48 * (given \div 48) <= anchor - 768 * 48
  BY <1>1, <1>5, <1>7 DEF HalfHoursADay
<1>9. 48 * (first \div 48) \in Int /\ 48 * (first \div 48) <= present - 768 * 48
  BY <1>6, <1>7, <1>8
<1>10. None \notin Int
  BY EnvironmentAssumption
<1> QED BY <1>5, <1>7, <1>9, <1>10 DEF HalfHoursADay

\* An overlay that is read from the partitions has every reading of its period.
LEMMA OverlayHolds == StoredInv /\ LongHistory => CompareSeesHistory
<1> DEFINE metric       == CHOOSE m \in Recorded : TRUE
           Earlier(g)   == Now - CompareOffsetHours[g] * Hour
           Overlay(d, g) == BuildCompare(tables, derived, {s.at : s \in live}, HistoryStart,
                                         d, metric, thresholds[d][metric], g, Now)
           Shown(d, g)  == Total(LAMBDA p : p.event_count, Overlay(d, g).points)
           Due(d, g)    == {s \in SamplesOf(d) :
                                HourStart(s) >= Earlier(g) - LookbackHours[g] * Hour
                                    /\ HourStart(s) <= Earlier(g)}
<1>1. (derived # {} => \A d \in Devices : \A g \in Granularities \ {"1m"} :
                            Shown(d, g) = Cardinality(Due(d, g)))
          => CompareSeesHistory
  BY Zenon DEF CompareSeesHistory
<1>2. \A d, g : Shown(d, g) = EventsOf(Overlay(d, g).points)
  BY DEF Total, EventsOf
<1>3. ASSUME NEW d \in Devices, NEW g \in Granularities \ {"1m"} PROVE Due(d, g) = Asked(d, g, Earlier(g))
  <2>1. SourceTable(g) = "1h"
    BY DEF SourceTable, RollupGranularities, Granularities
  <2> HIDE DEF Earlier
  <2> QED BY <2>1 DEF Asked, Stored, StartOf, WidthOf, SamplesOf, HourStart
<1>4. ASSUME StoredInv, LongHistory, derived # {}, NEW d \in Devices, NEW g \in Granularities \ {"1m"}
      PROVE  EventsOf(Overlay(d, g).points) = Cardinality(Asked(d, g, Earlier(g)))
  <2>1. PICK upto, m, stats : upto = Earlier(g) /\ m = metric /\ stats = thresholds[d][metric]
    OBVIOUS
  <2>2. Reached(g, upto)
    BY <1>4, <2>1, TimesReached
  <2>3. EventsOf(SensorTimeline(tables, d, m, stats, g, upto)) = Cardinality(Asked(d, g, upto))
    BY <1>4, <2>2, ChartCounts
  <2>4. StoredHistoryCovers(upto - LookbackHours[g] * Hour, HistoryStart, {s.at : s \in live})
    <3>1. PICK start \in Int : start = upto - LookbackHours[g] * Hour /\ start >= Now - 768 * HalfHoursADay
      BY <1>4, <2>1, TimesReached DEF Hour
    <3>2. PICK since \in Int : since = HistoryStart /\ since # None /\ since <= Now - 768 * HalfHoursADay
      BY <1>4, HistoryCovers
    <3>3. Now - 768 * HalfHoursADay \in Int
      BY <1>4, TimesReached DEF HalfHoursADay
    <3>4. since <= start
      BY <3>1, <3>2, <3>3
    <3> QED BY <3>1, <3>2, <3>4 DEF StoredHistoryCovers
  <2>5. Overlay(d, g).points = SensorTimeline(tables, d, m, stats, g, upto)
    BY <2>1, <2>4 DEF BuildCompare
  <2> QED BY <2>1, <2>3, <2>5
<1> HIDE DEF metric, Earlier, Overlay, Shown, Due
<1> QED BY <1>1, <1>2, <1>3, <1>4

\* In every stored state whose hours have whole averages, a monthly report says of
\* each month what its readings say and a roll-up says the same from either
\* granularity; and a month is always compared with what the earlier months' own
\* reports say.
THEOREM ReportsHold ==
    StoredSpec => []((AveragesAreWhole => MonthlyIsExact /\ RollupIsExact) /\ ReportsChain)
<1>1. StoredInv => (AveragesAreWhole => MonthlyIsExact /\ RollupIsExact) /\ ReportsChain
  BY MonthlyHolds, ChainHolds, RollupsHold
<1> QED BY <1>1, StoredHolds, PTL

\* With a derived past as long as the Job's, the overlays too say of their period
\* what its readings say.
THEOREM FiguresHold ==
    ASSUME LongHistory
    PROVE  StoredSpec => [](AveragesAreWhole => FiguresAreExact)
<1>1. StoredInv => (AveragesAreWhole => FiguresAreExact)
  BY MonthlyHolds, ChainHolds, RollupsHold, OverlayHolds DEF FiguresAreExact
<1> QED BY <1>1, StoredHolds, PTL
=============================================================================
