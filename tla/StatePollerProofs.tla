-------------------------- MODULE StatePollerProofs --------------------------
(***************************************************************************)
(* What the state poller's snapshots keep true, for any partitions, any    *)
(* number of events and outages, and what its followers rely on.           *)
(*                                                                         *)
(* PollerInv is not inductive.  That a lag is not understated rests on the *)
(* order of the reads: whatever Spark answered, now or before it went      *)
(* away, is at or before what the query has consumed (NotAhead), and the   *)
(* broker is asked after that answer is adopted (LagOK).  That an echo is  *)
(* marked rests on an answer of this poll being one of a producer that was *)
(* up during it (AnswersOK).                                               *)
(***************************************************************************)
EXTENDS StatePoller, FiniteSetTheorems, WellFoundedInduction, TLAPS

-----------------------------------------------------------------------------
(* Sums of functions over finite sets *)

\* Every set of naturals that is not empty has a least member.
LEMMA LeastNat ==
    ASSUME NEW T \in SUBSET Nat, T # {}
    PROVE  \E x \in T : \A y \in T : x <= y
<1> DEFINE Below == {0 .. x : x \in T}
<1>1. Below \subseteq FiniteSubsetsOf(Nat)
  <2>1. ASSUME NEW x \in T PROVE 0 .. x \in SUBSET Nat /\ IsFiniteSet(0 .. x)
    BY FS_Interval
  <2> QED BY <2>1 DEF FiniteSubsetsOf
<1>0. Below # {}
  OBVIOUS
<1>2. PICK I \in Below : \A J \in Below : ~(<<J, I>> \in StrictSubsetOrdering(Nat))
  BY <1>0, <1>1, FS_StrictSubsetOrderingWellFounded, WFMin
<1>3. PICK x \in T : I = 0 .. x
  OBVIOUS
<1>4. ASSUME NEW y \in T, y < x PROVE FALSE
  <2>1. 0 .. y \subseteq 0 .. x /\ 0 .. y # 0 .. x
    BY <1>4
  <2>2. <<0 .. y, 0 .. x>> \in StrictSubsetOrdering(Nat)
    BY <2>1 DEF StrictSubsetOrdering
  <2>3. 0 .. y \in Below
    OBVIOUS
  <2> QED BY <1>2, <1>3, <2>2, <2>3
<1> QED BY <1>4

\* A member that a set is taken apart at.
Pick(s) == CHOOSE x \in s : TRUE

\* g gives, for the sets in D, the sums of f over them.
IsSum(g, f, D) == g = [s \in D |-> IF s = {} THEN 0 ELSE f[Pick(s)] + g[s \ {Pick(s)}]]

LEMMA LessOne ==
    ASSUME NEW s, IsFiniteSet(s), s # {}
    PROVE  /\ Pick(s) \in s /\ IsFiniteSet(s \ {Pick(s)})
           /\ Cardinality(s) \in Nat \ {0} /\ Cardinality(s \ {Pick(s)}) = Cardinality(s) - 1
<1>1. Pick(s) \in s
  BY DEF Pick
<1>2. Cardinality(s) \in Nat /\ Cardinality(s) # 0
  BY FS_CardinalityType, FS_EmptySet
<1>3. IsFiniteSet(s \ {Pick(s)}) /\ Cardinality(s \ {Pick(s)}) = Cardinality(s) - 1
  BY <1>1, FS_RemoveElement
<1> QED BY <1>1, <1>2, <1>3

LEMMA SumExists ==
    ASSUME NEW S, IsFiniteSet(S), NEW f
    PROVE  \E g : IsSum(g, f, SUBSET S)
<1> DEFINE D(n) == {s \in SUBSET S : Cardinality(s) <= n}
           Bad  == {n \in Nat : ~\E g : IsSum(g, f, D(n))}
<1>0. \A s \in SUBSET S : IsFiniteSet(s) /\ Cardinality(s) \in Nat
  BY FS_Subset, FS_CardinalityType
<1>1. \E g : IsSum(g, f, D(0))
  <2>1. ASSUME NEW s \in D(0) PROVE s = {}
    <3>1. IsFiniteSet(s) /\ Cardinality(s) \in Nat /\ Cardinality(s) <= 0
      BY <1>0
    <3>2. ~(Cardinality(s) \in Nat \ {0})
      BY <3>1
    <3> QED BY <3>1, <3>2, LessOne
  <2>2. IsSum([s \in D(0) |-> 0], f, D(0))
    BY <2>1 DEF IsSum
  <2> QED BY <2>2
<1>2. ASSUME NEW n \in Nat, NEW g, IsSum(g, f, D(n)) PROVE \E h : IsSum(h, f, D(n + 1))
  <2> DEFINE h == [s \in D(n + 1) |-> IF s = {} THEN 0 ELSE f[Pick(s)] + g[s \ {Pick(s)}]]
  <2>1. ASSUME NEW s \in D(n + 1), s # {} PROVE s \ {Pick(s)} \in D(n) /\ s \ {Pick(s)} \in D(n + 1)
    BY <1>0, <2>1, LessOne
  <2>2. \A s \in D(n) : g[s] = IF s = {} THEN 0 ELSE f[Pick(s)] + g[s \ {Pick(s)}]
    BY <1>2 DEF IsSum
  <2>3. \A s \in D(n) : s \in D(n + 1) /\ h[s] = g[s]
    <3>1. \A s \in D(n) : s \in D(n + 1)
      BY <1>0
    <3> QED BY <2>2, <3>1
  <2>4. \A s \in D(n + 1) : h[s] = IF s = {} THEN 0 ELSE f[Pick(s)] + h[s \ {Pick(s)}]
    BY <2>1, <2>3
  <2>5. h = [s \in D(n + 1) |-> IF s = {} THEN 0 ELSE f[Pick(s)] + h[s \ {Pick(s)}]]
    <3> HIDE DEF D
    <3> QED BY <2>4
  <2> QED BY <2>5 DEF IsSum
<1>3. Bad = {}
  <2> SUFFICES ASSUME Bad # {} PROVE FALSE
    OBVIOUS
  <2>1. PICK m \in Bad : \A n \in Bad : m <= n
    <3>1. Bad \in SUBSET Nat
      OBVIOUS
    <3> QED BY <3>1, LeastNat
  <2>2. m # 0
    BY <1>1
  <2>3. PICK n \in Nat : n + 1 = m
    <3>1. m - 1 \in Nat /\ (m - 1) + 1 = m
      BY <2>2
    <3> QED BY <3>1
  <2>4. n \notin Bad
    <3>1. ~(m <= n)
      BY <2>3
    <3> QED BY <2>1, <3>1
  <2> QED BY <1>2, <2>3, <2>4
<1>4. D(Cardinality(S)) = SUBSET S
  <2>1. \A s \in SUBSET S : Cardinality(s) <= Cardinality(S)
    BY FS_Subset
  <2> QED BY <2>1
<1>5. Cardinality(S) \in Nat
  BY FS_CardinalityType
<1> QED BY <1>3, <1>4, <1>5

\* The two equations that say all there is to say about a sum.
SumsTo(g, f, S) ==
    /\ SumFunction(f) = g[S] /\ g[{}] = 0
    /\ \A s \in SUBSET S : s # {} => g[s] = f[Pick(s)] + g[s \ {Pick(s)}]

LEMMA SumIs ==
    ASSUME NEW S, IsFiniteSet(S), NEW f, DOMAIN f = S
    PROVE  \E g : SumsTo(g, f, S)
<1> DEFINE g == CHOOSE g : IsSum(g, f, SUBSET S)
<1>1. IsSum(g, f, SUBSET S)
  BY SumExists
<1>2. SumFunction(f) = g[S]
  BY DEF SumFunction, SumFunctionOnSet, FoldFunctionOnSet, MapThenFoldSet, IsSum, Pick
<1>3. \A s \in SUBSET S : g[s] = IF s = {} THEN 0 ELSE f[Pick(s)] + g[s \ {Pick(s)}]
  <2> HIDE DEF g
  <2> QED BY <1>1 DEF IsSum
<1> QED BY <1>2, <1>3 DEF SumsTo

\* What holds of the empty set, and of a set when it holds of the set less one
\* member, holds of all finite sets: the sets for which it fails have a least one.
LEMMA NoLeastBad ==
    ASSUME NEW S, IsFiniteSet(S), NEW B \in SUBSET SUBSET S, {} \notin B,
           \A s \in SUBSET S : s # {} /\ s \in B => s \ {Pick(s)} \in B
    PROVE  B = {}
<1> SUFFICES ASSUME B # {} PROVE FALSE
  OBVIOUS
<1>1. B \subseteq FiniteSubsetsOf(S)
  <2>1. \A s \in B : IsFiniteSet(s)
    BY FS_Subset
  <2> QED BY <2>1 DEF FiniteSubsetsOf
<1>2. PICK s \in B : \A t \in B : ~(<<t, s>> \in StrictSubsetOrdering(S))
  BY <1>1, FS_StrictSubsetOrderingWellFounded, WFMin
<1>3. s # {} /\ s \in SUBSET S
  OBVIOUS
<1>4. Pick(s) \in s
  BY <1>3 DEF Pick
<1>5. s \ {Pick(s)} \in B /\ <<s \ {Pick(s)}, s>> \in StrictSubsetOrdering(S)
  BY <1>3, <1>4 DEF StrictSubsetOrdering
<1> QED BY <1>2, <1>5

\* A sum of integers is one, and grows with its terms.
LEMMA SumLeq ==
    ASSUME NEW S, IsFiniteSet(S), NEW f \in [S -> Int], NEW h \in [S -> Int],
           \A x \in S : f[x] <= h[x]
    PROVE  /\ SumFunction(f) \in Int /\ SumFunction(h) \in Int
           /\ SumFunction(f) <= SumFunction(h)
<1>0. DOMAIN f = S /\ DOMAIN h = S
  OBVIOUS
<1>1. PICK g : SumsTo(g, f, S)
  BY <1>0, SumIs
<1>2. PICK k : SumsTo(k, h, S)
  BY <1>0, SumIs
<1> DEFINE Bad == {s \in SUBSET S : ~(g[s] \in Int /\ k[s] \in Int /\ g[s] <= k[s])}
<1>3. ASSUME NEW s \in SUBSET S, s # {}, s \ {Pick(s)} \notin Bad PROVE s \notin Bad
  <2>1. Pick(s) \in S
    BY <1>3 DEF Pick
  <2>2. PICK x \in S, t \in SUBSET S : x = Pick(s) /\ t = s \ {Pick(s)}
    BY <2>1
  <2>3. g[s] = f[x] + g[t] /\ k[s] = h[x] + k[t] /\ f[x] \in Int /\ h[x] \in Int /\ f[x] <= h[x]
    BY <1>1, <1>2, <1>3, <2>2 DEF SumsTo
  <2>4. g[t] \in Int /\ k[t] \in Int /\ g[t] <= k[t]
    BY <1>3, <2>2
  <2>5. g[s] \in Int /\ k[s] \in Int /\ g[s] <= k[s]
    BY <2>3, <2>4
  <2> QED BY <2>5
<1>4. {} \notin Bad
  BY <1>1, <1>2 DEF SumsTo
<1>5. Bad = {}
  <2> HIDE DEF Bad
  <2>1. Bad \in SUBSET SUBSET S
    BY DEF Bad
  <2> QED BY <1>3, <1>4, <2>1, NoLeastBad
<1> QED BY <1>1, <1>2, <1>5 DEF SumsTo

\* The sum of naturals up to c.
LEMMA SumBound ==
    ASSUME NEW S, IsFiniteSet(S), NEW c \in Nat, NEW f \in [S -> 0 .. c]
    PROVE  SumFunction(f) \in 0 .. Cardinality(S) * c
<1>0. DOMAIN f = S
  OBVIOUS
<1>1. PICK g : SumsTo(g, f, S)
  BY <1>0, SumIs
<1> DEFINE Bad == {s \in SUBSET S : g[s] \notin 0 .. Cardinality(s) * c}
<1>2. ASSUME NEW s \in SUBSET S, s # {}, s \ {Pick(s)} \notin Bad PROVE s \notin Bad
  <2>1. /\ Pick(s) \in S /\ Cardinality(s) \in Nat \ {0}
        /\ Cardinality(s \ {Pick(s)}) = Cardinality(s) - 1
    BY <1>2, LessOne, FS_Subset
  <2>2. PICK x \in S, t \in SUBSET S, n \in Nat, m \in Nat :
            /\ x = Pick(s) /\ t = s \ {Pick(s)}
            /\ n = Cardinality(t) /\ m = Cardinality(s) /\ m = n + 1
    BY <2>1
  <2>3. g[s] = f[x] + g[t] /\ f[x] \in 0 .. c /\ g[t] \in 0 .. n * c
    BY <1>1, <1>2, <2>2 DEF SumsTo
  <2>4. n * c \in Nat /\ m * c = n * c + c
    BY <2>2
  <2>5. g[s] \in 0 .. m * c
    BY <2>3, <2>4
  <2> QED BY <2>2, <2>5
<1>3. {} \notin Bad
  <2>1. Cardinality({}) = 0
    BY FS_EmptySet
  <2>2. 0 * c = 0
    OBVIOUS
  <2> QED BY <1>1, <2>1, <2>2 DEF SumsTo
<1>4. Bad = {}
  <2> HIDE DEF Bad
  <2>1. Bad \in SUBSET SUBSET S
    BY DEF Bad
  <2> QED BY <1>2, <1>3, <2>1, NoLeastBad
<1> QED BY <1>1, <1>4 DEF SumsTo

\* A sum changes as its one changed term does.
LEMMA SumChange ==
    ASSUME NEW S, IsFiniteSet(S), NEW f \in [S -> Int], NEW h \in [S -> Int], NEW d \in S,
           \A x \in S \ {d} : h[x] = f[x]
    PROVE  SumFunction(h) = SumFunction(f) + (h[d] - f[d])
<1>0. DOMAIN f = S /\ DOMAIN h = S
  OBVIOUS
<1>1. PICK g : SumsTo(g, f, S)
  BY <1>0, SumIs
<1>2. PICK k : SumsTo(k, h, S)
  BY <1>0, SumIs
<1> DEFINE by(s) == IF d \in s THEN h[d] - f[d] ELSE 0
           Bad == {s \in SUBSET S : ~(g[s] \in Int /\ k[s] = g[s] + by(s))}
<1>3. ASSUME NEW s \in SUBSET S, s # {}, s \ {Pick(s)} \notin Bad PROVE s \notin Bad
  <2>1. Pick(s) \in s
    BY <1>3 DEF Pick
  <2>2. PICK x \in s, t \in SUBSET S : x = Pick(s) /\ t = s \ {x}
    BY <2>1
  <2>3. g[s] = f[x] + g[t] /\ k[s] = h[x] + k[t] /\ f[x] \in Int /\ h[x] \in Int
    BY <1>1, <1>2, <1>3, <2>2 DEF SumsTo
  <2>4. g[t] \in Int /\ k[t] = g[t] + by(t)
    BY <1>3, <2>2
  <2>5. f[d] \in Int /\ h[d] \in Int
    OBVIOUS
  <2>6. CASE x = d
    <3>1. by(t) = 0 /\ by(s) = h[x] - f[x]
      BY <2>2, <2>6
    <3> QED BY <2>3, <2>4, <3>1
  <2>7. CASE x # d
    <3>1. by(t) = by(s) /\ h[x] = f[x] /\ by(s) \in Int
      BY <2>2, <2>5, <2>7
    <3> QED BY <2>3, <2>4, <3>1
  <2> QED BY <2>6, <2>7
<1>4. {} \notin Bad
  BY <1>1, <1>2 DEF SumsTo
<1>5. Bad = {}
  <2> HIDE DEF Bad
  <2>1. Bad \in SUBSET SUBSET S
    BY DEF Bad
  <2> QED BY <1>3, <1>4, <2>1, NoLeastBad
<1> QED BY <1>1, <1>2, <1>5 DEF SumsTo

-----------------------------------------------------------------------------
(* The invariant *)

Offsets == [Partitions -> 0 .. MaxEvents]

\* What has been reported is consumed, what is consumed was produced, and the
\* events of this run of the producer are among those the broker has.
PipelineOK ==
    /\ \A p \in Partitions : consumed[p] <= high[p]
    /\ progress # Nothing =>
          progress \in Offsets /\ \A p \in Partitions : progress[p] <= consumed[p]
    /\ sent \in Nat /\ sent <= SumFunction(high)

\* An answer of Spark's tells of no offset that is yet to be consumed.
NotAhead(spark) ==
    spark # Nothing /\ spark.queries # Nothing =>
        /\ spark.queries \in Offsets
        /\ \A p \in Partitions : spark.queries[p] <= consumed[p]

FastOK ==
    /\ fast = [step |-> fast.step, producer |-> fast.producer, spark |-> fast.spark,
               watermarks |-> fast.watermarks, rows |-> fast.rows]
    /\ fast.step = "fetch" => fast.watermarks = Pending
    /\ fast.step = "read" => fast.producer # Pending

AnswersOK ==
    /\ "producer" \in up => wasUp
    /\ fast.producer # Pending /\ fast.producer # Nothing => fast.producer \in Numbers /\ wasUp
    /\ lastProducer \in Numbers \cup {Nothing}
    /\ fast.spark # Pending => NotAhead(fast.spark)
    /\ NotAhead(lastSpark)

\* Once the broker has answered: the lag this poll is going to show.
LagOK ==
    fast.step = "read" /\ fast.watermarks # Pending =>
        /\ KafkaLag(fast.watermarks, lastSpark) \in Numbers \cup {Nothing}
        /\ \/ KafkaLag(fast.watermarks, lastSpark) = Nothing
           \/ KafkaLag(fast.watermarks, lastSpark) >= trueLag

\* A loop's copy is there until it is broadcast.
CopiesOK ==
    /\ snapshot \in [Loops -> Sections \cup {Nothing}]
    /\ outbox.fast = Nothing <=> fast.step # "broadcast"
    /\ outbox.deployment = Nothing <=> health.step # "broadcast"
    /\ health.seen \subseteq Services

\* The inductive invariant.
IInv == TypeOK /\ PipelineOK /\ FastOK /\ AnswersOK /\ LagOK /\ CopiesOK
            /\ LagIsNotUnderstated /\ EchoIsMarked

-----------------------------------------------------------------------------
(* The lag *)

LEMMA MaxOf ==
    ASSUME NEW n \in Int
    PROVE  Max({n, 0}) \in Nat /\ Max({n, 0}) >= n /\ (n <= MaxEvents => Max({n, 0}) <= MaxEvents)
<1>1. \E x \in {n, 0} : \A y \in {n, 0} : x >= y
  OBVIOUS
<1>2. Max({n, 0}) \in {n, 0} /\ \A y \in {n, 0} : Max({n, 0}) >= y
  BY <1>1 DEF Max
<1> QED BY <1>2, StatePollerAssumption

\* Seen with an answer that is not ahead, the lag is no less than it is.
LEMMA LagNotBelow ==
    ASSUME high \in Offsets, consumed \in Offsets, NEW spark, NotAhead(spark)
    PROVE  /\ KafkaLag(high, spark) \in Numbers \cup {Nothing}
           /\ KafkaLag(high, spark) = Nothing \/ KafkaLag(high, spark) >= QueryLag(consumed)
<1> SUFFICES ASSUME spark # Nothing, spark.queries # Nothing
             PROVE  KafkaLag(high, spark) \in Numbers /\ KafkaLag(high, spark) >= QueryLag(consumed)
  BY DEF KafkaLag
<1> DEFINE real  == [p \in Partitions |-> high[p] - consumed[p]]
           shown == [p \in Partitions |-> Max({high[p] - spark.queries[p], 0})]
<1>1. ASSUME NEW p \in Partitions
      PROVE  real[p] \in Int /\ shown[p] \in 0 .. MaxEvents /\ real[p] <= shown[p]
  <2>1. PICK h \in 0 .. MaxEvents, c \in 0 .. MaxEvents, r \in 0 .. MaxEvents :
            h = high[p] /\ c = consumed[p] /\ r = spark.queries[p] /\ r <= c
    BY DEF NotAhead, Offsets
  <2>2. h - r \in Int /\ h - r <= MaxEvents /\ h - c <= h - r
    BY <2>1, StatePollerAssumption
  <2>3. /\ Max({h - r, 0}) \in Nat /\ Max({h - r, 0}) >= h - r
        /\ Max({h - r, 0}) <= MaxEvents
    BY <2>2, MaxOf
  <2>4. real[p] = h - c /\ shown[p] = Max({h - r, 0})
    BY <2>1
  <2>5. h - c \in Int /\ h - c <= Max({h - r, 0})
    BY <2>1, <2>2, <2>3
  <2> QED BY <2>3, <2>4, <2>5, StatePollerAssumption
<1>2. shown \in [Partitions -> 0 .. MaxEvents] /\ shown \in [Partitions -> Int]
      /\ real \in [Partitions -> Int]
  <2> HIDE DEF real, shown
  <2>1. DOMAIN real = Partitions /\ DOMAIN shown = Partitions
    BY DEF real, shown
  <2>2. real = [p \in Partitions |-> real[p]] /\ shown = [p \in Partitions |-> shown[p]]
    BY DEF real, shown
  <2> QED BY <1>1, <2>2
<1>3. SumFunction(real) <= SumFunction(shown)
  <2> HIDE DEF real, shown
  <2> QED BY <1>1, <1>2, StatePollerAssumption, SumLeq
<1>4. SumFunction(shown) \in Numbers
  <2> HIDE DEF real, shown
  <2> QED BY <1>2, StatePollerAssumption, SumBound DEF Numbers
<1>5. SumFunction(real) \in Int /\ SumFunction(shown) \in Int
  <2> HIDE DEF real, shown
  <2> QED BY <1>1, <1>2, StatePollerAssumption, SumLeq
<1> QED BY <1>3, <1>4, <1>5 DEF KafkaLag, QueryLag

\* The events sent fit into the numbers of a snapshot.
LEMMA SentFits ==
    ASSUME high \in Offsets, PipelineOK
    PROVE  sent \in Numbers
<1>1. SumFunction(high) \in 0 .. Cardinality(Partitions) * MaxEvents
  BY StatePollerAssumption, SumBound DEF Offsets
<1>2. PICK most \in Nat : most = Cardinality(Partitions) * MaxEvents
  <2>1. Cardinality(Partitions) \in Nat /\ MaxEvents \in Nat
    BY StatePollerAssumption, FS_CardinalityType
  <2>2. Cardinality(Partitions) * MaxEvents \in Nat
    BY <2>1
  <2> QED BY <2>2
<1>3. SumFunction(high) \in 0 .. most
  BY <1>1, <1>2
<1>4. sent \in 0 .. most
  BY <1>3 DEF PipelineOK
<1> QED BY <1>2, <1>4 DEF Numbers

-----------------------------------------------------------------------------
(* Steps *)

LEMMA InitInvariant == Init => IInv
<1> SUFFICES ASSUME Init PROVE IInv
  OBVIOUS
<1> USE StatePollerAssumption DEF Init, NewPoll, NewCheck
<1>1. TypeOK
  BY DEF TypeOK, Zero, Loops
<1>2. PipelineOK
  <2>1. Zero \in [Partitions -> 0 .. MaxEvents]
    BY DEF Zero
  <2>2. SumFunction(Zero) \in 0 .. Cardinality(Partitions) * MaxEvents
    BY <2>1, SumBound
  <2>3. Cardinality(Partitions) * MaxEvents \in Nat
    BY FS_CardinalityType
  <2> QED BY <2>1, <2>2, <2>3 DEF PipelineOK, Zero
<1>3. FastOK /\ AnswersOK /\ LagOK
  BY DEF FastOK, AnswersOK, LagOK, NotAhead
<1>4. CopiesOK
  BY DEF CopiesOK, Loops, Services
<1> QED BY <1>1, <1>2, <1>3, <1>4 DEF IInv, LagIsNotUnderstated, EchoIsMarked

\* The pipeline moves on under a poll.
LEMMA PipelineStep ==
    ASSUME IInv, Pipeline
    PROVE  TypeOK' /\ PipelineOK' /\ UNCHANGED poller
           /\ ("producer" \in up' => wasUp') /\ (wasUp => wasUp')
           /\ \A p \in Partitions : consumed[p] <= consumed'[p] /\ consumed'[p] \in Int
<1> USE StatePollerAssumption
<1>0. /\ TypeOK /\ PipelineOK /\ high \in Offsets /\ consumed \in Offsets
      /\ ("producer" \in up => wasUp)
  BY DEF IInv, TypeOK, AnswersOK, Offsets
<1>a. \A p \in Partitions : consumed[p] \in Int /\ high[p] \in Int /\ consumed[p] <= high[p]
  BY <1>0 DEF Offsets, PipelineOK
<1>1. CASE Produce
  <2>1. PICK p \in Partitions : high[p] < MaxEvents /\ high' = [high EXCEPT ![p] = @ + 1]
    BY <1>1 DEF Produce
  <2>2. /\ UNCHANGED <<up, outages, consumed, progress, poller, wasUp>> /\ sent' = sent + 1
    BY <1>1 DEF Produce
  <2>3. high' \in Offsets /\ \A q \in Partitions : high[q] <= high'[q]
    BY <1>0, <2>1 DEF Offsets
  <2>4. SumFunction(high') = SumFunction(high) + 1
    <3>1. high \in [Partitions -> Int] /\ high' \in [Partitions -> Int]
      BY <1>0, <2>3 DEF Offsets
    <3>2. high'[p] = high[p] + 1 /\ high[p] \in Int /\ \A q \in Partitions \ {p} : high'[q] = high[q]
      BY <1>0, <2>1 DEF Offsets
    <3>3. SumFunction(high') = SumFunction(high) + (high'[p] - high[p])
      BY <3>1, <3>2, SumChange
    <3> QED BY <3>2, <3>3
  <2>5. SumFunction(high) \in Int
    <3>1. high \in [Partitions -> Int] /\ \A q \in Partitions : high[q] <= high[q]
      BY <1>0 DEF Offsets
    <3> QED BY <3>1, SumLeq
  <2>6. TypeOK'
    BY <1>0, <2>2, <2>3 DEF TypeOK, Offsets, poller
  <2>7. PipelineOK'
    <3>1. sent' \in Nat /\ sent' <= SumFunction(high')
      BY <1>0, <2>2, <2>4, <2>5 DEF PipelineOK
    <3>2. \A q \in Partitions : consumed[q] <= high'[q]
      <4>1. high' \in [Partitions -> Int]
        BY <2>3 DEF Offsets
      <4> QED BY <1>a, <2>3, <4>1
    <3> QED BY <1>0, <2>2, <3>1, <3>2 DEF PipelineOK
  <2> QED BY <1>0, <1>a, <2>2, <2>6, <2>7
<1>2. CASE Consume
  <2>1. consumed' = high /\ UNCHANGED <<up, outages, high, sent, progress, poller, wasUp>>
    BY <1>2 DEF Consume
  <2>2. TypeOK'
    BY <1>0, <2>1 DEF TypeOK, Offsets, poller
  <2>3. progress # Nothing => \A p \in Partitions : progress[p] <= high[p]
    <3>1. progress # Nothing => \A p \in Partitions : progress[p] \in Int /\ progress[p] <= consumed[p]
      BY <1>0 DEF PipelineOK, Offsets
    <3> QED BY <1>a, <3>1
  <2>4. PipelineOK'
    BY <1>0, <1>a, <2>1, <2>3 DEF PipelineOK
  <2> QED BY <1>0, <1>a, <2>1, <2>2, <2>4
<1>3. CASE Report
  <2>1. progress' = consumed /\ UNCHANGED <<up, outages, high, sent, consumed, poller, wasUp>>
    BY <1>3 DEF Report
  <2>2. TypeOK' /\ PipelineOK'
    BY <1>0, <1>a, <2>1 DEF TypeOK, PipelineOK, poller
  <2> QED BY <1>0, <1>a, <2>1, <2>2
<1>4. ASSUME NEW group \in Together, GoDown(group)
      PROVE  TypeOK' /\ PipelineOK' /\ UNCHANGED <<poller, wasUp, consumed>> /\ up' \subseteq up
  <2>1. /\ up' = up \ group /\ outages' = outages + 1 /\ outages < MaxOutages
        /\ sent' \in {0, sent} /\ progress' \in {progress, Nothing}
        /\ UNCHANGED <<high, consumed, poller, wasUp>>
    BY <1>4 DEF GoDown
  <2>2. TypeOK'
    BY <1>0, <2>1 DEF TypeOK, poller
  <2>3. PipelineOK'
    <3>1. 0 <= SumFunction(high)
      <4>1. SumFunction(high) \in Numbers
        BY <1>0, SumBound DEF Offsets, Numbers
      <4> QED BY <4>1 DEF Numbers
    <3> QED BY <1>0, <2>1, <3>1 DEF PipelineOK
  <2> QED BY <2>1, <2>2, <2>3
<1>5. ASSUME NEW s \in Asked, ComeBack(s)
      PROVE  /\ TypeOK' /\ PipelineOK' /\ UNCHANGED <<poller, consumed>>
             /\ ("producer" \in up' => wasUp') /\ (wasUp => wasUp')
  <2>1. /\ up' = up \cup {s} /\ wasUp' = (wasUp \/ s = "producer")
        /\ UNCHANGED <<outages, high, sent, consumed, progress, poller>>
    BY <1>5 DEF ComeBack
  <2>2. TypeOK' /\ PipelineOK'
    BY <1>0, <2>1 DEF TypeOK, PipelineOK, poller
  <2> QED BY <1>0, <2>1, <2>2
<1>6. CASE \E group \in Together : GoDown(group)
  <2>1. TypeOK' /\ PipelineOK' /\ UNCHANGED <<poller, wasUp, consumed>> /\ up' \subseteq up
    BY <1>4, <1>6
  <2> QED BY <1>0, <1>a, <2>1
<1>7. CASE \E s \in Asked : ComeBack(s)
  <2>1. /\ TypeOK' /\ PipelineOK' /\ UNCHANGED <<poller, consumed>>
        /\ ("producer" \in up' => wasUp') /\ (wasUp => wasUp')
    BY <1>5, <1>7
  <2> QED BY <1>a, <2>1
<1> QED BY <1>1, <1>2, <1>3, <1>6, <1>7 DEF Pipeline

\* ... and what the poller knows stays as true as it was.
LEMMA PipelineKeeps == IInv /\ Pipeline => IInv'
<1> SUFFICES ASSUME IInv, Pipeline PROVE IInv'
  OBVIOUS
<1>1. TypeOK' /\ PipelineOK' /\ UNCHANGED poller
      /\ ("producer" \in up' => wasUp') /\ (wasUp => wasUp')
      /\ \A p \in Partitions : consumed[p] <= consumed'[p] /\ consumed'[p] \in Int
  BY PipelineStep
<1>2. FastOK' /\ LagOK' /\ CopiesOK' /\ LagIsNotUnderstated'
  BY <1>1 DEF IInv, poller, FastOK, LagOK, KafkaLag, CopiesOK, LagIsNotUnderstated
<1>3. ASSUME NEW spark, NotAhead(spark) PROVE NotAhead(spark)'
  <2>1. consumed \in Offsets
    BY DEF IInv, TypeOK, Offsets
  <2>2. ASSUME spark # Nothing, spark.queries # Nothing, NEW p \in Partitions
        PROVE  spark.queries \in Offsets /\ spark.queries[p] <= consumed'[p]
    <3>1. /\ spark.queries \in Offsets /\ spark.queries[p] \in Int /\ consumed[p] \in Int
          /\ spark.queries[p] <= consumed[p]
      BY <1>3, <2>1, <2>2 DEF NotAhead, Offsets
    <3> QED BY <1>1, <3>1
  <2>3. spark # Nothing /\ spark.queries # Nothing => spark.queries \in Offsets
    BY <1>3 DEF NotAhead
  <2> QED BY <2>2, <2>3 DEF NotAhead, Offsets
<1>4. AnswersOK'
  <2>0. PICK now, last : now = fast.spark /\ last = lastSpark
    OBVIOUS
  <2>a. fast' = fast /\ lastSpark' = lastSpark
    BY <1>1 DEF poller
  <2>b. /\ now # Pending => NotAhead(now)'
        /\ NotAhead(last)'
    BY <1>3, <2>0 DEF IInv, AnswersOK
  <2>1. fast'.spark # Pending => NotAhead(fast.spark)'
    BY <2>0, <2>a, <2>b DEF NotAhead
  <2>2. NotAhead(lastSpark)'
    BY <2>0, <2>a, <2>b DEF NotAhead
  <2> QED BY <1>1, <2>1, <2>2 DEF IInv, AnswersOK, poller, NotAhead
<1>5. EchoIsMarked'
  BY <1>1 DEF IInv, EchoIsMarked, poller
<1> QED BY <1>1, <1>2, <1>4, <1>5 DEF IInv

LEMMA FastKeeps == IInv /\ FastStep => IInv'
<1> SUFFICES ASSUME IInv, FastStep PROVE IInv'
  OBVIOUS
<1> USE StatePollerAssumption
<1>0. /\ TypeOK /\ PipelineOK /\ FastOK /\ AnswersOK /\ LagOK /\ CopiesOK
      /\ LagIsNotUnderstated /\ EchoIsMarked
  BY DEF IInv
<1>1. CASE FetchProducer
  <2>1. sent \in Numbers
    BY <1>0, SentFits DEF TypeOK, Offsets
  <2>2. UNCHANGED <<pipeline, lastProducer, lastSpark, health, snapshot, outbox, trueLag, wasUp>>
        /\ fast.step = "fetch"
        /\ fast' = [fast EXCEPT !.producer = IF "producer" \in up THEN sent ELSE Nothing]
    BY <1>1 DEF FetchProducer
  <2>3. /\ fast'.step = "fetch" /\ fast'.spark = fast.spark /\ fast'.watermarks = fast.watermarks
        /\ fast'.rows = fast.rows
        /\ fast'.producer = IF "producer" \in up THEN sent ELSE Nothing
    BY <1>0, <2>2 DEF FastOK
  <2>4. FastOK'
    BY <1>0, <2>2, <2>3 DEF FastOK
  <2>5. AnswersOK'
    BY <1>0, <2>1, <2>2, <2>3 DEF AnswersOK, NotAhead, pipeline
  <2>6. LagOK' /\ LagIsNotUnderstated' /\ EchoIsMarked'
    BY <2>3 DEF LagOK, LagIsNotUnderstated, EchoIsMarked
  <2>7. TypeOK' /\ PipelineOK' /\ CopiesOK'
    BY <1>0, <2>2, <2>3 DEF TypeOK, PipelineOK, CopiesOK, pipeline
  <2> QED BY <2>4, <2>5, <2>6, <2>7 DEF IInv
<1>2. CASE FetchSpark
  <2>2. UNCHANGED <<pipeline, lastProducer, lastSpark, health, snapshot, outbox, trueLag, wasUp>>
        /\ fast.step = "fetch"
        /\ fast' = [fast EXCEPT !.spark = IF "spark" \in up THEN [queries |-> progress] ELSE Nothing]
    BY <1>2 DEF FetchSpark
  <2>3. /\ fast'.step = "fetch" /\ fast'.producer = fast.producer
        /\ fast'.watermarks = fast.watermarks /\ fast'.rows = fast.rows
        /\ fast'.spark = IF "spark" \in up THEN [queries |-> progress] ELSE Nothing
    BY <1>0, <2>2 DEF FastOK
  <2>4. FastOK'
    BY <1>0, <2>2, <2>3 DEF FastOK
  <2>5. NotAhead(fast'.spark)
    BY <1>0, <2>3 DEF NotAhead, PipelineOK
  <2>6. AnswersOK'
    BY <1>0, <2>2, <2>3, <2>5 DEF AnswersOK, NotAhead, pipeline
  <2>7. LagOK' /\ LagIsNotUnderstated' /\ EchoIsMarked'
    BY <2>3 DEF LagOK, LagIsNotUnderstated, EchoIsMarked
  <2>8. TypeOK' /\ PipelineOK' /\ CopiesOK'
    BY <1>0, <2>2, <2>3 DEF TypeOK, PipelineOK, CopiesOK, pipeline
  <2> QED BY <2>4, <2>6, <2>7, <2>8 DEF IInv
<1>3. CASE Adopt
  <2>2. /\ UNCHANGED <<pipeline, health, snapshot, outbox, trueLag, wasUp>>
        /\ fast.step = "fetch" /\ fast.producer # Pending /\ fast.spark # Pending
        /\ lastProducer' \in {lastProducer, fast.producer}
        /\ fast.producer = Nothing => lastProducer' = lastProducer
        /\ lastSpark' \in {lastSpark, fast.spark}
        /\ fast' = [fast EXCEPT !.step = "read"]
    BY <1>3 DEF Adopt
  <2>3. /\ fast'.step = "read" /\ fast'.producer = fast.producer /\ fast'.spark = fast.spark
        /\ fast'.watermarks = Pending /\ fast'.rows = fast.rows
    BY <1>0, <2>2 DEF FastOK
  <2>4. FastOK'
    BY <1>0, <2>2, <2>3 DEF FastOK
  <2>5. NotAhead(lastSpark')
    BY <1>0, <2>2 DEF AnswersOK
  <2>6. lastProducer' \in Numbers \cup {Nothing}
    BY <1>0, <2>2 DEF AnswersOK
  <2>7. AnswersOK'
    BY <1>0, <2>2, <2>3, <2>5, <2>6 DEF AnswersOK, NotAhead, pipeline
  <2>8. LagOK' /\ LagIsNotUnderstated' /\ EchoIsMarked'
    BY <2>3 DEF LagOK, LagIsNotUnderstated, EchoIsMarked
  <2>9. TypeOK' /\ PipelineOK' /\ CopiesOK'
    BY <1>0, <2>2, <2>3 DEF TypeOK, PipelineOK, CopiesOK, pipeline
  <2> QED BY <2>4, <2>7, <2>8, <2>9 DEF IInv
<1>4. CASE ReadWatermarks
  <2>2. /\ UNCHANGED <<pipeline, lastProducer, lastSpark, health, snapshot, outbox, wasUp>>
        /\ fast.step = "read" /\ fast' = [fast EXCEPT !.watermarks = high]
        /\ trueLag' = QueryLag(consumed)
    BY <1>4 DEF ReadWatermarks
  <2>3. /\ fast'.step = "read" /\ fast'.producer = fast.producer /\ fast'.spark = fast.spark
        /\ fast'.watermarks = high /\ fast'.rows = fast.rows
    BY <1>0, <2>2 DEF FastOK
  <2>4. FastOK'
    BY <1>0, <2>2, <2>3 DEF FastOK
  <2>5. AnswersOK'
    BY <1>0, <2>2, <2>3 DEF AnswersOK, NotAhead, pipeline
  <2>6. LagOK'
    <3>1. /\ KafkaLag(high, lastSpark) \in Numbers \cup {Nothing}
          /\ KafkaLag(high, lastSpark) = Nothing \/ KafkaLag(high, lastSpark) >= QueryLag(consumed)
      BY <1>0, LagNotBelow DEF TypeOK, Offsets, AnswersOK
    <3>2. KafkaLag(fast.watermarks, lastSpark)' = KafkaLag(high, lastSpark)
      BY <2>2, <2>3 DEF KafkaLag
    <3> QED BY <2>2, <3>1, <3>2 DEF LagOK
  <2>7. LagIsNotUnderstated' /\ EchoIsMarked'
    BY <2>3 DEF LagIsNotUnderstated, EchoIsMarked
  <2>8. TypeOK' /\ PipelineOK' /\ CopiesOK'
    BY <1>0, <2>2, <2>3 DEF TypeOK, PipelineOK, CopiesOK, pipeline
  <2> QED BY <2>4, <2>5, <2>6, <2>7, <2>8 DEF IInv
<1>5. CASE ReadRows
  <2>2. /\ UNCHANGED <<pipeline, lastProducer, lastSpark, health, snapshot, outbox, trueLag, wasUp>>
        /\ fast.step = "read" /\ fast' = [fast EXCEPT !.rows = "read"]
    BY <1>5 DEF ReadRows
  <2>3. /\ fast'.step = "read" /\ fast'.producer = fast.producer /\ fast'.spark = fast.spark
        /\ fast'.watermarks = fast.watermarks
    BY <1>0, <2>2 DEF FastOK
  <2>4. FastOK'
    BY <1>0, <2>2, <2>3 DEF FastOK
  <2>5. AnswersOK'
    BY <1>0, <2>2, <2>3 DEF AnswersOK, NotAhead, pipeline
  <2>6. LagOK'
    BY <1>0, <2>2, <2>3 DEF LagOK, KafkaLag
  <2>7. LagIsNotUnderstated' /\ EchoIsMarked'
    BY <2>3 DEF LagIsNotUnderstated, EchoIsMarked
  <2>8. TypeOK' /\ PipelineOK' /\ CopiesOK'
    BY <1>0, <2>2, <2>3 DEF TypeOK, PipelineOK, CopiesOK, pipeline
  <2> QED BY <2>4, <2>5, <2>6, <2>7, <2>8 DEF IInv
<1>6. ASSUME EndFast, UNCHANGED <<pipeline, lastProducer, lastSpark, health, snapshot>>,
             outbox'.fast = Nothing, outbox'.deployment = outbox.deployment,
             DOMAIN outbox' = Loops
      PROVE  IInv'
  <2>1. /\ fast'.step = "fetch" /\ fast'.producer = Pending /\ fast'.spark = Pending
        /\ fast'.watermarks = Pending /\ fast'.rows = Pending /\ fast' = NewPoll
        /\ (wasUp' <=> "producer" \in up)
    BY <1>6 DEF EndFast, NewPoll
  <2>2. FastOK'
    BY <2>1 DEF FastOK, NewPoll
  <2>3. AnswersOK'
    BY <1>0, <1>6, <2>1 DEF AnswersOK, NotAhead, pipeline
  <2>4. LagOK' /\ LagIsNotUnderstated' /\ EchoIsMarked'
    BY <2>1 DEF LagOK, LagIsNotUnderstated, EchoIsMarked
  <2>5. TypeOK' /\ PipelineOK' /\ CopiesOK'
    BY <1>0, <1>6, <2>1 DEF TypeOK, PipelineOK, CopiesOK, pipeline
  <2> QED BY <2>2, <2>3, <2>4, <2>5 DEF IInv
<1>7. CASE FastFails
  <2>1. outbox.fast = Nothing /\ DOMAIN outbox = Loops
    BY <1>0, <1>7 DEF FastFails, CopiesOK, TypeOK
  <2> QED BY <1>6, <1>7, <2>1 DEF FastFails
<1>8. CASE StoreFast
  <2>1. /\ UNCHANGED <<pipeline, lastProducer, lastSpark, health, trueLag, wasUp>>
        /\ fast.step = "read" /\ fast.watermarks # Pending
        /\ snapshot' = [snapshot EXCEPT !.fast = FastSections]
        /\ outbox' = [outbox EXCEPT !.fast = snapshot']
        /\ fast' = [NewPoll EXCEPT !.step = "broadcast"]
    BY <1>8 DEF StoreFast
  <2>2. /\ fast'.step = "broadcast" /\ fast'.producer = Pending /\ fast'.spark = Pending
        /\ fast'.watermarks = Pending /\ fast'.rows = Pending
    BY <2>1 DEF NewPoll
  <2>3. FastSections \in Sections
    <3>1. lastProducer \in Numbers \cup {Nothing}
          /\ KafkaLag(fast.watermarks, lastSpark) \in Numbers \cup {Nothing}
      BY <1>0, <2>1 DEF AnswersOK, LagOK
    <3>2. (fast.producer # Nothing) \in BOOLEAN
      OBVIOUS
    <3> QED BY <3>1, <3>2 DEF FastSections, Sections
  <2>4. /\ snapshot' \in [Loops -> Sections \cup {Nothing}] /\ snapshot'.fast = FastSections
    BY <1>0, <2>1, <2>3 DEF CopiesOK, Loops
  <2>5. /\ snapshot' # Nothing /\ outbox'.fast = snapshot' /\ outbox'.deployment = outbox.deployment
        /\ DOMAIN outbox' = Loops /\ DOMAIN snapshot' = Loops
    BY <1>0, <2>1, <2>4 DEF TypeOK, Loops
  <2>6. FastOK'
    BY <2>1, <2>2 DEF FastOK, NewPoll
  <2>7. AnswersOK' /\ LagOK'
    BY <1>0, <2>1, <2>2 DEF AnswersOK, NotAhead, LagOK, pipeline
  <2>8. LagIsNotUnderstated'
    BY <1>0, <2>1, <2>4 DEF LagOK, LagIsNotUnderstated, FastSections
  <2>9. EchoIsMarked'
    <3>1. fast.producer # Pending
      BY <1>0, <2>1 DEF FastOK
    <3>2. fast.producer # Nothing => wasUp
      BY <1>0, <3>1 DEF AnswersOK
    <3>3. FastSections.reachable = (fast.producer # Nothing)
      BY DEF FastSections
    <3>4. FastSections.reachable => wasUp
      BY <3>2, <3>3
    <3>5. wasUp' = wasUp /\ snapshot'.fast.reachable = FastSections.reachable
      BY <2>1, <2>4
    <3> QED BY <3>4, <3>5, Zenon DEF EchoIsMarked
  <2>10. TypeOK' /\ PipelineOK'
    BY <1>0, <2>1, <2>2, <2>5 DEF TypeOK, PipelineOK, pipeline
  <2>11. CopiesOK'
    BY <1>0, <2>1, <2>2, <2>4, <2>5 DEF CopiesOK
  <2> QED BY <2>6, <2>7, <2>8, <2>9, <2>10, <2>11 DEF IInv
<1>9. CASE BroadcastFast
  <2>1. /\ outbox'.fast = Nothing /\ outbox'.deployment = outbox.deployment
        /\ DOMAIN outbox' = Loops
    BY <1>0, <1>9 DEF BroadcastFast, TypeOK, Loops
  <2> QED BY <1>6, <1>9, <2>1 DEF BroadcastFast
<1> QED BY <1>1, <1>2, <1>3, <1>4, <1>5, <1>7, <1>8, <1>9 DEF FastStep

LEMMA DeploymentKeeps == IInv /\ DeploymentStep => IInv'
<1> SUFFICES ASSUME IInv, DeploymentStep PROVE IInv'
  OBVIOUS
<1>0. /\ TypeOK /\ PipelineOK /\ FastOK /\ AnswersOK /\ LagOK /\ CopiesOK
      /\ LagIsNotUnderstated /\ EchoIsMarked
  BY DEF IInv
<1>1. ASSUME UNCHANGED <<pipeline, fast, lastProducer, lastSpark, trueLag, wasUp>>,
             snapshot'.fast = snapshot.fast, DOMAIN snapshot' = Loops, DOMAIN outbox' = Loops,
             CopiesOK'
      PROVE  IInv'
  <2>1. TypeOK' /\ PipelineOK' /\ FastOK'
    BY <1>0, <1>1 DEF TypeOK, PipelineOK, FastOK, pipeline
  <2>2. AnswersOK' /\ LagOK'
    BY <1>0, <1>1 DEF AnswersOK, NotAhead, LagOK, KafkaLag, pipeline
  <2>3. LagIsNotUnderstated' /\ EchoIsMarked'
    BY <1>0, <1>1 DEF LagIsNotUnderstated, EchoIsMarked
  <2> QED BY <1>1, <2>1, <2>2, <2>3 DEF IInv
<1>2. ASSUME NEW s \in Services, NEW next \in {"cassandra", "others", "store"}, Probe(s, next),
             health.step # "broadcast"
      PROVE  IInv'
  <2>1. UNCHANGED <<pipeline, fast, lastProducer, lastSpark, snapshot, outbox, trueLag, wasUp>>
        /\ health' = [step |-> next, asked |-> health.asked \cup {s},
                      seen |-> health.seen \cup ({s} \cap up)]
    BY <1>2 DEF Probe
  <2>2. CopiesOK'
    BY <1>0, <1>2, <2>1 DEF CopiesOK
  <2> QED BY <1>0, <1>1, <2>1, <2>2 DEF TypeOK
<1>3. CASE CheckKafka \/ CheckCassandra
  BY <1>2, <1>3 DEF CheckKafka, CheckCassandra, Services
<1>4. CASE CheckOther
  <2>1. PICK s \in Services : Probe(s, IF Services = health.asked \cup {s} THEN "store" ELSE "others")
    BY <1>4 DEF CheckOther
  <2> QED BY <1>2, <1>4, <2>1 DEF CheckOther
<1>5. CASE StoreDeployment
  <2>1. /\ UNCHANGED <<pipeline, fast, lastProducer, lastSpark, trueLag, wasUp>>
        /\ snapshot' = [snapshot EXCEPT !.deployment = DeploymentSections]
        /\ outbox' = [outbox EXCEPT !.deployment = snapshot']
        /\ health' = [NewCheck EXCEPT !.step = "broadcast"]
    BY <1>5 DEF StoreDeployment
  <2>2. DeploymentSections \in Sections
    <3>1. ("api" \in up) \in BOOLEAN /\ health.seen \in SUBSET Services
      BY <1>0 DEF CopiesOK
    <3> QED BY <3>1 DEF DeploymentSections, Sections
  <2>3. /\ snapshot' \in [Loops -> Sections \cup {Nothing}] /\ snapshot'.fast = snapshot.fast
        /\ DOMAIN snapshot' = Loops
    BY <1>0, <2>1, <2>2 DEF CopiesOK, Loops
  <2>4. /\ snapshot' # Nothing /\ outbox'.deployment = snapshot' /\ outbox'.fast = outbox.fast
        /\ DOMAIN outbox' = Loops /\ health'.step = "broadcast" /\ health'.seen = {}
    BY <1>0, <2>1, <2>3, StatePollerAssumption DEF TypeOK, Loops, NewCheck
  <2>5. CopiesOK'
    BY <1>0, <2>1, <2>3, <2>4 DEF CopiesOK
  <2> QED BY <1>1, <2>1, <2>3, <2>4, <2>5
<1>6. CASE BroadcastDeployment
  <2>1. /\ UNCHANGED <<pipeline, fast, lastProducer, lastSpark, snapshot, trueLag, wasUp>>
        /\ outbox' = [outbox EXCEPT !.deployment = Nothing] /\ health' = NewCheck
    BY <1>6 DEF BroadcastDeployment
  <2>2. /\ outbox'.deployment = Nothing /\ outbox'.fast = outbox.fast /\ DOMAIN outbox' = Loops
        /\ health'.step = "kafka" /\ health'.seen = {}
    BY <1>0, <2>1 DEF TypeOK, Loops, NewCheck
  <2>3. CopiesOK'
    BY <1>0, <2>1, <2>2 DEF CopiesOK
  <2> QED BY <1>0, <1>1, <2>1, <2>2, <2>3 DEF TypeOK
<1> QED BY <1>3, <1>4, <1>5, <1>6 DEF DeploymentStep

LEMMA InvariantStep == IInv /\ [Next]_vars => IInv'
<1>1. IInv /\ UNCHANGED vars => IInv'
  BY DEF vars, pipeline, IInv, TypeOK, PipelineOK, FastOK, AnswersOK, NotAhead, LagOK, KafkaLag,
         CopiesOK, LagIsNotUnderstated, EchoIsMarked
<1> QED BY <1>1, PipelineKeeps, FastKeeps, DeploymentKeeps DEF Next

LEMMA Invariant == Spec => []IInv
BY InitInvariant, InvariantStep, PTL DEF Spec

\* A snapshot is honest, whatever the pipeline does between two reads: the lag it
\* shows is not below what it was when the broker was asked, and a producer that
\* it calls reachable was up during the poll (state_poller.py:106-153).
THEOREM SnapshotsAreHonest == Spec => []PollerInv
<1>1. IInv => PollerInv
  BY DEF IInv, PollerInv
<1> QED BY <1>1, Invariant, PTL

-----------------------------------------------------------------------------
(* The poller implements the feed *)

LEMMA FeedStep == IInv /\ [Next]_vars => [Promise!FeedNext]_(Promise!feedVars)
<1> SUFFICES ASSUME IInv, [Next]_vars,
                    ~UNCHANGED <<snapshot, outbox>>
             PROVE  Promise!FeedNext
  BY DEF Promise!feedVars
<1> USE DEF Loops
<1>0. DOMAIN snapshot = Loops /\ DOMAIN outbox = Loops /\ CopiesOK
  BY DEF IInv, TypeOK
<1>1. CASE StoreFast
  <2>1. FastSections \in Sections /\ outbox["fast"] = Nothing
    <3>1. /\ lastProducer \in Numbers \cup {Nothing}
          /\ KafkaLag(fast.watermarks, lastSpark) \in Numbers \cup {Nothing}
      BY <1>1 DEF StoreFast, IInv, AnswersOK, LagOK
    <3>2. (fast.producer # Nothing) \in BOOLEAN
      OBVIOUS
    <3> QED BY <1>0, <1>1, <3>1, <3>2 DEF StoreFast, CopiesOK, FastSections, Sections
  <2>2. Promise!Store("fast", FastSections)
    BY <1>1, <2>1 DEF StoreFast, Promise!Store
  <2> QED BY <2>1, <2>2 DEF Promise!FeedNext
<1>2. CASE StoreDeployment
  <2>1. DeploymentSections \in Sections /\ outbox["deployment"] = Nothing
    <3>1. ("api" \in up) \in BOOLEAN /\ health.seen \in SUBSET Services
      BY <1>0 DEF CopiesOK
    <3> QED BY <1>0, <1>2, <3>1 DEF StoreDeployment, CopiesOK, DeploymentSections, Sections
  <2>2. Promise!Store("deployment", DeploymentSections)
    BY <1>2, <2>1 DEF StoreDeployment, Promise!Store
  <2> QED BY <2>1, <2>2 DEF Promise!FeedNext
<1>3. CASE BroadcastFast
  <2>1. Promise!Sent("fast")
    BY <1>0, <1>3 DEF BroadcastFast, CopiesOK, Promise!Sent
  <2> QED BY <2>1 DEF Promise!FeedNext
<1>4. CASE BroadcastDeployment
  <2>1. Promise!Sent("deployment")
    BY <1>0, <1>4 DEF BroadcastDeployment, CopiesOK, Promise!Sent
  <2> QED BY <2>1 DEF Promise!FeedNext
<1>5. ASSUME Pipeline PROVE FALSE
  BY <1>5, PipelineStep DEF poller
<1>6. ASSUME FetchProducer \/ FetchSpark \/ Adopt \/ ReadWatermarks \/ ReadRows \/ FastFails
      PROVE  FALSE
  BY <1>6 DEF FetchProducer, FetchSpark, Adopt, ReadWatermarks, ReadRows, FastFails
<1>7. ASSUME CheckKafka \/ CheckCassandra \/ CheckOther PROVE FALSE
  BY <1>7 DEF CheckKafka, CheckCassandra, CheckOther, Probe
<1>8. ASSUME UNCHANGED vars PROVE FALSE
  BY <1>8 DEF vars
<1> QED BY <1>1, <1>2, <1>3, <1>4, <1>5, <1>6, <1>7, <1>8 DEF Next, FastStep, DeploymentStep

\* The poller keeps its promise to whoever follows it: each loop replaces its own
\* sections in one step, copies the whole snapshot in that step and broadcasts the
\* copy before it stores again, through failed polls and outages alike.
THEOREM PromiseKept == Spec => KeepsPromise
<1>1. Init => Promise!FeedInit
  BY DEF Init, Promise!FeedInit
<1> QED BY <1>1, FeedStep, Invariant, PTL DEF Spec, KeepsPromise, Promise!FeedSpec
=============================================================================
