--------------------------- MODULE ProducerProofs ---------------------------
(***************************************************************************)
(* What the producer keeps true, for any files, limits and numbers of      *)
(* runs, refusals and stalls.                                              *)
(*                                                                         *)
(* That the topic keeps the file's order needs the queue in the invariant: *)
(* what is stored comes before what is queued, and both before the row in  *)
(* hand (MessagesOK); that the hand-over is complete needs where in the    *)
(* file the process is (PhaseOK).  The ledger balances with the event in   *)
(* hand on its own side, and with the anomaly not yet recorded (LedgerOK). *)
(* The bound on bursts follows from what every tick adds to the lead       *)
(* (PaceOK).  The statistics are exact because Welford's step keeps, for   *)
(* the rows read so far, n, their sum and n times the squared deviations   *)
(* as fractions (Welford, StatsOK).                                        *)
(***************************************************************************)
EXTENDS Producer, SequenceTheorems, FiniteSetTheorems, WellFoundedInduction, TLAPS

-----------------------------------------------------------------------------
(* Sums of functions over finite sets *)

\* Every set of naturals that is not empty has a least member.
LEMMA LeastNat ==
    ASSUME NEW T \in SUBSET Nat, T # {}
    PROVE  \E x \in T : \A y \in T : x <= y
<1> DEFINE Below == {0 .. x : x \in T}
<1>1. Below \subseteq FiniteSubsetsOf(Nat)
  <2>1. ASSUME NEW x \in T PROVE 0 .. x \in SUBSET Nat /\ IsFiniteSet(0 .. x)
    BY FS_Interval
  <2> QED BY <2>1 DEF FiniteSubsetsOf
<1>0. Below # {}
  OBVIOUS
<1>2. PICK I \in Below : \A J \in Below : ~(<<J, I>> \in StrictSubsetOrdering(Nat))
  BY <1>0, <1>1, FS_StrictSubsetOrderingWellFounded, WFMin
<1>3. PICK x \in T : I = 0 .. x
  OBVIOUS
<1>4. ASSUME NEW y \in T, y < x PROVE FALSE
  <2>1. 0 .. y \subseteq 0 .. x /\ 0 .. y # 0 .. x
    BY <1>4
  <2>2. <<0 .. y, 0 .. x>> \in StrictSubsetOrdering(Nat)
    BY <2>1 DEF StrictSubsetOrdering
  <2>3. 0 .. y \in Below
    OBVIOUS
  <2> QED BY <1>2, <1>3, <2>2, <2>3
<1> QED BY <1>4

\* A member that a set is taken apart at.
Pick(s) == CHOOSE x \in s : TRUE

\* g gives, for the sets in D, the sums of f over them.
IsSum(g, f, D) == g = [s \in D |-> IF s = {} THEN 0 ELSE f[Pick(s)] + g[s \ {Pick(s)}]]

LEMMA LessOne ==
    ASSUME NEW s, IsFiniteSet(s), s # {}
    PROVE  /\ Pick(s) \in s /\ IsFiniteSet(s \ {Pick(s)})
           /\ Cardinality(s) \in Nat \ {0} /\ Cardinality(s \ {Pick(s)}) = Cardinality(s) - 1
<1>1. Pick(s) \in s
  BY DEF Pick
<1>2. Cardinality(s) \in Nat /\ Cardinality(s) # 0
  BY FS_CardinalityType, FS_EmptySet
<1>3. IsFiniteSet(s \ {Pick(s)}) /\ Cardinality(s \ {Pick(s)}) = Cardinality(s) - 1
  BY <1>1, FS_RemoveElement
<1> QED BY <1>1, <1>2, <1>3

LEMMA SumExists ==
    ASSUME NEW S, IsFiniteSet(S), NEW f
    PROVE  \E g : IsSum(g, f, SUBSET S)
<1> DEFINE D(n) == {s \in SUBSET S : Cardinality(s) <= n}
           Bad  == {n \in Nat : ~\E g : IsSum(g, f, D(n))}
<1>0. \A s \in SUBSET S : IsFiniteSet(s) /\ Cardinality(s) \in Nat
  BY FS_Subset, FS_CardinalityType
<1>1. \E g : IsSum(g, f, D(0))
  <2>1. ASSUME NEW s \in D(0) PROVE s = {}
    <3>1. IsFiniteSet(s) /\ Cardinality(s) \in Nat /\ Cardinality(s) <= 0
      BY <1>0
    <3>2. ~(Cardinality(s) \in Nat \ {0})
      BY <3>1
    <3> QED BY <3>1, <3>2, LessOne
  <2>2. IsSum([s \in D(0) |-> 0], f, D(0))
    BY <2>1 DEF IsSum
  <2> QED BY <2>2
<1>2. ASSUME NEW n \in Nat, NEW g, IsSum(g, f, D(n)) PROVE \E h : IsSum(h, f, D(n + 1))
  <2> DEFINE h == [s \in D(n + 1) |-> IF s = {} THEN 0 ELSE f[Pick(s)] + g[s \ {Pick(s)}]]
  <2>1. ASSUME NEW s \in D(n + 1), s # {} PROVE s \ {Pick(s)} \in D(n) /\ s \ {Pick(s)} \in D(n + 1)
    BY <1>0, <2>1, LessOne
  <2>2. \A s \in D(n) : g[s] = IF s = {} THEN 0 ELSE f[Pick(s)] + g[s \ {Pick(s)}]
    BY <1>2 DEF IsSum
  <2>3. \A s \in D(n) : s \in D(n + 1) /\ h[s] = g[s]
    <3>1. \A s \in D(n) : s \in D(n + 1)
      BY <1>0
    <3> QED BY <2>2, <3>1
  <2>4. \A s \in D(n + 1) : h[s] = IF s = {} THEN 0 ELSE f[Pick(s)] + h[s \ {Pick(s)}]
    BY <2>1, <2>3
  <2>5. h = [s \in D(n + 1) |-> IF s = {} THEN 0 ELSE f[Pick(s)] + h[s \ {Pick(s)}]]
    <3> HIDE DEF D
    <3> QED BY <2>4
  <2> QED BY <2>5 DEF IsSum
<1>3. Bad = {}
  <2> SUFFICES ASSUME Bad # {} PROVE FALSE
    OBVIOUS
  <2>1. PICK m \in Bad : \A n \in Bad : m <= n
    <3>1. Bad \in SUBSET Nat
      OBVIOUS
    <3> QED BY <3>1, LeastNat
  <2>2. m # 0
    BY <1>1
  <2>3. PICK n \in Nat : n + 1 = m
    <3>1. m - 1 \in Nat /\ (m - 1) + 1 = m
      BY <2>2
    <3> QED BY <3>1
  <2>4. n \notin Bad
    <3>1. ~(m <= n)
      BY <2>3
    <3> QED BY <2>1, <3>1
  <2> QED BY <1>2, <2>3, <2>4
<1>4. D(Cardinality(S)) = SUBSET S
  <2>1. \A s \in SUBSET S : Cardinality(s) <= Cardinality(S)
    BY FS_Subset
  <2> QED BY <2>1
<1>5. Cardinality(S) \in Nat
  BY FS_CardinalityType
<1> QED BY <1>3, <1>4, <1>5

\* The two equations that say all there is to say about a sum.
SumsTo(g, f, S) ==
    /\ SumFunction(f) = g[S] /\ g[{}] = 0
    /\ \A s \in SUBSET S : s # {} => g[s] = f[Pick(s)] + g[s \ {Pick(s)}]

LEMMA SumIs ==
    ASSUME NEW S, IsFiniteSet(S), NEW f, DOMAIN f = S
    PROVE  \E g : SumsTo(g, f, S)
<1> DEFINE g == CHOOSE g : IsSum(g, f, SUBSET S)
<1>1. IsSum(g, f, SUBSET S)
  BY SumExists
<1>2. SumFunction(f) = g[S]
  BY DEF SumFunction, SumFunctionOnSet, FoldFunctionOnSet, MapThenFoldSet, IsSum, Pick
<1>3. \A s \in SUBSET S : g[s] = IF s = {} THEN 0 ELSE f[Pick(s)] + g[s \ {Pick(s)}]
  <2> HIDE DEF g
  <2> QED BY <1>1 DEF IsSum
<1> QED BY <1>2, <1>3 DEF SumsTo

\* What holds of the empty set, and of a set when it holds of the set less one
\* member, holds of all finite sets: the sets for which it fails have a least one.
LEMMA NoLeastBad ==
    ASSUME NEW S, IsFiniteSet(S), NEW B \in SUBSET SUBSET S, {} \notin B,
           \A s \in SUBSET S : s # {} /\ s \in B => s \ {Pick(s)} \in B
    PROVE  B = {}
<1> SUFFICES ASSUME B # {} PROVE FALSE
  OBVIOUS
<1>1. B \subseteq FiniteSubsetsOf(S)
  <2>1. \A s \in B : IsFiniteSet(s)
    BY FS_Subset
  <2> QED BY <2>1 DEF FiniteSubsetsOf
<1>2. PICK s \in B : \A t \in B : ~(<<t, s>> \in StrictSubsetOrdering(S))
  BY <1>1, FS_StrictSubsetOrderingWellFounded, WFMin
<1>3. s # {} /\ s \in SUBSET S
  OBVIOUS
<1>4. Pick(s) \in s
  BY <1>3 DEF Pick
<1>5. s \ {Pick(s)} \in B /\ <<s \ {Pick(s)}, s>> \in StrictSubsetOrdering(S)
  BY <1>3, <1>4 DEF StrictSubsetOrdering
<1> QED BY <1>2, <1>5

\* A sum of integers is one, and grows with its terms.
LEMMA SumLeq ==
    ASSUME NEW S, IsFiniteSet(S), NEW f \in [S -> Int], NEW h \in [S -> Int],
           \A x \in S : f[x] <= h[x]
    PROVE  /\ SumFunction(f) \in Int /\ SumFunction(h) \in Int
           /\ SumFunction(f) <= SumFunction(h)
<1>0. DOMAIN f = S /\ DOMAIN h = S
  OBVIOUS
<1>1. PICK g : SumsTo(g, f, S)
  BY <1>0, SumIs
<1>2. PICK k : SumsTo(k, h, S)
  BY <1>0, SumIs
<1> DEFINE Bad == {s \in SUBSET S : ~(g[s] \in Int /\ k[s] \in Int /\ g[s] <= k[s])}
<1>3. ASSUME NEW s \in SUBSET S, s # {}, s \ {Pick(s)} \notin Bad PROVE s \notin Bad
  <2>1. Pick(s) \in S
    BY <1>3 DEF Pick
  <2>2. PICK x \in S, t \in SUBSET S : x = Pick(s) /\ t = s \ {Pick(s)}
    BY <2>1
  <2>3. g[s] = f[x] + g[t] /\ k[s] = h[x] + k[t] /\ f[x] \in Int /\ h[x] \in Int /\ f[x] <= h[x]
    BY <1>1, <1>2, <1>3, <2>2 DEF SumsTo
  <2>4. g[t] \in Int /\ k[t] \in Int /\ g[t] <= k[t]
    BY <1>3, <2>2
  <2>5. g[s] \in Int /\ k[s] \in Int /\ g[s] <= k[s]
    BY <2>3, <2>4
  <2> QED BY <2>5
<1>4. {} \notin Bad
  BY <1>1, <1>2 DEF SumsTo
<1>5. Bad = {}
  <2> HIDE DEF Bad
  <2>1. Bad \in SUBSET SUBSET S
    BY DEF Bad
  <2> QED BY <1>3, <1>4, <2>1, NoLeastBad
<1> QED BY <1>1, <1>2, <1>5 DEF SumsTo

\* The sum of naturals up to c.
LEMMA SumBound ==
    ASSUME NEW S, IsFiniteSet(S), NEW c \in Nat, NEW f \in [S -> 0 .. c]
    PROVE  SumFunction(f) \in 0 .. Cardinality(S) * c
<1>0. DOMAIN f = S
  OBVIOUS
<1>1. PICK g : SumsTo(g, f, S)
  BY <1>0, SumIs
<1> DEFINE Bad == {s \in SUBSET S : g[s] \notin 0 .. Cardinality(s) * c}
<1>2. ASSUME NEW s \in SUBSET S, s # {}, s \ {Pick(s)} \notin Bad PROVE s \notin Bad
  <2>1. /\ Pick(s) \in S /\ Cardinality(s) \in Nat \ {0}
        /\ Cardinality(s \ {Pick(s)}) = Cardinality(s) - 1
    BY <1>2, LessOne, FS_Subset
  <2>2. PICK x \in S, t \in SUBSET S, n \in Nat, m \in Nat :
            /\ x = Pick(s) /\ t = s \ {Pick(s)}
            /\ n = Cardinality(t) /\ m = Cardinality(s) /\ m = n + 1
    BY <2>1
  <2>3. g[s] = f[x] + g[t] /\ f[x] \in 0 .. c /\ g[t] \in 0 .. n * c
    BY <1>1, <1>2, <2>2 DEF SumsTo
  <2>4. n * c \in Nat /\ m * c = n * c + c
    BY <2>2
  <2>5. g[s] \in 0 .. m * c
    BY <2>3, <2>4
  <2> QED BY <2>2, <2>5
<1>3. {} \notin Bad
  <2>1. Cardinality({}) = 0
    BY FS_EmptySet
  <2>2. 0 * c = 0
    OBVIOUS
  <2> QED BY <1>1, <2>1, <2>2 DEF SumsTo
<1>4. Bad = {}
  <2> HIDE DEF Bad
  <2>1. Bad \in SUBSET SUBSET S
    BY DEF Bad
  <2> QED BY <1>2, <1>3, <2>1, NoLeastBad
<1> QED BY <1>1, <1>4 DEF SumsTo

\* Two functions that agree everywhere but at d.
DifferAt(d, f, h, S) ==
    /\ IsFiniteSet(S) /\ f \in [S -> Int] /\ h \in [S -> Int] /\ d \in S
    /\ \A x \in S \ {d} : h[x] = f[x]

\* A sum changes as its one changed term does.
LEMMA SumChange ==
    ASSUME NEW S, NEW f, NEW h, NEW d, DifferAt(d, f, h, S)
    PROVE  SumFunction(h) = SumFunction(f) + (h[d] - f[d])
<1> USE DEF DifferAt
<1>0. DOMAIN f = S /\ DOMAIN h = S
  OBVIOUS
<1>1. PICK g : SumsTo(g, f, S)
  BY <1>0, SumIs
<1>2. PICK k : SumsTo(k, h, S)
  BY <1>0, SumIs
<1> DEFINE by(s) == IF d \in s THEN h[d] - f[d] ELSE 0
           Bad == {s \in SUBSET S : ~(g[s] \in Int /\ k[s] = g[s] + by(s))}
<1>3. ASSUME NEW s \in SUBSET S, s # {}, s \ {Pick(s)} \notin Bad PROVE s \notin Bad
  <2>1. Pick(s) \in s
    BY <1>3 DEF Pick
  <2>2. PICK x \in s, t \in SUBSET S : x = Pick(s) /\ t = s \ {x}
    BY <2>1
  <2>3. g[s] = f[x] + g[t] /\ k[s] = h[x] + k[t] /\ f[x] \in Int /\ h[x] \in Int
    BY <1>1, <1>2, <1>3, <2>2 DEF SumsTo
  <2>4. g[t] \in Int /\ k[t] = g[t] + by(t)
    BY <1>3, <2>2
  <2>5. f[d] \in Int /\ h[d] \in Int
    OBVIOUS
  <2>6. CASE x = d
    <3>1. by(t) = 0 /\ by(s) = h[x] - f[x]
      BY <2>2, <2>6
    <3> QED BY <2>3, <2>4, <3>1
  <2>7. CASE x # d
    <3>1. by(t) = by(s) /\ h[x] = f[x] /\ by(s) \in Int
      BY <2>2, <2>5, <2>7
    <3> QED BY <2>3, <2>4, <3>1
  <2> QED BY <2>6, <2>7
<1>4. {} \notin Bad
  BY <1>1, <1>2 DEF SumsTo
<1>5. Bad = {}
  <2> HIDE DEF Bad
  <2>1. Bad \in SUBSET SUBSET S
    BY DEF Bad
  <2> QED BY <1>3, <1>4, <2>1, NoLeastBad
<1> QED BY <1>1, <1>2, <1>5 DEF SumsTo

\* The same, where a set may rest on any of its proper subsets.
LEMMA NoSmallestBad ==
    ASSUME NEW S, IsFiniteSet(S), NEW B \in SUBSET SUBSET S,
           \A s \in SUBSET S : (\A t \in SUBSET s : t # s => t \notin B) => s \notin B
    PROVE  B = {}
<1> SUFFICES ASSUME B # {} PROVE FALSE
  OBVIOUS
<1>1. B \subseteq FiniteSubsetsOf(S)
  <2>1. \A s \in B : IsFiniteSet(s)
    BY FS_Subset
  <2> QED BY <2>1 DEF FiniteSubsetsOf
<1>2. PICK s \in B : \A t \in B : ~(<<t, s>> \in StrictSubsetOrdering(S))
  BY <1>1, FS_StrictSubsetOrderingWellFounded, WFMin
<1>3. \A t \in SUBSET s : t # s => t \notin B
  BY <1>2 DEF StrictSubsetOrdering
<1> QED BY <1>3

\* Any member can be the first.
LEMMA SumTakeOut ==
    ASSUME NEW S, IsFiniteSet(S), NEW f \in [S -> Int], NEW g, SumsTo(g, f, S)
    PROVE  \A s \in SUBSET S : g[s] \in Int /\ \A y \in s : g[s] = f[y] + g[s \ {y}]
<1> DEFINE Good(s) == g[s] \in Int /\ \A y \in s : g[s] = f[y] + g[s \ {y}]
           Bad == {s \in SUBSET S : ~Good(s)}
<1>1. ASSUME NEW s \in SUBSET S, \A t \in SUBSET s : t # s => t \notin Bad PROVE s \notin Bad
  <2>1. CASE s = {}
    BY <2>1 DEF SumsTo
  <2>2. CASE s # {}
    <3>1. PICK p \in s : p = Pick(s)
      BY <2>2 DEF Pick
    <3>2. \A t \in SUBSET s : t # s => Good(t)
      BY <1>1
    <3> HIDE DEF Good
    <3>3. Good(s \ {p})
      BY <3>2
    <3>4. g[s] = f[p] + g[s \ {p}] /\ f[p] \in Int
      BY <2>2, <3>1 DEF SumsTo
    <3>5. g[s] \in Int
      BY <3>3, <3>4 DEF Good
    <3>6. ASSUME NEW y \in s, y # p PROVE g[s] = f[y] + g[s \ {y}]
      <4>1. (s \ {p}) \ {y} = (s \ {y}) \ {p} /\ y \in s \ {p} /\ p \in s \ {y}
        BY <3>6
      <4>2. Good(s \ {y}) /\ Good((s \ {y}) \ {p})
        BY <3>2, <4>1
      <4>3. /\ g[s \ {p}] = f[y] + g[(s \ {y}) \ {p}] /\ g[s \ {y}] = f[p] + g[(s \ {y}) \ {p}]
            /\ g[(s \ {y}) \ {p}] \in Int /\ f[y] \in Int
        BY <3>3, <4>1, <4>2 DEF Good
      <4> QED BY <3>4, <4>3
    <3> QED BY <3>4, <3>5, <3>6 DEF Good
  <2> QED BY <2>1, <2>2
<1>2. Bad = {}
  <2> HIDE DEF Bad
  <2>1. Bad \in SUBSET SUBSET S
    BY DEF Bad
  <2> QED BY <1>1, <2>1, NoSmallestBad
<1> QED BY <1>2

\* A sum grows by the term that is added.
LEMMA SumAdd ==
    ASSUME NEW S, IsFiniteSet(S), NEW x, x \notin S,
           NEW f \in [S \cup {x} -> Int], NEW h \in [S -> Int], \A s \in S : h[s] = f[s]
    PROVE  /\ SumFunction(h) \in Int
           /\ SumFunction(f) = SumFunction(h) + f[x]
<1> DEFINE T == S \cup {x}
<1>0. IsFiniteSet(T) /\ DOMAIN f = T /\ DOMAIN h = S
  BY FS_AddElement
<1> HIDE DEF T
<1>1. PICK g : SumsTo(g, f, T)
  BY <1>0, SumIs
<1>2. PICK k : SumsTo(k, h, S)
  BY <1>0, SumIs
<1> DEFINE Bad == {s \in SUBSET S : g[s] # k[s]}
<1>3. ASSUME NEW s \in SUBSET S, s # {}, s \ {Pick(s)} \notin Bad PROVE s \notin Bad
  <2>1. PICK p \in S, t \in SUBSET S : p = Pick(s) /\ t = s \ {Pick(s)}
    BY <1>3 DEF Pick
  <2>2. g[s] = f[p] + g[t] /\ k[s] = h[p] + k[t]
    BY <1>1, <1>2, <1>3, <2>1 DEF SumsTo, T
  <2> QED BY <1>3, <2>1, <2>2
<1>4. Bad = {}
  <2>1. {} \notin Bad
    BY <1>1, <1>2 DEF SumsTo
  <2> HIDE DEF Bad
  <2>2. Bad \in SUBSET SUBSET S
    BY DEF Bad
  <2> QED BY <1>3, <2>1, <2>2, NoLeastBad
<1>5. g[S] = k[S] /\ k[S] = SumFunction(h) /\ g[T] = SumFunction(f)
  BY <1>1, <1>2, <1>4 DEF SumsTo
<1>6. k[S] \in Int
  BY <1>2, SumTakeOut
<1>7. g[T] = f[x] + g[S]
  <2>1. f \in [T -> Int] /\ x \in T /\ T \ {x} = S
    BY DEF T
  <2> QED BY <1>0, <1>1, <2>1, SumTakeOut
<1>8. f[x] \in Int
  OBVIOUS
<1> QED BY <1>5, <1>6, <1>7, <1>8

\* Sums of squares of differences, as the sums of squares and of terms.
LEMMA SquareStep ==
    ASSUME NEW a \in Int, NEW b \in Int, NEW x \in Int, NEW q \in Int, NEW s \in Int, NEW n \in Int
    PROVE  (a * x - b) * (a * x - b) + (a * a * q - 2 * a * b * s + n * b * b)
                = a * a * (q + x * x) - 2 * a * b * (s + x) + (n + 1) * b * b
OBVIOUS

LEMMA SumOfSquares ==
    ASSUME NEW S, IsFiniteSet(S), NEW f \in [S -> Int], NEW a \in Int, NEW b \in Int
    PROVE  SumFunction([i \in S |-> (a * f[i] - b) * (a * f[i] - b)])
                = a * a * SumFunction([i \in S |-> f[i] * f[i]]) - 2 * a * b * SumFunction(f)
                      + Cardinality(S) * b * b
<1> DEFINE sq == [i \in S |-> f[i] * f[i]]
           df == [i \in S |-> (a * f[i] - b) * (a * f[i] - b)]
<1>0. DOMAIN f = S /\ DOMAIN sq = S /\ DOMAIN df = S
  OBVIOUS
<1>a. \A i \in S : f[i] \in Int /\ sq[i] = f[i] * f[i] /\ df[i] = (a * f[i] - b) * (a * f[i] - b)
  OBVIOUS
<1> HIDE DEF sq, df
<1>1. PICK g : SumsTo(g, f, S)
  BY <1>0, SumIs
<1>2. PICK q : SumsTo(q, sq, S)
  BY <1>0, SumIs
<1>3. PICK h : SumsTo(h, df, S)
  BY <1>0, SumIs
<1> DEFINE Good(s) == /\ g[s] \in Int /\ q[s] \in Int /\ h[s] \in Int
                      /\ h[s] = a * a * q[s] - 2 * a * b * g[s] + Cardinality(s) * b * b
           Bad == {s \in SUBSET S : ~Good(s)}
<1>4. ASSUME NEW s \in SUBSET S, s # {}, s \ {Pick(s)} \notin Bad PROVE s \notin Bad
  <2>1. PICK p \in S, t \in SUBSET S : p = Pick(s) /\ t = s \ {Pick(s)}
    BY <1>4 DEF Pick
  <2>2. PICK n \in Nat : n = Cardinality(t) /\ Cardinality(s) = n + 1
    <3>1. /\ Cardinality(s) \in Nat \ {0} /\ Cardinality(s \ {Pick(s)}) = Cardinality(s) - 1
      BY <1>4, LessOne, FS_Subset
    <3>2. Cardinality(s) - 1 \in Nat /\ (Cardinality(s) - 1) + 1 = Cardinality(s)
      BY <3>1
    <3> QED BY <2>1, <3>1, <3>2
  <2>3. Good(t)
    BY <1>4, <2>1
  <2>4. PICK x \in Int, gt \in Int, qt \in Int, ht \in Int :
            /\ x = f[p] /\ gt = g[t] /\ qt = q[t] /\ ht = h[t]
            /\ ht = a * a * qt - 2 * a * b * gt + n * b * b
    BY <1>a, <2>2, <2>3
  <2>5. /\ g[s] = x + gt /\ q[s] = x * x + qt /\ h[s] = (a * x - b) * (a * x - b) + ht
    <3>1. g[s] = f[p] + g[t] /\ q[s] = sq[p] + q[t] /\ h[s] = df[p] + h[t]
      BY <1>1, <1>2, <1>3, <1>4, <2>1 DEF SumsTo
    <3> QED BY <1>a, <2>4, <3>1
  <2>6. (a * x - b) * (a * x - b) + ht
            = a * a * (qt + x * x) - 2 * a * b * (gt + x) + (n + 1) * b * b
    <3>1. (a * x - b) * (a * x - b) + (a * a * qt - 2 * a * b * gt + n * b * b)
              = a * a * (qt + x * x) - 2 * a * b * (gt + x) + (n + 1) * b * b
      BY SquareStep
    <3> QED BY <2>4, <3>1
  <2>7. g[s] = gt + x /\ q[s] = qt + x * x /\ gt + x \in Int /\ qt + x * x \in Int
    BY <2>5
  <2>8. h[s] = a * a * q[s] - 2 * a * b * g[s] + Cardinality(s) * b * b
    BY <2>2, <2>5, <2>6, <2>7
  <2>9. h[s] \in Int
    BY <2>4, <2>5
  <2> QED BY <2>7, <2>8, <2>9
<1>5. Bad = {}
  <2>1. {} \notin Bad
    <3>1. Cardinality({}) = 0
      BY FS_EmptySet
    <3>2. g[{}] = 0 /\ q[{}] = 0 /\ h[{}] = 0
      BY <1>1, <1>2, <1>3 DEF SumsTo
    <3>3. 0 = a * a * 0 - 2 * a * b * 0 + 0 * b * b
      OBVIOUS
    <3>4. g[{}] \in Int /\ q[{}] \in Int /\ h[{}] \in Int
      BY <3>2
    <3>5. h[{}] = a * a * q[{}] - 2 * a * b * g[{}] + Cardinality({}) * b * b
      BY <3>1, <3>2, <3>3
    <3> QED BY <3>4, <3>5
  <2> HIDE DEF Bad
  <2>2. Bad \in SUBSET SUBSET S
    BY DEF Bad
  <2> QED BY <1>4, <2>1, <2>2, NoLeastBad
<1> QED BY <1>1, <1>2, <1>3, <1>5 DEF SumsTo, sq, df
-----------------------------------------------------------------------------
(* Files and messages *)

Rows == [device : Int, hour : Int, temp : -Infinity .. Infinity, light : BOOLEAN]

LEMMA FilesAreRows == Files \subseteq Seq(Rows)
BY ProducerAssumption, Zenon DEF Rows

LEMMA DevicesFinite ==
    ASSUME NEW f \in Seq(Rows)
    PROVE  IsFiniteSet(Devices(f))
<1> DEFINE g == [i \in 1 .. Len(f) |-> f[i].device]
<1>1. DOMAIN f = 1 .. Len(f) /\ Len(f) \in Nat
  OBVIOUS
<1>2. g \in Surjection(1 .. Len(f), Devices(f))
  BY <1>1 DEF Surjection, Devices
<1>3. IsFiniteSet(1 .. Len(f))
  BY <1>1, FS_Interval
<1> QED BY <1>2, <1>3, FS_Surjection

LEMMA CountType ==
    ASSUME NEW S, NEW s \in Seq(S), NEW rows
    PROVE  Count(s, rows) \in Nat /\ IsFiniteSet({i \in DOMAIN s : s[i] \in rows})
<1>1. DOMAIN s = 1 .. Len(s) /\ Len(s) \in Nat
  OBVIOUS
<1>2. IsFiniteSet(DOMAIN s)
  BY <1>1, FS_Interval
<1>3. {i \in DOMAIN s : s[i] \in rows} \in SUBSET DOMAIN s
  OBVIOUS
<1>4. IsFiniteSet({i \in DOMAIN s : s[i] \in rows})
  BY <1>2, <1>3, FS_Subset
<1> QED BY <1>4, FS_CardinalityType DEF Count

LEMMA CountEmpty ==
    ASSUME NEW rows
    PROVE  Count(<<>>, rows) = 0
<1>1. {i \in DOMAIN <<>> : <<>>[i] \in rows} = {}
  OBVIOUS
<1> QED BY <1>1, FS_EmptySet DEF Count

LEMMA CountAppend ==
    ASSUME NEW S, NEW s \in Seq(S), NEW x \in S, NEW rows
    PROVE  Count(Append(s, x), rows) = Count(s, rows) + (IF x \in rows THEN 1 ELSE 0)
<1> DEFINE K == {i \in DOMAIN s : s[i] \in rows}
           L == {i \in DOMAIN Append(s, x) : Append(s, x)[i] \in rows}
<1>1. DOMAIN s = 1 .. Len(s) /\ Len(s) \in Nat /\ DOMAIN Append(s, x) = 1 .. Len(s) + 1
  OBVIOUS
<1>2. \A i \in 1 .. Len(s) : Append(s, x)[i] = s[i]
  OBVIOUS
<1>3. Append(s, x)[Len(s) + 1] = x
  OBVIOUS
<1>4. IsFiniteSet(K) /\ Cardinality(K) \in Nat
  BY CountType, FS_CardinalityType
<1>5. CASE x \in rows
  <2>1. L = K \cup {Len(s) + 1} /\ Len(s) + 1 \notin K
    BY <1>1, <1>2, <1>3, <1>5
  <2>2. Cardinality(K \cup {Len(s) + 1}) = Cardinality(K) + 1
    <3> HIDE DEF K
    <3> QED BY <1>4, <2>1, FS_AddElement
  <2> QED BY <1>5, <2>1, <2>2 DEF Count
<1>6. CASE x \notin rows
  <2>1. L = K
    BY <1>1, <1>2, <1>3, <1>6
  <2>2. Count(Append(s, x), rows) = Cardinality(L) /\ Count(s, rows) = Cardinality(K)
    BY DEF Count
  <2> HIDE DEF K, L
  <2> QED BY <1>4, <1>6, <2>1, <2>2
<1> QED BY <1>5, <1>6

LEMMA CountTail ==
    ASSUME NEW S, NEW s \in Seq(S), s # <<>>, NEW rows
    PROVE  Count(Tail(s), rows) = Count(s, rows) - (IF Head(s) \in rows THEN 1 ELSE 0)
<1> DEFINE K == {i \in DOMAIN s : s[i] \in rows}
           L == {i \in DOMAIN Tail(s) : Tail(s)[i] \in rows}
           f == [i \in L |-> i + 1]
<1>1. PICK n \in Nat : n = Len(s) /\ n > 0
  OBVIOUS
<1>2. /\ DOMAIN s = 1 .. n /\ DOMAIN Tail(s) = 1 .. n - 1
      /\ \A i \in 1 .. n - 1 : Tail(s)[i] = s[i + 1]
      /\ Head(s) = s[1]
  BY <1>1
<1>3. IsFiniteSet(K) /\ Cardinality(K) \in Nat
  BY CountType, FS_CardinalityType
<1>4. IsFiniteSet(L)
  <2>1. Tail(s) \in Seq(S)
    OBVIOUS
  <2> QED BY <2>1, CountType
<1>5. f \in Bijection(L, K \ {1})
  <2>1. \A i \in L : f[i] \in K \ {1}
    BY <1>1, <1>2
  <2>2. \A i, j \in L : f[i] = f[j] => i = j
    BY <1>2
  <2>3. \A k \in K \ {1} : k - 1 \in L /\ f[k - 1] = k
    BY <1>1, <1>2
  <2>4. f \in [L -> K \ {1}]
    BY <2>1
  <2> HIDE DEF f, L, K
  <2> QED BY <2>2, <2>3, <2>4 DEF Bijection, Injection, Surjection, IsInjective
<1>6. Cardinality(K \ {1}) = Cardinality(L)
  <2>1. ExistsBijection(L, K \ {1})
    <3> HIDE DEF f, L, K
    <3> QED BY <1>5 DEF ExistsBijection
  <2> HIDE DEF f, L, K
  <2> QED BY <1>4, <2>1, FS_Bijection
<1>7. Cardinality(K \ {1}) = IF 1 \in K THEN Cardinality(K) - 1 ELSE Cardinality(K)
  <2> HIDE DEF K
  <2> QED BY <1>3, FS_RemoveElement
<1>8. 1 \in K <=> Head(s) \in rows
  BY <1>1, <1>2
<1>9. Count(Tail(s), rows) = Cardinality(L) /\ Count(s, rows) = Cardinality(K)
  BY DEF Count
<1> HIDE DEF K, L
<1> QED BY <1>3, <1>6, <1>7, <1>8, <1>9
-----------------------------------------------------------------------------
(* The invariant *)

First == FirstRow(Len(file))

\* What this run may have queued: the rows from the first to be replayed up to
\* the one in hand, and synthetic messages after the hand-over.
Sources ==
    {m \in 0 .. Len(file) :
        /\ m = 0 => state.mode = "synthetic"
        /\ m # 0 => First <= m /\ (phase = "replay" => m < row \/ (m = row /\ step = "record"))}

\* A message may follow another, the rows in order and then the synthetic ones.
Before(m, n) == n = 0 \/ (m # 0 /\ m < n)

\* The messages of a key, stored and queued, follow one another.
Ordered(stored, queued) ==
    /\ \A i, j \in DOMAIN stored : i < j => Before(stored[i], stored[j])
    /\ \A i, j \in DOMAIN queued : i < j => Before(queued[i], queued[j])
    /\ \A i \in DOMAIN stored, j \in DOMAIN queued : Before(stored[i], queued[j])

Counts == [mode : {"replay", "synthetic"}, sent_replay : Nat, sent_synthetic : Nat, anomalies : Nat]

ShapeOK ==
    /\ phase \in {"stats", "replay", "synthetic", "flush", "down"}
    /\ step \in {"publish", "record", "anomaly", "wait"}
    /\ file \in Files /\ file \in Seq(Rows) /\ row \in Nat /\ spiked \in BOOLEAN /\ refused \in Nat
    /\ state \in Counts
    /\ lead \in -Behind .. Interval /\ ages \in Seq(Nat)

\* Where the process is in the file, and what it has counted by then.
PhaseOK ==
    /\ phase = "stats" =>
        /\ row \in 1 .. Len(file) + 1 /\ stats.rows = row - 1 /\ state = NewState
        /\ step = "publish" /\ ages = <<>> /\ refused = 0
        /\ queue = NoMessages(file) /\ topic = NoMessages(file)
    /\ phase = "replay" =>
        /\ row \in First .. Len(file) + 1 /\ (step = "record" => row <= Len(file))
        /\ step # "anomaly"
        /\ state.mode = "replay" /\ state.sent_replay = row - First
        /\ state.sent_synthetic = 0 /\ state.anomalies = 0
    /\ phase \in {"stats", "replay"} => ~spiked
    /\ phase = "synthetic" => state.mode = "synthetic"
    /\ state.mode = "synthetic" => state.sent_replay = Len(file) + 1 - First

MessagesOK ==
    /\ queue \in [Devices(file) -> Seq(Sources)] /\ topic \in [Devices(file) -> Seq(Sources)]
    /\ \A d \in Devices(file) : Ordered(topic[d], queue[d])

QueueOK == Queued \in Nat /\ Queued <= QueueSize

\* The ledger, with the event in hand on the side it belongs to.
InHand(kind) == IF step = "record" /\ phase = kind THEN 1 ELSE 0

LedgerOK ==
    phase \in {"stats", "replay", "synthetic"} =>
        /\ Out(DOMAIN file) \in Nat /\ Out({0}) \in Nat
        /\ state.sent_replay + state.sent_synthetic + InHand("replay") + InHand("synthetic")
                = Out(DOMAIN file) + Out({0}) + refused
        /\ Out(DOMAIN file) <= state.sent_replay + InHand("replay")
        /\ Out({0}) <= state.sent_synthetic + InHand("synthetic")
        /\ state.anomalies + (IF step = "anomaly" THEN 1 ELSE 0) <= state.sent_synthetic

\* The ticks since the i-th of the recent events: two of them may have been
\* late, every other one is paid for with an interval.
Waits(i) == Len(ages) - i + (IF step = "publish" THEN 1 ELSE 0)

PaceOK ==
    \A i \in DOMAIN ages : Waits(i) >= 1 => lead >= (Waits(i) - 2) * Interval - ages[i]

\* The inductive invariant.
IInv == ShapeOK /\ PhaseOK /\ MessagesOK /\ QueueOK /\ LedgerOK /\ PaceOK
-----------------------------------------------------------------------------
(* What follows what *)

LEMMA FirstRange ==
    ASSUME file \in Seq(Rows)
    PROVE  Len(file) \in Nat /\ First \in 1 .. Len(file) + 1 /\ DOMAIN file = 1 .. Len(file)
<1>1. Len(file) \in Nat /\ DOMAIN file = 1 .. Len(file)
  OBVIOUS
<1> QED BY <1>1, ProducerAssumption DEF First, FirstRow

LEMMA OrderedAccept ==
    ASSUME NEW S \in SUBSET Nat, NEW t \in Seq(S), NEW q \in Seq(S), Ordered(t, q),
           NEW m \in Nat, \A x \in S : Before(x, m)
    PROVE  Ordered(t, Append(q, m))
<1>1. Len(q) \in Nat
  OBVIOUS
<1>2. /\ DOMAIN Append(q, m) = 1 .. Len(q) + 1 /\ DOMAIN q = 1 .. Len(q)
      /\ \A i \in 1 .. Len(q) : Append(q, m)[i] = q[i]
      /\ Append(q, m)[Len(q) + 1] = m
  BY <1>1
<1>3. (\A i \in DOMAIN q : q[i] \in S) /\ \A i \in DOMAIN t : t[i] \in S
  OBVIOUS
<1>4. ASSUME NEW i \in 1 .. Len(q) + 1, NEW j \in 1 .. Len(q) + 1, i < j
      PROVE  Before(Append(q, m)[i], Append(q, m)[j])
  <2>1. i \in 1 .. Len(q) /\ (j \in 1 .. Len(q) \/ j = Len(q) + 1)
    BY <1>1, <1>4
  <2>2. CASE j \in 1 .. Len(q)
    BY <1>2, <1>4, <2>1, <2>2 DEF Ordered
  <2>3. CASE j = Len(q) + 1
    BY <1>2, <1>3, <2>1, <2>3
  <2> QED BY <2>1, <2>2, <2>3
<1>5. ASSUME NEW i \in DOMAIN t, NEW j \in 1 .. Len(q) + 1
      PROVE  Before(t[i], Append(q, m)[j])
  <2>1. j \in 1 .. Len(q) \/ j = Len(q) + 1
    BY <1>1
  <2>2. CASE j \in 1 .. Len(q)
    BY <1>2, <2>2 DEF Ordered
  <2>3. CASE j = Len(q) + 1
    BY <1>2, <1>3, <2>3
  <2> QED BY <2>1, <2>2, <2>3
<1> QED BY <1>2, <1>4, <1>5 DEF Ordered

\* The head of a queue, and what is behind it.
LEMMA TailIs ==
    ASSUME NEW S, NEW q \in Seq(S), q # <<>>
    PROVE  /\ Head(q) \in S /\ Tail(q) \in Seq(S) /\ Head(q) = q[1]
           /\ DOMAIN q = 1 .. Len(q) /\ DOMAIN Tail(q) = 1 .. Len(q) - 1 /\ Len(q) \in Nat \ {0}
           /\ Len(Tail(q)) = Len(q) - 1
           /\ \A i \in 1 .. Len(q) - 1 : Tail(q)[i] = q[i + 1]
OBVIOUS

LEMMA OrderedRefuse ==
    ASSUME NEW S \in SUBSET Nat, NEW t \in Seq(S), NEW q \in Seq(S), Ordered(t, q), q # <<>>
    PROVE  Ordered(t, Tail(q))
<1>1. /\ DOMAIN q = 1 .. Len(q) /\ DOMAIN Tail(q) = 1 .. Len(q) - 1 /\ Len(q) \in Nat \ {0}
      /\ \A i \in 1 .. Len(q) - 1 : Tail(q)[i] = q[i + 1]
  BY TailIs
<1>2. \A i \in DOMAIN Tail(q) : i + 1 \in DOMAIN q
  BY <1>1
<1>3. ASSUME NEW i \in DOMAIN Tail(q), NEW j \in DOMAIN Tail(q), i < j
      PROVE  Before(Tail(q)[i], Tail(q)[j])
  <2>1. i + 1 \in DOMAIN q /\ j + 1 \in DOMAIN q /\ i + 1 < j + 1
    BY <1>1, <1>3
  <2>2. Before(q[i + 1], q[j + 1])
    BY <2>1 DEF Ordered
  <2> QED BY <1>1, <2>2
<1>4. ASSUME NEW i \in DOMAIN t, NEW j \in DOMAIN Tail(q)
      PROVE  Before(t[i], Tail(q)[j])
  <2>1. Before(t[i], q[j + 1])
    BY <1>2 DEF Ordered
  <2> QED BY <1>1, <2>1
<1> QED BY <1>3, <1>4 DEF Ordered

LEMMA OrderedDeliver ==
    ASSUME NEW S \in SUBSET Nat, NEW t \in Seq(S), NEW q \in Seq(S), Ordered(t, q), q # <<>>
    PROVE  Ordered(Append(t, Head(q)), Tail(q))
<1>1. /\ DOMAIN q = 1 .. Len(q) /\ DOMAIN Tail(q) = 1 .. Len(q) - 1 /\ Len(q) \in Nat \ {0}
      /\ \A i \in 1 .. Len(q) - 1 : Tail(q)[i] = q[i + 1]
      /\ Head(q) = q[1] /\ Head(q) \in S
  BY TailIs
<1>2. /\ DOMAIN Append(t, Head(q)) = 1 .. Len(t) + 1 /\ DOMAIN t = 1 .. Len(t) /\ Len(t) \in Nat
      /\ \A i \in 1 .. Len(t) : Append(t, Head(q))[i] = t[i]
      /\ Append(t, Head(q))[Len(t) + 1] = q[1]
  BY <1>1
<1>3. 1 \in DOMAIN q
  BY <1>1
<1>4. ASSUME NEW i \in 1 .. Len(t) + 1, NEW j \in 1 .. Len(t) + 1, i < j
      PROVE  Before(Append(t, Head(q))[i], Append(t, Head(q))[j])
  <2>1. i \in 1 .. Len(t) /\ (j \in 1 .. Len(t) \/ j = Len(t) + 1)
    BY <1>2, <1>4
  <2>2. CASE j \in 1 .. Len(t)
    <3>1. Before(t[i], t[j])
      BY <1>2, <1>4, <2>1, <2>2 DEF Ordered
    <3> QED BY <1>2, <2>1, <2>2, <3>1
  <2>3. CASE j = Len(t) + 1
    <3>1. Before(t[i], q[1])
      BY <1>2, <1>3, <2>1 DEF Ordered
    <3> QED BY <1>2, <2>1, <2>3, <3>1
  <2> QED BY <2>1, <2>2, <2>3
<1>5. ASSUME NEW i \in 1 .. Len(t) + 1, NEW j \in 1 .. Len(q) - 1
      PROVE  Before(Append(t, Head(q))[i], Tail(q)[j])
  <2>0. j + 1 \in DOMAIN q /\ Tail(q)[j] = q[j + 1] /\ 1 < j + 1
    BY <1>1
  <2>1. i \in 1 .. Len(t) \/ i = Len(t) + 1
    BY <1>2
  <2>2. CASE i \in 1 .. Len(t)
    <3>1. Before(t[i], q[j + 1])
      BY <1>2, <2>0, <2>2 DEF Ordered
    <3> QED BY <1>2, <2>0, <2>2, <3>1
  <2>3. CASE i = Len(t) + 1
    <3>1. Before(q[1], q[j + 1])
      BY <1>3, <2>0 DEF Ordered
    <3> QED BY <1>2, <2>0, <2>3, <3>1
  <2> QED BY <2>1, <2>2, <2>3
<1>6. Ordered(t, Tail(q))
  BY OrderedRefuse
<1> QED BY <1>1, <1>2, <1>4, <1>5, <1>6 DEF Ordered

LEMMA OrderedLost ==
    ASSUME NEW t, NEW q, Ordered(t, q)
    PROVE  Ordered(t, <<>>)
<1>1. DOMAIN <<>> = {}
  OBVIOUS
<1> QED BY <1>1 DEF Ordered

-----------------------------------------------------------------------------
(* What is in the queues *)

LEMMA SumNat ==
    ASSUME NEW S, IsFiniteSet(S), NEW f \in [S -> Nat]
    PROVE  SumFunction(f) \in Nat
<1> DEFINE zero == [x \in S |-> 0]
<1>1. zero \in [S -> 0 .. 0] /\ zero \in [S -> Int] /\ f \in [S -> Int]
  OBVIOUS
<1>2. \A x \in S : zero[x] <= f[x]
  OBVIOUS
<1>3. SumFunction(zero) \in 0 .. Cardinality(S) * 0
  <2> HIDE DEF zero
  <2> QED BY <1>1, SumBound
<1>4. SumFunction(f) \in Int /\ SumFunction(zero) \in Int /\ SumFunction(zero) <= SumFunction(f)
  <2> HIDE DEF zero
  <2> QED BY <1>1, <1>2, SumLeq
<1>5. Cardinality(S) \in Nat
  BY FS_CardinalityType
<1>6. 0 <= SumFunction(zero)
  BY <1>3, <1>5
<1> QED BY <1>4, <1>6

LEMMA SumZero ==
    ASSUME NEW S, IsFiniteSet(S), NEW f \in [S -> Nat], \A x \in S : f[x] = 0
    PROVE  SumFunction(f) = 0
<1>1. f \in [S -> 0 .. 0]
  OBVIOUS
<1>2. SumFunction(f) \in 0 .. Cardinality(S) * 0
  BY <1>1, SumBound
<1>3. Cardinality(S) \in Nat
  BY FS_CardinalityType
<1> QED BY <1>2, <1>3

LEMMA OutType ==
    ASSUME file \in Seq(Rows), NEW rows,
           queue \in [Devices(file) -> Seq(Nat)], topic \in [Devices(file) -> Seq(Nat)]
    PROVE  Out(rows) \in Nat /\ Queued \in Nat
<1>1. IsFiniteSet(Devices(file))
  BY DevicesFinite
<1>2. [d \in Devices(file) |-> Count(topic[d], rows) + Count(queue[d], rows)] \in [Devices(file) -> Nat]
  <2>1. ASSUME NEW d \in Devices(file) PROVE Count(topic[d], rows) \in Nat /\ Count(queue[d], rows) \in Nat
    BY CountType
  <2> QED BY <2>1
<1>3. [d \in Devices(file) |-> Len(queue[d])] \in [Devices(file) -> Nat]
  OBVIOUS
<1> QED BY <1>1, <1>2, <1>3, SumNat DEF Out, Queued

LEMMA OutNone ==
    ASSUME file \in Seq(Rows), NEW rows, topic = NoMessages(file), queue = NoMessages(file)
    PROVE  Out(rows) = 0
<1> DEFINE f == [d \in Devices(file) |-> Count(topic[d], rows) + Count(queue[d], rows)]
<1>1. IsFiniteSet(Devices(file))
  BY DevicesFinite
<1>2. \A d \in Devices(file) : f[d] = 0
  BY CountEmpty DEF NoMessages
<1>3. f \in [Devices(file) -> Nat]
  BY <1>2
<1> HIDE DEF f
<1>4. SumFunction(f) = 0
  BY <1>1, <1>2, <1>3, SumZero
<1> QED BY <1>4 DEF Out, f

LEMMA QueuedNone ==
    ASSUME file \in Seq(Rows), queue = NoMessages(file)
    PROVE  Queued = 0
<1> DEFINE f == [d \in Devices(file) |-> Len(queue[d])]
<1>1. IsFiniteSet(Devices(file))
  BY DevicesFinite
<1>2. \A d \in Devices(file) : f[d] = 0
  BY DEF NoMessages
<1>3. f \in [Devices(file) -> Nat]
  BY <1>2
<1> HIDE DEF f
<1>4. SumFunction(f) = 0
  BY <1>1, <1>2, <1>3, SumZero
<1> QED BY <1>4 DEF Queued, f

\* A step that concerns the messages of one key.
LEMMA OutChange ==
    ASSUME file \in Seq(Rows), file' = file, NEW d \in Devices(file), NEW rows,
           queue \in [Devices(file) -> Seq(Nat)], topic \in [Devices(file) -> Seq(Nat)],
           queue' \in [Devices(file) -> Seq(Nat)], topic' \in [Devices(file) -> Seq(Nat)],
           \A x \in Devices(file) \ {d} : queue'[x] = queue[x] /\ topic'[x] = topic[x]
    PROVE  /\ Out(rows)' = Out(rows) + ((Count(topic'[d], rows) + Count(queue'[d], rows))
                                            - (Count(topic[d], rows) + Count(queue[d], rows)))
           /\ Queued' = Queued + (Len(queue'[d]) - Len(queue[d]))
<1> DEFINE f == [x \in Devices(file) |-> Count(topic[x], rows) + Count(queue[x], rows)]
           h == [x \in Devices(file) |-> Count(topic'[x], rows) + Count(queue'[x], rows)]
           k == [x \in Devices(file) |-> Len(queue[x])]
           l == [x \in Devices(file) |-> Len(queue'[x])]
<1>1. IsFiniteSet(Devices(file))
  BY DevicesFinite
<1>2. ASSUME NEW x \in Devices(file)
      PROVE  /\ Count(topic[x], rows) \in Nat /\ Count(queue[x], rows) \in Nat
             /\ Count(topic'[x], rows) \in Nat /\ Count(queue'[x], rows) \in Nat
  <2>1. topic[x] \in Seq(Nat) /\ queue[x] \in Seq(Nat) /\ topic'[x] \in Seq(Nat) /\ queue'[x] \in Seq(Nat)
    OBVIOUS
  <2> QED BY <2>1, CountType
<1>3. f \in [Devices(file) -> Int] /\ h \in [Devices(file) -> Int]
  <2>1. ASSUME NEW x \in Devices(file) PROVE f[x] \in Int /\ h[x] \in Int
    <3>1. /\ f[x] = Count(topic[x], rows) + Count(queue[x], rows)
          /\ h[x] = Count(topic'[x], rows) + Count(queue'[x], rows)
      OBVIOUS
    <3>2. /\ Count(topic[x], rows) \in Nat /\ Count(queue[x], rows) \in Nat
          /\ Count(topic'[x], rows) \in Nat /\ Count(queue'[x], rows) \in Nat
      BY <1>2
    <3> HIDE DEF f, h
    <3> QED BY <3>1, <3>2
  <2>2. f = [x \in Devices(file) |-> f[x]] /\ h = [x \in Devices(file) |-> h[x]]
    OBVIOUS
  <2> HIDE DEF f, h
  <2> QED BY <2>1, <2>2
<1>4. k \in [Devices(file) -> Int] /\ l \in [Devices(file) -> Int]
  OBVIOUS
<1>5. \A x \in Devices(file) \ {d} : h[x] = f[x] /\ l[x] = k[x]
  OBVIOUS
<1>6. Out(rows) = SumFunction(f) /\ Out(rows)' = SumFunction(h)
      /\ Queued = SumFunction(k) /\ Queued' = SumFunction(l)
  BY DEF Out, Queued
<1>7. SumFunction(h) = SumFunction(f) + (h[d] - f[d]) /\ SumFunction(l) = SumFunction(k) + (l[d] - k[d])
  <2> HIDE DEF f, h, k, l
  <2>1. SumFunction(h) = SumFunction(f) + (h[d] - f[d])
    <3>1. PICK S, F, H : S = Devices(file) /\ F = f /\ H = h
      OBVIOUS
    <3>2. DifferAt(d, F, H, S)
      <4>1. IsFiniteSet(S) /\ F \in [S -> Int] /\ H \in [S -> Int] /\ d \in S
        BY <1>1, <1>3, <3>1, Zenon
      <4>2. \A x \in S \ {d} : H[x] = F[x]
        BY <1>5, <3>1, Zenon
      <4> QED BY <4>1, <4>2 DEF DifferAt
    <3>3. SumFunction(H) = SumFunction(F) + (H[d] - F[d])
      BY <3>2, SumChange
    <3> QED BY <3>1, <3>3
  <2>2. SumFunction(l) = SumFunction(k) + (l[d] - k[d])
    <3>1. PICK S, K, L : S = Devices(file) /\ K = k /\ L = l
      OBVIOUS
    <3>2. DifferAt(d, K, L, S)
      <4>1. IsFiniteSet(S) /\ K \in [S -> Int] /\ L \in [S -> Int] /\ d \in S
        BY <1>1, <1>4, <3>1, Zenon
      <4>2. \A x \in S \ {d} : L[x] = K[x]
        BY <1>5, <3>1, Zenon
      <4> QED BY <4>1, <4>2 DEF DifferAt
    <3>3. SumFunction(L) = SumFunction(K) + (L[d] - K[d])
      BY <3>2, SumChange
    <3> QED BY <3>1, <3>3
  <2> QED BY <2>1, <2>2
<1>8. /\ h[d] = Count(topic'[d], rows) + Count(queue'[d], rows)
      /\ f[d] = Count(topic[d], rows) + Count(queue[d], rows)
      /\ l[d] = Len(queue'[d]) /\ k[d] = Len(queue[d])
  OBVIOUS
<1> HIDE DEF f, h, k, l
<1> QED BY <1>6, <1>7, <1>8
-----------------------------------------------------------------------------
(* Initially, and after a restart *)

Booted ==
    /\ file \in Files /\ phase = "stats" /\ step = "publish" /\ row = 1 /\ spiked = FALSE
    /\ stats = EmptyStats(file) /\ state = NewState
    /\ queue = NoMessages(file) /\ topic = NoMessages(file)
    /\ refused = 0 /\ lead = 0 /\ ages = <<>>

LEMMA BootedInvariant == Booted => IInv
<1> SUFFICES ASSUME Booted PROVE IInv
  OBVIOUS
<1> USE ProducerAssumption DEF Booted
<1>1. file \in Seq(Rows) /\ Len(file) \in Nat
  BY FilesAreRows
<1>2. ShapeOK
  <2>1. 0 \in -Behind .. Interval /\ <<>> \in Seq(Nat)
    OBVIOUS
  <2>2. NewState \in Counts
    BY DEF NewState, Counts
  <2> QED BY <1>1, <2>1, <2>2 DEF ShapeOK
<1>3. PhaseOK
  <2>1. stats.rows = 0
    BY DEF EmptyStats
  <2> QED BY <1>1, <2>1 DEF PhaseOK, NewState
<1>4. MessagesOK
  <2>1. <<>> \in Seq(Sources) /\ Ordered(<<>>, <<>>)
    BY DEF Ordered
  <2> QED BY <2>1 DEF MessagesOK, NoMessages
<1>5. QueueOK
  BY <1>1, QueuedNone DEF QueueOK
<1>6. LedgerOK
  <2>1. Out(DOMAIN file) = 0 /\ Out({0}) = 0
    BY <1>1, OutNone
  <2> QED BY <2>1 DEF LedgerOK, InHand, NewState
<1>7. PaceOK
  BY DEF PaceOK
<1> QED BY <1>2, <1>3, <1>4, <1>5, <1>6, <1>7 DEF IInv

LEMMA InitInvariant == Init => IInv
<1>1. Init => Booted
  BY DEF Init, Booted
<1> QED BY <1>1, BootedInvariant

LEMMA RestartInvariant == IInv /\ Restart => IInv'
<1>1. IInv /\ Restart => Booted'
  BY DEF Restart, Boot, Booted, IInv, ShapeOK
<1> QED BY <1>1, BootedInvariant, PTL

-----------------------------------------------------------------------------
(* Steps that leave the messages alone *)

\* While the process goes forward in the file, what it may have queued grows.
LEMMA SourcesGrow ==
    ASSUME ShapeOK, ShapeOK', file' = file,
           state.mode = "synthetic" => state'.mode = "synthetic",
           phase' = "replay" => phase = "replay" /\ row <= row'
                                    /\ (step = "record" => step' = "record" \/ row < row')
    PROVE  Sources \subseteq Sources'
<1> SUFFICES ASSUME NEW m \in Sources PROVE m \in Sources'
  OBVIOUS
<1>1. row \in Nat /\ row' \in Nat /\ m \in 0 .. Len(file) /\ Len(file) \in Nat
  BY DEF ShapeOK, Sources
<1>2. First' = First
  BY DEF First
<1> QED BY <1>1, <1>2 DEF Sources

\* What holds of the messages when neither queue nor topic changes.
LEMMA MessagesKept ==
    ASSUME MessagesOK, file' = file, queue' = queue, topic' = topic, Sources \subseteq Sources'
    PROVE  MessagesOK'
<1>1. ASSUME NEW d \in Devices(file)
      PROVE  queue[d] \in Seq(Sources') /\ topic[d] \in Seq(Sources')
  <2>1. queue[d] \in Seq(Sources) /\ topic[d] \in Seq(Sources)
    BY DEF MessagesOK
  <2> QED BY <2>1, SeqMonotonic
<1>2. queue = [d \in Devices(file) |-> queue[d]] /\ topic = [d \in Devices(file) |-> topic[d]]
  BY DEF MessagesOK
<1>3. queue \in [Devices(file) -> Seq(Sources')] /\ topic \in [Devices(file) -> Seq(Sources')]
  BY <1>1, <1>2
<1> QED BY <1>3 DEF MessagesOK

\* ... and when the process ends, and the queue with it.
LEMMA MessagesLost ==
    ASSUME MessagesOK, file' = file, queue' = NoMessages(file), topic' = topic,
           Sources \subseteq Sources'
    PROVE  MessagesOK'
<1>1. ASSUME NEW d \in Devices(file) PROVE topic[d] \in Seq(Sources')
  <2>1. topic[d] \in Seq(Sources)
    BY DEF MessagesOK
  <2> QED BY <2>1, SeqMonotonic
<1>2. topic = [d \in Devices(file) |-> topic[d]]
  BY DEF MessagesOK
<1>3. topic \in [Devices(file) -> Seq(Sources')] /\ queue' \in [Devices(file) -> Seq(Sources')]
  <2>1. <<>> \in Seq(Sources')
    OBVIOUS
  <2> QED BY <1>1, <1>2, <2>1 DEF NoMessages
<1>4. ASSUME NEW d \in Devices(file) PROVE Ordered(topic'[d], queue'[d])
  <2>1. Ordered(topic[d], <<>>)
    BY OrderedLost DEF MessagesOK
  <2> QED BY <2>1 DEF NoMessages
<1> QED BY <1>3, <1>4 DEF MessagesOK

LEMMA NothingYet ==
    ASSUME file' = file, queue' = NoMessages(file), topic' = NoMessages(file)
    PROVE  MessagesOK'
<1>1. <<>> \in Seq(Sources') /\ Ordered(<<>>, <<>>)
  BY DEF Ordered
<1> QED BY <1>1 DEF MessagesOK, NoMessages

\* The messages are those of rows and synthetic ones.
LEMMA MessageTypes ==
    ASSUME ShapeOK, MessagesOK
    PROVE  queue \in [Devices(file) -> Seq(Nat)] /\ topic \in [Devices(file) -> Seq(Nat)]
<1>1. Sources \subseteq Nat
  BY DEF Sources
<1>2. ASSUME NEW d \in Devices(file) PROVE queue[d] \in Seq(Nat) /\ topic[d] \in Seq(Nat)
  <2>1. queue[d] \in Seq(Sources) /\ topic[d] \in Seq(Sources)
    BY DEF MessagesOK
  <2> QED BY <1>1, <2>1, SeqMonotonic
<1>3. queue = [d \in Devices(file) |-> queue[d]] /\ topic = [d \in Devices(file) |-> topic[d]]
  BY DEF MessagesOK
<1> QED BY <1>2, <1>3

-----------------------------------------------------------------------------
(* Steps that concern the messages of one key *)

\* A message is taken into the queue.
LEMMA AcceptStep ==
    ASSUME IInv, ShapeOK', file' = file, topic' = topic, NEW d \in Devices(file), NEW m,
           Accept(d, m), Sources \subseteq Sources', m \in Sources', \A x \in Sources : Before(x, m)
    PROVE  /\ MessagesOK' /\ QueueOK'
           /\ \A rows : Out(rows)' = Out(rows) + (IF m \in rows THEN 1 ELSE 0)
<1>1. ShapeOK /\ MessagesOK /\ QueueOK /\ file \in Seq(Rows)
  BY DEF IInv, ShapeOK
<1>2. queue' = [queue EXCEPT ![d] = Append(@, m)] /\ Queued < QueueSize
  BY DEF Accept
<1>3. Sources \subseteq Nat /\ m \in Nat
  BY DEF Sources
<1>4. queue[d] \in Seq(Sources) /\ topic[d] \in Seq(Sources) /\ Ordered(topic[d], queue[d])
  BY <1>1 DEF MessagesOK
<1>5. /\ queue'[d] = Append(queue[d], m)
      /\ \A x \in Devices(file) \ {d} : queue'[x] = queue[x] /\ topic'[x] = topic[x]
      /\ DOMAIN queue' = Devices(file)
      /\ queue' = [x \in Devices(file) |-> queue'[x]]
  BY <1>1, <1>2 DEF MessagesOK
<1>6. Ordered(topic[d], Append(queue[d], m))
  BY <1>3, <1>4, OrderedAccept
<1>7. MessagesOK'
  <2>1. ASSUME NEW x \in Devices(file)
        PROVE  /\ queue'[x] \in Seq(Sources') /\ topic[x] \in Seq(Sources')
               /\ Ordered(topic[x], queue'[x])
    <3>1. queue[x] \in Seq(Sources') /\ topic[x] \in Seq(Sources') /\ Ordered(topic[x], queue[x])
      <4>1. queue[x] \in Seq(Sources) /\ topic[x] \in Seq(Sources) /\ Ordered(topic[x], queue[x])
        BY <1>1 DEF MessagesOK
      <4> QED BY <4>1, SeqMonotonic
    <3>2. CASE x = d
      <4>1. Append(queue[d], m) \in Seq(Sources')
        BY <3>1, <3>2
      <4> QED BY <1>5, <1>6, <3>1, <3>2, <4>1
    <3>3. CASE x # d
      BY <1>5, <3>1, <3>3
    <3> QED BY <3>2, <3>3
  <2>2. topic = [x \in Devices(file) |-> topic[x]]
    BY <1>1 DEF MessagesOK
  <2>3. queue' \in [Devices(file) -> Seq(Sources')] /\ topic \in [Devices(file) -> Seq(Sources')]
    BY <1>5, <2>1, <2>2
  <2> QED BY <2>1, <2>3 DEF MessagesOK
<1>8. /\ queue \in [Devices(file) -> Seq(Nat)] /\ topic \in [Devices(file) -> Seq(Nat)]
  BY <1>1, MessageTypes
<1>9. queue' \in [Devices(file) -> Seq(Nat)] /\ topic' \in [Devices(file) -> Seq(Nat)]
  <2>1. ASSUME NEW x \in Devices(file) PROVE queue'[x] \in Seq(Nat)
    <3>1. queue[x] \in Seq(Nat) /\ Append(queue[d], m) \in Seq(Nat)
      BY <1>3, <1>8
    <3> QED BY <1>5, <3>1
  <2> QED BY <1>5, <1>8, <2>1
<1>10. ASSUME NEW rows
       PROVE  /\ Out(rows)' = Out(rows) + (IF m \in rows THEN 1 ELSE 0)
              /\ Queued' = Queued + 1
  <2>1. /\ Out(rows)' = Out(rows) + ((Count(topic'[d], rows) + Count(queue'[d], rows))
                                         - (Count(topic[d], rows) + Count(queue[d], rows)))
        /\ Queued' = Queued + (Len(queue'[d]) - Len(queue[d]))
    BY <1>1, <1>5, <1>8, <1>9, OutChange
  <2>2. Count(Append(queue[d], m), rows) = Count(queue[d], rows) + (IF m \in rows THEN 1 ELSE 0)
    BY <1>3, <1>8, CountAppend
  <2>3. Count(topic[d], rows) \in Nat /\ Count(queue[d], rows) \in Nat
    BY <1>8, CountType
  <2>4. Len(Append(queue[d], m)) = Len(queue[d]) + 1 /\ Len(queue[d]) \in Nat
    BY <1>3, <1>8
  <2>5. Out(rows) \in Nat /\ Queued \in Nat
    BY <1>1, <1>8, OutType
  <2> QED BY <1>5, <2>1, <2>2, <2>3, <2>4, <2>5
<1>11. QueueOK'
  <2>1. Queued' = Queued + 1
    BY <1>10
  <2> QED BY <1>1, <1>2, <2>1, ProducerAssumption DEF QueueOK
<1> QED BY <1>7, <1>10, <1>11

\* A message leaves the queue, for the topic or for good.
LEMMA LeaveStep ==
    ASSUME IInv, UNCHANGED <<file, process>>, NEW d \in Devices(file), queue[d] # <<>>,
           queue' = [queue EXCEPT ![d] = Tail(@)],
           NEW stored \in BOOLEAN,
           topic' = IF stored THEN [topic EXCEPT ![d] = Append(@, Head(queue[d]))] ELSE topic
    PROVE  /\ MessagesOK' /\ QueueOK'
           /\ Head(queue[d]) \in 0 .. Len(file)
           /\ \A rows : Out(rows)' = Out(rows) - (IF ~stored /\ Head(queue[d]) \in rows THEN 1 ELSE 0)
<1>1. ShapeOK /\ MessagesOK /\ QueueOK /\ file \in Seq(Rows)
  BY DEF IInv, ShapeOK
<1>2. Sources' = Sources /\ Sources \subseteq Nat
  BY DEF Sources, First, process
<1>3. queue[d] \in Seq(Sources) /\ topic[d] \in Seq(Sources) /\ Ordered(topic[d], queue[d])
  BY <1>1 DEF MessagesOK
<1>4. PICK m : m = Head(queue[d])
  OBVIOUS
<1>5. m \in Sources /\ Tail(queue[d]) \in Seq(Sources) /\ m \in Nat
      /\ Append(topic[d], m) \in Seq(Sources) /\ m \in 0 .. Len(file)
  <2>1. m \in Sources /\ Tail(queue[d]) \in Seq(Sources)
    BY <1>3, <1>4, TailIs
  <2> QED BY <1>2, <1>3, <2>1 DEF Sources
<1>6. /\ queue'[d] = Tail(queue[d])
      /\ topic'[d] = IF stored THEN Append(topic[d], m) ELSE topic[d]
      /\ \A x \in Devices(file) \ {d} : queue'[x] = queue[x] /\ topic'[x] = topic[x]
  BY <1>1, <1>4 DEF MessagesOK
<1>7. /\ queue' = [x \in Devices(file) |-> queue'[x]]
      /\ topic' = [x \in Devices(file) |-> topic'[x]]
  BY <1>1, <1>4 DEF MessagesOK
<1>8. Ordered(Append(topic[d], m), Tail(queue[d])) /\ Ordered(topic[d], Tail(queue[d]))
  BY <1>2, <1>3, <1>4, OrderedDeliver, OrderedRefuse
<1>9. MessagesOK'
  <2>1. ASSUME NEW x \in Devices(file)
        PROVE  queue'[x] \in Seq(Sources) /\ topic'[x] \in Seq(Sources) /\ Ordered(topic'[x], queue'[x])
    <3>1. queue[x] \in Seq(Sources) /\ topic[x] \in Seq(Sources) /\ Ordered(topic[x], queue[x])
      BY <1>1 DEF MessagesOK
    <3>2. CASE x = d
      BY <1>3, <1>5, <1>6, <1>8, <3>2
    <3>3. CASE x # d
      BY <1>6, <3>1, <3>3
    <3> QED BY <3>2, <3>3
  <2>2. queue' \in [Devices(file) -> Seq(Sources)] /\ topic' \in [Devices(file) -> Seq(Sources)]
    BY <1>7, <2>1
  <2> QED BY <1>2, <2>1, <2>2 DEF MessagesOK
<1>10. queue \in [Devices(file) -> Seq(Nat)] /\ topic \in [Devices(file) -> Seq(Nat)]
  BY <1>1, MessageTypes
<1>11. queue' \in [Devices(file) -> Seq(Nat)] /\ topic' \in [Devices(file) -> Seq(Nat)]
  <2>1. ASSUME NEW x \in Devices(file) PROVE queue'[x] \in Seq(Nat) /\ topic'[x] \in Seq(Nat)
    <3>1. Tail(queue[d]) \in Seq(Nat) /\ Append(topic[d], m) \in Seq(Nat)
      BY <1>5, <1>10, TailIs
    <3> QED BY <1>6, <1>10, <3>1
  <2> QED BY <1>7, <2>1
<1>12. ASSUME NEW rows
       PROVE  /\ Out(rows)' = Out(rows) - (IF ~stored /\ m \in rows THEN 1 ELSE 0)
              /\ Queued' = Queued - 1 /\ Queued \in Nat /\ Queued' \in Nat
  <2>1. /\ Out(rows)' = Out(rows) + ((Count(topic'[d], rows) + Count(queue'[d], rows))
                                         - (Count(topic[d], rows) + Count(queue[d], rows)))
        /\ Queued' = Queued + (Len(queue'[d]) - Len(queue[d]))
    BY <1>1, <1>6, <1>10, <1>11, OutChange
  <2>2. Count(Tail(queue[d]), rows) = Count(queue[d], rows) - (IF m \in rows THEN 1 ELSE 0)
    BY <1>4, <1>10, CountTail
  <2>3. Count(Append(topic[d], m), rows) = Count(topic[d], rows) + (IF m \in rows THEN 1 ELSE 0)
    BY <1>5, <1>10, CountAppend
  <2>4. Count(topic[d], rows) \in Nat /\ Count(queue[d], rows) \in Nat
    BY <1>10, CountType
  <2>5. Len(Tail(queue[d])) = Len(queue[d]) - 1 /\ Len(queue[d]) \in Nat
    BY <1>10, TailIs
  <2>6. Out(rows) \in Nat /\ Queued \in Nat
    BY <1>1, <1>10, OutType
  <2>7. Queued' = Queued - 1
    BY <1>6, <2>1, <2>5, <2>6
  <2>8. Queued' \in Nat
    <3>1. IsFiniteSet(Devices(file))
      BY <1>1, DevicesFinite
    <3>2. [x \in Devices(file) |-> Len(queue'[x])] \in [Devices(file) -> Nat]
      BY <1>11
    <3>3. SumFunction([x \in Devices(file) |-> Len(queue'[x])]) \in Nat
      BY <3>1, <3>2, SumNat
    <3> QED BY <3>3 DEF Queued
  <2>9. Out(rows)' = Out(rows) - (IF ~stored /\ m \in rows THEN 1 ELSE 0)
    <3>1. CASE stored
      BY <1>6, <2>1, <2>2, <2>3, <2>4, <2>6, <3>1
    <3>2. CASE ~stored
      BY <1>6, <2>1, <2>2, <2>4, <2>6, <3>2
    <3> QED BY <3>1, <3>2
  <2> QED BY <2>6, <2>7, <2>8, <2>9
<1>13. QueueOK'
  <2>1. Queued' = Queued - 1 /\ Queued \in Nat /\ Queued' \in Nat
    BY <1>12
  <2> QED BY <1>1, <2>1, ProducerAssumption DEF QueueOK
<1> QED BY <1>4, <1>5, <1>9, <1>12, <1>13

-----------------------------------------------------------------------------
(* The pace *)

LEMMA PaceKept ==
    ASSUME PaceOK, lead' = lead, ages' = ages, step = "publish" <=> step' = "publish"
    PROVE  PaceOK'
<1>1. \A i \in DOMAIN ages : Waits(i)' = Waits(i)
  BY DEF Waits
<1> QED BY <1>1 DEF PaceOK

LEMMA PaceAccept ==
    ASSUME PaceOK, ShapeOK, lead' = lead, ages' = Append(ages, 0), step = "publish", step' = "record"
    PROVE  PaceOK'
<1>1. PICK n \in Nat : n = Len(ages) /\ DOMAIN ages = 1 .. n
  BY DEF ShapeOK
<1>2. /\ DOMAIN ages' = 1 .. n + 1 /\ Len(ages') = n + 1 /\ \A i \in 1 .. n : ages'[i] = ages[i]
  BY <1>1 DEF ShapeOK
<1>3. ASSUME NEW i \in 1 .. n + 1, Waits(i)' >= 1
      PROVE  lead >= (Waits(i)' - 2) * Interval - ages'[i]
  <2>1. Waits(i)' = n + 1 - i /\ i \in 1 .. n
    BY <1>2, <1>3 DEF Waits
  <2>2. Waits(i)' = Waits(i)
    BY <1>1, <2>1 DEF Waits
  <2> QED BY <1>1, <1>2, <1>3, <2>1, <2>2 DEF PaceOK
<1> QED BY <1>2, <1>3 DEF PaceOK

LEMMA PaceWait ==
    ASSUME PaceOK, ShapeOK, lead <= 0, lead' = NextLead(lead), ages' = ages,
           step = "wait", step' = "publish"
    PROVE  PaceOK' /\ lead' \in -Behind .. Interval
<1>0. /\ lead \in Int /\ Interval \in Nat \ {0} /\ Behind \in Nat /\ Behind > 2 * Interval
      /\ lead \in -Behind .. Interval
  BY ProducerAssumption DEF ShapeOK
<1>1. lead' >= lead + Interval /\ lead' >= -Interval /\ lead' <= Interval /\ lead' \in Int
  BY <1>0 DEF NextLead
<1>2. PICK n \in Nat : n = Len(ages) /\ DOMAIN ages = 1 .. n
  BY DEF ShapeOK
<1>3. ASSUME NEW i \in 1 .. n PROVE lead' >= (Waits(i)' - 2) * Interval - ages[i]
  <2>1. PICK w \in Nat, age \in Nat : w = Waits(i) /\ w + 1 = Waits(i)' /\ age = ages[i]
    <3>1. ages[i] \in Nat /\ n - i \in Nat
      BY <1>2 DEF ShapeOK
    <3>2. Waits(i) = n - i /\ Waits(i)' = n - i + 1
      BY <1>2, <3>1 DEF Waits
    <3> QED BY <3>1, <3>2
  <2>2. CASE w = 0
    <3>1. (w + 1 - 2) * Interval = -Interval
      BY <1>0, <2>2
    <3> QED BY <1>0, <1>1, <2>1, <3>1
  <2>3. CASE w >= 1
    <3>1. lead >= (w - 2) * Interval - age
      BY <1>2, <2>1, <2>3 DEF PaceOK
    <3>2. PICK paid \in Int : paid = (w - 2) * Interval
      BY <1>0, <2>1
    <3>3. (w + 1 - 2) * Interval = paid + Interval
      BY <1>0, <2>1, <3>2
    <3> QED BY <1>0, <1>1, <2>1, <3>1, <3>2, <3>3
  <2> QED BY <2>1, <2>2, <2>3
<1>4. PaceOK'
  BY <1>2, <1>3 DEF PaceOK
<1> QED BY <1>0, <1>1, <1>4

LEMMA PaceTick == ASSUME IInv, Tick PROVE PaceOK' /\ ages' \in Seq(Nat)
<1> DEFINE old == Cardinality({i \in DOMAIN ages : ages[i] + 1 >= 2 * Interval})
<1>0. ages \in Seq(Nat) /\ PaceOK /\ lead \in Int /\ Interval \in Nat
  BY ProducerAssumption DEF IInv, ShapeOK
<1>1. PICK n \in Nat : n = Len(ages) /\ DOMAIN ages = 1 .. n
  BY <1>0
<1>2. old \in 0 .. n
  <2>1. {i \in DOMAIN ages : ages[i] + 1 >= 2 * Interval} \in SUBSET (1 .. n)
    BY <1>1
  <2>2. IsFiniteSet(1 .. n) /\ Cardinality(1 .. n) = n
    BY FS_Interval
  <2>3. old <= n /\ old \in Nat
    BY <2>1, <2>2, FS_Subset, FS_CardinalityType
  <2> QED BY <2>3
<1>3. ages' = [i \in 1 .. n - old |-> ages[i + old] + 1] /\ lead' = lead - 1 /\ step' = step
  BY <1>1 DEF Tick, process
<1> HIDE DEF old
<1>4. PICK m \in Nat : m = n - old
  BY <1>2
<1>5. \A i \in 1 .. m : i + old \in 1 .. n /\ ages[i + old] \in Nat
  BY <1>0, <1>1, <1>2, <1>4
<1>6. ages' \in Seq(Nat) /\ Len(ages') = m /\ DOMAIN ages' = 1 .. m
      /\ \A i \in 1 .. m : ages'[i] = ages[i + old] + 1
  BY <1>3, <1>4, <1>5
<1>7. ASSUME NEW i \in 1 .. m, Waits(i)' >= 1
      PROVE  lead' >= (Waits(i)' - 2) * Interval - ages'[i]
  <2>1. PICK j \in 1 .. n : j = i + old
    BY <1>5
  <2>2. PICK age \in Nat : age = ages[j] /\ ages'[i] = age + 1
    BY <1>5, <1>6, <2>1
  <2>3. Waits(i)' = Waits(j) /\ Waits(j) \in Int
    BY <1>1, <1>2, <1>3, <1>4, <1>6, <2>1 DEF Waits
  <2>4. lead >= (Waits(j) - 2) * Interval - age
    BY <1>0, <1>1, <1>7, <2>2, <2>3 DEF PaceOK
  <2>5. PICK paid \in Int : paid = (Waits(j) - 2) * Interval
    BY <1>0, <2>3
  <2>6. lead' >= paid - (age + 1)
    BY <1>0, <1>3, <2>4, <2>5
  <2> QED BY <2>2, <2>3, <2>5, <2>6
<1> QED BY <1>6, <1>7 DEF PaceOK

-----------------------------------------------------------------------------
(* The steps *)

LEMMA LedgerSame ==
    ASSUME UNCHANGED <<file, queue, topic>>
    PROVE  /\ \A rows : Out(rows)' = Out(rows)
           /\ Queued' = Queued
BY DEF Out, Queued

\* The queue went with the process.
Emptied == file \in Seq(Rows) /\ queue = NoMessages(file)

LEMMA EmptyQueue == Emptied => QueueOK
BY QueuedNone, ProducerAssumption DEF Emptied, QueueOK

\* The two sides of the ledger are numbers.
OutNat == Out({0}) \in Nat /\ Out(DOMAIN file) \in Nat

LEMMA OutTypes == ShapeOK /\ MessagesOK => OutNat
BY MessageTypes, OutType DEF ShapeOK, OutNat

LEMMA MinOf ==
    ASSUME NEW a \in Nat, NEW b \in Nat
    PROVE  Min({a, b}) = IF a <= b THEN a ELSE b
<1>1. \E x \in {a, b} : \A y \in {a, b} : x <= y
  OBVIOUS
<1>2. Min({a, b}) \in {a, b} /\ \A y \in {a, b} : Min({a, b}) <= y
  BY <1>1 DEF Min
<1> QED BY <1>2

LEMMA ReadStatsStep == IInv /\ ReadStats => IInv'
<1> SUFFICES ASSUME IInv, ReadStats PROVE IInv'
  OBVIOUS
<1> USE ProducerAssumption
<1>0. /\ ShapeOK /\ PhaseOK /\ MessagesOK /\ QueueOK /\ LedgerOK /\ PaceOK
      /\ file \in Seq(Rows)
  BY DEF IInv, ShapeOK
<1>1. Len(file) \in Nat /\ First \in 1 .. Len(file) + 1 /\ DOMAIN file = 1 .. Len(file)
  BY <1>0, FirstRange
<1>2. /\ phase = "stats" /\ row <= Len(file) /\ stats' = AddRow(stats, file[row]) /\ row' = row + 1
      /\ UNCHANGED <<file, phase, step, spiked, state, queue, topic, refused, lead, ages>>
  BY DEF ReadStats, process, Accept
<1>3. ShapeOK'
  BY <1>0, <1>1, <1>2 DEF ShapeOK
<1>4. PhaseOK'
  <2>1. stats'.rows = stats.rows + 1
    BY <1>2 DEF AddRow
  <2> QED BY <1>0, <1>1, <1>2, <2>1 DEF ShapeOK, PhaseOK, First
<1>5. MessagesOK'
  BY <1>0, <1>2, NothingYet DEF PhaseOK
<1>6. QueueOK'
  BY <1>0, <1>2, LedgerSame DEF QueueOK
<1>7. LedgerOK'
  <2>1. Out(DOMAIN file)' = Out(DOMAIN file) /\ Out({0})' = Out({0})
    BY <1>2, LedgerSame
  <2> QED BY <1>0, <1>2, <2>1 DEF LedgerOK, InHand, ShapeOK, PhaseOK
<1>8. PaceOK'
  BY <1>0, <1>2, PaceKept
<1> QED BY <1>3, <1>4, <1>5, <1>6, <1>7, <1>8 DEF IInv

LEMMA StartReplayStep == IInv /\ StartReplay => IInv'
<1> SUFFICES ASSUME IInv, StartReplay PROVE IInv'
  OBVIOUS
<1> USE ProducerAssumption
<1>0. /\ ShapeOK /\ PhaseOK /\ MessagesOK /\ QueueOK /\ LedgerOK /\ PaceOK
      /\ file \in Seq(Rows)
  BY DEF IInv, ShapeOK
<1>1. Len(file) \in Nat /\ First \in 1 .. Len(file) + 1 /\ DOMAIN file = 1 .. Len(file)
  BY <1>0, FirstRange
<1>2. /\ phase = "stats" /\ row > Len(file) /\ phase' = "replay"
      /\ row' = FirstRow(stats.rows) /\ lead' = 0
      /\ UNCHANGED <<file, step, spiked, state, queue, topic, refused, ages>>
  BY DEF StartReplay, process, Accept
<1>3. ShapeOK'
  <2>1. row' = First
    <3>1. stats.rows = Len(file)
      BY <1>0, <1>1, <1>2 DEF PhaseOK
    <3> QED BY <1>2, <3>1 DEF First
  <2> QED BY <1>0, <1>1, <1>2, <2>1 DEF ShapeOK
<1>4. PhaseOK'
  <2>1. row' = First /\ First' = First
    <3>1. stats.rows = Len(file)
      BY <1>0, <1>1, <1>2 DEF PhaseOK
    <3> QED BY <1>2, <3>1 DEF First
  <2> QED BY <1>0, <1>1, <1>2, <2>1 DEF ShapeOK, PhaseOK, NewState
<1>5. MessagesOK'
  BY <1>0, <1>2, NothingYet DEF PhaseOK
<1>6. QueueOK'
  BY <1>0, <1>2, LedgerSame DEF QueueOK
<1>7. LedgerOK'
  <2>1. Out(DOMAIN file)' = Out(DOMAIN file) /\ Out({0})' = Out({0})
    BY <1>2, LedgerSame
  <2> QED BY <1>0, <1>2, <2>1 DEF LedgerOK, InHand, ShapeOK, PhaseOK
<1>8. PaceOK'
  BY <1>0, <1>2 DEF PaceOK, PhaseOK
<1> QED BY <1>3, <1>4, <1>5, <1>6, <1>7, <1>8 DEF IInv

LEMMA BufferFullStep == IInv /\ BufferFull => IInv'
<1> SUFFICES ASSUME IInv, BufferFull PROVE IInv'
  OBVIOUS
<1> USE ProducerAssumption
<1>0. /\ ShapeOK /\ PhaseOK /\ MessagesOK /\ QueueOK /\ LedgerOK /\ PaceOK
      /\ file \in Seq(Rows)
  BY DEF IInv, ShapeOK
<1>1. Len(file) \in Nat /\ First \in 1 .. Len(file) + 1 /\ DOMAIN file = 1 .. Len(file)
  BY <1>0, FirstRange
<1>2. /\ phase' = "flush" /\ UNCHANGED <<file, step, row, spiked, state, queue, topic, refused, lead, ages>>
  BY DEF BufferFull, process, Accept
<1>3. ShapeOK'
  BY <1>0, <1>1, <1>2 DEF ShapeOK
<1>4. PhaseOK'
  BY <1>0, <1>1, <1>2 DEF ShapeOK, PhaseOK, NewState, First, NoMessages
<1>5. MessagesOK'
  <2>1. Sources \subseteq Sources'
    BY <1>0, <1>2, <1>3, SourcesGrow DEF ShapeOK
  <2> QED BY <1>0, <1>2, <2>1, MessagesKept
<1>6. QueueOK'
  BY <1>0, <1>2, LedgerSame DEF QueueOK
<1>7. LedgerOK'
  BY <1>2 DEF LedgerOK
<1>8. PaceOK'
  BY <1>0, <1>2, PaceKept
<1> QED BY <1>3, <1>4, <1>5, <1>6, <1>7, <1>8 DEF IInv

LEMMA RecordEventStep == IInv /\ RecordEvent => IInv'
<1> SUFFICES ASSUME IInv, RecordEvent PROVE IInv'
  OBVIOUS
<1> USE ProducerAssumption
<1>0. /\ ShapeOK /\ PhaseOK /\ MessagesOK /\ QueueOK /\ LedgerOK /\ PaceOK
      /\ file \in Seq(Rows)
  BY DEF IInv, ShapeOK
<1>1. Len(file) \in Nat /\ First \in 1 .. Len(file) + 1 /\ DOMAIN file = 1 .. Len(file)
  BY <1>0, FirstRange
<1>2. /\ step = "record" /\ phase \in {"replay", "synthetic"}
      /\ state' = IF phase = "replay" THEN [state EXCEPT !.sent_replay = @ + 1]
                  ELSE [state EXCEPT !.sent_synthetic = @ + 1]
      /\ step' = IF spiked THEN "anomaly" ELSE "wait"
      /\ row' = IF phase = "replay" THEN row + 1 ELSE row
      /\ UNCHANGED <<file, phase, spiked, queue, topic, refused, lead, ages>>
  BY DEF RecordEvent, process, Accept
<1>a. /\ state' \in Counts /\ state'.mode = state.mode /\ state'.anomalies = state.anomalies
      /\ state'.sent_replay = IF phase = "replay" THEN state.sent_replay + 1 ELSE state.sent_replay
      /\ state'.sent_synthetic = IF phase = "replay" THEN state.sent_synthetic
                                 ELSE state.sent_synthetic + 1
      /\ state.sent_replay \in Nat /\ state.sent_synthetic \in Nat /\ state.anomalies \in Nat
  <2>1. /\ state = [mode |-> state.mode, sent_replay |-> state.sent_replay,
                     sent_synthetic |-> state.sent_synthetic, anomalies |-> state.anomalies]
        /\ state.mode \in {"replay", "synthetic"}
        /\ state.sent_replay \in Nat /\ state.sent_synthetic \in Nat /\ state.anomalies \in Nat
    BY <1>0 DEF ShapeOK, Counts
  <2>2. CASE phase = "replay"
    <3>1. state' = [state EXCEPT !.sent_replay = state.sent_replay + 1]
      BY <1>2, <2>2
    <3>2. state' = [mode |-> state.mode, sent_replay |-> state.sent_replay + 1,
                    sent_synthetic |-> state.sent_synthetic, anomalies |-> state.anomalies]
      BY <2>1, <3>1
    <3> QED BY <2>1, <2>2, <3>2 DEF Counts
  <2>3. CASE phase = "synthetic"
    <3>1. state' = [state EXCEPT !.sent_synthetic = state.sent_synthetic + 1]
      BY <1>2, <2>3
    <3>2. state' = [mode |-> state.mode, sent_replay |-> state.sent_replay,
                    sent_synthetic |-> state.sent_synthetic + 1, anomalies |-> state.anomalies]
      BY <2>1, <3>1
    <3> QED BY <2>1, <2>3, <3>2 DEF Counts
  <2> QED BY <1>2, <2>2, <2>3
<1>3. ShapeOK'
  <2>1. row \in Nat
    BY <1>0 DEF ShapeOK
  <2>2. row' \in {row, row + 1} /\ step' \in {"anomaly", "wait"}
    BY <1>2
  <2>3. row' \in Nat
    BY <2>1, <2>2
  <2> QED BY <1>0, <1>2, <1>a, <2>2, <2>3 DEF ShapeOK
<1>4. PhaseOK'
  <2>1. CASE phase = "replay"
    <3>1. /\ row \in First .. Len(file) /\ row' = row + 1 /\ ~spiked /\ step' = "wait"
          /\ state.mode = "replay" /\ state.sent_replay = row - First
          /\ state.sent_synthetic = 0 /\ state.anomalies = 0
      BY <1>0, <1>1, <1>2, <2>1 DEF PhaseOK
    <3>2. row' \in First .. Len(file) + 1 /\ state'.sent_replay = row' - First
      BY <1>1, <1>a, <2>1, <3>1
    <3> QED BY <1>2, <1>a, <2>1, <3>1, <3>2 DEF PhaseOK, First
  <2>2. CASE phase = "synthetic"
    <3>1. state'.sent_replay = state.sent_replay
      BY <1>a, <2>2
    <3> QED BY <1>0, <1>2, <1>a, <2>2, <3>1 DEF PhaseOK, First
  <2> QED BY <1>2, <2>1, <2>2
<1>5. MessagesOK'
  <2>1. Sources \subseteq Sources'
    <3>1. PICK n \in Nat : row = n
      BY <1>0 DEF ShapeOK
    <3>2. phase' = "replay" => row' = n + 1
      BY <1>2, <3>1
    <3>3. phase' = "replay" => row < row' /\ row <= row'
      BY <3>1, <3>2
    <3>4. state.mode = "synthetic" => state'.mode = "synthetic"
      BY <1>a
    <3> QED BY <1>0, <1>2, <1>3, <3>3, <3>4, SourcesGrow
  <2> QED BY <1>0, <1>2, <2>1, MessagesKept
<1>6. QueueOK'
  BY <1>0, <1>2, LedgerSame DEF QueueOK
<1>7. LedgerOK'
  <2>1. Out(DOMAIN file)' = Out(DOMAIN file) /\ Out({0})' = Out({0})
    BY <1>2, LedgerSame
  <2>2. /\ Out(DOMAIN file) \in Nat /\ Out({0}) \in Nat
        /\ state.sent_replay + state.sent_synthetic + InHand("replay") + InHand("synthetic")
                = Out(DOMAIN file) + Out({0}) + refused
        /\ Out(DOMAIN file) <= state.sent_replay + InHand("replay")
        /\ Out({0}) <= state.sent_synthetic + InHand("synthetic")
        /\ state.anomalies <= state.sent_synthetic /\ refused \in Nat
    <3>1. /\ refused \in Nat /\ state.anomalies \in Nat
          /\ step # "anomaly" /\ phase \in {"stats", "replay", "synthetic"}
      BY <1>0, <1>2, <1>a DEF ShapeOK
    <3> QED BY <1>0, <3>1 DEF LedgerOK
  <2>5. PICK x \in Nat, y \in Nat, z \in Nat, n \in Nat, a \in Nat, b \in Nat :
            /\ x = state.sent_replay /\ y = state.sent_synthetic /\ z = state.anomalies
            /\ n = refused /\ refused' = n
            /\ a = Out(DOMAIN file) /\ b = Out({0})
            /\ Out(DOMAIN file)' = a /\ Out({0})' = b
    BY <1>2, <1>a, <2>1, <2>2
  <2>6. /\ x + y + InHand("replay") + InHand("synthetic") = a + b + n
        /\ a <= x + InHand("replay") /\ b <= y + InHand("synthetic") /\ z <= y
    BY <2>2, <2>5, Zenon
  <2>3. CASE phase = "replay"
    <3>1. /\ InHand("replay") = 1 /\ InHand("synthetic") = 0
          /\ InHand("replay")' = 0 /\ InHand("synthetic")' = 0
          /\ step' = "wait"
      BY <1>0, <1>2, <2>3 DEF InHand, PhaseOK
    <3>2. /\ state'.sent_replay = x + 1 /\ state'.sent_synthetic = y
          /\ state'.anomalies + (IF step' = "anomaly" THEN 1 ELSE 0) = z
      BY <1>a, <2>3, <2>5, <3>1
    <3>3. x + y + 1 + 0 = a + b + n /\ a <= x + 1 /\ b <= y + 0 /\ z <= y
      BY <2>6, <3>1, Zenon
    <3>4. (x + 1) + y + 0 + 0 = a + b + n /\ a <= (x + 1) + 0 /\ b <= y + 0
      BY <3>3
    <3> QED BY <2>5, <3>1, <3>2, <3>3, <3>4 DEF LedgerOK
  <2>4. CASE phase = "synthetic"
    <3>1. /\ InHand("replay") = 0 /\ InHand("synthetic") = 1
          /\ InHand("replay")' = 0 /\ InHand("synthetic")' = 0
      BY <1>2, <2>4 DEF InHand
    <3>2. /\ state'.sent_replay = x /\ state'.sent_synthetic = y + 1 /\ state'.anomalies = z
      BY <1>a, <2>4, <2>5
    <3>3. x + y + 0 + 1 = a + b + n /\ a <= x + 0 /\ b <= y + 1 /\ z <= y
      BY <2>6, <3>1, Zenon
    <3>4. x + (y + 1) + 0 + 0 = a + b + n /\ b <= (y + 1) + 0
          /\ z + (IF step' = "anomaly" THEN 1 ELSE 0) <= y + 1
      BY <3>3
    <3> QED BY <2>5, <3>1, <3>2, <3>3, <3>4 DEF LedgerOK
  <2> QED BY <1>2, <2>3, <2>4
<1>8. PaceOK'
  BY <1>0, <1>2, PaceKept
<1> QED BY <1>3, <1>4, <1>5, <1>6, <1>7, <1>8 DEF IInv

LEMMA RecordAnomalyStep == IInv /\ RecordAnomaly => IInv'
<1> SUFFICES ASSUME IInv, RecordAnomaly PROVE IInv'
  OBVIOUS
<1> USE ProducerAssumption
<1>0. /\ ShapeOK /\ PhaseOK /\ MessagesOK /\ QueueOK /\ LedgerOK /\ PaceOK
      /\ file \in Seq(Rows)
  BY DEF IInv, ShapeOK
<1>1. Len(file) \in Nat /\ First \in 1 .. Len(file) + 1 /\ DOMAIN file = 1 .. Len(file)
  BY <1>0, FirstRange
<1>2. /\ step = "anomaly" /\ phase = "synthetic" /\ step' = "wait"
      /\ state' = [state EXCEPT !.anomalies = @ + 1]
      /\ UNCHANGED <<file, phase, row, spiked, queue, topic, refused, lead, ages>>
  BY DEF RecordAnomaly, process, Accept
<1>a. /\ state' \in Counts /\ state'.mode = state.mode /\ state'.anomalies = state.anomalies + 1
      /\ state'.sent_replay = state.sent_replay /\ state'.sent_synthetic = state.sent_synthetic
      /\ state.sent_replay \in Nat /\ state.sent_synthetic \in Nat /\ state.anomalies \in Nat
  <2>1. /\ state = [mode |-> state.mode, sent_replay |-> state.sent_replay,
                     sent_synthetic |-> state.sent_synthetic, anomalies |-> state.anomalies]
        /\ state.mode \in {"replay", "synthetic"}
        /\ state.sent_replay \in Nat /\ state.sent_synthetic \in Nat /\ state.anomalies \in Nat
    BY <1>0 DEF ShapeOK, Counts
  <2>2. state' = [mode |-> state.mode, sent_replay |-> state.sent_replay,
                  sent_synthetic |-> state.sent_synthetic, anomalies |-> state.anomalies + 1]
    BY <1>2, <2>1
  <2> QED BY <2>1, <2>2 DEF Counts
<1>3. ShapeOK'
  BY <1>0, <1>1, <1>2, <1>a DEF ShapeOK
<1>4. PhaseOK'
  BY <1>0, <1>1, <1>2, <1>a DEF ShapeOK, PhaseOK, First
<1>5. MessagesOK'
  <2>1. Sources \subseteq Sources'
    BY <1>0, <1>2, <1>3, <1>a, SourcesGrow DEF ShapeOK
  <2> QED BY <1>0, <1>2, <2>1, MessagesKept
<1>6. QueueOK'
  BY <1>0, <1>2, LedgerSame DEF QueueOK
<1>7. LedgerOK'
  <2>1. Out(DOMAIN file)' = Out(DOMAIN file) /\ Out({0})' = Out({0})
    BY <1>2, LedgerSame
  <2>2. /\ Out(DOMAIN file) \in Nat /\ Out({0}) \in Nat
        /\ state.sent_replay + state.sent_synthetic = Out(DOMAIN file) + Out({0}) + refused
        /\ Out(DOMAIN file) <= state.sent_replay /\ Out({0}) <= state.sent_synthetic
        /\ state.anomalies + 1 <= state.sent_synthetic
    <3>1. InHand("replay") = 0 /\ InHand("synthetic") = 0
      BY <1>2 DEF InHand
    <3>2. /\ Out(DOMAIN file) \in Nat /\ Out({0}) \in Nat
          /\ state.sent_replay + state.sent_synthetic + InHand("replay") + InHand("synthetic")
                  = Out(DOMAIN file) + Out({0}) + refused
          /\ Out(DOMAIN file) <= state.sent_replay + InHand("replay")
          /\ Out({0}) <= state.sent_synthetic + InHand("synthetic")
          /\ state.anomalies + 1 <= state.sent_synthetic
      BY <1>0, <1>2 DEF LedgerOK
    <3> QED BY <1>a, <3>1, <3>2
  <2>3. /\ InHand("replay")' = 0 /\ InHand("synthetic")' = 0
        /\ phase' = "synthetic" /\ step' = "wait" /\ file' = file
        /\ refused' = refused /\ refused \in Nat
    BY <1>0, <1>2 DEF InHand, ShapeOK
  <2> QED BY <1>a, <2>1, <2>2, <2>3 DEF LedgerOK
<1>8. PaceOK'
  BY <1>0, <1>2, PaceKept
<1> QED BY <1>3, <1>4, <1>5, <1>6, <1>7, <1>8 DEF IInv

LEMMA WaitForNextTickStep == IInv /\ WaitForNextTick => IInv'
<1> SUFFICES ASSUME IInv, WaitForNextTick PROVE IInv'
  OBVIOUS
<1> USE ProducerAssumption
<1>0. /\ ShapeOK /\ PhaseOK /\ MessagesOK /\ QueueOK /\ LedgerOK /\ PaceOK
      /\ file \in Seq(Rows)
  BY DEF IInv, ShapeOK
<1>1. Len(file) \in Nat /\ First \in 1 .. Len(file) + 1 /\ DOMAIN file = 1 .. Len(file)
  BY <1>0, FirstRange
<1>2. /\ step = "wait" /\ step' = "publish" /\ lead <= 0 /\ lead' = NextLead(lead)
      /\ UNCHANGED <<file, phase, row, spiked, state, queue, topic, refused, ages>>
  BY DEF WaitForNextTick, process, Accept
<1>3. ShapeOK'
  <2>1. lead' \in -Behind .. Interval
    BY <1>0, <1>2, PaceWait
  <2> QED BY <1>0, <1>2, <2>1 DEF ShapeOK
<1>4. PhaseOK'
  BY <1>0, <1>1, <1>2 DEF ShapeOK, PhaseOK, NewState, First, NoMessages
<1>5. MessagesOK'
  <2>1. Sources \subseteq Sources'
    BY <1>0, <1>2, <1>3, SourcesGrow DEF ShapeOK
  <2> QED BY <1>0, <1>2, <2>1, MessagesKept
<1>6. QueueOK'
  BY <1>0, <1>2, LedgerSame DEF QueueOK
<1>7. LedgerOK'
  <2>1. Out(DOMAIN file)' = Out(DOMAIN file) /\ Out({0})' = Out({0})
    BY <1>2, LedgerSame
  <2> QED BY <1>0, <1>2, <2>1 DEF LedgerOK, InHand, ShapeOK, PhaseOK
<1>8. PaceOK'
  BY <1>0, <1>2, PaceWait
<1> QED BY <1>3, <1>4, <1>5, <1>6, <1>7, <1>8 DEF IInv

LEMMA RecordHandoverStep == IInv /\ RecordHandover => IInv'
<1> SUFFICES ASSUME IInv, RecordHandover PROVE IInv'
  OBVIOUS
<1> USE ProducerAssumption
<1>0. /\ ShapeOK /\ PhaseOK /\ MessagesOK /\ QueueOK /\ LedgerOK /\ PaceOK
      /\ file \in Seq(Rows)
  BY DEF IInv, ShapeOK
<1>1. Len(file) \in Nat /\ First \in 1 .. Len(file) + 1 /\ DOMAIN file = 1 .. Len(file)
  BY <1>0, FirstRange
<1>2. /\ phase = "replay" /\ step = "publish" /\ row > Len(file) /\ phase' = "synthetic"
      /\ state' = [state EXCEPT !.mode = "synthetic"]
      /\ UNCHANGED <<file, step, row, spiked, queue, topic, refused, lead, ages>>
  BY DEF RecordHandover, process, Accept
<1>a. /\ state' \in Counts /\ state'.mode = "synthetic" /\ state'.anomalies = state.anomalies
      /\ state'.sent_replay = state.sent_replay /\ state'.sent_synthetic = state.sent_synthetic
  <2>1. state \in Counts
    BY <1>0 DEF ShapeOK
  <2> QED BY <1>2, <2>1 DEF Counts
<1>3. ShapeOK'
  BY <1>0, <1>1, <1>2, <1>a DEF ShapeOK
<1>4. PhaseOK'
  <2>1. row \in First .. Len(file) + 1 /\ state.sent_replay = row - First
    BY <1>0, <1>2 DEF PhaseOK
  <2>a. PICK n \in Nat : n = Len(file)
    BY <1>1
  <2>b. \A f \in 1 .. n + 1 : f \in Nat
    OBVIOUS
  <2>c. First \in 1 .. n + 1
    BY <1>1, <2>a
  <2>2. PICK f \in Nat : f = First
    BY <2>b, <2>c
  <2>3. row \in f .. n + 1 /\ row > n
    BY <1>2, <2>1, <2>2, <2>a
  <2>4. row = n + 1
    BY <2>3
  <2>5. state.sent_replay = Len(file) + 1 - First
    BY <2>1, <2>2, <2>4, <2>a
  <2> QED BY <1>2, <1>a, <2>5 DEF PhaseOK, First
<1>5. MessagesOK'
  <2>1. Sources \subseteq Sources'
    BY <1>0, <1>2, <1>3, <1>a, SourcesGrow DEF ShapeOK
  <2> QED BY <1>0, <1>2, <2>1, MessagesKept
<1>6. QueueOK'
  BY <1>0, <1>2, LedgerSame DEF QueueOK
<1>7. LedgerOK'
  <2>1. Out(DOMAIN file)' = Out(DOMAIN file) /\ Out({0})' = Out({0})
    BY <1>2, LedgerSame
  <2> QED BY <1>0, <1>2, <1>a, <2>1 DEF LedgerOK, InHand, ShapeOK, PhaseOK
<1>8. PaceOK'
  BY <1>0, <1>2, PaceKept
<1> QED BY <1>3, <1>4, <1>5, <1>6, <1>7, <1>8 DEF IInv

LEMMA TickStep == IInv /\ Tick => IInv'
<1> SUFFICES ASSUME IInv, Tick PROVE IInv'
  OBVIOUS
<1> USE ProducerAssumption
<1>0. /\ ShapeOK /\ PhaseOK /\ MessagesOK /\ QueueOK /\ LedgerOK /\ PaceOK
      /\ file \in Seq(Rows)
  BY DEF IInv, ShapeOK
<1>1. Len(file) \in Nat /\ First \in 1 .. Len(file) + 1 /\ DOMAIN file = 1 .. Len(file)
  BY <1>0, FirstRange
<1>2. /\ lead' = lead - 1 /\ lead > -Behind
      /\ UNCHANGED <<file, phase, step, row, spiked, state, queue, topic, refused>>
      /\ phase # "stats"
  BY DEF Tick, process, Accept
<1>3. ShapeOK'
  <2>1. ages' \in Seq(Nat)
    BY PaceTick
  <2> QED BY <1>0, <1>2, <2>1 DEF ShapeOK
<1>4. PhaseOK'
  BY <1>0, <1>1, <1>2 DEF ShapeOK, PhaseOK, NewState, First, NoMessages
<1>5. MessagesOK'
  <2>1. Sources \subseteq Sources'
    BY <1>0, <1>2, <1>3, SourcesGrow DEF ShapeOK
  <2> QED BY <1>0, <1>2, <2>1, MessagesKept
<1>6. QueueOK'
  BY <1>0, <1>2, LedgerSame DEF QueueOK
<1>7. LedgerOK'
  <2>1. Out(DOMAIN file)' = Out(DOMAIN file) /\ Out({0})' = Out({0})
    BY <1>2, LedgerSame
  <2> QED BY <1>0, <1>2, <2>1 DEF LedgerOK, InHand, ShapeOK, PhaseOK
<1>8. PaceOK'
  BY PaceTick
<1> QED BY <1>3, <1>4, <1>5, <1>6, <1>7, <1>8 DEF IInv

LEMMA PublishRowStep == IInv /\ PublishRow => IInv'
<1> SUFFICES ASSUME IInv, PublishRow PROVE IInv'
  OBVIOUS
<1> USE ProducerAssumption
<1>0. /\ ShapeOK /\ PhaseOK /\ MessagesOK /\ QueueOK /\ LedgerOK /\ PaceOK
      /\ file \in Seq(Rows)
  BY DEF IInv, ShapeOK
<1>1. Len(file) \in Nat /\ First \in 1 .. Len(file) + 1 /\ DOMAIN file = 1 .. Len(file)
  BY <1>0, FirstRange
<1>2. /\ phase = "replay" /\ step = "publish" /\ row <= Len(file)
      /\ Accept(file[row].device, row) /\ step' = "record" /\ ages' = Append(ages, 0)
      /\ UNCHANGED <<file, phase, row, spiked, state, topic, refused, lead>>
  BY DEF PublishRow, process, Accept
<1>3. ShapeOK'
  <2>1. Append(ages, 0) \in Seq(Nat)
    BY <1>0 DEF ShapeOK
  <2> QED BY <1>0, <1>2, <2>1 DEF ShapeOK
<1>4. PhaseOK'
  BY <1>0, <1>1, <1>2 DEF ShapeOK, PhaseOK, NewState, First, NoMessages
<1>5. /\ MessagesOK' /\ QueueOK'
      /\ \A rows : Out(rows)' = Out(rows) + (IF row \in rows THEN 1 ELSE 0)
  <2>1. row \in First .. Len(file) /\ row \in DOMAIN file
    BY <1>0, <1>1, <1>2 DEF PhaseOK
  <2>2. file[row].device \in Devices(file)
    BY <2>1 DEF Devices
  <2>3. Sources \subseteq Sources'
    BY <1>0, <1>2, <1>3, SourcesGrow DEF ShapeOK
  <2>4. row \in Sources'
    BY <1>1, <1>2, <2>1 DEF Sources, First
  <2>5. ASSUME NEW x \in Sources PROVE Before(x, row)
    BY <1>0, <1>2 DEF Sources, Before, PhaseOK
  <2> QED BY <1>2, <1>3, <2>2, <2>3, <2>4, <2>5, AcceptStep
<1>6. QueueOK'
  BY <1>5
<1>7. LedgerOK'
  <2>1. row \in DOMAIN file /\ row \notin {0} /\ DOMAIN file' = DOMAIN file
    BY <1>0, <1>1, <1>2 DEF PhaseOK
  <2>2. Out(DOMAIN file)' = Out(DOMAIN file) + 1 /\ Out({0})' = Out({0})
    <3>1. Out({0}) \in Nat /\ Out(DOMAIN file) \in Nat
      BY <1>0, <1>2 DEF LedgerOK
    <3>2. Out(DOMAIN file)' = Out(DOMAIN file) + (IF row \in DOMAIN file THEN 1 ELSE 0)
      BY <1>2, <1>5 DEF Out
    <3>3. Out({0})' = Out({0}) + (IF row \in {0} THEN 1 ELSE 0)
      BY <1>5
    <3> QED BY <2>1, <3>1, <3>2, <3>3
  <2>3. /\ Out(DOMAIN file) \in Nat /\ Out({0}) \in Nat
        /\ state.sent_replay + state.sent_synthetic = Out(DOMAIN file) + Out({0}) + refused
        /\ Out(DOMAIN file) <= state.sent_replay /\ Out({0}) <= state.sent_synthetic
        /\ state.anomalies <= state.sent_synthetic
        /\ state.sent_replay \in Nat /\ state.sent_synthetic \in Nat /\ state.anomalies \in Nat
        /\ refused \in Nat
    BY <1>0, <1>2 DEF LedgerOK, InHand, ShapeOK, Counts
  <2>4. InHand("replay")' = 1 /\ InHand("synthetic")' = 0
    BY <1>2 DEF InHand
  <2>5. /\ phase' = "replay" /\ step' = "record"
        /\ file' = file /\ state' = state /\ refused' = refused
    BY <1>2
  <2>6. PICK a \in Nat, b \in Nat : a = Out(DOMAIN file) /\ b = Out({0})
    BY <2>3
  <2>7. Out(DOMAIN file)' = a + 1 /\ Out({0})' = b
    BY <2>2, <2>6
  <2>8. /\ state.sent_replay + state.sent_synthetic + 1 + 0 = (a + 1) + b + refused
        /\ a + 1 <= state.sent_replay + 1 /\ b <= state.sent_synthetic + 0
        /\ state.anomalies + 0 <= state.sent_synthetic
    <3>1. PICK x \in Nat, y \in Nat, z \in Nat, n \in Nat :
              x = state.sent_replay /\ y = state.sent_synthetic /\ z = state.anomalies /\ n = refused
      BY <2>3
    <3>2. x + y = a + b + n /\ a <= x /\ b <= y /\ z <= y
      BY <2>3, <2>6, <3>1, Zenon
    <3>3. x + y + 1 + 0 = (a + 1) + b + n /\ a + 1 <= x + 1 /\ b <= y + 0 /\ z + 0 <= y
      BY <3>2
    <3> QED BY <3>1, <3>3, Zenon
  <2>9. a + 1 \in Nat /\ b \in Nat
    OBVIOUS
  <2> QED BY <2>4, <2>5, <2>7, <2>8, <2>9 DEF LedgerOK
<1>8. PaceOK'
  BY <1>0, <1>2, PaceAccept
<1> QED BY <1>3, <1>4, <1>5, <1>6, <1>7, <1>8 DEF IInv

LEMMA PublishSyntheticStep == IInv /\ PublishSynthetic => IInv'
<1> SUFFICES ASSUME IInv, PublishSynthetic PROVE IInv'
  OBVIOUS
<1> USE ProducerAssumption
<1>0. /\ ShapeOK /\ PhaseOK /\ MessagesOK /\ QueueOK /\ LedgerOK /\ PaceOK
      /\ file \in Seq(Rows)
  BY DEF IInv, ShapeOK
<1>1. Len(file) \in Nat /\ First \in 1 .. Len(file) + 1 /\ DOMAIN file = 1 .. Len(file)
  BY <1>0, FirstRange
<1>2. PICK d \in Devices(file) : Accept(d, 0)
  BY DEF PublishSynthetic
<1>a. /\ phase = "synthetic" /\ step = "publish" /\ spiked' \in BOOLEAN
      /\ step' = "record" /\ ages' = Append(ages, 0)
      /\ UNCHANGED <<file, phase, row, state, topic, refused, lead>>
  BY <1>2 DEF PublishSynthetic, Accept
<1>3. ShapeOK'
  <2>1. Append(ages, 0) \in Seq(Nat)
    BY <1>0 DEF ShapeOK
  <2> QED BY <1>0, <1>a, <2>1 DEF ShapeOK
<1>4. PhaseOK'
  BY <1>0, <1>1, <1>a DEF ShapeOK, PhaseOK, First
<1>5. /\ MessagesOK' /\ QueueOK'
      /\ \A rows : Out(rows)' = Out(rows) + (IF 0 \in rows THEN 1 ELSE 0)
  <2>1. Sources \subseteq Sources'
    BY <1>0, <1>a, <1>3, SourcesGrow DEF ShapeOK
  <2>2. 0 \in Sources'
    BY <1>0, <1>1, <1>a DEF Sources, PhaseOK
  <2>3. ASSUME NEW x \in Sources PROVE Before(x, 0)
    BY DEF Before
  <2> QED BY <1>2, <1>3, <1>a, <2>1, <2>2, <2>3, AcceptStep
<1>7. LedgerOK'
  <2>1. Out(DOMAIN file)' = Out(DOMAIN file) /\ Out({0})' = Out({0}) + 1
    <3>1. Out({0}) \in Nat /\ Out(DOMAIN file) \in Nat
      BY <1>0, <1>a DEF LedgerOK
    <3>2. Out(DOMAIN file)' = Out(DOMAIN file) + (IF 0 \in DOMAIN file THEN 1 ELSE 0)
      BY <1>5, <1>a DEF Out
    <3>3. Out({0})' = Out({0}) + (IF 0 \in {0} THEN 1 ELSE 0)
      BY <1>5
    <3> QED BY <1>1, <3>1, <3>2, <3>3
  <2>2. /\ Out(DOMAIN file) \in Nat /\ Out({0}) \in Nat
        /\ state.sent_replay + state.sent_synthetic = Out(DOMAIN file) + Out({0}) + refused
        /\ Out(DOMAIN file) <= state.sent_replay /\ Out({0}) <= state.sent_synthetic
        /\ state.anomalies <= state.sent_synthetic
        /\ state.sent_replay \in Nat /\ state.sent_synthetic \in Nat /\ state.anomalies \in Nat
        /\ refused \in Nat
    BY <1>0, <1>a DEF LedgerOK, InHand, ShapeOK, Counts
  <2>3. InHand("replay")' = 0 /\ InHand("synthetic")' = 1
    BY <1>a DEF InHand
  <2>4. PICK a \in Nat, b \in Nat : a = Out(DOMAIN file) /\ b = Out({0})
    BY <2>2
  <2>5. Out(DOMAIN file)' = a /\ Out({0})' = b + 1
    BY <2>1, <2>4
  <2>6. /\ state.sent_replay + state.sent_synthetic + 0 + 1 = a + (b + 1) + refused
        /\ a <= state.sent_replay + 0 /\ b + 1 <= state.sent_synthetic + 1
        /\ state.anomalies + 0 <= state.sent_synthetic
    <3>1. PICK x \in Nat, y \in Nat, z \in Nat, n \in Nat :
              x = state.sent_replay /\ y = state.sent_synthetic /\ z = state.anomalies /\ n = refused
      BY <2>2
    <3>2. x + y = a + b + n /\ a <= x /\ b <= y /\ z <= y
      BY <2>2, <2>4, <3>1, Zenon
    <3>3. x + y + 0 + 1 = a + (b + 1) + n /\ a <= x + 0 /\ b + 1 <= y + 1 /\ z + 0 <= y
      BY <3>2
    <3> QED BY <3>1, <3>3, Zenon
  <2>7. a \in Nat /\ b + 1 \in Nat
    OBVIOUS
  <2> QED BY <1>a, <2>3, <2>5, <2>6, <2>7 DEF LedgerOK
<1>8. PaceOK'
  BY <1>0, <1>a, PaceAccept
<1> QED BY <1>3, <1>4, <1>5, <1>7, <1>8 DEF IInv

\* The process ends, and with it the queue.
LEMMA EndStep == IInv /\ (Flush \/ Kill) => IInv'
<1> SUFFICES ASSUME IInv, Flush \/ Kill PROVE IInv'
  OBVIOUS
<1>0. /\ ShapeOK /\ PhaseOK /\ MessagesOK /\ PaceOK /\ file \in Seq(Rows)
  BY DEF IInv, ShapeOK
<1>1. /\ phase' = "down" /\ queue' = NoMessages(file)
      /\ UNCHANGED <<file, step, row, spiked, state, topic, refused, lead, ages>>
  BY DEF Flush, Kill
<1>2. ShapeOK' /\ PhaseOK' /\ LedgerOK'
  BY <1>0, <1>1 DEF ShapeOK, PhaseOK, LedgerOK, First
<1>3. MessagesOK'
  <2>1. Sources \subseteq Sources'
    BY <1>0, <1>1, <1>2, SourcesGrow DEF ShapeOK
  <2> QED BY <1>0, <1>1, <2>1, MessagesLost
<1>4. QueueOK'
  <2>1. Emptied'
    BY <1>0, <1>1 DEF NoMessages, Emptied
  <2> QED BY <2>1, EmptyQueue, PTL
<1>5. PaceOK'
  BY <1>0, <1>1, PaceKept
<1> QED BY <1>2, <1>3, <1>4, <1>5 DEF IInv

\* The broker stores a message or refuses it.
LEMMA BrokerStep == IInv /\ (Deliver \/ Refuse) => IInv'
<1> SUFFICES ASSUME IInv, Deliver \/ Refuse PROVE IInv'
  OBVIOUS
<1>0. /\ ShapeOK /\ PhaseOK /\ MessagesOK /\ QueueOK /\ LedgerOK /\ PaceOK
      /\ file \in Seq(Rows)
  BY DEF IInv, ShapeOK
<1>1. PICK d \in Devices(file), stored \in BOOLEAN :
          /\ queue[d] # <<>> /\ queue' = [queue EXCEPT ![d] = Tail(@)]
          /\ topic' = IF stored THEN [topic EXCEPT ![d] = Append(@, Head(queue[d]))] ELSE topic
          /\ refused' = IF stored THEN refused ELSE refused + 1
  <2>1. DOMAIN queue = Devices(file)
    BY <1>0 DEF MessagesOK
  <2>2. CASE Deliver
    <3>1. PICK d \in Devices(file) :
              /\ queue[d] # <<>> /\ queue' = [queue EXCEPT ![d] = Tail(@)]
              /\ topic' = [topic EXCEPT ![d] = Append(@, Head(queue[d]))]
      BY <2>1, <2>2 DEF Deliver
    <3>2. refused' = refused /\ TRUE \in BOOLEAN
      BY <2>2 DEF Deliver
    <3> QED BY <3>1, <3>2
  <2>3. CASE Refuse
    <3>1. PICK d \in Devices(file) : queue[d] # <<>> /\ queue' = [queue EXCEPT ![d] = Tail(@)]
      BY <2>1, <2>3 DEF Refuse
    <3>2. refused' = refused + 1 /\ topic' = topic /\ FALSE \in BOOLEAN
      BY <2>3 DEF Refuse
    <3> QED BY <3>1, <3>2
  <2> QED BY <2>2, <2>3
<1>2. UNCHANGED <<file, process, lead, ages>>
  BY DEF Deliver, Refuse
<1>3. PICK m : m = Head(queue[d])
  OBVIOUS
<1>4. /\ MessagesOK' /\ QueueOK' /\ m \in 0 .. Len(file)
      /\ \A rows : Out(rows)' = Out(rows) - (IF ~stored /\ m \in rows THEN 1 ELSE 0)
  BY <1>1, <1>2, <1>3, LeaveStep
<1>5. ShapeOK'
  BY <1>0, <1>1, <1>2 DEF ShapeOK, process
<1>6. phase # "stats"
  <2>1. phase = "stats" => queue[d] = <<>>
    BY <1>0 DEF PhaseOK, NoMessages
  <2> QED BY <1>1, <2>1
<1>7. PhaseOK'
  BY <1>0, <1>2, <1>6 DEF PhaseOK, First, process
<1>8. LedgerOK'
  <2> SUFFICES ASSUME phase \in {"replay", "synthetic"} PROVE LedgerOK'
    BY <1>2, <1>6 DEF LedgerOK, process
  <2>0. Len(file) \in Nat /\ DOMAIN file = 1 .. Len(file) /\ DOMAIN file' = DOMAIN file
    BY <1>0, <1>2, FirstRange
  <2>1. Out({0}) \in Nat /\ Out(DOMAIN file) \in Nat
    BY <1>0 DEF LedgerOK
  <2>2. /\ Out(DOMAIN file)' = Out(DOMAIN file) - (IF ~stored /\ m \in DOMAIN file THEN 1 ELSE 0)
        /\ Out({0})' = Out({0}) - (IF ~stored /\ m \in {0} THEN 1 ELSE 0)
    BY <1>2, <1>4 DEF Out
  <2>3. Out({0})' \in Nat /\ Out(DOMAIN file)' \in Nat
    <3>1. OutNat'
      BY <1>4, <1>5, OutTypes, PTL
    <3> QED BY <3>1 DEF OutNat
  <2>4. \/ stored /\ Out(DOMAIN file)' = Out(DOMAIN file) /\ Out({0})' = Out({0}) /\ refused' = refused
        \/ /\ refused' = refused + 1 /\ refused \in Nat
           /\ \/ Out(DOMAIN file)' = Out(DOMAIN file) - 1 /\ Out({0})' = Out({0})
              \/ Out(DOMAIN file)' = Out(DOMAIN file) /\ Out({0})' = Out({0}) - 1
    <3>1. (m \in DOMAIN file /\ m \notin {0}) \/ (m \notin DOMAIN file /\ m \in {0})
      BY <1>4, <2>0
    <3> QED BY <1>0, <1>1, <2>1, <2>2, <3>1 DEF ShapeOK
  <2>5. /\ state' = state /\ step' = step /\ phase' = phase
    BY <1>2 DEF process
  <2>6. /\ state.sent_replay \in Nat /\ state.sent_synthetic \in Nat
        /\ InHand("replay") \in Nat /\ InHand("synthetic") \in Nat
        /\ InHand("replay")' = InHand("replay") /\ InHand("synthetic")' = InHand("synthetic")
    BY <1>0, <2>5 DEF ShapeOK, Counts, InHand
  <2>7. /\ state.sent_replay + state.sent_synthetic + InHand("replay") + InHand("synthetic")
                = Out(DOMAIN file) + Out({0}) + refused
        /\ Out(DOMAIN file) <= state.sent_replay + InHand("replay")
        /\ Out({0}) <= state.sent_synthetic + InHand("synthetic")
        /\ state.anomalies + (IF step = "anomaly" THEN 1 ELSE 0) <= state.sent_synthetic
    BY <1>0 DEF LedgerOK
  <2> QED BY <2>1, <2>3, <2>4, <2>5, <2>6, <2>7 DEF LedgerOK
<1>9. PaceOK'
  BY <1>0, <1>2, PaceKept DEF process
<1> QED BY <1>4, <1>5, <1>7, <1>8, <1>9 DEF IInv

LEMMA InvariantStep == IInv /\ [Next]_vars => IInv'
<1>1. IInv /\ UNCHANGED vars => IInv'
  <2> SUFFICES ASSUME IInv, UNCHANGED vars PROVE IInv'
    OBVIOUS
  <2> QED BY DEF vars, process, IInv, ShapeOK, PhaseOK, MessagesOK, Sources, First, QueueOK, Queued,
                 LedgerOK, InHand, Out, PaceOK, Waits
<1> QED BY <1>1, ReadStatsStep, StartReplayStep, PublishRowStep, PublishSyntheticStep, BufferFullStep,
           RecordEventStep, RecordAnomalyStep, WaitForNextTickStep, RecordHandoverStep, TickStep,
           BrokerStep, EndStep, RestartInvariant DEF Next, Work

LEMMA Invariant == Spec => []IInv
BY InitInvariant, InvariantStep, PTL DEF Spec

-----------------------------------------------------------------------------
(* Welford's step *)

Squared(f, I) == SumFunction([i \in I |-> f[i].temp * f[i].temp])
Temps(f, I)   == {f[i].temp : i \in I}

\* stat is what Welford's step has made of the rows I: with n rows, their sum S
\* and sum of squares Q, the mean is S / n and n times m2 is n Q - S S, as
\* fractions; the extremes are those of the rows and of the infinities.
Welford(stat, f, I) ==
    LET n == Cardinality(I)
    IN  /\ stat.count = n
        /\ stat.mean[1] \in Int /\ stat.mean[2] \in Int /\ stat.m2[1] \in Int /\ stat.m2[2] \in Int
        /\ stat.mean[1] * n = TempSum(f, I) * stat.mean[2]
        /\ n * stat.m2[1] = (n * Squared(f, I) - TempSum(f, I) * TempSum(f, I)) * stat.m2[2]
        /\ n = 0 => stat.m2[1] = 0
        /\ stat.min \in Temps(f, I) \cup {Infinity} /\ stat.max \in Temps(f, I) \cup {-Infinity}
        /\ \A t \in Temps(f, I) : stat.min <= t /\ t <= stat.max

\* The new mean a / b of n numbers of sum s, with a number x more.
NewMean(n, a, b, s, x) ==
    a * n = s * b =>
        (a * (b * (n + 1)) + (x * b - a) * b) * (n + 1) = (s + x) * (b * (b * (n + 1)))

LEMMA MeanStep ==
    ASSUME NEW n \in Int, NEW a \in Int, NEW b \in Int, NEW s \in Int, NEW x \in Int
    PROVE  NewMean(n, a, b, s, x)
<1> SUFFICES ASSUME a * n = s * b
             PROVE  (a * (b * (n + 1)) + (x * b - a) * b) * (n + 1) = (s + x) * (b * (b * (n + 1)))
  BY DEF NewMean
<1>1. (a * (b * (n + 1)) + (x * b - a) * b) * (n + 1) = (b * (n + 1)) * (a * n + x * b)
  OBVIOUS
<1>2. (b * (n + 1)) * (s * b + x * b) = (s + x) * (b * (b * (n + 1)))
  OBVIOUS
<1> QED BY <1>1, <1>2

LEMMA Cancel ==
    ASSUME NEW n \in Int, n # 0, NEW x \in Int, NEW y \in Int, n * x = n * y
    PROVE  x = y
OBVIOUS

\* The new sum of squared deviations, with the old mean a / b and the new one A / B.
NewSquares(n, a, b, s, x, c, d, q, A, B) ==
    /\ a * n = s * b /\ A * (n + 1) = (s + x) * B /\ n * c = (n * q - s * s) * d
    /\ n = 0 => s = 0 /\ q = 0 /\ c = 0
    => (n + 1) * (c * (b * B) + ((x * b - a) * (x * B - A)) * d)
            = ((n + 1) * (q + x * x) - (s + x) * (s + x)) * (d * (b * B))

LEMMA SquaresStep ==
    ASSUME NEW n \in Int, NEW a \in Int, NEW b \in Int, NEW s \in Int, NEW x \in Int,
           NEW c \in Int, NEW d \in Int, NEW q \in Int, NEW A \in Int, NEW B \in Int
    PROVE  NewSquares(n, a, b, s, x, c, d, q, A, B)
<1> SUFFICES ASSUME a * n = s * b, A * (n + 1) = (s + x) * B, n * c = (n * q - s * s) * d,
                    n = 0 => s = 0 /\ q = 0 /\ c = 0
             PROVE  (n + 1) * (c * (b * B) + ((x * b - a) * (x * B - A)) * d)
                        = ((n + 1) * (q + x * x) - (s + x) * (s + x)) * (d * (b * B))
  BY DEF NewSquares
<1> DEFINE p == x * b - a
           r == x * B - A
           L == (n + 1) * (c * (b * B) + (p * r) * d)
           R == ((n + 1) * (q + x * x) - (s + x) * (s + x)) * (d * (b * B))
<1>1. p \in Int /\ r \in Int /\ L \in Int /\ R \in Int
  OBVIOUS
<1>2. n * p = b * (n * x - s)
  <2>1. n * p = n * x * b - a * n
    OBVIOUS
  <2>2. b * (n * x - s) = n * x * b - s * b
    OBVIOUS
  <2> QED BY <2>1, <2>2
<1>3. (n + 1) * r = B * (n * x - s)
  <2>1. (n + 1) * r = (n + 1) * x * B - A * (n + 1)
    OBVIOUS
  <2>2. B * (n * x - s) = (n + 1) * x * B - (s + x) * B
    OBVIOUS
  <2> QED BY <2>1, <2>2
<1>4. CASE n = 0
  <2>1. r = 0
    BY <1>3, <1>4
  <2>2. c = 0 /\ s = 0 /\ q = 0
    BY <1>4
  <2>3. L = 0
    <3>1. c * (b * B) = 0 /\ (p * r) * d = 0
      BY <1>1, <2>1, <2>2
    <3> HIDE DEF p, r
    <3> QED BY <1>4, <3>1
  <2>4. R = 0
    <3>1. (n + 1) * (q + x * x) - (s + x) * (s + x) = 0
      BY <1>4, <2>2
    <3> QED BY <3>1
  <2> QED BY <2>3, <2>4
<1>5. CASE n # 0
  <2> HIDE DEF p, r
  <2>1. n * L = (n + 1) * (n * c) * (b * B) + (n * p) * ((n + 1) * r) * d
    BY <1>1
  <2>2. n * L = (n + 1) * ((n * q - s * s) * d) * (b * B) + (b * (n * x - s)) * (B * (n * x - s)) * d
    BY <1>2, <1>3, <2>1
  <2>3. n * R = (n + 1) * ((n * q - s * s) * d) * (b * B) + (b * (n * x - s)) * (B * (n * x - s)) * d
    OBVIOUS
  <2>4. n * L = n * R
    BY <2>2, <2>3
  <2> HIDE DEF L, R
  <2>5. L = R
    BY <1>1, <1>5, <2>4, Cancel
  <2> QED BY <2>5 DEF L, R, p, r
<1> QED BY <1>4, <1>5

\* The rows of the first n that are of a device and of some hours.
Seen(f, d, hours, n) == {i \in 1 .. n : f[i].device = d /\ f[i].hour \in hours}

LEMMA SeenFinite ==
    ASSUME NEW f \in Seq(Rows), NEW n \in 0 .. Len(f), NEW d, NEW hours
    PROVE  /\ IsFiniteSet(Seen(f, d, hours, n)) /\ Seen(f, d, hours, n) \subseteq DOMAIN f
           /\ Cardinality(Seen(f, d, hours, n)) \in Nat
<1>1. Seen(f, d, hours, n) \in SUBSET (1 .. n) /\ IsFiniteSet(1 .. n)
  BY FS_Interval DEF Seen
<1>2. IsFiniteSet(Seen(f, d, hours, n))
  BY <1>1, FS_Subset
<1>3. 1 .. n \subseteq DOMAIN f
  OBVIOUS
<1> QED BY <1>1, <1>2, <1>3, FS_CardinalityType

LEMMA RowTypes ==
    ASSUME NEW f \in Seq(Rows), NEW i \in DOMAIN f
    PROVE  /\ f[i].temp \in Int /\ f[i].device \in Int /\ f[i].hour \in Int /\ f[i].light \in BOOLEAN
           /\ -Infinity <= f[i].temp /\ f[i].temp <= Infinity
           /\ f[i].device \in Devices(f) /\ f[i].hour \in Hours(f)
<1>1. f[i] \in Rows
  OBVIOUS
<1>2. Infinity \in Nat
  BY ProducerAssumption
<1> QED BY <1>1, <1>2 DEF Rows, Devices, Hours

\* The sums over some rows and one more.
LEMMA SumsNext ==
    ASSUME NEW f \in Seq(Rows), NEW I \in SUBSET DOMAIN f, IsFiniteSet(I), NEW i \in DOMAIN f, i \notin I
    PROVE  /\ TempSum(f, I) \in Int /\ TempSum(f, I \cup {i}) = TempSum(f, I) + f[i].temp
           /\ Squared(f, I) \in Int /\ Squared(f, I \cup {i}) = Squared(f, I) + f[i].temp * f[i].temp
<1>1. \A j \in DOMAIN f : f[j].temp \in Int /\ f[j].temp * f[j].temp \in Int
  BY RowTypes
<1>2. /\ [j \in I |-> f[j].temp] \in [I -> Int]
      /\ [j \in I \cup {i} |-> f[j].temp] \in [I \cup {i} -> Int]
      /\ [j \in I |-> f[j].temp * f[j].temp] \in [I -> Int]
      /\ [j \in I \cup {i} |-> f[j].temp * f[j].temp] \in [I \cup {i} -> Int]
  BY <1>1
<1>3. TempSum(f, I) \in Int /\ TempSum(f, I \cup {i}) = TempSum(f, I) + f[i].temp
  <2> DEFINE h == [j \in I |-> f[j].temp]
             k == [j \in I \cup {i} |-> f[j].temp]
  <2>1. \A s \in I : h[s] = k[s]
    OBVIOUS
  <2>2. k[i] = f[i].temp
    OBVIOUS
  <2>3. h \in [I -> Int] /\ k \in [I \cup {i} -> Int]
    BY <1>2
  <2> HIDE DEF h, k
  <2>4. SumFunction(h) \in Int /\ SumFunction(k) = SumFunction(h) + k[i]
    BY <2>1, <2>3, SumAdd
  <2> QED BY <2>2, <2>4 DEF TempSum, h, k
<1>4. Squared(f, I) \in Int /\ Squared(f, I \cup {i}) = Squared(f, I) + f[i].temp * f[i].temp
  <2> DEFINE h == [j \in I |-> f[j].temp * f[j].temp]
             k == [j \in I \cup {i} |-> f[j].temp * f[j].temp]
  <2>1. \A s \in I : h[s] = k[s]
    OBVIOUS
  <2>2. k[i] = f[i].temp * f[i].temp
    OBVIOUS
  <2>3. h \in [I -> Int] /\ k \in [I \cup {i} -> Int]
    BY <1>2
  <2> HIDE DEF h, k
  <2>4. SumFunction(h) \in Int /\ SumFunction(k) = SumFunction(h) + k[i]
    BY <2>1, <2>3, SumAdd
  <2> QED BY <2>2, <2>4 DEF Squared, h, k
<1> QED BY <1>3, <1>4

LEMMA SumsOfNone ==
    ASSUME NEW f
    PROVE  TempSum(f, {}) = 0 /\ Squared(f, {}) = 0 /\ Cardinality({}) = 0 /\ Lit(f, {}) = 0
<1>1. IsFiniteSet({}) /\ Cardinality({}) = 0
  BY FS_EmptySet
<1>2. TempSum(f, {}) = 0
  <2>1. PICK g : SumsTo(g, [i \in {} |-> f[i].temp], {})
    BY <1>1, SumIs
  <2> QED BY <2>1 DEF SumsTo, TempSum
<1>3. Squared(f, {}) = 0
  <2>1. PICK g : SumsTo(g, [i \in {} |-> f[i].temp * f[i].temp], {})
    BY <1>1, SumIs
  <2> QED BY <2>1 DEF SumsTo, Squared
<1>4. {i \in {} : f[i].light} = {}
  OBVIOUS
<1> QED BY <1>1, <1>2, <1>3, <1>4 DEF Lit

\* The least of a number and a new one, and the greatest.
LEMMA MinMaxOf ==
    ASSUME NEW a \in Int, NEW b \in Int
    PROVE  /\ Min({a, b}) \in {a, b} /\ Min({a, b}) <= a /\ Min({a, b}) <= b
           /\ Max({a, b}) \in {a, b} /\ a <= Max({a, b}) /\ b <= Max({a, b})
<1>1. \E x \in {a, b} : \A y \in {a, b} : x <= y
  OBVIOUS
<1>2. Min({a, b}) \in {a, b} /\ \A y \in {a, b} : Min({a, b}) <= y
  BY <1>1 DEF Min
<1>3. \E x \in {a, b} : \A y \in {a, b} : x >= y
  OBVIOUS
<1>4. Max({a, b}) \in {a, b} /\ \A y \in {a, b} : Max({a, b}) >= y
  BY <1>3 DEF Max
<1> QED BY <1>2, <1>4

\* RunningStat.update keeps the statistics exact.
LEMMA UpdateIsExact ==
    ASSUME NEW f \in Seq(Rows), NEW I \in SUBSET DOMAIN f, IsFiniteSet(I), NEW i \in DOMAIN f, i \notin I,
           NEW stat, Welford(stat, f, I)
    PROVE  Welford(Update(stat, f[i].temp), f, I \cup {i})
<1> DEFINE J  == I \cup {i}
           up == Update(stat, f[i].temp)
<1>1. PICK n \in Nat : n = Cardinality(I) /\ Cardinality(J) = n + 1
  BY FS_CardinalityType, FS_AddElement
<1>2. PICK x \in Int : x = f[i].temp /\ -Infinity <= x /\ x <= Infinity
  BY RowTypes
<1>3. PICK s \in Int, q \in Int :
          /\ s = TempSum(f, I) /\ TempSum(f, J) = s + x
          /\ q = Squared(f, I) /\ Squared(f, J) = q + x * x
  BY <1>2, SumsNext
<1>4. PICK a \in Int, b \in Int, c \in Int, d \in Int :
          /\ a = stat.mean[1] /\ b = stat.mean[2] /\ c = stat.m2[1] /\ d = stat.m2[2]
          /\ a * n = s * b /\ n * c = (n * q - s * s) * d /\ (n = 0 => c = 0)
  BY <1>1, <1>3 DEF Welford
<1>5. stat.count = n
  BY <1>1 DEF Welford
<1>6. n = 0 => s = 0 /\ q = 0
  <2>1. n = 0 => I = {}
    BY <1>1, FS_EmptySet
  <2> QED BY <1>3, <2>1, SumsOfNone
<1> DEFINE A == a * (b * (n + 1)) + (x * b - a) * b
           B == b * (b * (n + 1))
<1>7. up.count = n + 1 /\ up.mean = <<A, B>>
  <2>1. up.mean = <<a * ((1 * b) * (n + 1)) + (x * b - a * 1) * b, b * ((1 * b) * (n + 1))>>
    BY <1>2, <1>4, <1>5 DEF Update, Plus, Over, Minus, Whole
  <2>2. up.count = n + 1
    BY <1>5 DEF Update
  <2>3. a * ((1 * b) * (n + 1)) + (x * b - a * 1) * b = A /\ b * ((1 * b) * (n + 1)) = B
    OBVIOUS
  <2> QED BY <2>1, <2>2, <2>3
<1>8. A \in Int /\ B \in Int
  OBVIOUS
<1>9. A * (n + 1) = (s + x) * B
  <2>1. n \in Int /\ a * n = s * b
    BY <1>4
  <2>2. (a * (b * (n + 1)) + (x * b - a) * b) * (n + 1) = (s + x) * (b * (b * (n + 1)))
    <3>1. NewMean(n, a, b, s, x)
      BY <2>1, MeanStep
    <3> QED BY <2>1, <3>1 DEF NewMean
  <2> QED BY <2>2
<1> HIDE DEF A, B
<1>10. up.m2 = <<c * (b * B) + ((x * b - a) * (x * B - A)) * d, d * (b * B)>>
  <2>1. up.m2 = Plus(stat.m2, Times(Minus(Whole(x), stat.mean), Minus(Whole(x), up.mean)))
    BY <1>2, <1>5 DEF Update
  <2>2. Minus(Whole(x), stat.mean) = <<x * b - a * 1, 1 * b>>
    BY <1>4 DEF Minus, Whole
  <2>3. Minus(Whole(x), up.mean) = <<x * B - A * 1, 1 * B>>
    BY <1>7 DEF Minus, Whole
  <2>4. up.m2 = <<c * ((1 * b) * (1 * B)) + ((x * b - a * 1) * (x * B - A * 1)) * d,
                  d * ((1 * b) * (1 * B))>>
    BY <1>4, <2>1, <2>2, <2>3 DEF Plus, Times
  <2>5. /\ x * b - a * 1 = x * b - a /\ x * B - A * 1 = x * B - A /\ 1 * b = b /\ 1 * B = B
    BY <1>8
  <2> QED BY <2>4, <2>5
<1> DEFINE C == c * (b * B) + ((x * b - a) * (x * B - A)) * d
           D == d * (b * B)
<1>11. C \in Int /\ D \in Int
  BY <1>8
<1>12. (n + 1) * C = ((n + 1) * (q + x * x) - (s + x) * (s + x)) * D
  <2>1. /\ n \in Int /\ a * n = s * b /\ n * c = (n * q - s * s) * d
        /\ n = 0 => s = 0 /\ q = 0 /\ c = 0
    BY <1>4, <1>6
  <2>2. (n + 1) * (c * (b * B) + ((x * b - a) * (x * B - A)) * d)
            = ((n + 1) * (q + x * x) - (s + x) * (s + x)) * (d * (b * B))
    <3>1. NewSquares(n, a, b, s, x, c, d, q, A, B)
      BY <1>8, <2>1, SquaresStep
    <3> QED BY <1>9, <2>1, <3>1 DEF NewSquares
  <2> QED BY <2>2
<1> HIDE DEF C, D
<1>13. /\ up.mean[1] \in Int /\ up.mean[2] \in Int /\ up.m2[1] \in Int /\ up.m2[2] \in Int
       /\ up.mean[1] * (n + 1) = TempSum(f, J) * up.mean[2]
       /\ (n + 1) * up.m2[1] = ((n + 1) * Squared(f, J) - TempSum(f, J) * TempSum(f, J)) * up.m2[2]
  <2>1. up.mean[1] = A /\ up.mean[2] = B
    BY <1>7
  <2>2. up.m2[1] = C /\ up.m2[2] = D
    BY <1>10 DEF C, D
  <2> QED BY <1>3, <1>8, <1>9, <1>11, <1>12, <2>1, <2>2
<1>14. /\ up.min \in Temps(f, J) \cup {Infinity} /\ up.max \in Temps(f, J) \cup {-Infinity}
       /\ \A t \in Temps(f, J) : up.min <= t /\ t <= up.max
  <2>1. Temps(f, J) = Temps(f, I) \cup {x}
    BY <1>2 DEF Temps
  <2>2. \A t \in Temps(f, I) : t \in Int
    BY RowTypes DEF Temps
  <2>3. /\ stat.min \in Temps(f, I) \cup {Infinity} /\ stat.max \in Temps(f, I) \cup {-Infinity}
        /\ \A t \in Temps(f, I) : stat.min <= t /\ t <= stat.max
    BY DEF Welford
  <2>4. PICK lo \in Int, hi \in Int : lo = stat.min /\ hi = stat.max
    BY <2>2, <2>3, ProducerAssumption
  <2>5. up.min = Min({lo, x}) /\ up.max = Max({hi, x})
    BY <1>2, <2>4 DEF Update
  <2>6. /\ up.min \in {lo, x} /\ up.min <= lo /\ up.min <= x
        /\ up.max \in {hi, x} /\ hi <= up.max /\ x <= up.max
    <3>1. /\ Min({lo, x}) \in {lo, x} /\ Min({lo, x}) <= lo /\ Min({lo, x}) <= x
          /\ Max({hi, x}) \in {hi, x} /\ hi <= Max({hi, x}) /\ x <= Max({hi, x})
      BY MinMaxOf, Zenon
    <3> QED BY <2>5, <3>1, Zenon
  <2>7. up.min \in Int /\ up.max \in Int
    BY <2>6
  <2>8. ASSUME NEW t \in Temps(f, I) PROVE up.min <= t /\ t <= up.max
    <3>1. t \in Int /\ lo <= t /\ t <= hi
      BY <2>2, <2>3, <2>4
    <3> QED BY <2>6, <2>7, <3>1
  <2> QED BY <2>1, <2>3, <2>4, <2>6, <2>8
<1> HIDE DEF up, J
<1>15. n + 1 # 0
  OBVIOUS
<1>16. Welford(up, f, J)
  BY <1>1, <1>7, <1>13, <1>14, <1>15 DEF Welford
<1> QED BY <1>16 DEF up, J

\* The statistics of a file's first rows.
StatsOf(f, s) ==
    /\ s.rows \in 0 .. Len(f)
    /\ DOMAIN s.metrics = Devices(f) /\ DOMAIN s.lit = Devices(f)
    /\ DOMAIN s.hours = Devices(f) \X Hours(f)
    /\ \A d \in Devices(f) :
        /\ Welford(s.metrics[d], f, Seen(f, d, Hours(f), s.rows))
        /\ s.lit[d] = Lit(f, Seen(f, d, Hours(f), s.rows))
    /\ \A d \in Devices(f) : \A h \in Hours(f) :
        LET own == Seen(f, d, {h}, s.rows)
        IN  /\ Welford(s.hours[<<d, h>>].temp, f, own)
            /\ s.hours[<<d, h>>].lit = Lit(f, own) /\ s.hours[<<d, h>>].seen = Cardinality(own)

LEMMA EmptyIsExact == ASSUME NEW f PROVE Welford(EmptyStat, f, {})
<1>1. Temps(f, {}) = {}
  BY DEF Temps
<1>2. Cardinality({}) = 0 /\ TempSum(f, {}) = 0 /\ Squared(f, {}) = 0
  BY SumsOfNone
<1> QED BY <1>1, <1>2 DEF Welford, EmptyStat, Whole

LEMMA EmptyStatsAreExact == ASSUME NEW f \in Seq(Rows) PROVE StatsOf(f, EmptyStats(f))
<1>1. \A d, hours : Seen(f, d, hours, 0) = {}
  BY DEF Seen
<1>2. Len(f) \in Nat
  OBVIOUS
<1>3. EmptyStats(f).rows = 0
  BY DEF EmptyStats
<1>4. \A d \in Devices(f) : EmptyStats(f).metrics[d] = EmptyStat /\ EmptyStats(f).lit[d] = 0
  BY DEF EmptyStats
<1>5. \A d \in Devices(f), h \in Hours(f) :
          EmptyStats(f).hours[<<d, h>>] = [temp |-> EmptyStat, lit |-> 0, seen |-> 0]
  BY DEF EmptyStats
<1>6. /\ DOMAIN EmptyStats(f).metrics = Devices(f) /\ DOMAIN EmptyStats(f).lit = Devices(f)
      /\ DOMAIN EmptyStats(f).hours = Devices(f) \X Hours(f)
  BY DEF EmptyStats
<1>7. /\ Welford(EmptyStat, f, {}) /\ Lit(f, {}) = 0 /\ Cardinality({}) = 0
  BY EmptyIsExact, SumsOfNone
<1>8. \A d \in Devices(f) :
          /\ Welford(EmptyStats(f).metrics[d], f, Seen(f, d, Hours(f), 0))
          /\ EmptyStats(f).lit[d] = Lit(f, Seen(f, d, Hours(f), 0))
  BY <1>1, <1>4, <1>7
<1>9. \A d \in Devices(f) : \A h \in Hours(f) :
          /\ Welford(EmptyStats(f).hours[<<d, h>>].temp, f, Seen(f, d, {h}, 0))
          /\ EmptyStats(f).hours[<<d, h>>].lit = Lit(f, Seen(f, d, {h}, 0))
          /\ EmptyStats(f).hours[<<d, h>>].seen = Cardinality(Seen(f, d, {h}, 0))
  <2> SUFFICES ASSUME NEW d \in Devices(f), NEW h \in Hours(f)
               PROVE  /\ Welford(EmptyStats(f).hours[<<d, h>>].temp, f, Seen(f, d, {h}, 0))
                      /\ EmptyStats(f).hours[<<d, h>>].lit = Lit(f, Seen(f, d, {h}, 0))
                      /\ EmptyStats(f).hours[<<d, h>>].seen = Cardinality(Seen(f, d, {h}, 0))
    OBVIOUS
  <2>1. Seen(f, d, {h}, 0) = {}
    BY <1>1
  <2>2. EmptyStats(f).hours[<<d, h>>] = [temp |-> EmptyStat, lit |-> 0, seen |-> 0]
    BY <1>5
  <2>3. /\ EmptyStats(f).hours[<<d, h>>].temp = EmptyStat
        /\ EmptyStats(f).hours[<<d, h>>].lit = 0 /\ EmptyStats(f).hours[<<d, h>>].seen = 0
    BY <2>2
  <2>4. /\ EmptyStats(f).hours[<<d, h>>].lit = Lit(f, Seen(f, d, {h}, 0))
        /\ EmptyStats(f).hours[<<d, h>>].seen = Cardinality(Seen(f, d, {h}, 0))
    BY <1>7, <2>1, <2>3, Zenon
  <2>5. Welford(EmptyStats(f).hours[<<d, h>>].temp, f, Seen(f, d, {h}, 0))
    BY <1>7, <2>1, <2>3, Zenon
  <2> QED BY <2>4, <2>5
<1>10. 0 \in 0 .. Len(f)
  BY <1>2
<1> QED BY <1>3, <1>6, <1>8, <1>9, <1>10, Zenon DEF StatsOf

\* The share of lit rows, with one more.
LEMMA LitNext ==
    ASSUME NEW f \in Seq(Rows), NEW I \in SUBSET DOMAIN f, IsFiniteSet(I), NEW i \in DOMAIN f, i \notin I
    PROVE  Lit(f, I \cup {i}) = Lit(f, I) + IF f[i].light THEN 1 ELSE 0
<1> DEFINE K == {j \in I : f[j].light}
           L == {j \in I \cup {i} : f[j].light}
<1>1. IsFiniteSet(K)
  <2>1. K \in SUBSET I
    OBVIOUS
  <2> HIDE DEF K
  <2> QED BY <2>1, FS_Subset
<1>2. CASE f[i].light
  <2>1. L = K \cup {i} /\ i \notin K
    BY <1>2
  <2> HIDE DEF K, L
  <2>2. Cardinality(L) = Cardinality(K) + 1
    BY <1>1, <2>1, FS_AddElement
  <2> QED BY <1>2, <2>2 DEF Lit, K, L
<1>3. CASE ~f[i].light
  <2>1. L = K
    BY <1>3
  <2>2. Cardinality(K) \in Nat
    <3> HIDE DEF K
    <3> QED BY <1>1, FS_CardinalityType
  <2>3. Lit(f, I \cup {i}) = Cardinality(L) /\ Lit(f, I) = Cardinality(K)
    BY DEF Lit
  <2>4. (IF f[i].light THEN 1 ELSE 0) = 0
    BY <1>3
  <2> HIDE DEF K, L
  <2> QED BY <2>1, <2>2, <2>3, <2>4
<1> QED BY <1>2, <1>3

LEMMA AddRowIsExact ==
    ASSUME NEW f \in Seq(Rows), NEW s, StatsOf(f, s), s.rows < Len(f)
    PROVE  StatsOf(f, AddRow(s, f[s.rows + 1]))
<1>1. PICK n \in Nat, i \in DOMAIN f : n = s.rows /\ i = n + 1 /\ i <= Len(f)
  <2>1. PICK n \in 0 .. Len(f) : n = s.rows
    BY DEF StatsOf
  <2>2. Len(f) \in Nat /\ DOMAIN f = 1 .. Len(f)
    OBVIOUS
  <2> QED BY <2>1, <2>2
<1>2. PICK d0 \in Devices(f), h0 \in Hours(f), x \in Int, lit \in {0, 1} :
          /\ d0 = f[i].device /\ h0 = f[i].hour /\ x = f[i].temp
          /\ lit = IF f[i].light THEN 1 ELSE 0
  BY RowTypes
<1>3. PICK t : t = AddRow(s, f[i])
  OBVIOUS
<1>4. /\ t.rows = n + 1
      /\ t.metrics = [s.metrics EXCEPT ![d0] = Update(s.metrics[d0], x)]
      /\ t.lit = [s.lit EXCEPT ![d0] = s.lit[d0] + lit]
      /\ t.hours = [s.hours EXCEPT ![<<d0, h0>>] =
                        [temp |-> Update(s.hours[<<d0, h0>>].temp, x),
                         lit |-> s.hours[<<d0, h0>>].lit + lit,
                         seen |-> s.hours[<<d0, h0>>].seen + 1]]
  BY <1>1, <1>2, <1>3 DEF AddRow
<1>5. n + 1 \in 0 .. Len(f) /\ n < Len(f) /\ n \in 0 .. Len(f)
  BY <1>1
<1>6. /\ DOMAIN t.metrics = Devices(f) /\ DOMAIN t.lit = Devices(f)
      /\ DOMAIN t.hours = Devices(f) \X Hours(f)
  BY <1>4 DEF StatsOf
<1>7. ASSUME NEW d, NEW hours
      PROVE  /\ Seen(f, d, hours, n) \in SUBSET DOMAIN f /\ IsFiniteSet(Seen(f, d, hours, n))
             /\ i \notin Seen(f, d, hours, n)
             /\ Seen(f, d, hours, n + 1) = IF d0 = d /\ h0 \in hours
                                           THEN Seen(f, d, hours, n) \cup {i} ELSE Seen(f, d, hours, n)
  <2>1. /\ Seen(f, d, hours, n) \in SUBSET DOMAIN f /\ IsFiniteSet(Seen(f, d, hours, n))
    BY <1>5, SeenFinite
  <2>2. 1 .. n + 1 = (1 .. n) \cup {i} /\ i \notin 1 .. n
    BY <1>1
  <2>3. i \notin Seen(f, d, hours, n)
    BY <2>2 DEF Seen
  <2>4. Seen(f, d, hours, n + 1) = IF d0 = d /\ h0 \in hours
                                   THEN Seen(f, d, hours, n) \cup {i} ELSE Seen(f, d, hours, n)
    BY <1>2, <2>2 DEF Seen
  <2> QED BY <2>1, <2>3, <2>4
<1>8. ASSUME NEW d \in Devices(f)
      PROVE  /\ Welford(t.metrics[d], f, Seen(f, d, Hours(f), n + 1))
             /\ t.lit[d] = Lit(f, Seen(f, d, Hours(f), n + 1))
  <2>1. PICK I : I = Seen(f, d, Hours(f), n)
    OBVIOUS
  <2>2. /\ Welford(s.metrics[d], f, I) /\ s.lit[d] = Lit(f, I)
    BY <1>1, <2>1 DEF StatsOf
  <2>3. I \in SUBSET DOMAIN f /\ IsFiniteSet(I) /\ i \notin I
    BY <1>7, <2>1
  <2>4. CASE d = d0
    <3>1. Seen(f, d, Hours(f), n + 1) = I \cup {i}
      BY <1>7, <2>1, <2>4
    <3>2. t.metrics[d] = Update(s.metrics[d], x) /\ t.lit[d] = s.lit[d] + lit
      BY <1>4, <2>4 DEF StatsOf
    <3>3. Welford(Update(s.metrics[d], f[i].temp), f, I \cup {i})
      BY <2>2, <2>3, UpdateIsExact
    <3>4. Lit(f, I \cup {i}) = Lit(f, I) + lit
      BY <1>2, <2>3, LitNext
    <3> QED BY <1>2, <2>2, <3>1, <3>2, <3>3, <3>4
  <2>5. CASE d # d0
    <3>1. Seen(f, d, Hours(f), n + 1) = I
      BY <1>7, <2>1, <2>5
    <3>2. t.metrics[d] = s.metrics[d] /\ t.lit[d] = s.lit[d]
      BY <1>4, <2>5 DEF StatsOf
    <3> QED BY <2>2, <3>1, <3>2
  <2> QED BY <2>4, <2>5
<1>9. ASSUME NEW d \in Devices(f), NEW h \in Hours(f)
      PROVE  /\ Welford(t.hours[<<d, h>>].temp, f, Seen(f, d, {h}, n + 1))
             /\ t.hours[<<d, h>>].lit = Lit(f, Seen(f, d, {h}, n + 1))
             /\ t.hours[<<d, h>>].seen = Cardinality(Seen(f, d, {h}, n + 1))
  <2>1. PICK I : I = Seen(f, d, {h}, n)
    OBVIOUS
  <2>2. PICK u : u = s.hours[<<d, h>>]
    OBVIOUS
  <2>3. Welford(u.temp, f, I) /\ u.lit = Lit(f, I) /\ u.seen = Cardinality(I)
    BY <1>1, <2>1, <2>2 DEF StatsOf
  <2>4. I \in SUBSET DOMAIN f /\ IsFiniteSet(I) /\ i \notin I
    BY <1>7, <2>1
  <2>5. CASE d = d0 /\ h = h0
    <3>1. Seen(f, d, {h}, n + 1) = I \cup {i}
      BY <1>7, <2>1, <2>5
    <3>2. t.hours[<<d, h>>] = [temp |-> Update(u.temp, x), lit |-> u.lit + lit, seen |-> u.seen + 1]
      <4>1. <<d, h>> \in DOMAIN s.hours
        BY DEF StatsOf
      <4> QED BY <1>4, <2>2, <2>5, <4>1
    <3>3. Welford(Update(u.temp, f[i].temp), f, I \cup {i})
      BY <2>3, <2>4, UpdateIsExact
    <3>4. Lit(f, I \cup {i}) = Lit(f, I) + lit
      BY <1>2, <2>4, LitNext
    <3>5. Cardinality(I \cup {i}) = Cardinality(I) + 1
      BY <2>4, FS_AddElement
    <3>6. t.hours[<<d, h>>].temp = Update(u.temp, f[i].temp)
      BY <1>2, <3>2
    <3>7. t.hours[<<d, h>>].lit = Lit(f, I \cup {i})
      BY <2>3, <3>2, <3>4
    <3>8. t.hours[<<d, h>>].seen = Cardinality(I \cup {i})
      BY <2>3, <3>2, <3>5
    <3> QED BY <3>1, <3>3, <3>6, <3>7, <3>8
  <2>6. CASE ~(d = d0 /\ h = h0)
    <3>1. Seen(f, d, {h}, n + 1) = I
      BY <1>7, <2>1, <2>6
    <3>2. <<d, h>> # <<d0, h0>>
      BY <2>6
    <3>3. t.hours[<<d, h>>] = u
      BY <1>4, <2>2, <3>2 DEF StatsOf
    <3> QED BY <2>3, <3>1, <3>3
  <2> QED BY <2>5, <2>6
<1>10. StatsOf(f, t)
  <2>1. t.rows = n + 1
    BY <1>4
  <2>2. t.rows \in 0 .. Len(f)
    BY <1>5, <2>1
  <2>3. \A d \in Devices(f) :
            /\ Welford(t.metrics[d], f, Seen(f, d, Hours(f), t.rows))
            /\ t.lit[d] = Lit(f, Seen(f, d, Hours(f), t.rows))
    BY <1>8, <2>1
  <2>4. \A d \in Devices(f) : \A h \in Hours(f) :
            /\ Welford(t.hours[<<d, h>>].temp, f, Seen(f, d, {h}, t.rows))
            /\ t.hours[<<d, h>>].lit = Lit(f, Seen(f, d, {h}, t.rows))
            /\ t.hours[<<d, h>>].seen = Cardinality(Seen(f, d, {h}, t.rows))
    BY <1>9, <2>1
  <2> QED BY <1>6, <2>2, <2>3, <2>4, Zenon DEF StatsOf
<1> QED BY <1>1, <1>3, <1>10

\* Once there are rows, Welford's numbers are the statistics of the rows.
LEMMA WelfordIsStat ==
    ASSUME NEW f \in Seq(Rows), NEW I \in SUBSET DOMAIN f, IsFiniteSet(I), I # {},
           NEW stat, Welford(stat, f, I)
    PROVE  IsStatOf(stat, f, I)
<1>1. PICK n \in Nat : n = Cardinality(I) /\ n # 0
  BY FS_CardinalityType, FS_EmptySet
<1> DEFINE g == [i \in I |-> f[i].temp]
           sq == [i \in I |-> g[i] * g[i]]
           df == [i \in I |-> (n * g[i] - TempSum(f, I)) * (n * g[i] - TempSum(f, I))]
<1>2. g \in [I -> Int] /\ \A i \in I : g[i] = f[i].temp
  BY RowTypes
<1>3. PICK s \in Int, q \in Int : s = TempSum(f, I) /\ q = Squared(f, I)
  <2>1. g \in [I -> Int] /\ [i \in I |-> f[i].temp * f[i].temp] \in [I -> Int]
    BY RowTypes
  <2>2. SumFunction(g) \in Int /\ SumFunction([i \in I |-> f[i].temp * f[i].temp]) \in Int
    <3>1. PICK h : h = [i \in I |-> f[i].temp * f[i].temp]
      OBVIOUS
    <3>2. SumFunction(h) \in Int
      BY <2>1, <3>1, SumLeq
    <3> HIDE DEF g
    <3>3. SumFunction(g) \in Int
      BY <2>1, SumLeq
    <3> QED BY <3>1, <3>2, <3>3
  <2> QED BY <2>2 DEF TempSum, Squared
<1>4. SumFunction(df) = n * n * q - 2 * n * s * s + n * s * s
  <2>1. SumFunction(g) = s
    BY <1>3 DEF TempSum
  <2>2. SumFunction(sq) = q
    <3>1. sq = [i \in I |-> f[i].temp * f[i].temp]
      OBVIOUS
    <3> QED BY <1>3, <3>1 DEF Squared
  <2>3. df = [i \in I |-> (n * g[i] - s) * (n * g[i] - s)]
    BY <1>3
  <2> HIDE DEF g
  <2>4. SumFunction([i \in I |-> (n * g[i] - s) * (n * g[i] - s)])
            = n * n * SumFunction(sq) - 2 * n * s * SumFunction(g) + Cardinality(I) * s * s
    <3>1. n \in Int /\ s \in Int /\ g \in [I -> Int] /\ IsFiniteSet(I)
      BY <1>2
    <3>2. \A a \in Int, b \in Int :
              SumFunction([i \in I |-> (a * g[i] - b) * (a * g[i] - b)])
                  = a * a * SumFunction([i \in I |-> g[i] * g[i]]) - 2 * a * b * SumFunction(g)
                        + Cardinality(I) * b * b
      BY <3>1, SumOfSquares, Zenon
    <3> QED BY <3>1, <3>2, Zenon
  <2> HIDE DEF df, sq
  <2> QED BY <1>1, <2>1, <2>2, <2>3, <2>4
<1>5. SumFunction(df) = n * (n * q - s * s)
  BY <1>4
<1>6. PICK a \in Int, b \in Int, c \in Int, d \in Int :
          /\ a = stat.mean[1] /\ b = stat.mean[2] /\ c = stat.m2[1] /\ d = stat.m2[2]
          /\ a * n = s * b /\ n * c = (n * q - s * s) * d
  BY <1>1, <1>3 DEF Welford
<1>7. Same(stat.mean, <<s, n>>)
  BY <1>6 DEF Same
<1>8. c * (n * n) = (n * (n * q - s * s)) * d
  <2>1. c * (n * n) = n * (n * c)
    OBVIOUS
  <2>2. n * ((n * q - s * s) * d) = (n * (n * q - s * s)) * d
    OBVIOUS
  <2> QED BY <1>6, <2>1, <2>2
<1>9. Same(stat.m2, <<SumFunction(df), n * n>>)
  <2> HIDE DEF df
  <2>1. Same(stat.m2, <<n * (n * q - s * s), n * n>>)
    BY <1>6, <1>8 DEF Same
  <2> QED BY <1>5, <2>1
<1>10. df = [i \in I |-> (n * f[i].temp - TempSum(f, I)) * (n * f[i].temp - TempSum(f, I))]
  OBVIOUS
<1>11. PICK T \in SUBSET Int : T = Temps(f, I) /\ T # {} /\ \A t \in T : -Infinity <= t /\ t <= Infinity
  <2>1. PICK T : T = Temps(f, I)
    OBVIOUS
  <2>2. ASSUME NEW t \in T PROVE t \in Int /\ -Infinity <= t /\ t <= Infinity
    BY <2>1, RowTypes DEF Temps
  <2>3. T # {}
    BY <2>1 DEF Temps
  <2> QED BY <2>1, <2>2, <2>3
<1>12. PICK lo \in Int, hi \in Int :
           /\ lo = stat.min /\ hi = stat.max
           /\ lo \in T \cup {Infinity} /\ hi \in T \cup {-Infinity} /\ \A t \in T : lo <= t /\ t <= hi
  <2>1. /\ stat.min \in T \cup {Infinity} /\ stat.max \in T \cup {-Infinity}
        /\ \A t \in T : stat.min <= t /\ t <= stat.max
    BY <1>1, <1>11 DEF Welford
  <2>2. stat.min \in Int /\ stat.max \in Int
    <3>1. Infinity \in Int /\ -Infinity \in Int
      BY ProducerAssumption
    <3> QED BY <1>11, <2>1, <3>1
  <2> QED BY <2>1, <2>2
<1>13. lo \in T /\ hi \in T
  <2>1. PICK t \in T : TRUE
    BY <1>11
  <2>2. Infinity \in Nat
    BY ProducerAssumption
  <2>3. lo = Infinity => t = Infinity
    BY <1>11, <1>12, <2>2
  <2>4. hi = -Infinity => t = -Infinity
    BY <1>11, <1>12, <2>2
  <2> QED BY <1>12, <2>3, <2>4
<1>14. Min(T) = lo /\ Max(T) = hi
  <2>1. Min(T) \in T /\ \A t \in T : Min(T) <= t
    BY <1>12, <1>13 DEF Min
  <2>2. Max(T) \in T /\ \A t \in T : Max(T) >= t
    BY <1>12, <1>13 DEF Max
  <2>3. PICK p \in Int, r \in Int :
            /\ p = Min(T) /\ p \in T /\ p <= lo /\ r = Max(T) /\ r \in T /\ r >= hi
    BY <1>13, <2>1, <2>2
  <2>4. lo <= p /\ r <= hi
    BY <1>12, <2>3
  <2> QED BY <2>3, <2>4
<1>15. stat.count = n
  BY <1>1 DEF Welford
<1> HIDE DEF g, sq, df
<1>16. T = {f[i].temp : i \in I}
  BY <1>11 DEF Temps
<1> QED BY <1>1, <1>3, <1>7, <1>9, <1>10, <1>12, <1>14, <1>15, <1>16 DEF IsStatOf

\* What the two loops draw from, once the whole file is read.
LEMMA StatsGive ==
    ASSUME NEW f \in Seq(Rows), NEW s, StatsOf(f, s), s.rows = Len(f), NEW d \in Devices(f)
    PROVE  LET all == RowsOf(f, d, Hours(f))
           IN  /\ IsStatOf(s.metrics[d], f, all)
               /\ \A h \in Hours(f) :
                    LET own == IF RowsOf(f, d, {h}) = {} THEN all ELSE RowsOf(f, d, {h})
                    IN  /\ Same(HourTempMean(s, d, h), <<TempSum(f, own), Cardinality(own)>>)
                        /\ Same(HourLightFraction(s, d, h), <<Lit(f, own), Cardinality(own)>>)
<1>0. Len(f) \in Nat /\ DOMAIN f = 1 .. Len(f)
  OBVIOUS
<1>1. \A hours : Seen(f, d, hours, s.rows) = RowsOf(f, d, hours)
  BY <1>0 DEF Seen, RowsOf
<1>2. ASSUME NEW hours
      PROVE  RowsOf(f, d, hours) \in SUBSET DOMAIN f /\ IsFiniteSet(RowsOf(f, d, hours))
  <2>1. RowsOf(f, d, hours) \in SUBSET DOMAIN f
    BY DEF RowsOf
  <2>2. IsFiniteSet(DOMAIN f)
    BY <1>0, FS_Interval
  <2> QED BY <2>1, <2>2, FS_Subset
<1>3. PICK all : all = RowsOf(f, d, Hours(f))
  OBVIOUS
<1>4. all \in SUBSET DOMAIN f /\ IsFiniteSet(all)
  BY <1>2, <1>3
<1>5. all # {}
  BY <1>3 DEF RowsOf, Devices, Hours
<1>6. Welford(s.metrics[d], f, all) /\ s.lit[d] = Lit(f, all)
  BY <1>1, <1>3 DEF StatsOf
<1>7. IsStatOf(s.metrics[d], f, all)
  BY <1>4, <1>5, <1>6, WelfordIsStat
<1>8. Same(s.metrics[d].mean, <<TempSum(f, all), Cardinality(all)>>)
  BY <1>7 DEF IsStatOf
<1>9. ASSUME NEW I \in SUBSET DOMAIN f, IsFiniteSet(I)
      PROVE  Same(<<Lit(f, I), Cardinality(I)>>, <<Lit(f, I), Cardinality(I)>>)
  BY DEF Same
<1>10. ASSUME NEW h \in Hours(f)
       PROVE  LET own == IF RowsOf(f, d, {h}) = {} THEN all ELSE RowsOf(f, d, {h})
              IN  /\ Same(HourTempMean(s, d, h), <<TempSum(f, own), Cardinality(own)>>)
                  /\ Same(HourLightFraction(s, d, h), <<Lit(f, own), Cardinality(own)>>)
  <2>1. PICK I : I = RowsOf(f, d, {h})
    OBVIOUS
  <2>2. I \in SUBSET DOMAIN f /\ IsFiniteSet(I)
    BY <1>2, <2>1
  <2>3. PICK u : u = s.hours[<<d, h>>]
    OBVIOUS
  <2>4. Welford(u.temp, f, I) /\ u.lit = Lit(f, I) /\ u.seen = Cardinality(I)
    BY <1>1, <2>1, <2>3 DEF StatsOf
  <2>5. CASE I = {}
    <3>1. u.seen = 0
      BY <2>4, <2>5, FS_EmptySet
    <3>2. HourTempMean(s, d, h) = s.metrics[d].mean
      BY <2>3, <3>1 DEF HourTempMean
    <3>3. HourLightFraction(s, d, h) = <<Lit(f, all), Cardinality(all)>>
      BY <1>6, <2>3, <3>1 DEF HourLightFraction, Welford
    <3> QED BY <1>4, <1>8, <1>9, <2>1, <2>5, <3>2, <3>3
  <2>6. CASE I # {}
    <3>1. u.seen # 0
      BY <2>2, <2>4, <2>6, FS_EmptySet
    <3>2. HourTempMean(s, d, h) = u.temp.mean
      BY <2>3, <3>1 DEF HourTempMean
    <3>3. HourLightFraction(s, d, h) = <<Lit(f, I), Cardinality(I)>>
      BY <2>3, <2>4, <3>1 DEF HourLightFraction
    <3>4. Same(u.temp.mean, <<TempSum(f, I), Cardinality(I)>>)
      BY <2>2, <2>4, <2>6, WelfordIsStat DEF IsStatOf
    <3> QED BY <1>9, <2>1, <2>2, <2>6, <3>2, <3>3, <3>4
  <2> QED BY <2>5, <2>6
<1> QED BY <1>3, <1>7, <1>10

\* The statistics are of the rows read, all of them once the file has been.
StatsOK ==
    /\ StatsOf(file, stats)
    /\ phase \in {"replay", "synthetic"} => stats.rows = Len(file)

LEMMA StatsInit == Init => StatsOK
<1> SUFFICES ASSUME Init PROVE StatsOK
  OBVIOUS
<1>1. file \in Seq(Rows) /\ stats = EmptyStats(file) /\ phase = "stats"
  BY FilesAreRows DEF Init
<1> QED BY <1>1, EmptyStatsAreExact DEF StatsOK

LEMMA StatsStep == IInv /\ StatsOK /\ [Next]_vars => StatsOK'
<1> SUFFICES ASSUME IInv, StatsOK, [Next]_vars PROVE StatsOK'
  OBVIOUS
<1>0. file \in Seq(Rows) /\ ShapeOK /\ PhaseOK
  BY DEF IInv, ShapeOK
<1>1. CASE ReadStats
  <2>1. /\ phase = "stats" /\ row <= Len(file) /\ stats.rows = row - 1 /\ row \in Nat
        /\ file' = file /\ phase' = phase /\ stats' = AddRow(stats, file[row])
    BY <1>0, <1>1 DEF ReadStats, ShapeOK, PhaseOK
  <2>2. Len(file) \in Nat
    BY <1>0
  <2>3. stats.rows < Len(file) /\ stats.rows + 1 = row
    BY <2>1, <2>2
  <2>4. StatsOf(file, AddRow(stats, file[stats.rows + 1]))
    BY <1>0, <2>3, AddRowIsExact DEF StatsOK
  <2> QED BY <2>1, <2>3, <2>4 DEF StatsOK
<1>2. CASE StartReplay
  <2>1. /\ phase = "stats" /\ row > Len(file) /\ row \in 1 .. Len(file) + 1 /\ stats.rows = row - 1
        /\ file' = file /\ stats' = stats
    BY <1>0, <1>2 DEF StartReplay, PhaseOK
  <2>2. stats.rows = Len(file)
    BY <1>0, <2>1
  <2> QED BY <2>1, <2>2 DEF StatsOK
<1>3. CASE Restart
  <2>1. file' = file /\ stats' = EmptyStats(file) /\ phase' = "stats"
    BY <1>3 DEF Restart, Boot
  <2> QED BY <1>0, <2>1, EmptyStatsAreExact DEF StatsOK
<1>4. CASE PublishRow \/ PublishSynthetic \/ RecordEvent \/ RecordAnomaly \/ WaitForNextTick \/ RecordHandover
  <2>1. file' = file /\ stats' = stats /\ phase \in {"replay", "synthetic"}
    BY <1>4 DEF PublishRow, PublishSynthetic, RecordEvent, RecordAnomaly, WaitForNextTick, RecordHandover
  <2> QED BY <2>1 DEF StatsOK
<1>5. CASE BufferFull \/ Flush \/ Kill
  <2>1. file' = file /\ stats' = stats /\ phase' \in {"flush", "down"}
    BY <1>5 DEF BufferFull, Flush, Kill
  <2> QED BY <2>1 DEF StatsOK
<1>6. CASE Tick \/ Deliver \/ Refuse \/ UNCHANGED vars
  <2>1. file' = file /\ stats' = stats /\ phase' = phase
    BY <1>6 DEF Tick, Deliver, Refuse, process, vars
  <2> QED BY <2>1 DEF StatsOK
<1> QED BY <1>1, <1>2, <1>3, <1>4, <1>5, <1>6 DEF Next, Work

-----------------------------------------------------------------------------
(* What the producer keeps true *)

\* The topic is faithful to the file whatever the broker refused and however often
\* the process was killed (replay.py:27): the rows of a device in their order, the
\* synthetic events behind them, and after the hand-over the last RowLimit rows
\* counted, each once; the client's queue holds what its limit allows.
THEOREM ProducerHolds == Spec => []ProducerInv
<1>1. IInv => ProducerInv
  <2> SUFFICES ASSUME IInv PROVE ProducerInv
    OBVIOUS
  <2>0. ShapeOK /\ PhaseOK /\ MessagesOK /\ QueueOK /\ file \in Seq(Rows)
    BY DEF IInv, ShapeOK
  <2>1. TypeOK
    BY <2>0 DEF ShapeOK, Counts, QueueOK, TypeOK
  <2>2. TopicKeepsOrder
    BY <2>0 DEF MessagesOK, Ordered, Before, TopicKeepsOrder
  <2>3. HandoverIsComplete
    <3> SUFFICES ASSUME state.mode = "synthetic" PROVE HandoverIsComplete
      BY DEF HandoverIsComplete
    <3> DEFINE wanted == IF RowLimit = 0 THEN Len(file) ELSE Min({RowLimit, Len(file)})
    <3>1. Len(file) \in Nat /\ First \in 1 .. Len(file) + 1
      BY <2>0, FirstRange
    <3>2. wanted = Len(file) + 1 - First
      <4>1. RowLimit \in Nat
        BY ProducerAssumption
      <4>2. Min({RowLimit, Len(file)}) = IF RowLimit <= Len(file) THEN RowLimit ELSE Len(file)
        BY <3>1, <4>1, MinOf
      <4>3. First = IF RowLimit > 0 /\ Len(file) > RowLimit THEN Len(file) - RowLimit + 1 ELSE 1
        BY DEF First, FirstRow
      <4>4. PICK n \in Nat : n = Len(file)
        BY <3>1
      <4>5. wanted = IF RowLimit = 0 THEN n ELSE IF RowLimit <= n THEN RowLimit ELSE n
        BY <4>2, <4>4
      <4>6. First = IF RowLimit > 0 /\ n > RowLimit THEN n - RowLimit + 1 ELSE 1
        BY <4>3, <4>4
      <4> HIDE DEF wanted
      <4>7. CASE RowLimit = 0 \/ n <= RowLimit
        <5>1. wanted = n /\ First = 1
          BY <4>1, <4>5, <4>6, <4>7
        <5> QED BY <4>4, <5>1
      <4>8. CASE RowLimit > 0 /\ n > RowLimit
        <5>1. wanted = RowLimit /\ First = n - RowLimit + 1
          BY <4>1, <4>5, <4>6, <4>8
        <5> QED BY <4>1, <4>4, <5>1
      <4> QED BY <4>1, <4>4, <4>7, <4>8
    <3>3. state.sent_replay = wanted
      BY <2>0, <3>2 DEF PhaseOK
    <3>4. ASSUME NEW d \in Devices(file), NEW i \in DOMAIN topic[d], topic[d][i] # 0
          PROVE  topic[d][i] > Len(file) - wanted
      <4>1. topic[d][i] \in Sources
        <5>1. topic[d] \in Seq(Sources)
          BY <2>0 DEF MessagesOK
        <5> QED BY <5>1
      <4>2. topic[d][i] \in Nat /\ First <= topic[d][i]
        BY <3>4, <4>1 DEF Sources
      <4> HIDE DEF wanted
      <4> QED BY <3>1, <3>2, <4>2
    <3> QED BY <3>3, <3>4 DEF HandoverIsComplete
  <2> QED BY <2>1, <2>2, <2>3 DEF ProducerInv
<1> QED BY <1>1, Invariant, PTL

\* Every event the page is told of is stored, queued or refused (state.py:24,
\* kafka_client.py:28), and of the kind it is counted as, whatever the rows, the
\* refusals and the stalls.
THEOREM LedgerHolds == Spec => []LedgerBalances
<1>1. IInv => LedgerBalances
  <2> SUFFICES ASSUME IInv, phase \in {"replay", "synthetic"} PROVE LedgerBalances
    BY DEF LedgerBalances
  <2>1. ShapeOK /\ LedgerOK /\ PhaseOK
    BY DEF IInv
  <2>2. /\ state.sent_replay \in Nat /\ state.sent_synthetic \in Nat /\ state.anomalies \in Nat
        /\ refused \in Nat
    BY <2>1 DEF ShapeOK, Counts
  <2> QED BY <2>1, <2>2 DEF LedgerOK, InHand, LedgerBalances
<1> QED BY <1>1, Invariant, PTL

\* However long a publish stalls, what follows is no burst (rate_limiter.py:23), for
\* any interval: of the events of the last n intervals all but the newest were
\* followed by a wait, and a wait ends with the next tick due within an interval.
THEOREM BurstHolds == Spec => []BurstIsBounded
<1>1. IInv => BurstIsBounded
  <2> SUFFICES ASSUME IInv, NEW n \in 1 .. 2
               PROVE  Cardinality({i \in DOMAIN ages : ages[i] < n * Interval}) <= n + 3
    BY DEF BurstIsBounded
  <2> DEFINE recent == {i \in DOMAIN ages : ages[i] < n * Interval}
  <2>0. /\ ages \in Seq(Nat) /\ PaceOK /\ lead \in Int /\ lead <= Interval
        /\ Interval \in Nat \ {0}
    BY ProducerAssumption DEF IInv, ShapeOK
  <2>1. PICK last \in Nat : last = Len(ages) /\ DOMAIN ages = 1 .. last
    BY <2>0
  <2>2. ASSUME NEW i \in recent PROVE i \in last - n - 2 .. last
    <3>1. PICK age \in Nat : age = ages[i] /\ age < n * Interval
      BY <2>0
    <3>2. i \in 1 .. last
      BY <2>1
    <3>3. PICK w \in Nat : w = Waits(i) /\ w >= last - i
      <4>1. last - i \in Nat
        BY <2>1, <3>2
      <4> QED BY <2>1, <4>1 DEF Waits
    <3>4. CASE w = 0
      BY <3>2, <3>3, <3>4
    <3>5. CASE w >= 1
      <4>1. lead >= (w - 2) * Interval - age
        BY <2>0, <2>1, <3>1, <3>2, <3>3, <3>5 DEF PaceOK
      <4>2. (w - 3) * Interval < n * Interval
        <5>1. PICK paid \in Int, span \in Int : paid = (w - 2) * Interval /\ span = n * Interval
          BY <2>0
        <5>2. (w - 3) * Interval = paid - Interval
          BY <2>0, <5>1
        <5>3. paid - age <= Interval /\ age < span
          BY <2>0, <3>1, <4>1, <5>1
        <5> QED BY <2>0, <5>1, <5>2, <5>3
      <4>3. w - 3 < n
        BY <2>0, <4>2
      <4> QED BY <3>2, <3>3, <4>3
    <3> QED BY <3>3, <3>4, <3>5
  <2>3. IsFiniteSet(last - n - 2 .. last) /\ Cardinality(last - n - 2 .. last) = n + 3
    BY FS_Interval
  <2>4. Cardinality(recent) <= Cardinality(last - n - 2 .. last)
    <3>1. recent \in SUBSET (last - n - 2 .. last)
      BY <2>2
    <3> HIDE DEF recent
    <3> QED BY <2>3, <3>1, FS_Subset
  <2> QED BY <2>3, <2>4
<1> QED BY <1>1, Invariant, PTL

\* One pass gives what two would have (device_stats.py:32): once the replay starts, the
\* counts, means, sums of squared deviations and extremes are those of the whole
\* file's rows, and every device has an hour's mean and light share to draw from, also
\* where the file has no row of it; for any file with temperatures within the
\* infinities, and after any number of restarts.
THEOREM StatsHold == Spec => []StatsAreExact
<1>1. IInv /\ StatsOK => StatsAreExact
  <2> SUFFICES ASSUME IInv, StatsOK, phase \in {"replay", "synthetic"} PROVE StatsAreExact
    BY DEF StatsAreExact
  <2>1. file \in Seq(Rows) /\ StatsOf(file, stats) /\ stats.rows = Len(file)
    BY DEF IInv, ShapeOK, StatsOK
  <2> QED BY <2>1, StatsGive DEF StatsAreExact
<1> QED BY <1>1, Invariant, StatsInit, StatsStep, PTL DEF Spec
=============================================================================
