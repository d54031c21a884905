---------------------------- MODULE TuningProofs ----------------------------
(***************************************************************************)
(* The tuner and what its records are for.                                 *)
(*                                                                         *)
(* For any plan, clock and outcomes: what competes for a record are the    *)
(* strategies all of whose runs were flawless, and what is saved           *)
(* is of use.  That needs what the tuner chooses to exist: samples have a  *)
(* median, strategies a first and measurements a fastest, and halving the  *)
(* thresholds ends at one of them.  Each follows from the least of the     *)
(* numbers, if any, for which it would fail.                               *)
(*                                                                         *)
(* For any number of threads and calls and any records: MLX's default      *)
(* device is put back, a call that no other overlaps runs where its        *)
(* arguments and the records promise and reports what it does, as long as  *)
(* no two stream contexts are open at once; and, however calls overlap,    *)
(* the events of starts and ends pair up.                                  *)
(***************************************************************************)
EXTENDS AutotuneRun, EngineDispatch, FiniteSetTheorems, WellFoundedInduction, TLAPS

----------------------------------------------------------------------------
(* The tuner.                                                              *)

(* What CHOOSE chooses.  A set of numbers that has any has a least.        *)
LEMMA LeastNumber ==
    ASSUME NEW T, T \subseteq Nat, T # {}
    PROVE  \E n \in T : \A m \in T : n <= m
<1> DEFINE R == OpToRel(<, Nat)
<1>1. IsWellFoundedOn(R, Nat)
    BY NatLessThanWellFounded
<1>2. \A m, n \in Nat : <<m, n>> \in R <=> m < n
    BY DEF OpToRel
<1> HIDE DEF R
<1>3. PICK n \in T : \A m \in T : ~ (<<m, n>> \in R)
    BY <1>1, WFMin
<1>4. \A m \in T : m \in Nat /\ n \in Nat /\ ~(m < n)
    BY <1>2, <1>3
<1>5. \A m \in T : n <= m
    BY <1>4
<1> QED
    BY <1>5

(* Samples have a bound: were there a least l at which the first l have    *)
(* none, there would be one for l - 1, and the greater of it and the last. *)
LEMMA SamplesAreBounded ==
    ASSUME NEW s \in Seq(Nat)
    PROVE  \E n \in Nat : \A i \in DOMAIN s : s[i] <= n
<1> DEFINE T == {l \in 0 .. Len(s) : ~ \E n \in Nat : \A i \in 1 .. l : s[i] <= n}
<1>0. Len(s) \in Nat /\ DOMAIN s = 1 .. Len(s) /\ \A i \in 1 .. Len(s) : s[i] \in Nat
    OBVIOUS
<1>1. ASSUME T # {} PROVE FALSE
    <2>1. T \subseteq Nat
        OBVIOUS
    <2>2. PICK l \in T : \A m \in T : l <= m
        BY <1>1, <2>1, LeastNumber
    <2>3. l \in 0 .. Len(s) /\ ~ \E n \in Nat : \A i \in 1 .. l : s[i] <= n
        OBVIOUS
    <2>4. l # 0
        BY <2>3
    <2>5. l - 1 \in 0 .. Len(s) /\ l - 1 < l /\ l \in 1 .. Len(s)
        BY <1>0, <2>3, <2>4
    <2>6. l - 1 \notin T
        <3> HIDE DEF T
        <3>1. ASSUME l - 1 \in T PROVE FALSE
            <4>1. l <= l - 1
                BY <2>2, <3>1
            <4> QED
                BY <2>5, <4>1
        <3> QED
            BY <3>1
    <2>7. PICK n \in Nat : \A i \in 1 .. l - 1 : s[i] <= n
        BY <2>5, <2>6
    <2>8. \A i \in 1 .. l : i \in 1 .. l - 1 \/ i = l
        BY <2>5
    <2>9. PICK last \in Nat : last = s[l]
        BY <1>0, <2>5
    <2>10. \E u \in Nat : n <= u /\ last <= u
        <3>1. n \in Nat /\ last \in Nat /\ (n <= last \/ last <= n) /\ n <= n /\ last <= last
            OBVIOUS
        <3> QED
            BY <3>1
    <2>11. PICK u \in Nat : n <= u /\ last <= u
        BY <2>10
    <2>12. ASSUME NEW i \in 1 .. l PROVE s[i] <= u
        <3>0. i \in 1 .. Len(s)
            BY <1>0, <2>3
        <3>1. PICK x \in Nat : x = s[i]
            BY <1>0, <3>0
        <3>2. x <= n \/ x = last
            BY <2>7, <2>8, <2>9, <3>1
        <3>3. \A a, b, c \in Nat : a <= b /\ b <= c => a <= c
            OBVIOUS
        <3>4. x <= u
            BY <2>11, <3>2, <3>3
        <3> QED
            BY <3>1, <3>4
    <2> QED
        BY <2>3, <2>11, <2>12
<1>2. Len(s) \in 0 .. Len(s)
    BY <1>0
<1>3. Len(s) \notin T
    BY <1>1
<1> QED
    BY <1>0, <1>2, <1>3

(* The least number that k samples do not exceed is one of them.           *)
LEMMA SmallestIsSample ==
    ASSUME NEW s \in Seq(Nat), NEW k \in 1 .. Len(s)
    PROVE  Smallest(k, s) \in Nat
<1> DEFINE upTo(n) == {i \in DOMAIN s : s[i] <= n}
           below(n) == {i \in DOMAIN s : s[i] < n}
           T == {n \in Nat : Cardinality(upTo(n)) >= k}
<1>0. /\ Len(s) \in Nat /\ DOMAIN s = 1 .. Len(s) /\ \A i \in 1 .. Len(s) : s[i] \in Nat
      /\ IsFiniteSet(DOMAIN s) /\ Cardinality(DOMAIN s) = Len(s)
    <2>1. Len(s) \in Nat /\ DOMAIN s = 1 .. Len(s) /\ \A i \in 1 .. Len(s) : s[i] \in Nat
        OBVIOUS
    <2>2. PICK n \in Nat : n = Len(s)
        BY <2>1
    <2>3. IsFiniteSet(1 .. n) /\ Cardinality(1 .. n) = n
        <3>1. 1 \in Int /\ n \in Int /\ (~(1 > n) \/ n = 0)
            OBVIOUS
        <3> QED
            BY <3>1, FS_Interval
    <2> QED
        BY <2>1, <2>2, <2>3
<1>1. \A n : /\ IsFiniteSet(upTo(n)) /\ Cardinality(upTo(n)) \in Nat
             /\ IsFiniteSet(below(n)) /\ Cardinality(below(n)) \in Nat
    <2>1. \A n : upTo(n) \subseteq DOMAIN s /\ below(n) \subseteq DOMAIN s
        OBVIOUS
    <2> QED
        BY <1>0, <2>1, FS_Subset, FS_CardinalityType
<1>2. T # {}
    <2>1. PICK n \in Nat : \A i \in DOMAIN s : s[i] <= n
        BY SamplesAreBounded
    <2>2. upTo(n) = DOMAIN s
        BY <2>1
    <2> HIDE DEF upTo
    <2> QED
        BY <1>0, <2>2
<1>3. PICK n \in T : \A m \in T : n <= m
    BY <1>2, LeastNumber
<1>4. n \in Nat /\ Cardinality(upTo(n)) >= k
    OBVIOUS
<1>5. Cardinality(below(n)) < k
    <2>1. CASE n = 0
        <3>1. below(n) = {}
            BY <1>0, <2>1
        <3> HIDE DEF below
        <3> QED
            BY <3>1, FS_EmptySet
    <2>2. CASE n # 0
        <3>1. n - 1 \in Nat /\ n - 1 < n
            BY <1>4, <2>2
        <3>2. below(n) = upTo(n - 1)
            BY <1>0, <1>4
        <3>3. n - 1 \notin T
            BY <1>3, <3>1
        <3>4. ~(Cardinality(upTo(n - 1)) >= k)
            BY <3>1, <3>3
        <3>5. Cardinality(upTo(n - 1)) \in Nat
            BY <1>1
        <3> HIDE DEF upTo, below
        <3> QED
            BY <3>2, <3>4, <3>5
    <2> QED
        BY <2>1, <2>2
<1>6. \E i \in DOMAIN s : s[i] = n
    <2>1. SUFFICES ASSUME \A i \in DOMAIN s : s[i] # n PROVE FALSE
        OBVIOUS
    <2>2. upTo(n) = below(n)
        BY <1>0, <1>4, <2>1
    <2>3. Cardinality(below(n)) \in Nat
        BY <1>1
    <2> HIDE DEF upTo, below
    <2> QED
        BY <1>4, <1>5, <2>2, <2>3
<1>7. \E x \in {s[i] : i \in DOMAIN s} :
         /\ Cardinality({i \in DOMAIN s : s[i] < x}) < k
         /\ Cardinality({i \in DOMAIN s : s[i] <= x}) >= k
    BY <1>4, <1>5, <1>6
<1>8. Smallest(k, s) \in {s[i] : i \in DOMAIN s}
    BY <1>7 DEF Smallest
<1> QED
    BY <1>0, <1>8

(* Of any samples the median is a number.                                  *)
LEMMA MedianIsNumber ==
    ASSUME NEW s \in Seq(Nat), s # <<>>
    PROVE  Median(s) \in Nat
<1>1. PICK n : n = Len(s)
    OBVIOUS
<1>2. n \in Nat \ {0}
    BY <1>1
<1>3. CASE n % 2 = 1
    <2>1. (n + 1) \div 2 \in 1 .. n
        BY <1>2
    <2> QED
        BY <1>1, <1>3, <2>1, SmallestIsSample DEF Median
<1>4. CASE n % 2 # 1
    <2>1. n # 1
        BY <1>4
    <2>2. n \div 2 \in 1 .. n /\ n \div 2 + 1 \in 1 .. n
        BY <1>2, <2>1
    <2>3. Smallest(n \div 2, s) \in Nat /\ Smallest(n \div 2 + 1, s) \in Nat
        BY <1>1, <2>2, SmallestIsSample
    <2>4. \A a, b \in Nat : (a + b) \div 2 \in Nat
        OBVIOUS
    <2> QED
        BY <1>1, <1>4, <2>3, <2>4 DEF Median
<1> QED
    BY <1>3, <1>4

(* What strategies are compared by are numbers.                            *)
LEMMA StrategiesAreRanked ==
    ASSUME NEW s \in Strategies
    PROVE  Cap(s) \in Nat /\ BackendRank(s) \in Nat
<1>1. s.cap \in {64, 128, 256, None}
    BY DEF Strategies, RowCaps
<1>2. Cap(s) \in Nat
    BY <1>1 DEF Cap, DefaultRowCap, None
<1>3. BackendRank(s) \in Nat
    BY DEF BackendRank
<1> QED
    BY <1>2, <1>3

(* By rank and then by cap there is a first of any strategies.             *)
LEMMA FirstExists ==
    ASSUME NEW T, T \subseteq Strategies, T # {}
    PROVE  \E s \in T : \A t \in T : ~Earlier(t, s)
<1>0. \A s \in T : Cap(s) \in Nat /\ BackendRank(s) \in Nat
    BY StrategiesAreRanked
<1>1. PICK r \in {BackendRank(s) : s \in T} : \A q \in {BackendRank(s) : s \in T} : r <= q
    BY <1>0, LeastNumber
<1> DEFINE R == {s \in T : BackendRank(s) = r}
<1>2. R # {} /\ \A s \in R : s \in T
    OBVIOUS
<1>3. PICK k \in {Cap(s) : s \in R} : \A q \in {Cap(s) : s \in R} : k <= q
    BY <1>0, <1>2, LeastNumber, ZenonT(60)
<1>4. PICK s \in R : Cap(s) = k
    BY <1>3
<1>5. ASSUME NEW t \in T PROVE ~Earlier(t, s)
    <2>1. /\ BackendRank(s) \in Nat /\ BackendRank(t) \in Nat /\ Cap(s) \in Nat /\ Cap(t) \in Nat
          /\ BackendRank(s) <= BackendRank(t)
          /\ BackendRank(t) = BackendRank(s) => Cap(s) <= Cap(t)
        BY <1>0, <1>1, <1>3, <1>4
    <2> QED
        BY <2>1 DEF Earlier
<1> QED
    BY <1>4, <1>5

(* By duration, cap and rank there is a fastest of any measurements.       *)
Measured(x) == x.strategy \in Strategies /\ x.duration \in Nat

(* The least duration, of those the least cap, of those the least rank.    *)
LEMMA FastestExists ==
    ASSUME NEW T, \A x \in T : Measured(x), T # {}
    PROVE  \E x \in T : \A y \in T : ~Faster(y, x)
<1>0. \A x \in T : /\ x.duration \in Nat /\ Cap(x.strategy) \in Nat
                   /\ BackendRank(x.strategy) \in Nat
    BY StrategiesAreRanked DEF Measured
<1>1. PICK d \in {x.duration : x \in T} : \A q \in {x.duration : x \in T} : d <= q
    BY <1>0, LeastNumber
<1> DEFINE D == {x \in T : x.duration = d}
<1>2. D # {} /\ \A x \in D : x \in T
    OBVIOUS
<1>3. PICK k \in {Cap(x.strategy) : x \in D} : \A q \in {Cap(x.strategy) : x \in D} : k <= q
    BY <1>0, <1>2, LeastNumber, ZenonT(60)
<1> DEFINE C == {x \in D : Cap(x.strategy) = k}
<1>4. C # {} /\ \A x \in C : x \in D /\ x \in T
    BY <1>3
<1> DEFINE ranks == {BackendRank(x.strategy) : x \in C}
<1>5. PICK r \in ranks : \A q \in ranks : r <= q
    <2> HIDE DEF C
    <2>1. ranks \subseteq Nat
        BY <1>0, <1>4
    <2>2. ranks # {}
        BY <1>4
    <2> HIDE DEF ranks
    <2> QED
        BY <2>1, <2>2, LeastNumber
<1>6. PICK x \in C : BackendRank(x.strategy) = r
    BY <1>5
<1>7. ASSUME NEW y \in T PROVE ~Faster(y, x)
    <2>1. /\ x.duration \in Nat /\ y.duration \in Nat /\ x.duration <= y.duration
          /\ Cap(x.strategy) \in Nat /\ Cap(y.strategy) \in Nat
          /\ BackendRank(x.strategy) \in Nat /\ BackendRank(y.strategy) \in Nat
        BY <1>0, <1>1, <1>4, <1>6
    <2>2. y.duration = x.duration => Cap(x.strategy) <= Cap(y.strategy)
        BY <1>3, <1>4, <1>6
    <2>3. y.duration = x.duration /\ Cap(y.strategy) = Cap(x.strategy)
             => BackendRank(x.strategy) <= BackendRank(y.strategy)
        BY <1>4, <1>5, <1>6
    <2> QED
        BY <2>1, <2>2, <2>3 DEF Faster, Cheaper
<1> QED
    BY <1>4, <1>6, <1>7

----------------------------------------------------------------------------
(* The thresholds between which a sum is calibrated stay among those for   *)
(* which there is an estimate.                                             *)
Thresholds == 0 .. 2^Halvings

Intervals == [lower : Thresholds, upper : Thresholds]

Whole == [lower |-> 0, upper |-> 2^Halvings]

(* Halving starts with all thresholds.                                     *)
LEMMA WholeIsInterval == Whole \in Intervals
<1>1. PICK u \in Nat : u = 2^Halvings
    BY RunAssumption
<1>2. 0 \in 0 .. u /\ u \in 0 .. u
    OBVIOUS
<1> QED
    BY <1>1, <1>2 DEF Whole, Intervals, Thresholds

(* The middle of two thresholds is a threshold.                            *)
LEMMA HalvedIsInterval ==
    ASSUME NEW target, NEW interval \in Intervals
    PROVE  Halved(interval, target) \in Intervals
<1>1. PICK u \in Nat : u = 2^Halvings
    BY RunAssumption
<1>2. PICK l \in 0 .. u, h \in 0 .. u : interval.lower = l /\ interval.upper = h
    BY <1>1 DEF Intervals, Thresholds
<1>3. PICK mid \in 0 .. u : mid = (l + h) \div 2
    BY <1>2
<1>4. mid \in Thresholds
    BY <1>1, <1>3 DEF Thresholds
<1>5. /\ [interval EXCEPT !.lower = mid] \in Intervals
      /\ [interval EXCEPT !.upper = mid] \in Intervals
    BY <1>4 DEF Intervals
<1>6. Halved(interval, target) \in {[interval EXCEPT !.lower = mid], [interval EXCEPT !.upper = mid]}
    BY <1>2, <1>3 DEF Halved
<1> QED
    BY <1>5, <1>6

(* Halving k times: a function that does it exists for any k, by the least *)
(* for which there is none.                                                *)
Halves(target, g, k) ==
    /\ g = [n \in 0 .. k |-> g[n]]
    /\ \A n \in 0 .. k : g[n] = IF n = 0 THEN Whole ELSE Halved(g[n - 1], target)

(* Were there a least k, a halving k - 1 times could be continued.         *)
LEMMA HalvingExists ==
    ASSUME NEW target
    PROVE  \A k \in Nat : \E g : Halves(target, g, k)
<1> DEFINE T == {k \in Nat : ~ \E g : Halves(target, g, k)}
<1> SUFFICES ASSUME T # {} PROVE FALSE
    OBVIOUS
<1>1. PICK k \in T : \A m \in T : k <= m
    BY LeastNumber
<1>2. k \in Nat /\ ~ \E g : Halves(target, g, k)
    OBVIOUS
<1>3. k # 0
    <2> DEFINE g == [n \in 0 .. 0 |-> Whole]
    <2>1. Halves(target, g, 0)
        BY DEF Halves
    <2> QED
        BY <1>2, <2>1
<1>4. k - 1 \in Nat /\ k - 1 < k
    BY <1>2, <1>3
<1>5. PICK g : Halves(target, g, k - 1)
    BY <1>1, <1>4
<1> DEFINE next == Halved(g[k - 1], target)
           h == [n \in 0 .. k |-> IF n = k THEN next ELSE g[n]]
<1> HIDE DEF next
<1>6. h[k] = next /\ (\A n \in 0 .. k - 1 : h[n] = g[n]) /\ h = [n \in 0 .. k |-> h[n]]
    BY <1>2, <1>4
<1>7. ASSUME NEW n \in 0 .. k
      PROVE  h[n] = IF n = 0 THEN Whole ELSE Halved(h[n - 1], target)
    <2> HIDE DEF h
    <2>1. CASE n = k
        <3>1. k - 1 \in 0 .. k - 1
            BY <1>4
        <3>2. h[k - 1] = g[k - 1]
            BY <1>6, <3>1
        <3> QED
            BY <1>3, <1>6, <2>1, <3>2 DEF next
    <2>2. CASE n # k /\ n # 0
        <3>1. n \in 0 .. k - 1 /\ n - 1 \in 0 .. k - 1
            BY <1>2, <2>2
        <3>2. h[n] = g[n] /\ h[n - 1] = g[n - 1]
            BY <1>6, <3>1
        <3>3. g[n] = IF n = 0 THEN Whole ELSE Halved(g[n - 1], target)
            BY <1>5, <3>1 DEF Halves
        <3> QED
            BY <3>2, <3>3
    <2>3. CASE n # k /\ n = 0
        <3>1. n \in 0 .. k - 1
            BY <1>4, <2>3
        <3> QED
            BY <1>5, <1>6, <2>3, <3>1 DEF Halves
    <2> QED
        BY <2>1, <2>2, <2>3
<1>8. Halves(target, h, k)
    BY <1>6, <1>7 DEF Halves
<1> QED
    BY <1>2, <1>8

(* Were there a least k at which it left the thresholds, it would have     *)
(* left them at k - 1.                                                     *)
LEMMA HalvesAreIntervals ==
    ASSUME NEW target, NEW g, NEW k \in Nat, Halves(target, g, k)
    PROVE  g[k] \in Intervals
<1> DEFINE T == {n \in 0 .. k : g[n] \notin Intervals}
<1> SUFFICES ASSUME T # {} PROVE FALSE
    OBVIOUS
<1>0. T \subseteq Nat
    OBVIOUS
<1>1. PICK n \in T : \A m \in T : n <= m
    BY <1>0, LeastNumber
<1>2. n \in 0 .. k /\ g[n] \notin Intervals
    OBVIOUS
<1>3. g[n] = IF n = 0 THEN Whole ELSE Halved(g[n - 1], target)
    BY <1>2 DEF Halves
<1>4. n # 0
    BY <1>2, <1>3, WholeIsInterval
<1>5. n - 1 \in 0 .. k /\ n - 1 < n
    BY <1>2, <1>4
<1>6. n - 1 \notin T
    BY <1>1, <1>5
<1>7. g[n - 1] \in Intervals
    BY <1>5, <1>6
<1> QED
    BY <1>2, <1>3, <1>4, <1>7, HalvedIsInterval

(* So a benchmark is calibrated to a threshold that has an estimate.       *)
LEMMA CalibratedIsThreshold ==
    ASSUME NEW target
    PROVE  Calibrated(target) \in Thresholds
<1> DEFINE halve[i \in 0 .. Halvings] ==
              IF i = 0 THEN [lower |-> 0, upper |-> 2^Halvings]
              ELSE Halved(halve[i - 1], target)
<1>1. Halvings \in Nat
    BY RunAssumption
<1>2. PICK g : Halves(target, g, Halvings)
    BY <1>1, HalvingExists
<1>3. g = [i \in 0 .. Halvings |->
              IF i = 0 THEN [lower |-> 0, upper |-> 2^Halvings]
              ELSE Halved(g[i - 1], target)]
    BY <1>2 DEF Halves, Whole
<1>4. halve = [i \in 0 .. Halvings |->
              IF i = 0 THEN [lower |-> 0, upper |-> 2^Halvings]
              ELSE Halved(halve[i - 1], target)]
    BY <1>3
<1> HIDE DEF halve
<1>5. Halves(target, halve, Halvings)
    BY <1>4 DEF Halves, Whole
<1>6. Calibrated(target) = halve[Halvings].upper
    BY DEF Calibrated, halve
<1>7. halve[Halvings] \in Intervals
    BY <1>1, <1>5, HalvesAreIntervals
<1> QED
    BY <1>6, <1>7 DEF Intervals

(* So the density a sum is timed at is one in thousandths, never None.     *)
LEMMA DensityIsEstimated ==
    ASSUME estimate \in Estimates, NEW w, w.profile = "sum_thresh"
    PROVE  TimedDensity(w) \in 0 .. 1000
<1>1. estimate \in [Thresholds -> 0 .. 1000]
    BY RunAssumption, ZenonT(60) DEF Thresholds
<1>2. Calibrated(w.density) \in Thresholds
    BY CalibratedIsThreshold
<1> QED
    BY <1>1, <1>2 DEF TimedDensity

(* The key of a workload whose calibration has not failed is the one under *)
(* which the engine looks for the join of its benchmark: the lengths give  *)
(* back the counts, the flags the alignment, the sampled density its own   *)
(* bucket.                                                                 *)
LEMMA KeyIsFound ==
    ASSUME estimate \in Estimates, NEW w, ValidWorkload(w), ~CalibrationFails(w),
           w.n_a \in Int, w.n_b \in Int, w.m \in Int,
           w.self \in BOOLEAN, w.aligned \in BOOLEAN
    PROVE  Key(w) = JoinKey(Benchmark(w), TimedDensity(w))
<1> DEFINE join == Benchmark(w)
           v == [profile |-> join.family, precision |-> join.precision,
                 n_a |-> join.length_a - join.m + 1, n_b |-> join.length_b - join.m + 1,
                 m |-> join.m, self |-> join.self,
                 aligned |-> ~join.self /\ ~join.allow_trivial_match,
                 tile |-> join.max_tile_size, density |-> TimedDensity(w),
                 k |-> join.k, shape |-> join.shape]
<1>1. JoinKey(join, TimedDensity(w)) = MakeWorkloadKey(v, "auto", DtypeOf(w))
    BY DEF JoinKey, Benchmark
<1>2. /\ v.profile = w.profile /\ v.precision = w.precision /\ v.m = w.m /\ v.self = w.self
      /\ v.tile = w.tile /\ v.k = w.k /\ v.shape = w.shape /\ v.density = TimedDensity(w)
    BY DEF Benchmark
<1>3. v.n_a = w.n_a /\ v.n_b = w.n_b
    <2>1. v.n_a = (w.n_a + w.m - 1) - w.m + 1 /\ v.n_b = (w.n_b + w.m - 1) - w.m + 1
        BY DEF Benchmark
    <2>2. \A n, m \in Int : (n + m - 1) - m + 1 = n
        OBVIOUS
    <2> HIDE DEF v
    <2> QED
        BY <2>1, <2>2
<1>4. v.aligned = (~w.self /\ w.aligned)
    BY DEF Benchmark
<1> HIDE DEF v
<1>5. Alignment(v) = Alignment(w)
    BY <1>2, <1>4 DEF Alignment
<1>6. ProfileBucket(v) = ProfileBucket(w)
    <2>1. CASE w.profile = "sum_thresh"
        <3>1. TimedDensity(w) # None
            BY <2>1, DensityIsEstimated DEF None
        <3>2. w.density # None /\ DensityBucket(TimedDensity(w)) = DensityBucket(w.density)
            BY <2>1 DEF CalibrationFails
        <3> QED
            BY <1>2, <2>1, <3>1, <3>2 DEF ProfileBucket
    <2>2. CASE w.profile # "sum_thresh"
        BY <1>2, <2>2 DEF ProfileBucket
    <2> QED
        BY <2>1, <2>2
<1>7. MakeWorkloadKey(v, "auto", DtypeOf(w)) = MakeWorkloadKey(w, "auto", DtypeOf(w))
    BY <1>2, <1>3, <1>5, <1>6 DEF MakeWorkloadKey
<1> QED
    BY <1>1, <1>7 DEF Key

----------------------------------------------------------------------------
(* What the tuner has saved so far, and what it chooses the next from.     *)
Records ==
    [key : {Key(w) : w \in UNION {{p.workloads[i] : i \in DOMAIN p.workloads} : p \in Plans}},
     candidate : Strategies, duration : Nat, trials : Nat]

(* The workloads before this one are saved, each under its own key.        *)
SavedInOrder ==
    /\ ValidPlan /\ at \in 1 .. Len(Workloads)
    /\ Len(saved) = at - 1
    /\ \A i \in DOMAIN saved : saved[i].key = Key(Workloads[i])

TuningInv ==
    /\ plan \in Plans /\ estimate \in Estimates
    /\ pc = "validate" => at = 1 /\ saved = <<>>
    /\ saved \in Seq(Records)
    /\ pc \in {"reference", "candidate", "run"} => SavedInOrder
    /\ pc \in {"candidate", "run"} => ~CalibrationFails(Now)
    /\ tried \in Seq(Strategies)
    /\ pc = "run" => tried # <<>>
    /\ runs.samples \in Seq(Nat) /\ runs.warm \in Nat
    /\ runs = [warm |-> runs.warm, samples |-> runs.samples]
    /\ \A x \in measurements : Measured(x)

(* The workload at hand, while the tuner is at one.                        *)
LEMMA NowIsTyped ==
    ASSUME TuningInv, SavedInOrder
    PROVE  /\ ValidWorkload(Now) /\ at \in DOMAIN Workloads
           /\ Now.n_a \in Int /\ Now.n_b \in Int /\ Now.m \in Int
           /\ Now.self \in BOOLEAN /\ Now.aligned \in BOOLEAN
           /\ Key(Now) \in {Key(w) : w \in UNION {{p.workloads[i] : i \in DOMAIN p.workloads} : p \in Plans}}
<1>1. plan \in Plans /\ ValidPlan /\ at \in 1 .. Len(Workloads)
    BY DEF TuningInv, SavedInOrder
<1>2. Workloads \in Seq({Workloads[i] : i \in DOMAIN Workloads})
    BY <1>1, PlansAssumption DEF Workloads
<1>3. at \in DOMAIN Workloads
    BY <1>1, <1>2
<1>4. ValidWorkload(Now)
    BY <1>1, <1>3 DEF ValidPlan, Now
<1>5. /\ Now.n_a \in Int /\ Now.n_b \in Int /\ Now.m \in Int
      /\ Now.self \in BOOLEAN /\ Now.aligned \in BOOLEAN
    BY <1>1, <1>3, PlansAssumption DEF Now, Workloads
<1>6. Now \in UNION {{p.workloads[i] : i \in DOMAIN p.workloads} : p \in Plans}
    BY <1>1, <1>3 DEF Now, Workloads
<1> QED
    BY <1>3, <1>4, <1>5, <1>6

(* What is untried is eligible, and one of it comes first.                 *)
LEMMA NextIsStrategy ==
    ASSUME Untried # {}
    PROVE  (CHOOSE s \in Untried : \A t \in Untried : ~Earlier(t, s)) \in Strategies
<1>1. Untried \subseteq Strategies
    BY DEF Untried, Eligible
<1>2. \E s \in Untried : \A t \in Untried : ~Earlier(t, s)
    BY <1>1, FirstExists
<1>3. (CHOOSE s \in Untried : \A t \in Untried : ~Earlier(t, s)) \in Untried
    BY <1>2
<1> QED
    BY <1>1, <1>3

(* The winner is a measurement, and none is faster or as fast for less.    *)
LEMMA WinnerWins ==
    ASSUME measurements # {}, \A x \in measurements : Measured(x)
    PROVE  /\ Winner \in measurements
           /\ \A y \in measurements : ~Faster(y, Winner)
<1>1. \E x \in measurements : \A y \in measurements : ~Faster(y, x)
    BY FastestExists
<1> QED
    BY <1>1 DEF Winner

(* So the record is one that a plan can lead to.                           *)
LEMMA RecordIsTyped ==
    ASSUME TuningInv, SavedInOrder, measurements # {}
    PROVE  Record \in Records
<1>1. Measured(Winner)
    BY WinnerWins DEF TuningInv
<1>2. Winner.strategy \in Strategies /\ Winner.duration \in Nat
    BY <1>1 DEF Measured
<1>3. plan.trials \in Nat
    BY DEF SavedInOrder, ValidPlan
<1> QED
    BY <1>2, <1>3, NowIsTyped DEF Record, Records

(* Nothing is saved, tried or measured at first.                           *)
LEMMA TuningInitially == TunerInit => TuningInv
<1> SUFFICES ASSUME TunerInit PROVE TuningInv
    OBVIOUS
<1>1. runs = [warm |-> 0, samples |-> <<>>] /\ <<>> \in Seq(Nat)
    BY DEF TunerInit, NoRuns
<1>2. saved \in Seq(Records) /\ tried \in Seq(Strategies)
    BY DEF TunerInit
<1>3. \A x \in measurements : Measured(x)
    BY DEF TunerInit
<1> QED
    BY <1>1, <1>2, <1>3 DEF TunerInit, TuningInv

(* Every step that leaves the workload, the plan and the records alone     *)
(* leaves what was saved in order.                                         *)
LEMMA OrderStays ==
    ASSUME SavedInOrder, UNCHANGED <<plan, at, saved>>
    PROVE  SavedInOrder'
BY DEF SavedInOrder, ValidPlan, Workloads

(* So does a calibration that has not failed, as the estimate is sampled   *)
(* once for a workload.                                                    *)
LEMMA CalibrationStays ==
    ASSUME ~CalibrationFails(Now), UNCHANGED <<plan, at, estimate>>
    PROVE  ~CalibrationFails(Now)'
BY ZenonT(60) DEF CalibrationFails, TimedDensity, Calibrated, Halved, Now, Workloads

(* A valid plan has a first workload, and nothing before it to save.       *)
LEMMA ValidateKeeps ==
    ASSUME TuningInv, Validate
    PROVE  TuningInv'
<1>0. /\ pc = "validate" /\ pc' \in {"reference", "raised"} /\ (pc' = "reference" => ValidPlan)
      /\ UNCHANGED <<plan, at, estimate, tried, runs, measurements, saved>>
    BY DEF Validate, Goto, Raise
<1>1. plan \in Plans /\ at = 1 /\ saved = <<>>
    BY <1>0 DEF TuningInv
<1>2. ASSUME ValidPlan PROVE SavedInOrder
    <2>1. Workloads \in Seq({Workloads[i] : i \in DOMAIN Workloads})
        BY <1>1, PlansAssumption DEF Workloads
    <2>2. Workloads # <<>>
        BY <1>2 DEF ValidPlan
    <2>3. PICK n \in Nat : n = Len(Workloads)
        BY <2>1
    <2>4. n # 0
        BY <2>1, <2>2, <2>3
    <2>5. 1 \in 1 .. Len(Workloads)
        BY <2>3, <2>4
    <2>6. Len(saved) = 1 - 1 /\ DOMAIN saved = {}
        BY <1>1
    <2> QED
        BY <1>1, <1>2, <2>5, <2>6 DEF SavedInOrder
<1>3. pc' = "reference" => SavedInOrder'
    BY <1>0, <1>2, OrderStays
<1> QED
    BY <1>0, <1>3 DEF TuningInv

(* A reference is right only if the calibration has not failed.            *)
LEMMA ReferenceKeeps ==
    ASSUME TuningInv, Reference
    PROVE  TuningInv'
<1>0. /\ pc = "reference"
      /\ UNCHANGED <<plan, at, estimate, tried, runs, measurements, saved>>
      /\ \/ pc' = "raised"
         \/ pc' = "candidate" /\ "right" \in Outcomes(Now, ReferenceStrategy(Now))
    BY DEF Reference, Goto, Raise
<1>1. SavedInOrder'
    BY <1>0, OrderStays DEF TuningInv
<1>2. ASSUME pc' = "candidate" PROVE ~CalibrationFails(Now)'
    <2>1. ~Refused(Now, ReferenceStrategy(Now))
        BY <1>0, <1>2 DEF Outcomes
    <2>2. ~CalibrationFails(Now)
        BY <2>1 DEF Refused
    <2> QED
        BY <1>0, <2>2, CalibrationStays
<1> QED
    BY <1>0, <1>1, <1>2 DEF TuningInv

(* The next strategy is one, and has not been run.                         *)
LEMMA NextCandidateKeeps ==
    ASSUME TuningInv, NextCandidate
    PROVE  TuningInv'
<1> DEFINE first == CHOOSE s \in Untried : \A t \in Untried : ~Earlier(t, s)
<1>0. /\ pc = "candidate" /\ pc' = "run" /\ Untried # {}
      /\ tried' = Append(tried, first) /\ runs' = NoRuns
      /\ UNCHANGED <<plan, at, estimate, measurements, saved>>
    BY DEF NextCandidate, Goto
<1>1. first \in Strategies
    BY <1>0, NextIsStrategy
<1> HIDE DEF first
<1>2. tried \in Seq(Strategies)
    BY DEF TuningInv
<1>3. tried' \in Seq(Strategies) /\ tried' # <<>>
    BY <1>0, <1>1, <1>2
<1>4. SavedInOrder'
    BY <1>0, OrderStays DEF TuningInv
<1>5. ~CalibrationFails(Now)'
    BY <1>0, CalibrationStays DEF TuningInv
<1>6. runs' = [warm |-> 0, samples |-> <<>>] /\ <<>> \in Seq(Nat)
    BY <1>0 DEF NoRuns
<1> QED
    BY <1>0, <1>3, <1>4, <1>5, <1>6 DEF TuningInv

(* A run that is rejected, or whose exception is not expected, leaves all  *)
(* of it alone; a run that counts leaves all but the counts.               *)
LEMMA RejectedRunKeeps ==
    ASSUME TuningInv, pc = "run", Propagate \/ Reject
    PROVE  TuningInv'
<1>0. /\ pc' \in {"raised", "candidate"}
      /\ UNCHANGED <<plan, at, estimate, tried, runs, measurements, saved>>
    BY DEF Propagate, Reject, Goto, Raise
<1>1. SavedInOrder'
    BY <1>0, OrderStays DEF TuningInv
<1>2. ~CalibrationFails(Now)'
    BY <1>0, CalibrationStays DEF TuningInv
<1> QED
    BY <1>0, <1>1, <1>2 DEF TuningInv

(* One run more leaves all but the counts of the runs alone.               *)
LEMMA CountedRunKeeps ==
    ASSUME TuningInv, pc = "run",
           UNCHANGED <<plan, pc, at, estimate, tried, measurements, saved>>,
           runs'.samples \in Seq(Nat), runs'.warm \in Nat,
           runs' = [warm |-> runs'.warm, samples |-> runs'.samples]
    PROVE  TuningInv'
<1>1. SavedInOrder'
    BY OrderStays DEF TuningInv
<1>2. ~CalibrationFails(Now)'
    BY CalibrationStays DEF TuningInv
<1> QED
    BY <1>1, <1>2 DEF TuningInv

(* A warm-up counts, or ends the turn of the strategy.                     *)
LEMMA WarmUpKeeps ==
    ASSUME TuningInv, WarmUp
    PROVE  TuningInv'
<1>0. /\ pc = "run"
      /\ \/ Propagate \/ Reject
         \/ /\ runs' = [runs EXCEPT !.warm = @ + 1]
            /\ UNCHANGED <<plan, pc, at, estimate, tried, measurements, saved>>
    BY DEF WarmUp
<1>1. CASE Propagate \/ Reject
    BY <1>0, <1>1, RejectedRunKeeps
<1>2. CASE /\ runs' = [runs EXCEPT !.warm = @ + 1]
           /\ UNCHANGED <<plan, pc, at, estimate, tried, measurements, saved>>
    <2>1. /\ runs.samples \in Seq(Nat) /\ runs.warm \in Nat
          /\ runs = [warm |-> runs.warm, samples |-> runs.samples]
        BY DEF TuningInv
    <2>2. runs' = [warm |-> runs.warm + 1, samples |-> runs.samples]
        BY <1>2, <2>1
    <2>3. /\ runs'.samples \in Seq(Nat) /\ runs'.warm \in Nat
          /\ runs' = [warm |-> runs'.warm, samples |-> runs'.samples]
        BY <2>1, <2>2
    <2> QED
        BY <1>0, <1>2, <2>3, CountedRunKeeps
<1> QED
    BY <1>0, <1>1, <1>2

(* A trial that counts took some time: the sample is a number.             *)
LEMMA TrialKeeps ==
    ASSUME TuningInv, Trial
    PROVE  TuningInv'
<1>0. /\ pc = "run"
      /\ \/ Propagate \/ Reject
         \/ /\ \E elapsed \in Elapsed :
                  ~(elapsed <= 0) /\ runs' = [runs EXCEPT !.samples = Append(@, elapsed)]
            /\ UNCHANGED <<plan, pc, at, estimate, tried, measurements, saved>>
    BY DEF Trial
<1>1. CASE Propagate \/ Reject
    BY <1>0, <1>1, RejectedRunKeeps
<1>2. CASE /\ \E elapsed \in Elapsed :
                 ~(elapsed <= 0) /\ runs' = [runs EXCEPT !.samples = Append(@, elapsed)]
           /\ UNCHANGED <<plan, pc, at, estimate, tried, measurements, saved>>
    <2>0. PICK elapsed \in Elapsed :
              ~(elapsed <= 0) /\ runs' = [runs EXCEPT !.samples = Append(@, elapsed)]
        BY <1>2
    <2>1. /\ runs.samples \in Seq(Nat) /\ runs.warm \in Nat
          /\ runs = [warm |-> runs.warm, samples |-> runs.samples]
        BY DEF TuningInv
    <2>2. runs' = [warm |-> runs.warm, samples |-> Append(runs.samples, elapsed)]
        BY <2>0, <2>1
    <2>3. elapsed \in Nat
        BY <2>0, RunAssumption
    <2>4. Append(runs.samples, elapsed) \in Seq(Nat)
        BY <2>1, <2>3
    <2>5. /\ runs'.samples \in Seq(Nat) /\ runs'.warm \in Nat
          /\ runs' = [warm |-> runs'.warm, samples |-> runs'.samples]
        BY <2>1, <2>2, <2>4
    <2> QED
        BY <1>0, <1>2, <2>5, CountedRunKeeps
<1> QED
    BY <1>0, <1>1, <1>2

(* What is accepted has a strategy and, of at least one trial, a median.   *)
LEMMA AcceptKeeps ==
    ASSUME TuningInv, Accept
    PROVE  TuningInv'
<1> DEFINE new == [strategy |-> Strategy, duration |-> Median(runs.samples)]
<1>0. /\ pc = "run" /\ pc' = "candidate" /\ Len(runs.samples) = plan.trials
      /\ measurements' = measurements \cup {new} /\ runs' = NoRuns
      /\ UNCHANGED <<plan, at, estimate, tried, saved>>
    BY DEF Accept, Goto
<1>1. Strategy \in Strategies
    <2>1. tried \in Seq(Strategies) /\ tried # <<>>
        BY <1>0 DEF TuningInv
    <2>2. Len(tried) \in DOMAIN tried
        BY <2>1
    <2> QED
        BY <2>1, <2>2 DEF Strategy
<1>2. Median(runs.samples) \in Nat
    <2>1. runs.samples \in Seq(Nat)
        BY DEF TuningInv
    <2>2. plan.trials # 0
        BY <1>0 DEF TuningInv, SavedInOrder, ValidPlan
    <2>3. runs.samples # <<>>
        BY <1>0, <2>1, <2>2
    <2> QED
        BY <2>1, <2>3, MedianIsNumber
<1>3. Measured(new)
    BY <1>1, <1>2 DEF Measured
<1> HIDE DEF new
<1>4. \A x \in measurements' : Measured(x)
    BY <1>0, <1>3 DEF TuningInv
<1>5. SavedInOrder'
    BY <1>0, OrderStays DEF TuningInv
<1>6. ~CalibrationFails(Now)'
    BY <1>0, CalibrationStays DEF TuningInv
<1>7. runs' = [warm |-> 0, samples |-> <<>>] /\ <<>> \in Seq(Nat)
    BY <1>0 DEF NoRuns
<1> QED
    BY <1>0, <1>4, <1>5, <1>6, <1>7 DEF TuningInv

(* A record that is written is the last, and the next workload's turn has  *)
(* come.                                                                   *)
LEMMA SaveKeeps ==
    ASSUME TuningInv, Save
    PROVE  TuningInv'
<1>0. pc = "candidate" /\ UNCHANGED <<plan, runs>>
    BY DEF Save
<1>1. CASE /\ measurements # {} /\ saved' = Append(saved, Record)
           /\ measurements' = {} /\ tried' = <<>>
           /\ \/ pc' = "done" /\ UNCHANGED <<at, estimate>>
              \/ /\ at # Len(Workloads) /\ pc' = "reference"
                 /\ at' = at + 1 /\ estimate' \in Estimates
    <2>1. SavedInOrder /\ saved \in Seq(Records)
        BY <1>0 DEF TuningInv
    <2>2. PICK r \in Records : r = Record
        BY <1>1, <2>1, RecordIsTyped
    <2>3. saved' \in Seq(Records)
        BY <1>1, <2>1, <2>2
    <2>4. ASSUME pc' = "reference" PROVE SavedInOrder'
        <3>0. Workloads \in Seq({Workloads[i] : i \in DOMAIN Workloads})
            BY PlansAssumption DEF TuningInv, Workloads
        <3>1. PICK n \in Nat : n = Len(Workloads)
            BY <3>0
        <3>2. at \in 1 .. n /\ at # n /\ at' = at + 1
            BY <1>1, <2>1, <2>4, <3>1 DEF SavedInOrder
        <3>3. at' \in 1 .. n
            BY <3>1, <3>2
        <3>4. Len(saved) = at - 1 /\ \A i \in DOMAIN saved : saved[i].key = Key(Workloads[i])
            BY <2>1 DEF SavedInOrder
        <3>5. saved' = Append(saved, r)
            BY <1>1, <2>2
        <3>6. Len(saved') = at' - 1
            BY <2>1, <3>2, <3>4, <3>5
        <3>7. ASSUME NEW i \in DOMAIN saved' PROVE saved'[i].key = Key(Workloads[i])
            <4>1. CASE i \in DOMAIN saved
                BY <2>1, <3>4, <3>5, <4>1
            <4>2. CASE i \notin DOMAIN saved
                <5>1. i = at /\ saved'[i] = r
                    BY <2>1, <3>2, <3>4, <3>5, <3>7, <4>2
                <5> QED
                    BY <2>2, <5>1 DEF Record, Now
            <4> QED
                BY <4>1, <4>2
        <3>8. Workloads' = Workloads /\ ValidPlan'
            BY <1>0, <2>1 DEF SavedInOrder, ValidPlan, Workloads
        <3> QED
            BY <3>1, <3>3, <3>6, <3>7, <3>8 DEF SavedInOrder
    <2>5. tried' \in Seq(Strategies) /\ \A x \in measurements' : Measured(x)
        BY <1>1
    <2> QED
        BY <1>0, <1>1, <2>3, <2>4, <2>5 DEF TuningInv
<1>2. CASE pc' = "raised" /\ UNCHANGED <<at, estimate, tried, measurements, saved>>
    BY <1>0, <1>2 DEF TuningInv
<1> QED
    BY <1>1, <1>2 DEF Save, Goto, Raise

(* Each step keeps the invariant.                                          *)
LEMMA TuningInductive == TuningInv /\ [TunerNext]_tuner => TuningInv'
<1> SUFFICES ASSUME TuningInv, [TunerNext]_tuner PROVE TuningInv'
    OBVIOUS
<1>1. CASE UNCHANGED tuner
    <2>1. UNCHANGED <<plan, pc, at, estimate, tried, runs, measurements, saved>>
        BY <1>1 DEF tuner
    <2>2. SavedInOrder => SavedInOrder'
        BY <2>1, OrderStays
    <2>3. ~CalibrationFails(Now) => ~CalibrationFails(Now)'
        BY <2>1, CalibrationStays
    <2> QED
        BY <2>1, <2>2, <2>3 DEF TuningInv
<1> QED
    BY <1>1, ValidateKeeps, ReferenceKeeps, NextCandidateKeeps, WarmUpKeeps, TrialKeeps,
       AcceptKeeps, SaveKeeps DEF TunerNext

(* The one step that saves, saves a record of use.                         *)
LEMMA SavedByStep ==
    ASSUME TuningInv, [TunerNext]_tuner, Len(saved') > Len(saved)
    PROVE  /\ pc = "candidate" /\ measurements # {}
           /\ saved' = Append(saved, Record) /\ Accepted(Record, MaxDuration, MaxTrials)
<1>0. saved' # saved
    <2>1. Len(saved) \in Nat
        BY DEF TuningInv
    <2>2. \A n \in Nat : ~(n > n)
        OBVIOUS
    <2> QED
        BY <2>1, <2>2
<1>1. ~ UNCHANGED tuner
    BY <1>0 DEF tuner
<1>2. ~Validate /\ ~Reference /\ ~NextCandidate /\ ~Accept
    BY <1>0 DEF Validate, Reference, NextCandidate, Accept
<1>3. ~WarmUp /\ ~Trial
    BY <1>0 DEF WarmUp, Trial, Propagate, Reject
<1>4. Save
    BY <1>1, <1>2, <1>3 DEF TunerNext
<1> QED
    BY <1>0, <1>4 DEF Save

(* What it needs it finds in the invariant: the records so far have the    *)
(* keys of the workloads before, and the plan repeats no key.              *)
LEMMA SavedStepIsOfUse ==
    ASSUME TuningInv, [TunerNext]_tuner, Len(saved') > Len(saved), NEW r, r = saved'[Len(saved')]
    PROVE  /\ r.key = JoinKey(Benchmark(Now), TimedDensity(Now))
           /\ Accepted(r, MaxDuration, MaxTrials)
           /\ \A i \in DOMAIN saved : saved[i].key # r.key
           /\ \A x \in measurements :
                 \/ x.duration > r.duration
                 \/ x.duration = r.duration /\ ~Cheaper(x.strategy, r.candidate)
<1>0. /\ pc = "candidate" /\ measurements # {}
      /\ saved' = Append(saved, Record) /\ Accepted(Record, MaxDuration, MaxTrials)
    BY SavedByStep
<1>1. SavedInOrder /\ ~CalibrationFails(Now) /\ estimate \in Estimates /\ saved \in Seq(Records)
    BY <1>0 DEF TuningInv
<1>2. r = Record
    <2>1. PICK e \in Records : e = Record
        BY <1>0, <1>1, RecordIsTyped
    <2>2. saved' = Append(saved, e)
        BY <1>0, <2>1
    <2> QED
        BY <1>1, <2>1, <2>2
<1>3. r.key = Key(Now) /\ r.candidate = Winner.strategy /\ r.duration = Winner.duration
    BY <1>2 DEF Record
<1>4. r.key = JoinKey(Benchmark(Now), TimedDensity(Now))
    BY <1>1, <1>3, NowIsTyped, KeyIsFound
<1>5. ASSUME NEW i \in DOMAIN saved PROVE saved[i].key # r.key
    <2>1. saved[i].key = Key(Workloads[i])
        BY <1>1 DEF SavedInOrder
    <2>2. at \in DOMAIN Workloads
        BY <1>1, NowIsTyped
    <2>3. i \in DOMAIN Workloads /\ i # at
        <3>0. Workloads \in Seq({Workloads[j] : j \in DOMAIN Workloads})
            BY PlansAssumption DEF TuningInv, Workloads
        <3>1. PICK n \in Nat : n = Len(Workloads) /\ DOMAIN Workloads = 1 .. n
            BY <3>0
        <3>2. at \in 1 .. n /\ Len(saved) = at - 1 /\ DOMAIN saved = 1 .. Len(saved)
            BY <1>1, <3>1 DEF SavedInOrder
        <3>3. i \in 1 .. at - 1
            BY <3>2
        <3> QED
            BY <3>1, <3>2, <3>3
    <2>4. Key(Workloads[i]) # Key(Workloads[at])
        BY <1>1, <2>2, <2>3 DEF SavedInOrder, ValidPlan
    <2> QED
        BY <1>3, <2>1, <2>4 DEF Now
<1>6. ASSUME NEW x \in measurements
      PROVE  \/ x.duration > r.duration
             \/ x.duration = r.duration /\ ~Cheaper(x.strategy, r.candidate)
    <2>1. ~Faster(x, Winner) /\ Winner \in measurements
        BY <1>0, WinnerWins DEF TuningInv
    <2>2. x.duration \in Nat /\ Winner.duration \in Nat
        BY <2>1 DEF TuningInv, Measured
    <2>3. /\ ~(x.duration < Winner.duration)
          /\ ~(x.duration = Winner.duration /\ Cheaper(x.strategy, Winner.strategy))
        BY <2>1 DEF Faster
    <2> QED
        BY <1>3, <2>2, <2>3
<1> QED
    BY <1>0, <1>2, <1>4, <1>5, <1>6

(* _autotune.py, run_autotune: for any plan, any clock, any densities and  *)
(* any sequence of outcomes, the record a workload leaves is one that the  *)
(* join of its benchmark will look for, that the reader of the sidecar     *)
(* accepts, that replaces none of this plan's, and that no accepted        *)
(* strategy beats.                                                         *)
THEOREM SavesAreOfUse == TunerSpec => SavedIsOfUse
<1>1. TuningInv /\ [TunerNext]_tuner =>
          [Len(saved') > Len(saved) =>
              LET r == saved'[Len(saved')]
              IN  /\ r.key = JoinKey(Benchmark(Now), TimedDensity(Now))
                  /\ Accepted(r, MaxDuration, MaxTrials)
                  /\ \A i \in DOMAIN saved : saved[i].key # r.key
                  /\ \A x \in measurements :
                        \/ x.duration > r.duration
                        \/ x.duration = r.duration /\ ~Cheaper(x.strategy, r.candidate)]_tuner
    BY SavedStepIsOfUse
<1> QED
    BY <1>1, TuningInitially, TuningInductive, PTL DEF TunerSpec, SavedIsOfUse

----------------------------------------------------------------------------
(* What competes for a record.                                             *)

(* The strategies tried that were flawless, up to the n-th.                *)
Perfect(j) == streaks[j] = plan.warmups + plan.trials

FlawlessUpTo(n) == {tried[i] : i \in {j \in 1 .. n : Perfect(j)}}

Competing == {x.strategy : x \in measurements}

(* What an observer has noted of the strategies tried is what the tuner    *)
(* made of them, but for the last while it is run: that one has been       *)
(* flawless, and is counted as often as it has been run.                   *)
StreaksInv ==
    /\ streaks \in Seq(Int) /\ Len(streaks) = Len(tried)
    /\ pc \in {"validate", "reference"} => tried = <<>> /\ measurements = {}
    /\ pc = "candidate" => Competing = FlawlessUpTo(Len(tried))
    /\ pc = "run" =>
          /\ Competing = FlawlessUpTo(Len(tried) - 1)
          /\ streaks[Len(tried)] = runs.warm + Len(runs.samples)

(* The places there are, and what the plan says of the runs.               *)
LEMMA StreaksTyped ==
    ASSUME TuningInv, StreaksInv
    PROVE  /\ tried \in Seq(Strategies) /\ Len(tried) \in Nat
           /\ DOMAIN tried = 1 .. Len(tried) /\ DOMAIN streaks = 1 .. Len(tried)
           /\ \A j \in 1 .. Len(tried) : streaks[j] \in Int
BY DEF TuningInv, StreaksInv

LEMMA RunsTyped ==
    ASSUME TuningInv, pc = "run"
    PROVE  /\ plan.warmups \in Nat /\ plan.trials \in Nat \ {0} /\ Len(tried) \in Nat \ {0}
           /\ runs.warm \in Nat /\ runs.samples \in Seq(Nat) /\ Len(runs.samples) \in Nat
           /\ runs = [warm |-> runs.warm, samples |-> runs.samples]
<1>1. tried \in Seq(Strategies) /\ tried # <<>>
    BY DEF TuningInv
<1>2. Len(tried) \in Nat \ {0}
    BY <1>1
<1>3. ValidPlan
    BY DEF TuningInv, SavedInOrder
<1> QED
    BY <1>2, <1>3 DEF TuningInv, ValidPlan

(* An observation tells on the last strategy tried only.                   *)
LEMMA ObservationIsLast ==
    ASSUME TuningInv, StreaksInv, pc = "run", NEW flawless \in BOOLEAN, Observe(flawless)
    PROVE  /\ streaks' \in Seq(Int) /\ Len(streaks') = Len(tried)
           /\ \A j \in 1 .. Len(tried) - 1 : streaks'[j] = streaks[j]
           /\ streaks'[Len(tried)] =
                 IF flawless THEN runs.warm + Len(runs.samples) + 1 ELSE Flawed
<1>1. PICK n \in Nat \ {0} : n = Len(tried)
    BY RunsTyped
<1>2. streaks \in [1 .. n -> Int] /\ n \in 1 .. n
    BY <1>1, StreaksTyped DEF StreaksInv
<1>3. PICK made \in Nat : made = runs.warm + Len(runs.samples)
    BY RunsTyped
<1>4. streaks[n] = made /\ made # Flawed
    BY <1>1, <1>3 DEF StreaksInv, Flawed
<1>5. streaks' = [streaks EXCEPT ![n] = IF flawless THEN made + 1 ELSE Flawed]
    BY <1>1, <1>4 DEF Observe
<1>6. (IF flawless THEN made + 1 ELSE Flawed) \in Int
    BY DEF Flawed
<1>7. streaks' \in [1 .. n -> Int]
    BY <1>2, <1>5, <1>6
<1>8. streaks' \in Seq(Int) /\ Len(streaks') = n
    BY <1>7
<1>9. streaks'[n] = IF flawless THEN made + 1 ELSE Flawed
    BY <1>2, <1>5
<1>10. \A j \in 1 .. n - 1 : streaks'[j] = streaks[j]
    BY <1>2, <1>5
<1> QED
    BY <1>1, <1>3, <1>8, <1>9, <1>10

(* The strategies up to a place are those before it and, if it was         *)
(* flawless, the one at it.                                                *)
LEMMA OneMoreFlawless ==
    ASSUME NEW n \in Nat \ {0}
    PROVE  FlawlessUpTo(n) = FlawlessUpTo(n - 1) \cup (IF Perfect(n) THEN {tried[n]} ELSE {})
<1>1. \A j : j \in 1 .. n <=> j \in 1 .. n - 1 \/ j = n
    OBVIOUS
<1> QED
    BY <1>1 DEF FlawlessUpTo

(* Those up to a place stay the same if what was tried and noted so far    *)
(* does.                                                                   *)
LEMMA FlawlessStay ==
    ASSUME NEW n, UNCHANGED plan,
           \A j \in 1 .. n : tried'[j] = tried[j] /\ streaks'[j] = streaks[j]
    PROVE  FlawlessUpTo(n)' = FlawlessUpTo(n)
<1>1. \A j \in 1 .. n : Perfect(j)' <=> Perfect(j)
    BY DEF Perfect
<1>2. FlawlessUpTo(n)' = {tried'[i] : i \in {j \in 1 .. n : Perfect(j)'}}
    BY DEF FlawlessUpTo
<1>3. {j \in 1 .. n : Perfect(j)'} = {j \in 1 .. n : Perfect(j)}
    BY <1>1
<1> QED
    BY <1>2, <1>3 DEF FlawlessUpTo

(* A run that is not as it should be ends the turn of its strategy, which  *)
(* does not compete.                                                       *)
LEMMA RejectionKeeps ==
    ASSUME TuningInv, StreaksInv, pc = "run", Observe(FALSE), Reject \/ Propagate
    PROVE  StreaksInv'
<1>1. /\ pc' \in {"candidate", "raised"}
      /\ UNCHANGED <<plan, tried, measurements>>
    BY DEF Reject, Propagate, Goto, Raise
<1>2. PICK n \in Nat \ {0} : n = Len(tried)
    BY RunsTyped
<1>3. /\ streaks' \in Seq(Int) /\ Len(streaks') = n
      /\ \A j \in 1 .. n - 1 : streaks'[j] = streaks[j]
      /\ streaks'[n] = Flawed
    BY <1>2, ObservationIsLast
<1>4. FlawlessUpTo(n - 1)' = FlawlessUpTo(n - 1)
    BY <1>1, <1>3, FlawlessStay
<1>5. ~Perfect(n)'
    <2>1. plan.warmups + plan.trials # Flawed
        BY RunsTyped DEF Flawed
    <2> QED
        BY <1>1, <1>3, <2>1 DEF Perfect
<1>6. FlawlessUpTo(n)' = FlawlessUpTo(n - 1)'
    <2>1. {j \in 1 .. n : Perfect(j)'} = {j \in 1 .. n - 1 : Perfect(j)'}
        BY <1>5
    <2> QED
        BY <2>1 DEF FlawlessUpTo
<1>7. Competing' = FlawlessUpTo(n)'
    BY <1>1, <1>2, <1>4, <1>6 DEF StreaksInv, Competing
<1> QED
    BY <1>1, <1>2, <1>3, <1>7 DEF StreaksInv

(* A run that is, is counted.                                              *)
LEMMA FlawlessRunKeeps ==
    ASSUME TuningInv, StreaksInv, pc = "run", Observe(TRUE),
           UNCHANGED <<plan, pc, tried, measurements>>,
           runs'.warm + Len(runs'.samples) = runs.warm + Len(runs.samples) + 1
    PROVE  StreaksInv'
<1>1. PICK n \in Nat \ {0} : n = Len(tried)
    BY RunsTyped
<1>2. /\ streaks' \in Seq(Int) /\ Len(streaks') = n
      /\ \A j \in 1 .. n - 1 : streaks'[j] = streaks[j]
      /\ streaks'[n] = runs.warm + Len(runs.samples) + 1
    BY <1>1, ObservationIsLast
<1>3. FlawlessUpTo(n - 1)' = FlawlessUpTo(n - 1)
    BY <1>2, FlawlessStay
<1>4. Competing' = FlawlessUpTo(n - 1)'
    BY <1>1, <1>3 DEF StreaksInv, Competing
<1> QED
    BY <1>1, <1>2, <1>4 DEF StreaksInv

(* A warm-up is one of the two.                                            *)
LEMMA WarmUpObserved ==
    ASSUME TuningInv, StreaksInv, WarmUp
    PROVE  StreaksInv'
<1>1. PICK outcome \in Outcomes(Now, Strategy) :
          /\ Observe(outcome = "right")
          /\ \/ outcome = "fatal" /\ Propagate
             \/ ~Equivalent(outcome) /\ Reject
             \/ /\ Equivalent(outcome) /\ runs' = [runs EXCEPT !.warm = @ + 1]
                /\ UNCHANGED <<plan, pc, tried, measurements>>
    BY DEF WarmUp
<1>2. pc = "run"
    BY DEF WarmUp
<1>3. CASE outcome # "right"
    <2>1. Observe(FALSE)
        BY <1>1, <1>3 DEF Observe
    <2> QED
        BY <1>1, <1>2, <1>3, <2>1, RejectionKeeps DEF Equivalent
<1>4. CASE outcome = "right"
    <2>1. Observe(TRUE)
        BY <1>1, <1>4 DEF Observe
    <2>2. runs' = [runs EXCEPT !.warm = @ + 1] /\ UNCHANGED <<plan, pc, tried, measurements>>
        BY <1>1, <1>4 DEF Equivalent
    <2>3. runs'.warm + Len(runs'.samples) = runs.warm + Len(runs.samples) + 1
        <3>1. runs'.warm = runs.warm + 1 /\ runs'.samples = runs.samples
            BY <1>2, <2>2, RunsTyped
        <3> QED
            BY <1>2, <3>1, RunsTyped
    <2> QED
        BY <1>2, <2>1, <2>2, <2>3, FlawlessRunKeeps
<1> QED
    BY <1>3, <1>4

(* So is a trial.                                                          *)
LEMMA TrialObserved ==
    ASSUME TuningInv, StreaksInv, Trial
    PROVE  StreaksInv'
<1>1. PICK outcome \in Outcomes(Now, Strategy), elapsed \in Elapsed :
          /\ Observe(outcome = "right" /\ elapsed > 0)
          /\ \/ outcome = "fatal" /\ Propagate
             \/ (elapsed <= 0 \/ ~Equivalent(outcome)) /\ Reject
             \/ /\ ~(elapsed <= 0) /\ Equivalent(outcome)
                /\ runs' = [runs EXCEPT !.samples = Append(@, elapsed)]
                /\ UNCHANGED <<plan, pc, tried, measurements>>
    BY DEF Trial
<1>2. pc = "run" /\ elapsed \in Int
    BY RunAssumption DEF Trial
<1>3. CASE ~(outcome = "right" /\ elapsed > 0)
    <2>1. Observe(FALSE)
        BY <1>1, <1>3 DEF Observe
    <2>2. Reject \/ Propagate
        BY <1>1, <1>2, <1>3 DEF Equivalent
    <2> QED
        BY <1>2, <2>1, <2>2, RejectionKeeps
<1>4. CASE outcome = "right" /\ elapsed > 0
    <2>1. Observe(TRUE)
        BY <1>1, <1>4 DEF Observe
    <2>2. /\ runs' = [runs EXCEPT !.samples = Append(@, elapsed)]
          /\ UNCHANGED <<plan, pc, tried, measurements>>
        BY <1>1, <1>2, <1>4 DEF Equivalent
    <2>3. runs'.warm + Len(runs'.samples) = runs.warm + Len(runs.samples) + 1
        <3>1. elapsed \in Nat
            BY <1>2, <1>4
        <3>2. runs'.warm = runs.warm /\ runs'.samples = Append(runs.samples, elapsed)
            BY <1>2, <2>2, RunsTyped
        <3>3. Len(runs'.samples) = Len(runs.samples) + 1
            BY <1>2, <3>1, <3>2, RunsTyped
        <3> QED
            BY <1>2, <3>2, <3>3, RunsTyped
    <2> QED
        BY <1>2, <2>1, <2>2, <2>3, FlawlessRunKeeps
<1> QED
    BY <1>3, <1>4

(* A strategy that has made all its runs has been flawless, and competes.  *)
LEMMA AcceptObserved ==
    ASSUME TuningInv, StreaksInv, Accept
    PROVE  StreaksInv'
<1> DEFINE new == [strategy |-> Strategy, duration |-> Median(runs.samples)]
<1>1. /\ pc = "run" /\ pc' = "candidate"
      /\ runs.warm = plan.warmups /\ Len(runs.samples) = plan.trials
      /\ measurements' = measurements \cup {new}
      /\ UNCHANGED <<plan, tried, streaks>>
    BY DEF Accept, Goto
<1>2. PICK n \in Nat \ {0} : n = Len(tried)
    BY <1>1, RunsTyped
<1>3. new.strategy = tried[n]
    BY <1>2 DEF Strategy
<1> HIDE DEF new
<1>4. Perfect(n)
    BY <1>1, <1>2 DEF StreaksInv, Perfect
<1>5. FlawlessUpTo(n) = FlawlessUpTo(n - 1) \cup {tried[n]}
    BY <1>4, OneMoreFlawless
<1>6. FlawlessUpTo(n)' = FlawlessUpTo(n)
    BY <1>1, FlawlessStay
<1>7. Competing' = Competing \cup {tried[n]}
    BY <1>1, <1>3 DEF Competing
<1>8. Competing = FlawlessUpTo(n - 1)
    BY <1>1, <1>2 DEF StreaksInv
<1>9. Competing' = FlawlessUpTo(n)'
    BY <1>5, <1>6, <1>7, <1>8
<1> QED
    BY <1>1, <1>2, <1>9 DEF StreaksInv

(* A strategy whose turn has come has made no run.                         *)
LEMMA NextObserved ==
    ASSUME TuningInv, StreaksInv, NextCandidate
    PROVE  StreaksInv'
<1> DEFINE first == CHOOSE s \in Untried : \A t \in Untried : ~Earlier(t, s)
<1>1. /\ pc = "candidate" /\ pc' = "run" /\ Untried # {}
      /\ tried' = Append(tried, first) /\ runs' = NoRuns /\ streaks' = Append(streaks, 0)
      /\ UNCHANGED <<plan, measurements>>
    BY DEF NextCandidate, Goto
<1>2. first \in Strategies
    BY <1>1, NextIsStrategy
<1> HIDE DEF first
<1>3. PICK n \in Nat : n = Len(tried)
    BY StreaksTyped
<1>4. tried \in Seq(Strategies) /\ streaks \in Seq(Int) /\ Len(streaks) = n
    BY <1>3, StreaksTyped DEF StreaksInv
<1>5. /\ Len(tried') = n + 1 /\ Len(streaks') = n + 1 /\ streaks' \in Seq(Int)
      /\ streaks'[n + 1] = 0
      /\ \A j \in 1 .. n : tried'[j] = tried[j] /\ streaks'[j] = streaks[j]
    BY <1>1, <1>2, <1>3, <1>4
<1>6. FlawlessUpTo(n)' = FlawlessUpTo(n)
    BY <1>1, <1>5, FlawlessStay
<1>7. Competing' = FlawlessUpTo(n)'
    BY <1>1, <1>3, <1>6 DEF StreaksInv, Competing
<1>8. (n + 1) - 1 = n
    BY <1>3
<1>9. runs'.warm + Len(runs'.samples) = 0
    BY <1>1 DEF NoRuns
<1> QED
    BY <1>1, <1>5, <1>7, <1>8, <1>9 DEF StreaksInv

(* With nothing tried nothing is flawless.                                 *)
LEMMA NoneFlawless == FlawlessUpTo(0) = {}
BY DEF FlawlessUpTo

(* The tuner begins with a workload, and ends with it, with nothing tried. *)
LEMMA EndsObserved ==
    ASSUME TuningInv, StreaksInv, Validate \/ Reference \/ Save
    PROVE  StreaksInv'
<1>1. CASE Validate
    BY <1>1 DEF Validate, Goto, Raise, StreaksInv
<1>2. CASE Reference
    <2>1. /\ pc = "reference" /\ pc' \in {"raised", "candidate"}
          /\ UNCHANGED <<plan, tried, measurements, streaks>>
        BY <1>2 DEF Reference, Goto, Raise
    <2>2. Len(tried) = 0 /\ Competing = {}
        BY <2>1 DEF StreaksInv, Competing
    <2>3. Competing' = {} /\ FlawlessUpTo(0)' = {} /\ Len(tried') = 0
        BY <2>1, <2>2, NoneFlawless, FlawlessStay DEF Competing
    <2> QED
        BY <2>1, <2>3 DEF StreaksInv
<1>3. CASE Save
    <2>1. CASE /\ measurements' = {} /\ tried' = <<>> /\ streaks' = <<>>
               /\ pc' \in {"done", "reference"}
        <3>1. streaks' \in Seq(Int) /\ Len(streaks') = Len(tried')
            BY <2>1
        <3> QED
            BY <2>1, <3>1 DEF StreaksInv
    <2>2. CASE pc' = "raised" /\ UNCHANGED <<tried, streaks>>
        BY <2>2 DEF StreaksInv
    <2> QED
        BY <1>3, <2>1, <2>2 DEF Save, Goto, Raise
<1> QED
    BY <1>1, <1>2, <1>3

(* Each step keeps what is observed and what is made of it in step.        *)
LEMMA StreaksInductive == TuningInv /\ StreaksInv /\ [TunerNext]_tuner => StreaksInv'
<1> SUFFICES ASSUME TuningInv, StreaksInv, [TunerNext]_tuner PROVE StreaksInv'
    OBVIOUS
<1>1. CASE UNCHANGED tuner
    <2>1. UNCHANGED <<plan, pc, tried, runs, measurements, streaks>>
        BY <1>1 DEF tuner
    <2>2. /\ Competing' = Competing
          /\ \A n \in Int : FlawlessUpTo(n)' = FlawlessUpTo(n)
        BY <2>1, FlawlessStay DEF Competing
    <2>3. Len(tried) \in Int /\ Len(tried) - 1 \in Int
        BY StreaksTyped
    <2> QED
        BY <2>1, <2>2, <2>3 DEF StreaksInv
<1> QED
    BY <1>1, EndsObserved, NextObserved, WarmUpObserved, TrialObserved, AcceptObserved
       DEF TunerNext

(* At first nothing has been tried, and nothing competes.                  *)
LEMMA StreaksInitially == TunerInit => StreaksInv
BY DEF TunerInit, StreaksInv

(* The invariant says what is checked.                                     *)
LEMMA StreaksImplied == TuningInv /\ StreaksInv => OnlyRightOnesCompete
<1> SUFFICES ASSUME TuningInv, StreaksInv, pc = "candidate"
             PROVE  Competing = Flawless
    BY DEF OnlyRightOnesCompete, Competing
<1>1. DOMAIN tried = 1 .. Len(tried)
    BY StreaksTyped
<1> QED
    BY <1>1 DEF StreaksInv, FlawlessUpTo, Perfect, Flawless

(* _autotune.py, run_autotune and _measure_candidate: for any plan, any    *)
(* clock and any sequence of outcomes, the strategies that compete for a   *)
(* record are those tried that gave the reference's result in every        *)
(* warm-up and every trial, each of which took time by the clock.          *)
THEOREM RightOnesCompete == TunerSpec => []OnlyRightOnesCompete
BY TuningInitially, TuningInductive, StreaksInitially, StreaksInductive, StreaksImplied,
   PTL DEF TunerSpec

----------------------------------------------------------------------------
(* Dispatch.                                                               *)

Devices == {"cpu", "gpu"}

BusyCallers ==
    [pc : {"resolved", "inside", "computing", "leaving"}, call : Calls,
     stream : {"cpu", "gpu", "any"}, backend : {"cpu", "portable_metal"},
     use_metal : BOOLEAN, back : Devices \cup {"none"}, custom : BOOLEAN, id : Nat,
     left : Nat, ran : SUBSET Devices, failed : BOOLEAN, alone : BOOLEAN]

TypeInv ==
    /\ device \in Devices /\ home \in Devices
    /\ operation_id \in Nat /\ nested \in BOOLEAN
    /\ caller \in [Callers -> {Idle} \cup BusyCallers]

(* A caller whose context is open and names a stream.                      *)
Open(c) == caller[c].pc \notin {"idle", "resolved"} /\ caller[c].stream # "any"

(* The device of the beginning is the default, or is kept by the one       *)
(* caller whose context is open.                                           *)
HomeIsKept ==
    nested = FALSE =>
        \/ device = home /\ \A c \in Callers : ~Open(c)
        \/ \E c \in Callers :
              /\ caller[c].back = home
              /\ \A d \in Callers : Open(d) <=> d = c

(* An open context keeps a device.                                         *)
DevicesAreKept == \A c \in Callers : Open(c) => caller[c].back \in Devices

IInv == TypeInv /\ HomeIsKept /\ DevicesAreKept

----------------------------------------------------------------------------
LEMMA Initially == Init => IInv
<1> SUFFICES ASSUME Init PROVE IInv
    OBVIOUS
<1>1. device \in Devices /\ home \in Devices
    BY DispatchAssumption DEF Init, Devices
<1>2. \A c \in Callers : caller[c].pc = "idle"
    BY DEF Init, Idle
<1> QED
    BY <1>1, <1>2 DEF Init, IInv, TypeInv, HomeIsKept, DevicesAreKept, Open

(* What a call that is not refused asks for is a device, or none.          *)
LEMMA StreamIsDevice ==
    ASSUME NEW call, NEW strategy, Stream(call, strategy) # "error"
    PROVE  Stream(call, strategy) \in {"cpu", "gpu", "any"}
<1>1. Selected(call) \in {"cpu", "gpu", "any", "error"}
    BY DEF Selected
<1>2. Resolved(call) \in {"cpu", "gpu", "any", "error"}
    BY <1>1 DEF Resolved
<1> QED
    BY <1>2 DEF Stream

LEMMA PreparedIsBusy ==
    ASSUME NEW call \in Calls, NEW strategy, NEW stream \in {"cpu", "gpu", "any"}
    PROVE  /\ Prepared(call, strategy, stream) \in BusyCallers
           /\ Prepared(call, strategy, stream).pc = "resolved"
BY DEF Prepared, BusyCallers, Devices

(* A step that moves one caller within its context, or opens none, and     *)
(* leaves the device and what callers keep alone.                          *)
LEMMA StaysOpen ==
    ASSUME HomeIsKept, DevicesAreKept, UNCHANGED <<device, home, nested>>,
           \A d \in Callers : Open(d)' <=> Open(d),
           \A d \in Callers : Open(d) => caller'[d].back = caller[d].back
    PROVE  HomeIsKept' /\ DevicesAreKept'
<1>0. DevicesAreKept'
    BY DEF DevicesAreKept
<1>1. CASE nested = TRUE
    BY <1>0, <1>1 DEF HomeIsKept
<1>2. CASE nested # TRUE /\ device = home /\ \A c \in Callers : ~Open(c)
    BY <1>0, <1>2 DEF HomeIsKept
<1>3. ASSUME NEW c \in Callers, caller[c].back = home, \A d \in Callers : Open(d) <=> d = c
      PROVE  HomeIsKept'
    BY <1>3 DEF HomeIsKept
<1> QED
    BY <1>0, <1>1, <1>2, <1>3 DEF HomeIsKept

LEMMA ResolveKeeps ==
    ASSUME IInv, NEW c \in Callers, NEW call \in Calls, Resolve(c, call)
    PROVE  IInv'
<1> DEFINE new == Prepared(call, Winners(call), Stream(call, Winners(call)))
<1> USE DEF IInv
<1>1. UNCHANGED <<device, home, operation_id, nested>>
    BY DEF Resolve
<1>2. CASE UNCHANGED caller
    BY <1>1, <1>2, StaysOpen DEF TypeInv, Open
<1>3. CASE /\ Stream(call, Winners(call)) # "error"
           /\ caller' = [d \in Callers |->
                 IF d = c THEN new
                 ELSE IF d \in Busy THEN [caller[d] EXCEPT !.alone = FALSE]
                 ELSE caller[d]]
    <2>1. new \in BusyCallers /\ new.pc = "resolved"
        <3>1. Stream(call, Winners(call)) \in {"cpu", "gpu", "any"}
            BY <1>3, StreamIsDevice
        <3> QED
            BY <3>1, PreparedIsBusy
    <2> HIDE DEF new
    <2>2. caller[c].pc = "idle"
        BY DEF Resolve
    <2>3. ASSUME NEW d \in Busy
          PROVE  /\ [caller[d] EXCEPT !.alone = FALSE] \in BusyCallers
                 /\ [caller[d] EXCEPT !.alone = FALSE].pc = caller[d].pc
                 /\ [caller[d] EXCEPT !.alone = FALSE].stream = caller[d].stream
                 /\ [caller[d] EXCEPT !.alone = FALSE].back = caller[d].back
        <3>1. caller[d] \in BusyCallers
            BY <2>3 DEF Busy, TypeInv, Idle
        <3> QED
            BY <3>1 DEF BusyCallers
    <2>4. TypeInv'
        BY <1>1, <1>3, <2>1, <2>3 DEF TypeInv
    <2>5. \A d \in Callers : Open(d)' <=> Open(d)
        BY <1>3, <2>1, <2>2, <2>3 DEF Open
    <2>6. \A d \in Callers : Open(d) => caller'[d].back = caller[d].back
        BY <1>3, <2>1, <2>2, <2>3 DEF Open
    <2> QED
        BY <1>1, <2>4, <2>5, <2>6, StaysOpen
<1> QED
    BY <1>2, <1>3 DEF Resolve

LEMMA EnterKeeps ==
    ASSUME IInv, NEW c \in Callers, Enter(c)
    PROVE  IInv'
<1> USE DEF IInv
<1>1. /\ caller[c] \in BusyCallers
      /\ caller[c].pc = "resolved" /\ ~Open(c)
      /\ UNCHANGED <<home, operation_id>>
    BY DEF Enter, TypeInv, Idle, Open
<1> DEFINE new == [caller[c] EXCEPT !.pc = "inside", !.back = device]
<1>2. /\ new \in BusyCallers /\ new.pc = "inside"
      /\ new.stream = caller[c].stream /\ new.back = device
    BY <1>1 DEF BusyCallers, TypeInv, Devices
<1>3. caller' = [caller EXCEPT ![c] = new]
    BY DEF Enter, TypeInv
<1>4. caller'[c] = new /\ \A d \in Callers \ {c} : caller'[d] = caller[d]
    BY <1>3 DEF TypeInv
<1> HIDE DEF new
<1>5. caller' \in [Callers -> {Idle} \cup BusyCallers]
    BY <1>2, <1>3 DEF TypeInv
<1>6. CASE caller[c].stream = "any"
    <2>1. UNCHANGED <<device, nested>>
        BY <1>6 DEF Enter
    <2>2. \A d \in Callers : Open(d)' <=> Open(d)
        BY <1>1, <1>2, <1>4, <1>6 DEF Open
    <2>3. \A d \in Callers : Open(d) => caller'[d].back = caller[d].back
        BY <1>1, <1>4
    <2> QED
        BY <1>1, <1>5, <2>1, <2>2, <2>3, StaysOpen DEF TypeInv
<1>7. CASE caller[c].stream # "any"
    <2>1. device' = caller[c].stream /\ nested' = (nested \/ Inside # {})
        BY <1>7 DEF Enter
    <2>2. device' \in Devices /\ nested' \in BOOLEAN
        BY <1>1, <1>7, <2>1 DEF BusyCallers, Devices
    <2>3. TypeInv'
        BY <1>1, <1>5, <2>2 DEF TypeInv
    <2>4. DevicesAreKept'
        BY <1>2, <1>4, <2>2 DEF DevicesAreKept, Open, TypeInv
    <2>5. CASE nested' = FALSE
        <3>1. nested = FALSE /\ Inside = {}
            BY <2>1, <2>5 DEF TypeInv
        <3>2. device = home /\ \A d \in Callers : ~Open(d)
            BY <3>1 DEF HomeIsKept, Inside, Open
        <3>3. Open(c)' /\ caller'[c].back = home'
            BY <1>1, <1>2, <1>4, <1>7, <3>2 DEF Open
        <3>4. \A d \in Callers : Open(d)' <=> d = c
            BY <1>4, <3>2, <3>3 DEF Open
        <3> QED
            BY <2>3, <2>4, <3>3, <3>4 DEF HomeIsKept
    <2> QED
        BY <2>2, <2>3, <2>4, <2>5 DEF HomeIsKept
<1> QED
    BY <1>6, <1>7

(* The steps inside a context change one caller, and neither whether its   *)
(* context is open nor the device it keeps.                                *)
LEMMA InsideKeeps ==
    ASSUME IInv, NEW c \in Callers, NEW new \in BusyCallers,
           caller[c].pc \in {"inside", "computing", "leaving"},
           new.pc \in {"inside", "computing", "leaving"},
           new.stream = caller[c].stream, new.back = caller[c].back,
           caller' = [caller EXCEPT ![c] = new],
           UNCHANGED <<device, home, nested>>, operation_id' \in Nat
    PROVE  IInv'
<1>1. caller'[c] = new /\ \A d \in Callers \ {c} : caller'[d] = caller[d]
    BY DEF IInv, TypeInv
<1>2. TypeInv'
    BY DEF IInv, TypeInv
<1>3. \A d \in Callers : Open(d)' <=> Open(d)
    BY <1>1 DEF Open
<1>4. \A d \in Callers : Open(d) => caller'[d].back = caller[d].back
    BY <1>1
<1> QED
    BY <1>2, <1>3, <1>4, StaysOpen DEF IInv

LEMMA DecideKeeps ==
    ASSUME IInv, NEW c \in Callers, Decide(c)
    PROVE  IInv'
<1> DEFINE call == caller[c].call
           custom == caller[c].use_metal /\ Custom(call)
           refused == [caller[c] EXCEPT !.pc = "leaving", !.failed = TRUE]
           chosen == [caller[c] EXCEPT !.pc = "computing", !.custom = custom,
                         !.left = IF custom THEN 1 ELSE Tiles,
                         !.id = IF call.verbose THEN operation_id ELSE 0]
<1>1. caller[c] \in BusyCallers /\ caller[c].pc = "inside"
    BY DEF Decide, IInv, TypeInv, Idle
<1>2. UNCHANGED <<device, home, nested>> /\ operation_id' \in Nat
    BY DEF Decide, IInv, TypeInv
<1>3. \/ caller' = [caller EXCEPT ![c] = refused]
      \/ caller' = [caller EXCEPT ![c] = chosen]
    BY DEF Decide, IInv, TypeInv
<1>4. /\ refused \in BusyCallers /\ refused.pc = "leaving"
      /\ refused.stream = caller[c].stream /\ refused.back = caller[c].back
    BY <1>1 DEF BusyCallers
<1>5. custom \in BOOLEAN
    OBVIOUS
<1> HIDE DEF custom
<1>6. /\ chosen \in BusyCallers /\ chosen.pc = "computing"
      /\ chosen.stream = caller[c].stream /\ chosen.back = caller[c].back
    BY <1>1, <1>5, DispatchAssumption DEF BusyCallers, IInv, TypeInv
<1> HIDE DEF refused, chosen
<1> QED
    BY <1>1, <1>2, <1>3, <1>4, <1>6, InsideKeeps

LEMMA ComputeKeeps ==
    ASSUME IInv, NEW c \in Callers, Compute(c)
    PROVE  IInv'
<1> DEFINE on == IF caller[c].custom THEN "gpu" ELSE device
           new(fails) == [caller[c] EXCEPT !.left = @ - 1, !.ran = @ \cup {on},
                                           !.failed = fails]
<1>1. /\ caller[c] \in BusyCallers /\ caller[c].pc = "computing"
      /\ caller[c].left \in Nat /\ caller[c].left > 0 /\ on \in Devices
    BY DEF Compute, IInv, TypeInv, Idle, BusyCallers, Devices
<1> HIDE DEF on
<1>2. UNCHANGED <<device, home, nested>> /\ operation_id' \in Nat
    BY DEF Compute, IInv, TypeInv
<1>3. PICK fails \in BOOLEAN : caller' = [caller EXCEPT ![c] = new(fails)]
    BY DEF Compute, IInv, TypeInv, on
<1>4. /\ new(fails) \in BusyCallers /\ new(fails).pc = "computing"
      /\ new(fails).stream = caller[c].stream /\ new(fails).back = caller[c].back
    <2>1. caller[c].left - 1 \in Nat /\ caller[c].ran \cup {on} \in SUBSET Devices
        BY <1>1 DEF BusyCallers
    <2> QED
        BY <1>1, <2>1 DEF BusyCallers
<1> HIDE DEF new
<1> QED
    BY <1>1, <1>2, <1>3, <1>4, InsideKeeps

LEMMA EndKeeps ==
    ASSUME IInv, NEW c \in Callers, End(c)
    PROVE  IInv'
<1> DEFINE new == [caller[c] EXCEPT !.pc = "leaving"]
<1>1. caller[c] \in BusyCallers /\ caller[c].pc = "computing"
    BY DEF End, IInv, TypeInv, Idle
<1>2. UNCHANGED <<device, home, nested>> /\ operation_id' \in Nat
    BY DEF End, IInv, TypeInv
<1>3. caller' = [caller EXCEPT ![c] = new]
    BY DEF End, IInv, TypeInv
<1>4. /\ new \in BusyCallers /\ new.pc = "leaving"
      /\ new.stream = caller[c].stream /\ new.back = caller[c].back
    BY <1>1 DEF BusyCallers
<1> HIDE DEF new
<1> QED
    BY <1>1, <1>2, <1>3, <1>4, InsideKeeps

LEMMA LeaveKeeps ==
    ASSUME IInv, NEW c \in Callers, Leave(c)
    PROVE  IInv'
<1> USE DEF IInv
<1>1. /\ caller[c] \in BusyCallers /\ caller[c].pc = "leaving"
      /\ UNCHANGED <<home, operation_id, nested>>
    BY DEF Leave, TypeInv, Idle
<1>2. caller'[c] = Idle /\ \A d \in Callers \ {c} : caller'[d] = caller[d]
    BY DEF Leave, TypeInv
<1>3. caller' \in [Callers -> {Idle} \cup BusyCallers]
    BY DEF Leave, TypeInv
<1>4. /\ ~Open(c)' /\ \A d \in Callers \ {c} : Open(d)' <=> Open(d)
      /\ DevicesAreKept'
    BY <1>2 DEF Open, Idle, DevicesAreKept
<1>5. CASE caller[c].stream = "any"
    <2>1. device' = device /\ ~Open(c)
        BY <1>5 DEF Leave, Open
    <2>2. \A d \in Callers : Open(d)' <=> Open(d)
        BY <1>4, <2>1
    <2>3. \A d \in Callers : Open(d) => caller'[d].back = caller[d].back
        BY <1>2, <2>1
    <2> QED
        BY <1>1, <1>3, <2>1, <2>2, <2>3, StaysOpen DEF TypeInv
<1>6. CASE caller[c].stream # "any" /\ nested = FALSE
    <2>1. Open(c) /\ device' = caller[c].back
        BY <1>1, <1>6 DEF Leave, Open
    <2>2. caller[c].back = home /\ \A d \in Callers : Open(d) <=> d = c
        BY <1>6, <2>1 DEF HomeIsKept
    <2>3. device' = home' /\ \A d \in Callers : ~Open(d)'
        BY <1>1, <1>4, <2>1, <2>2
    <2> QED
        BY <1>1, <1>3, <1>4, <2>3 DEF TypeInv, HomeIsKept
<1>7. CASE caller[c].stream # "any" /\ nested = TRUE
    <2>1. device' = caller[c].back /\ caller[c].back \in Devices
        BY <1>1, <1>7 DEF Leave, DevicesAreKept, Open
    <2> QED
        BY <1>1, <1>3, <1>4, <1>7, <2>1 DEF TypeInv, HomeIsKept
<1> QED
    BY <1>5, <1>6, <1>7 DEF TypeInv

LEMMA Inductive == IInv /\ [Next]_vars => IInv'
<1>1. ASSUME IInv, UNCHANGED vars
      PROVE  IInv'
    <2>1. UNCHANGED <<device, home, nested, operation_id, caller>>
        BY <1>1 DEF vars
    <2> QED
        BY <1>1, <2>1, StaysOpen DEF IInv, TypeInv, Open
<1> QED
    BY <1>1, ResolveKeeps, EnterKeeps, DecideKeeps, ComputeKeeps, EndKeeps, LeaveKeeps DEF Next

LEMMA Implied == IInv => DefaultDeviceComesBack
BY DEF IInv, TypeInv, HomeIsKept, DefaultDeviceComesBack, Inside, Open

(* core.py, the stream contexts of _run_profile_with_resources: whatever   *)
(* the calls, the records and the failures, the default device of the      *)
(* process is the one of the beginning whenever no context is open, unless *)
(* two were open at once.                                                  *)
THEOREM DeviceComesBack == Spec => []DefaultDeviceComesBack
BY Initially, Inductive, Implied, PTL DEF Spec

----------------------------------------------------------------------------
(* What a call is promised.  The winners the engine looks up are those of  *)
(* the join's key with the sampled density.                                *)
LEMMA KeyWithoutDensity ==
    ASSUME NEW join, NEW d
    PROVE  /\ [JoinKey(join, d) EXCEPT !.bucket = JoinKey(join, None).bucket]
                 = JoinKey(join, None)
           /\ join.family # "sum_thresh" => JoinKey(join, d) = JoinKey(join, None)
           /\ join.family = "sum_thresh" =>
                 /\ JoinKey(join, None).bucket = <<"density", None>>
                 /\ JoinKey(join, None).profile = "sum_thresh"
<1> DEFINE w(x) == [profile |-> join.family, precision |-> join.precision,
                    n_a |-> join.length_a - join.m + 1, n_b |-> join.length_b - join.m + 1,
                    m |-> join.m, self |-> join.self,
                    aligned |-> ~join.self /\ ~join.allow_trivial_match,
                    tile |-> join.max_tile_size, density |-> x,
                    k |-> join.k, shape |-> join.shape]
           key(x) == MakeWorkloadKey(w(x), "auto", join.dtype)
<1>1. \A x : JoinKey(join, x) = key(x)
    BY DEF JoinKey
<1>2. \A x : key(x).bucket = ProfileBucket(w(x)) /\ key(x).profile = join.family
    BY DEF MakeWorkloadKey
<1>3. join.family # "sum_thresh" => ProfileBucket(w(d)) = ProfileBucket(w(None))
    BY DEF ProfileBucket
<1>4. join.family = "sum_thresh" => ProfileBucket(w(None)) = <<"density", None>>
    BY DEF ProfileBucket
<1>5. [key(d) EXCEPT !.bucket = key(None).bucket] = key(None)
    BY DEF MakeWorkloadKey, Alignment
<1>6. ProfileBucket(w(d)) = ProfileBucket(w(None)) => key(d) = key(None)
    BY DEF MakeWorkloadKey, Alignment
<1> HIDE DEF key, w
<1> QED
    BY <1>1, <1>2, <1>3, <1>4, <1>5, <1>6

(* What the engine looks up, in one or two looks, are the records of the   *)
(* sampled density.                                                        *)
LEMMA WinnersAreFound ==
    ASSUME NEW call \in Calls, records \in Sidecars, NA(call) > 0, NB(call) > 0
    PROVE  WinnersInSidecar(call)
              = {r.candidate : r \in {s \in records :
                                       s.key = JoinKey(Join(call), SampledDensity(call))}}
<1> DEFINE join == Join(call)
           key == JoinKey(join, SampledDensity(call))
           unsampled == JoinKey(join, None)
           comparable == {r \in records : [r.key EXCEPT !.bucket = unsampled.bucket] = unsampled}
<1>1. ~(NA(call) <= 0) /\ ~(NB(call) <= 0)
    BY CallsAssumption DEF NA, NB, Subsequences, Join
<1>2. WinnersInSidecar(call) = IF LookUp(unsampled) # {} \/ join.family # "sum_thresh"
                               THEN LookUp(unsampled)
                               ELSE IF comparable = {} \/ SampledDensity(call) = None THEN {}
                               ELSE LookUp(key)
    BY <1>1 DEF WinnersInSidecar
<1> HIDE DEF unsampled, key, join
<1>3. CASE join.family # "sum_thresh"
    <2>1. key = unsampled
        BY <1>3, KeyWithoutDensity DEF key, unsampled
    <2> QED
        BY <1>2, <1>3, <2>1 DEF LookUp, key, join
<1>4. CASE join.family = "sum_thresh"
    <2>1. \A r \in records : r.key # unsampled
        BY <1>4, KeyWithoutDensity, SidecarsAssumption DEF unsampled
    <2>2. LookUp(unsampled) = {}
        BY <2>1 DEF LookUp
    <2>3. CASE comparable = {}
        <3>1. \A r \in records : r.key # key
            BY <2>3, KeyWithoutDensity DEF key, unsampled
        <3> QED
            BY <1>2, <1>4, <2>2, <2>3, <3>1 DEF key, join
    <2>4. CASE SampledDensity(call) = None
        <3>1. key = unsampled
            BY <2>4 DEF key, unsampled
        <3> QED
            BY <1>2, <1>4, <2>1, <2>2, <2>4, <3>1 DEF key, join
    <2>5. CASE comparable # {} /\ SampledDensity(call) # None
        BY <1>2, <1>4, <2>2, <2>5 DEF LookUp, key, join
    <2> QED
        BY <2>3, <2>4, <2>5
<1> QED
    BY <1>3, <1>4

(* The stream a call that can run is given is the device it is promised,   *)
(* if a call without one finds the default device of the beginning.        *)
LEMMA StreamIsPromised ==
    ASSUME NEW call \in Calls, records \in Sidecars, home \in Homes,
           NA(call) > 0, NB(call) > 0, NEW stream, stream # "error",
           stream = Stream(call, Winners(call))
    PROVE  (IF stream = "any" THEN home ELSE stream) = Promised(call)
<1> DEFINE found == {r \in records : r.key = JoinKey(Join(call), SampledDensity(call))}
           single == Join(call).precision = "single"
<1>0. Promised(call) = IF ~single \/ ~MetalAvailable THEN "cpu"
                       ELSE IF call.gpus_given THEN IF call.gpus = <<>> THEN "cpu" ELSE "gpu"
                       ELSE IF call.threads > 0 THEN "cpu"
                       ELSE IF found = {} THEN home
                       ELSE IF \E r \in found : r.candidate.route = "cpu" THEN "cpu" ELSE "gpu"
    BY DEF Promised
<1>1. /\ ~call.gpus_given => Selected(call) = IF call.threads > 0 THEN "cpu" ELSE "any"
      /\ call.gpus_given /\ call.gpus = <<>> => Selected(call) = "cpu"
      /\ call.gpus_given /\ call.gpus # <<>> /\ Selected(call) # "error" =>
            Selected(call) = "gpu" /\ MetalAvailable
      /\ Selected(call) \in {"cpu", "gpu", "any", "error"}
    BY DEF Selected
<1>2. /\ single => Resolved(call) = Selected(call)
      /\ ~single => Resolved(call) \in {"cpu", "error"}
    BY <1>1 DEF Resolved
<1>3. /\ Winners(call) = {} => stream = Resolved(call)
      /\ Winners(call) # {} /\ (\E s \in Winners(call) : s.route = "cpu") => stream = "cpu"
      /\ Winners(call) # {} /\ ~(\E s \in Winners(call) : s.route = "cpu") =>
            stream = IF single /\ MetalAvailable THEN "gpu" ELSE Resolved(call)
    BY DEF Stream
<1>4. Winners(call) = IF call.gpus_given \/ call.threads > 0 THEN {}
                      ELSE {r.candidate : r \in found}
    BY WinnersAreFound DEF Winners
<1>5. ~MetalAvailable => home = "cpu"
    BY DispatchAssumption
<1> HIDE DEF found, single
<1>6. CASE ~single
    BY <1>0, <1>2, <1>3, <1>6
<1>7. CASE single /\ ~MetalAvailable
    <2>1. Resolved(call) # "error" => Resolved(call) \in {"cpu", "any"}
        BY <1>1, <1>2, <1>7
    <2> QED
        BY <1>0, <1>3, <1>5, <1>7, <2>1
<1>8. CASE single /\ MetalAvailable /\ (call.gpus_given \/ call.threads > 0)
    BY <1>0, <1>1, <1>2, <1>3, <1>4, <1>8
<1>9. CASE single /\ MetalAvailable /\ ~call.gpus_given /\ ~(call.threads > 0)
    <2>1. Winners(call) = {r.candidate : r \in found}
        BY <1>4, <1>9
    <2>2. CASE found = {}
        BY <1>0, <1>1, <1>2, <1>3, <1>9, <2>1, <2>2
    <2>3. CASE found # {}
        <3>1. /\ Winners(call) # {}
              /\ (\E s \in Winners(call) : s.route = "cpu")
                    <=> (\E r \in found : r.candidate.route = "cpu")
            BY <2>1, <2>3
        <3> QED
            BY <1>0, <1>3, <1>9, <2>3, <3>1
    <2> QED
        BY <2>2, <2>3
<1> QED
    BY <1>6, <1>7, <1>8, <1>9

----------------------------------------------------------------------------
(* What the steps within a context do to a caller.                         *)
Kept(c) ==
    /\ caller'[c].call = caller[c].call /\ caller'[c].stream = caller[c].stream
    /\ caller'[c].backend = caller[c].backend /\ caller'[c].use_metal = caller[c].use_metal
    /\ caller'[c].alone = caller[c].alone

Settled(c) ==
    Kept(c) /\ caller'[c].custom = caller[c].custom /\ caller'[c].id = caller[c].id

OthersStay(c) == \A d \in Callers \ {c} : caller'[d] = caller[d]

Event(id, phase, c, custom) ==
    [id |-> id, phase |-> phase, backend |-> BackendOf(c, custom), caller |-> c]

(* A new caller is prepared, and every other one is no longer alone.       *)
LEMMA ResolveMoves ==
    ASSUME IInv, NEW c \in Callers, NEW call \in Calls, Resolve(c, call)
    PROVE  /\ caller[c].pc = "idle"
           /\ UNCHANGED <<device, home, nested, records, events, operation_id>>
           /\ \/ UNCHANGED caller
              \/ /\ Parses(call) /\ Stream(call, Winners(call)) # "error"
                 /\ caller'[c] = Prepared(call, Winners(call), Stream(call, Winners(call)))
                 /\ \A d \in Callers \ {c} :
                       /\ d \in Busy => /\ caller'[d].alone = FALSE
                                        /\ caller'[d].pc = caller[d].pc
                                        /\ caller'[d].call = caller[d].call
                                        /\ caller'[d].stream = caller[d].stream
                                        /\ caller'[d].backend = caller[d].backend
                                        /\ caller'[d].use_metal = caller[d].use_metal
                                        /\ caller'[d].custom = caller[d].custom
                                        /\ caller'[d].id = caller[d].id
                                        /\ caller'[d].ran = caller[d].ran
                       /\ d \notin Busy => caller'[d].pc = "idle"
<1> DEFINE new == Prepared(call, Winners(call), Stream(call, Winners(call)))
<1>1. ASSUME NEW d \in Callers, d \in Busy PROVE caller[d] \in BusyCallers
    BY <1>1 DEF IInv, TypeInv, Busy, Idle
<1>2. CASE /\ Parses(call) /\ Stream(call, Winners(call)) # "error"
           /\ caller' = [d \in Callers |->
                 IF d = c THEN new
                 ELSE IF d \in Busy THEN [caller[d] EXCEPT !.alone = FALSE]
                 ELSE caller[d]]
    <2> HIDE DEF new
    <2>1. caller'[c] = new
        BY <1>2
    <2>2. ASSUME NEW d \in Callers \ {c}, d \in Busy
          PROVE  /\ caller'[d].alone = FALSE
                 /\ caller'[d].pc = caller[d].pc
                 /\ caller'[d].call = caller[d].call
                 /\ caller'[d].stream = caller[d].stream
                 /\ caller'[d].backend = caller[d].backend
                 /\ caller'[d].use_metal = caller[d].use_metal
                 /\ caller'[d].custom = caller[d].custom
                 /\ caller'[d].id = caller[d].id
                 /\ caller'[d].ran = caller[d].ran
        <3>1. caller'[d] = [caller[d] EXCEPT !.alone = FALSE]
            BY <1>2, <2>2
        <3> QED
            BY <1>1, <2>2, <3>1 DEF BusyCallers
    <2>3. ASSUME NEW d \in Callers \ {c}, d \notin Busy PROVE caller'[d].pc = "idle"
        BY <1>2, <2>3 DEF Busy
    <2> QED
        BY <1>2, <2>1, <2>2, <2>3 DEF Resolve, new
<1> QED
    BY <1>2 DEF Resolve

(* The context makes the device of the stream the default.                 *)
LEMMA EnterMoves ==
    ASSUME IInv, NEW c \in Callers, Enter(c)
    PROVE  /\ caller[c].pc = "resolved" /\ caller'[c].pc = "inside"
           /\ Settled(c) /\ caller'[c].ran = caller[c].ran /\ OthersStay(c)
           /\ caller[c].stream = "any" => UNCHANGED <<device, nested>>
           /\ caller[c].stream # "any" => /\ device' = caller[c].stream
                                          /\ nested' = (nested \/ Inside # {})
           /\ UNCHANGED <<home, records, events, operation_id>>
<1>1. caller[c] \in BusyCallers /\ caller[c].pc = "resolved"
    BY DEF Enter, IInv, TypeInv, Idle
<1>2. /\ caller'[c] = [caller[c] EXCEPT !.pc = "inside", !.back = device]
      /\ OthersStay(c)
    BY DEF Enter, IInv, TypeInv, OthersStay
<1>3. caller'[c].pc = "inside" /\ Settled(c) /\ caller'[c].ran = caller[c].ran
    BY <1>1, <1>2 DEF BusyCallers, Settled, Kept
<1> QED
    BY <1>1, <1>2, <1>3 DEF Enter

(* A call is refused, or starts to compute, under the next number if it    *)
(* reports.                                                                *)
LEMMA DecideMoves ==
    ASSUME IInv, NEW c \in Callers, Decide(c)
    PROVE  /\ caller[c].pc = "inside" /\ Kept(c) /\ caller'[c].ran = caller[c].ran
           /\ OthersStay(c) /\ UNCHANGED <<device, home, nested, records>>
           /\ \/ /\ caller'[c].pc = "leaving" /\ Settled(c)
                 /\ UNCHANGED <<events, operation_id>>
              \/ /\ caller'[c].pc = "computing"
                 /\ NA(caller[c].call) > 0 /\ NB(caller[c].call) > 0
                 /\ caller'[c].custom = (caller[c].use_metal /\ Custom(caller[c].call))
                 /\ \/ /\ caller[c].call.verbose /\ caller'[c].id = operation_id
                       /\ operation_id' = operation_id + 1
                       /\ events' = Append(events,
                             Event(operation_id, "start", c, caller'[c].custom))
                    \/ /\ ~caller[c].call.verbose /\ caller'[c].id = 0
                       /\ UNCHANGED <<events, operation_id>>
<1> DEFINE call == caller[c].call
           custom == caller[c].use_metal /\ Custom(call)
           refused == [caller[c] EXCEPT !.pc = "leaving", !.failed = TRUE]
           chosen == [caller[c] EXCEPT !.pc = "computing", !.custom = custom,
                         !.left = IF custom THEN 1 ELSE Tiles,
                         !.id = IF call.verbose THEN operation_id ELSE 0]
<1>1. /\ caller[c] \in BusyCallers /\ caller[c].pc = "inside"
      /\ UNCHANGED <<device, home, nested, records>>
    BY DEF Decide, IInv, TypeInv, Idle
<1>2. CASE Runnable(call)
    <2>1. caller'[c] = chosen /\ OthersStay(c)
        BY <1>2 DEF Decide, IInv, TypeInv, OthersStay
    <2>2. /\ call.verbose => /\ operation_id' = operation_id + 1
                             /\ events' = Append(events,
                                   [id |-> caller'[c].id, phase |-> "start",
                                    backend |-> BackendOf(c, custom), caller |-> c])
          /\ ~call.verbose => UNCHANGED <<events, operation_id>>
        BY <1>2 DEF Decide, Report
    <2>3. NA(call) > 0 /\ NB(call) > 0
        BY <1>2 DEF Runnable
    <2> HIDE DEF custom
    <2>4. /\ chosen.pc = "computing" /\ chosen.custom = custom
          /\ chosen.id = IF call.verbose THEN operation_id ELSE 0
          /\ chosen.ran = caller[c].ran /\ chosen.call = call
          /\ chosen.stream = caller[c].stream /\ chosen.backend = caller[c].backend
          /\ chosen.use_metal = caller[c].use_metal /\ chosen.alone = caller[c].alone
        BY <1>1 DEF BusyCallers
    <2> HIDE DEF chosen
    <2> QED
        BY <1>1, <2>1, <2>2, <2>3, <2>4 DEF Kept, Event, custom
<1>3. CASE ~Runnable(call)
    <2>1. caller'[c] = refused /\ OthersStay(c) /\ UNCHANGED <<events, operation_id>>
        BY <1>3 DEF Decide, IInv, TypeInv, OthersStay
    <2>2. refused.pc = "leaving" /\ Settled(c) /\ refused.ran = caller[c].ran
        BY <1>1, <2>1 DEF BusyCallers, Settled, Kept
    <2> QED
        BY <1>1, <2>1, <2>2 DEF Settled
<1> QED
    BY <1>2, <1>3

(* An operation runs on the device of its kernel, or on the default one.   *)
LEMMA ComputeMoves ==
    ASSUME IInv, NEW c \in Callers, Compute(c)
    PROVE  /\ caller[c].pc = "computing" /\ caller'[c].pc = "computing"
           /\ Settled(c) /\ OthersStay(c)
           /\ caller'[c].ran = caller[c].ran
                                 \cup {IF caller[c].custom THEN "gpu" ELSE device}
           /\ UNCHANGED <<device, home, nested, records, events, operation_id>>
<1> DEFINE on == IF caller[c].custom THEN "gpu" ELSE device
<1>1. caller[c] \in BusyCallers /\ caller[c].pc = "computing"
    BY DEF Compute, IInv, TypeInv, Idle
<1>2. PICK fails \in BOOLEAN :
         caller' = [caller EXCEPT ![c].left = @ - 1, ![c].ran = @ \cup {on}, ![c].failed = fails]
    BY DEF Compute
<1> HIDE DEF on
<1>3. /\ caller'[c] = [caller[c] EXCEPT !.left = @ - 1, !.ran = @ \cup {on}, !.failed = fails]
      /\ OthersStay(c)
    BY <1>2 DEF IInv, TypeInv, OthersStay
<1>4. /\ caller'[c].pc = "computing" /\ Settled(c)
      /\ caller'[c].ran = caller[c].ran \cup {on}
    BY <1>1, <1>3 DEF BusyCallers, Settled, Kept
<1> QED
    BY <1>1, <1>3, <1>4 DEF Compute, on

(* A computation that reported its start reports its end.                  *)
LEMMA EndMoves ==
    ASSUME IInv, NEW c \in Callers, End(c)
    PROVE  /\ caller[c].pc = "computing" /\ caller'[c].pc = "leaving"
           /\ Settled(c) /\ caller'[c].ran = caller[c].ran /\ OthersStay(c)
           /\ \/ /\ caller[c].call.verbose
                 /\ \E phase \in {"error", "complete"} :
                       events' = Append(events,
                                    Event(caller[c].id, phase, c, caller[c].custom))
              \/ ~caller[c].call.verbose /\ UNCHANGED events
           /\ UNCHANGED <<device, home, nested, records, operation_id>>
<1>1. caller[c] \in BusyCallers /\ caller[c].pc = "computing"
    BY DEF End, IInv, TypeInv, Idle
<1>2. caller'[c] = [caller[c] EXCEPT !.pc = "leaving"] /\ OthersStay(c)
    BY DEF End, IInv, TypeInv, OthersStay
<1>3. caller'[c].pc = "leaving" /\ Settled(c) /\ caller'[c].ran = caller[c].ran
    BY <1>1, <1>2 DEF BusyCallers, Settled, Kept
<1>4. caller'[c].id = caller[c].id
    BY <1>3 DEF Settled
<1>5. CASE caller[c].call.verbose
    <2> DEFINE phase == IF caller[c].failed THEN "error" ELSE "complete"
    <2>1. events' = Append(events, Event(caller[c].id, phase, c, caller[c].custom))
        BY <1>4, <1>5 DEF End, Report, Event
    <2> QED
        BY <1>1, <1>2, <1>3, <1>5, <2>1 DEF End
<1>6. CASE ~caller[c].call.verbose
    BY <1>1, <1>2, <1>3, <1>6 DEF End
<1> QED
    BY <1>5, <1>6

(* The caller is done, and no other is changed.                            *)
LEMMA LeaveMoves ==
    ASSUME IInv, NEW c \in Callers, Leave(c)
    PROVE  /\ caller[c].pc = "leaving" /\ caller'[c].pc = "idle" /\ OthersStay(c)
           /\ UNCHANGED <<home, nested, records, events, operation_id>>
    BY DEF Leave, IInv, TypeInv, OthersStay, Idle

----------------------------------------------------------------------------
(* The stream of each call with the winners there are, the device a        *)
(* caller's context makes the default, and a caller's call as it was       *)
(* resolved.                                                               *)
Streams == [call \in Calls |-> Stream(call, Winners(call))]

Target(c) == IF caller[c].stream = "any" THEN home ELSE caller[c].stream

WellPrepared(c) ==
    /\ caller[c].stream # "error" /\ caller[c].stream = Streams[caller[c].call]
    /\ caller[c].pc \in {"resolved", "inside"} => caller[c].ran = {}
    /\ caller[c].pc = "computing" \/ caller[c].ran # {} =>
          NA(caller[c].call) > 0 /\ NB(caller[c].call) > 0
    /\ caller[c].custom => caller[c].use_metal

(* A caller that no other overlaps has the default device to itself.       *)
HasDevice(c) ==
    /\ device = IF caller[c].pc = "resolved" THEN home ELSE Target(c)
    /\ caller[c].use_metal => Target(c) = "gpu"
    /\ caller[c].backend = IF Target(c) = "cpu" THEN "cpu" ELSE "portable_metal"
    /\ caller[c].ran \subseteq {Target(c)}

DispatchInv ==
    /\ home \in Homes /\ records \in Sidecars
    /\ \A c \in Busy :
          /\ WellPrepared(c)
          /\ caller[c].alone => Busy = {c}
          /\ caller[c].alone /\ nested = FALSE => HasDevice(c)

(* Records are never written, so the stream of a call stays.               *)
LEMMA StreamsStay ==
    ASSUME UNCHANGED records
    PROVE  UNCHANGED Streams
BY DEF Streams, Winners, WinnersInSidecar, LookUp

(* A caller that finds no other busy finds the default device of the       *)
(* beginning.                                                              *)
LEMMA ResolveIsTrue ==
    ASSUME IInv, DispatchInv, NEW c \in Callers, NEW call \in Calls, Resolve(c, call)
    PROVE  DispatchInv'
<1> DEFINE new == Prepared(call, Winners(call), Stream(call, Winners(call)))
           on == IF Streams[call] = "any" THEN device ELSE Streams[call]
<1>1. /\ caller[c].pc = "idle" /\ c \notin Busy
      /\ UNCHANGED <<device, home, nested, records>> /\ UNCHANGED Streams
    BY ResolveMoves, StreamsStay DEF Busy
<1>2. CASE UNCHANGED caller
    BY <1>1, <1>2 DEF DispatchInv, WellPrepared, HasDevice, Target, Busy
<1>3. CASE /\ Stream(call, Winners(call)) # "error" /\ caller'[c] = new
           /\ \A d \in Callers \ {c} :
                 /\ d \in Busy => /\ caller'[d].alone = FALSE
                                  /\ caller'[d].pc = caller[d].pc
                                  /\ caller'[d].call = caller[d].call
                                  /\ caller'[d].stream = caller[d].stream
                                  /\ caller'[d].use_metal = caller[d].use_metal
                                  /\ caller'[d].custom = caller[d].custom
                                  /\ caller'[d].ran = caller[d].ran
                 /\ d \notin Busy => caller'[d].pc = "idle"
    <2>1. /\ new.pc = "resolved" /\ new.call = call /\ new.stream = Streams[call]
          /\ new.custom = FALSE /\ new.ran = {} /\ new.alone = (Busy = {})
          /\ new.backend = IF on = "cpu" THEN "cpu" ELSE "portable_metal"
          /\ new.use_metal => on = "gpu"
          /\ Streams[call] # "error"
        BY <1>3 DEF Prepared, Streams
    <2> HIDE DEF new, on
    <2>2. Busy' = Busy \cup {c}
        <3>1. c \in Busy'
            BY <1>3, <2>1 DEF Busy
        <3>2. ASSUME NEW d \in Callers \ {c} PROVE d \in Busy' <=> d \in Busy
            BY <1>3, <3>2 DEF Busy
        <3> QED
            BY <3>1, <3>2 DEF Busy
    <2>3. ASSUME NEW d \in Busy
          PROVE  WellPrepared(d)' /\ caller'[d].alone = FALSE
        <3>1. d \in Callers \ {c} /\ WellPrepared(d)
            BY <1>1, <2>3 DEF Busy, DispatchInv
        <3> QED
            BY <1>1, <1>3, <2>3, <3>1 DEF WellPrepared
    <2>4. WellPrepared(c)'
        BY <1>1, <1>3, <2>1 DEF WellPrepared
    <2>5. caller'[c].alone => Busy' = {c}
        BY <1>3, <2>1, <2>2
    <2>6. ASSUME caller'[c].alone, nested' = FALSE
          PROVE  HasDevice(c)'
        <3>1. device = home
            BY <1>1, <1>3, <2>1, <2>6, ZenonT(60) DEF IInv, HomeIsKept, Open, Busy
        <3>2. Target(c)' = on /\ caller'[c].pc = "resolved" /\ device' = home'
            BY <1>1, <1>3, <2>1, <3>1 DEF Target, on
        <3> QED
            BY <1>3, <2>1, <3>2 DEF HasDevice
    <2> QED
        BY <1>1, <2>2, <2>3, <2>4, <2>5, <2>6 DEF DispatchInv
<1> QED
    BY <1>2, <1>3, ResolveMoves, ZenonT(60)

(* A caller's own step, taken alone or not, bears on no other's promise.   *)
LEMMA StepIsTrue ==
    ASSUME DispatchInv, NEW c \in Busy, OthersStay(c),
           UNCHANGED <<home, records>>, nested' = FALSE => nested = FALSE,
           caller'[c].pc # "idle" =>
              /\ WellPrepared(c)' /\ caller'[c].alone = caller[c].alone
              /\ caller[c].alone /\ nested' = FALSE => HasDevice(c)'
    PROVE  DispatchInv'
<1>1. Busy' \subseteq Busy /\ (caller'[c].pc # "idle" => c \in Busy')
    BY DEF Busy, OthersStay
<1>2. ASSUME NEW d \in Busy', d # c
      PROVE  WellPrepared(d)' /\ ~caller'[d].alone
    <2>1. caller'[d] = caller[d] /\ d \in Busy /\ UNCHANGED Streams
        BY <1>1, <1>2, StreamsStay DEF OthersStay, Busy
    <2>2. WellPrepared(d) /\ (caller[d].alone => Busy = {d})
        BY <2>1 DEF DispatchInv
    <2>3. WellPrepared(d)'
        BY <2>1, <2>2 DEF WellPrepared
    <2> QED
        BY <1>2, <2>1, <2>2, <2>3
<1>3. ASSUME c \in Busy'
      PROVE  /\ WellPrepared(c)' /\ (caller'[c].alone => Busy' = {c})
             /\ caller'[c].alone /\ nested' = FALSE => HasDevice(c)'
    <2>1. caller'[c].pc # "idle"
        BY <1>3 DEF Busy
    <2> QED
        BY <1>1, <1>3, <2>1 DEF DispatchInv
<1> QED
    BY <1>2, <1>3 DEF DispatchInv

(* The context gives an only caller its device, with no other context      *)
(* open.                                                                   *)
LEMMA EnterIsTrue ==
    ASSUME IInv, DispatchInv, NEW c \in Callers, Enter(c)
    PROVE  DispatchInv'
<1>1. /\ caller[c].pc = "resolved" /\ caller'[c].pc = "inside"
      /\ Settled(c) /\ caller'[c].ran = caller[c].ran /\ OthersStay(c)
      /\ caller[c].stream = "any" => UNCHANGED <<device, nested>>
      /\ caller[c].stream # "any" => /\ device' = caller[c].stream
                                     /\ nested' = (nested \/ Inside # {})
      /\ UNCHANGED <<home, records>> /\ c \in Busy
    BY EnterMoves DEF Busy
<1>2. UNCHANGED Streams /\ Target(c)' = Target(c)
    BY <1>1, StreamsStay DEF Settled, Kept, Target
<1>3. nested' = FALSE => nested = FALSE
    BY <1>1 DEF IInv, TypeInv
<1>4. WellPrepared(c) /\ WellPrepared(c)'
    BY <1>1, <1>2 DEF DispatchInv, WellPrepared, Settled, Kept
<1>5. ASSUME caller[c].alone, nested' = FALSE PROVE HasDevice(c)'
    <2>1. HasDevice(c)
        BY <1>1, <1>3, <1>5 DEF DispatchInv
    <2>2. device' = Target(c)
        BY <1>1, <2>1 DEF HasDevice, Target
    <2> QED
        BY <1>1, <1>2, <2>1, <2>2 DEF HasDevice, Settled, Kept
<1> QED
    BY <1>1, <1>3, <1>4, <1>5, StepIsTrue DEF Settled, Kept

(* Only a runnable call starts, and only one prepared for Metal is         *)
(* customised.                                                             *)
LEMMA DecideIsTrue ==
    ASSUME IInv, DispatchInv, NEW c \in Callers, Decide(c)
    PROVE  DispatchInv'
<1>1. /\ caller[c].pc = "inside" /\ Kept(c) /\ caller'[c].ran = caller[c].ran
      /\ OthersStay(c) /\ UNCHANGED <<device, home, nested, records>> /\ c \in Busy
      /\ \/ caller'[c].pc = "leaving" /\ Settled(c)
         \/ /\ caller'[c].pc = "computing"
            /\ NA(caller[c].call) > 0 /\ NB(caller[c].call) > 0
            /\ caller'[c].custom = (caller[c].use_metal /\ Custom(caller[c].call))
    BY DecideMoves DEF Busy
<1>2. UNCHANGED Streams /\ Target(c)' = Target(c)
    BY <1>1, StreamsStay DEF Kept, Target
<1>3. WellPrepared(c)
    BY <1>1 DEF DispatchInv
<1>4. WellPrepared(c)'
    BY <1>1, <1>2, <1>3 DEF WellPrepared, Settled, Kept
<1>5. ASSUME caller[c].alone, nested' = FALSE PROVE HasDevice(c)'
    BY <1>1, <1>2, <1>5 DEF DispatchInv, HasDevice, Kept
<1> QED
    BY <1>1, <1>4, <1>5, StepIsTrue DEF Kept

(* An only caller's kernel or default device is the one it was given.      *)
LEMMA ComputeIsTrue ==
    ASSUME IInv, DispatchInv, NEW c \in Callers, Compute(c)
    PROVE  DispatchInv'
<1>1. /\ caller[c].pc = "computing" /\ caller'[c].pc = "computing"
      /\ Settled(c) /\ OthersStay(c) /\ c \in Busy
      /\ caller'[c].ran = caller[c].ran \cup {IF caller[c].custom THEN "gpu" ELSE device}
      /\ UNCHANGED <<device, home, nested, records>>
    BY ComputeMoves DEF Busy
<1>2. UNCHANGED Streams /\ Target(c)' = Target(c)
    BY <1>1, StreamsStay DEF Settled, Kept, Target
<1>3. WellPrepared(c) /\ WellPrepared(c)'
    BY <1>1, <1>2 DEF DispatchInv, WellPrepared, Settled, Kept
<1>4. ASSUME caller[c].alone, nested' = FALSE PROVE HasDevice(c)'
    <2>1. HasDevice(c)
        BY <1>1, <1>4 DEF DispatchInv
    <2>2. (IF caller[c].custom THEN "gpu" ELSE device) = Target(c)
        BY <1>1, <1>3, <2>1 DEF HasDevice, WellPrepared
    <2> QED
        BY <1>1, <1>2, <2>1, <2>2 DEF HasDevice, Settled, Kept
<1> QED
    BY <1>1, <1>3, <1>4, StepIsTrue DEF Settled, Kept

(* The end of a computation leaves its caller its context.                 *)
LEMMA EndIsTrue ==
    ASSUME IInv, DispatchInv, NEW c \in Callers, End(c)
    PROVE  DispatchInv'
<1>1. /\ caller[c].pc = "computing" /\ caller'[c].pc = "leaving"
      /\ Settled(c) /\ caller'[c].ran = caller[c].ran /\ OthersStay(c) /\ c \in Busy
      /\ UNCHANGED <<device, home, nested, records>>
    BY EndMoves DEF Busy
<1>2. UNCHANGED Streams /\ Target(c)' = Target(c)
    BY <1>1, StreamsStay DEF Settled, Kept, Target
<1>3. WellPrepared(c)'
    BY <1>1, <1>2 DEF DispatchInv, WellPrepared, Settled, Kept
<1>4. ASSUME caller[c].alone, nested' = FALSE PROVE HasDevice(c)'
    BY <1>1, <1>2, <1>4 DEF DispatchInv, HasDevice, Settled, Kept
<1> QED
    BY <1>1, <1>3, <1>4, StepIsTrue DEF Settled, Kept

(* A caller that leaves was the only one, or no other was alone.           *)
LEMMA LeaveIsTrue ==
    ASSUME IInv, DispatchInv, NEW c \in Callers, Leave(c)
    PROVE  DispatchInv'
BY LeaveMoves, StepIsTrue DEF Busy

(* Every step keeps the promise invariant, with the one of the default     *)
(* device.                                                                 *)
LEMMA DispatchInductive == IInv /\ DispatchInv /\ [Next]_vars => DispatchInv'
<1>1. ASSUME IInv, DispatchInv, UNCHANGED vars PROVE DispatchInv'
    <2>1. UNCHANGED <<device, records, caller, home, nested>> /\ UNCHANGED Streams
        BY <1>1, StreamsStay DEF vars
    <2> QED
        BY <1>1, <2>1 DEF DispatchInv, WellPrepared, HasDevice, Target, Busy
<1> QED
    BY <1>1, ResolveIsTrue, EnterIsTrue, DecideIsTrue, ComputeIsTrue, EndIsTrue, LeaveIsTrue
       DEF Next

(* At first there is no caller.                                            *)
LEMMA DispatchInitially == Init => DispatchInv
BY DEF Init, DispatchInv, Busy, Idle

(* The target of an only caller is the device its call is promised.        *)
LEMMA PromiseHolds == IInv /\ DispatchInv => RunsWherePromised
<1> SUFFICES ASSUME IInv, DispatchInv, ~nested, NEW c \in Busy, caller[c].alone,
                    caller[c].ran # {}
             PROVE  caller[c].ran \subseteq {Promised(caller[c].call)}
    BY DEF RunsWherePromised
<1>1. caller[c] \in BusyCallers /\ nested = FALSE
    BY DEF IInv, TypeInv, Busy, Idle
<1>2. caller[c].call \in Calls
    BY <1>1 DEF BusyCallers
<1>3. WellPrepared(c) /\ HasDevice(c) /\ home \in Homes /\ records \in Sidecars
    BY <1>1 DEF DispatchInv
<1>4. Target(c) = Promised(caller[c].call)
    BY <1>2, <1>3, StreamIsPromised DEF WellPrepared, Streams, Target
<1> QED
    BY <1>3, <1>4 DEF HasDevice

(* core.py, _run_profile_with_resources: a call that no other overlaps     *)
(* computes all of it on the device its arguments, the records and the     *)
(* default promise, whatever earlier calls did and however they ended.     *)
THEOREM PromisesAreKept == Spec => []RunsWherePromised
BY Initially, Inductive, DispatchInitially, DispatchInductive, PromiseHolds, PTL DEF Spec

----------------------------------------------------------------------------
(* The events.  A caller that computes and reports has a number that no    *)
(* other such caller has; a start whose number no caller computes under    *)
(* has one event of its end.                                               *)
Events == [id : Nat, phase : {"start", "error", "complete"},
           backend : {"cpu", "portable_metal", "custom_metal"}, caller : Callers]

Starts == {i \in DOMAIN events : events[i].phase = "start"}

Ends(i) == {j \in DOMAIN events : events[j].id = events[i].id /\ j \notin Starts}

Reporting(d) == caller[d].pc = "computing" /\ caller[d].id # 0

IsNumbered ==
    /\ operation_id \in Nat \ {0} /\ events \in Seq(Events)
    /\ \A i \in DOMAIN events : events[i].id \in 1 .. operation_id - 1
    /\ \A d \in Callers : Reporting(d) => caller[d].id \in 1 .. operation_id - 1
    /\ \A d, e \in Callers :
          Reporting(d) /\ Reporting(e) /\ caller[d].id = caller[e].id => d = e

IsRanked ==
    /\ IsFiniteSet(Starts) /\ Cardinality(Starts) = operation_id - 1
    /\ \A i \in Starts : events[i].id = Cardinality({j \in Starts : j <= i})

IsPaired ==
    \A i \in Starts :
       IF \E d \in Callers : Reporting(d) /\ caller[d].id = events[i].id
       THEN Ends(i) = {}
       ELSE \E j \in DOMAIN events : i < j /\ Ends(i) = {j}

(* What is reported of a caller that is not done is true of it.            *)
Named(c) == BackendOf(c, caller[c].custom)

IsTold ==
    /\ \A c \in Busy :
          /\ caller[c].pc \in {"resolved", "inside"} => caller[c].id = 0
          /\ caller[c].pc = "computing" => (caller[c].call.verbose <=> caller[c].id # 0)
    /\ \A i \in DOMAIN events, c \in Busy :
          events[i].caller = c /\ events[i].id = caller[c].id => events[i].backend = Named(c)

EventsInv == IsNumbered /\ IsRanked /\ IsPaired /\ IsTold

(* A step that reports nothing, and after which the same callers compute   *)
(* under the same numbers.                                                 *)
LEMMA SilenceKeeps ==
    ASSUME IsNumbered, IsRanked, IsPaired, UNCHANGED <<events, operation_id>>,
           \A d \in Callers : Reporting(d)' <=> Reporting(d),
           \A d \in Callers : Reporting(d) => caller'[d].id = caller[d].id
    PROVE  IsNumbered' /\ IsRanked' /\ IsPaired'
<1>1. UNCHANGED Starts
    BY DEF Starts
<1>2. IsNumbered'
    BY DEF IsNumbered
<1>3. IsRanked'
    BY <1>1 DEF IsRanked
<1>4. ASSUME NEW i \in Starts
      PROVE  /\ Ends(i)' = Ends(i)
             /\ (\E d \in Callers : Reporting(d) /\ caller[d].id = events[i].id)'
                   <=> \E d \in Callers : Reporting(d) /\ caller[d].id = events[i].id
    BY <1>1 DEF Ends
<1>5. IsPaired'
    BY <1>1, <1>4 DEF IsPaired
<1> QED
    BY <1>2, <1>3, <1>5

(* What an event adds.                                                     *)
LEMMA Appended ==
    ASSUME IsNumbered, NEW event \in Events, events' = Append(events, event)
    PROVE  /\ events' \in Seq(Events) /\ Len(events') = Len(events) + 1
           /\ DOMAIN events = 1 .. Len(events) /\ Len(events) \in Nat
           /\ DOMAIN events' = 1 .. Len(events) + 1
           /\ \A i \in DOMAIN events : events'[i] = events[i]
           /\ events'[Len(events) + 1] = event
           /\ Starts' = IF event.phase = "start" THEN Starts \cup {Len(events) + 1} ELSE Starts
<1>1. events \in Seq(Events)
    BY DEF IsNumbered
<1>2. /\ events' \in Seq(Events) /\ Len(events') = Len(events) + 1
      /\ DOMAIN events = 1 .. Len(events) /\ Len(events) \in Nat
      /\ DOMAIN events' = 1 .. Len(events) + 1
      /\ \A i \in DOMAIN events : events'[i] = events[i]
      /\ events'[Len(events) + 1] = event
    BY <1>1
<1>3. \A i : i \in DOMAIN events' <=> i \in DOMAIN events \/ i = Len(events) + 1
    BY <1>2
<1>4. Starts' = IF event.phase = "start" THEN Starts \cup {Len(events) + 1} ELSE Starts
    BY <1>2, <1>3 DEF Starts
<1> QED
    BY <1>2, <1>4

(* A start is reported under the next number.                              *)
LEMMA StartKeeps ==
    ASSUME IsNumbered, IsRanked, IsPaired, NEW c \in Callers, NEW event \in Events,
           event.phase = "start", event.id = operation_id,
           events' = Append(events, event), operation_id' = operation_id + 1,
           OthersStay(c), ~Reporting(c), Reporting(c)', caller'[c].id = operation_id
    PROVE  IsNumbered' /\ IsRanked' /\ IsPaired'
<1>0. PICK n \in Nat : n = Len(events) + 1
    BY DEF IsNumbered
<1>1. /\ events' \in Seq(Events) /\ n \in Nat /\ Len(events) \in Nat
      /\ DOMAIN events = 1 .. Len(events) /\ DOMAIN events' = 1 .. n
      /\ \A i \in DOMAIN events : events'[i] = events[i]
      /\ events'[n] = event /\ Starts' = Starts \cup {n}
    BY <1>0, Appended
<1>2. /\ Starts \subseteq DOMAIN events /\ n \notin Starts /\ n \notin DOMAIN events
      /\ \A i \in DOMAIN events : i \in Nat /\ i < n /\ i \in DOMAIN events'
      /\ \A i \in DOMAIN events' : i \in DOMAIN events \/ i = n
    BY <1>1 DEF Starts
<1>3. /\ \A i \in DOMAIN events : events[i].id \in Nat /\ events[i].id < operation_id
                                  /\ events[i].id > 0
      /\ operation_id \in Nat \ {0} /\ operation_id' \in Nat \ {0}
    BY DEF IsNumbered
<1>4. \A d \in Callers \ {c} : /\ Reporting(d)' <=> Reporting(d)
                               /\ caller'[d] = caller[d]
                               /\ Reporting(d) => /\ caller[d].id \in Nat
                                                  /\ caller[d].id > 0
                                                  /\ caller[d].id < operation_id
    BY DEF OthersStay, Reporting, IsNumbered
<1>5. IsNumbered'
    <2>1. \A i \in DOMAIN events' : events'[i].id \in 1 .. operation_id' - 1
        BY <1>1, <1>2, <1>3
    <2>2. \A d \in Callers : Reporting(d)' => caller'[d].id \in 1 .. operation_id' - 1
        BY <1>3, <1>4
    <2>3. \A d, e \in Callers \ {c} :
             Reporting(d)' /\ Reporting(e)' /\ caller'[d].id = caller'[e].id => d = e
        BY <1>4 DEF IsNumbered
    <2>4. \A d \in Callers \ {c} : Reporting(d)' => caller'[d].id # caller'[c].id
        BY <1>3, <1>4
    <2> QED
        BY <1>1, <1>3, <2>1, <2>2, <2>3, <2>4 DEF IsNumbered
<1>6. IsRanked'
    <2>1. IsFiniteSet(Starts') /\ Cardinality(Starts') = operation_id
        <3>1. /\ IsFiniteSet(Starts \cup {n})
              /\ Cardinality(Starts \cup {n}) = Cardinality(Starts) + 1
            BY <1>2, FS_AddElement DEF IsRanked
        <3> QED
            BY <1>1, <1>3, <3>1 DEF IsRanked
    <2>2. ASSUME NEW i \in Starts
          PROVE  {j \in Starts' : j <= i} = {j \in Starts : j <= i}
        BY <1>1, <1>2
    <2>3. {j \in Starts' : j <= n} = Starts'
        BY <1>1, <1>2
    <2>4. \A i \in Starts' : events'[i].id = Cardinality({j \in Starts' : j <= i})
        <3>1. ASSUME NEW i \in Starts
              PROVE  events'[i].id = Cardinality({j \in Starts' : j <= i})
            BY <1>1, <1>2, <2>2 DEF IsRanked
        <3>2. events'[n].id = Cardinality({j \in Starts' : j <= n})
            BY <1>1, <2>1, <2>3
        <3> QED
            BY <1>1, <3>1, <3>2
    <2>5. operation_id' - 1 = operation_id
        BY <1>3
    <2> QED
        BY <2>1, <2>4, <2>5 DEF IsRanked
<1>7. IsPaired'
    <2>1. ASSUME NEW i \in Starts
          PROVE  /\ Ends(i)' = Ends(i)
                 /\ (\E d \in Callers : Reporting(d) /\ caller[d].id = events[i].id)'
                       <=> \E d \in Callers : Reporting(d) /\ caller[d].id = events[i].id
        <3>1. i \in DOMAIN events /\ events'[i] = events[i] /\ events[i].id # operation_id
            BY <1>1, <1>2, <1>3
        <3>2. Ends(i)' = Ends(i)
            BY <1>1, <1>2, <3>1 DEF Ends
        <3> QED
            BY <1>4, <3>1, <3>2
    <2>2. Ends(n)' = {}
        <3>1. \A j \in DOMAIN events' : j \notin Starts' => events'[j].id # events'[n].id
            BY <1>1, <1>2, <1>3
        <3> QED
            BY <3>1 DEF Ends
    <2>3. Reporting(c)' /\ caller'[c].id = events'[n].id
        BY <1>1
    <2>4. ASSUME NEW i \in Starts'
          PROVE  IF (\E d \in Callers : Reporting(d) /\ caller[d].id = events[i].id)'
                 THEN Ends(i)' = {}
                 ELSE \E j \in DOMAIN events' : i < j /\ Ends(i)' = {j}
        <3>1. CASE i = n
            BY <2>2, <2>3, <3>1
        <3>2. CASE i \in Starts
            BY <1>2, <2>1, <3>2 DEF IsPaired
        <3> QED
            BY <1>1, <3>1, <3>2
    <2> QED
        BY <2>4 DEF IsPaired
<1> QED
    BY <1>5, <1>6, <1>7

(* An end is reported under the number of its start.                       *)
LEMMA EndPairs ==
    ASSUME IsNumbered, IsRanked, IsPaired, NEW c \in Callers, NEW event \in Events,
           event.phase # "start", event.id = caller[c].id,
           events' = Append(events, event), operation_id' = operation_id,
           OthersStay(c), Reporting(c), ~Reporting(c)'
    PROVE  IsNumbered' /\ IsRanked' /\ IsPaired'
<1>0. PICK n \in Nat : n = Len(events) + 1
    BY DEF IsNumbered
<1>1. /\ events' \in Seq(Events) /\ n \in Nat /\ Len(events) \in Nat
      /\ DOMAIN events = 1 .. Len(events) /\ DOMAIN events' = 1 .. n
      /\ \A i \in DOMAIN events : events'[i] = events[i]
      /\ events'[n] = event /\ Starts' = Starts
    BY <1>0, Appended
<1>2. /\ Starts \subseteq DOMAIN events /\ n \notin Starts /\ n \notin DOMAIN events
      /\ \A i \in DOMAIN events : i \in Nat /\ i < n /\ i \in DOMAIN events'
      /\ \A i \in DOMAIN events' : i \in DOMAIN events \/ i = n
    BY <1>1 DEF Starts
<1>3. \A d \in Callers \ {c} : (Reporting(d)' <=> Reporting(d)) /\ caller'[d] = caller[d]
    BY DEF OthersStay, Reporting
<1>4. IsNumbered'
    <2>1. \A i \in DOMAIN events' : events'[i].id \in 1 .. operation_id - 1
        BY <1>1, <1>2 DEF IsNumbered
    <2> QED
        BY <1>1, <1>3, <2>1 DEF IsNumbered
<1>5. IsRanked'
    BY <1>1, <1>2 DEF IsRanked
<1>6. ASSUME NEW i \in Starts
      PROVE  IF (\E d \in Callers : Reporting(d) /\ caller[d].id = events[i].id)'
             THEN Ends(i)' = {}
             ELSE \E j \in DOMAIN events' : i < j /\ Ends(i)' = {j}
    <2>1. i \in DOMAIN events /\ events'[i] = events[i]
        BY <1>1, <1>2
    <2>2. CASE events[i].id = caller[c].id
        <3>1. Ends(i) = {}
            BY <2>2 DEF IsPaired
        <3>2. Ends(i)' = {n}
            BY <1>1, <1>2, <2>1, <2>2, <3>1 DEF Ends
        <3>3. ~(\E d \in Callers : Reporting(d) /\ caller[d].id = events[i].id)'
            BY <1>3, <2>1, <2>2 DEF IsNumbered
        <3> QED
            BY <1>1, <1>2, <2>1, <3>2, <3>3
    <2>3. CASE events[i].id # caller[c].id
        <3>1. Ends(i)' = Ends(i)
            BY <1>1, <1>2, <2>1, <2>3 DEF Ends
        <3>2. (\E d \in Callers : Reporting(d) /\ caller[d].id = events[i].id)'
                 <=> \E d \in Callers : Reporting(d) /\ caller[d].id = events[i].id
            BY <1>3, <2>1, <2>3
        <3> QED
            BY <1>2, <3>1, <3>2 DEF IsPaired
    <2> QED
        BY <2>2, <2>3
<1>7. IsPaired'
    BY <1>1, <1>6 DEF IsPaired
<1> QED
    BY <1>4, <1>5, <1>7

(* A step of one caller whose events name the backend it has.              *)
LEMMA ToldKeeps ==
    ASSUME IsTold, NEW c \in Callers, OthersStay(c),
           caller'[c].pc \in {"resolved", "inside"} => caller'[c].id = 0,
           caller'[c].pc = "computing" => (caller'[c].call.verbose <=> caller'[c].id # 0),
           \A i \in DOMAIN events' :
              \/ i \in DOMAIN events /\ events'[i] = events[i]
              \/ events'[i].caller = c /\ events'[i].backend = Named(c)',
           \A i \in DOMAIN events :
              caller'[c].pc # "idle" /\ events[i].caller = c /\ events[i].id = caller'[c].id
                 => events[i].backend = Named(c)'
    PROVE  IsTold'
<1>1. ASSUME NEW d \in Callers, d # c
      PROVE  caller'[d] = caller[d] /\ (d \in Busy' <=> d \in Busy) /\ Named(d)' = Named(d)
    BY <1>1 DEF OthersStay, Busy, Named, BackendOf
<1>2. Busy' \subseteq Callers /\ (c \in Busy' => caller'[c].pc # "idle")
    BY DEF Busy
<1>3. ASSUME NEW d \in Busy'
      PROVE  /\ caller'[d].pc \in {"resolved", "inside"} => caller'[d].id = 0
             /\ caller'[d].pc = "computing" => (caller'[d].call.verbose <=> caller'[d].id # 0)
    <2>1. CASE d = c
        BY <2>1
    <2>2. CASE d # c
        BY <1>1, <1>2, <2>2 DEF IsTold
    <2> QED
        BY <2>1, <2>2
<1>4. ASSUME NEW i \in DOMAIN events', NEW d \in Busy',
             events'[i].caller = d, events'[i].id = caller'[d].id
      PROVE  events'[i].backend = Named(d)'
    <2>1. CASE d = c
        BY <1>2, <1>4, <2>1
    <2>2. CASE d # c
        BY <1>1, <1>2, <1>4, <2>2 DEF IsTold
    <2> QED
        BY <2>1, <2>2
<1> QED
    BY <1>3, <1>4 DEF IsTold

(* A new caller has no number, and no event is of none.                    *)
LEMMA ResolveTells ==
    ASSUME IInv, EventsInv, NEW c \in Callers, NEW call \in Calls, Resolve(c, call)
    PROVE  EventsInv'
<1> DEFINE new == Prepared(call, Winners(call), Stream(call, Winners(call)))
<1>1. caller[c].pc = "idle" /\ UNCHANGED <<events, operation_id>>
    BY ResolveMoves
<1>2. CASE UNCHANGED caller
    <2>1. IsNumbered' /\ IsRanked' /\ IsPaired'
        BY <1>1, <1>2, SilenceKeeps DEF EventsInv, Reporting
    <2>2. IsTold'
        BY <1>1, <1>2 DEF EventsInv, IsTold, Named, BackendOf, Busy
    <2> QED
        BY <2>1, <2>2 DEF EventsInv
<1>3. CASE /\ caller'[c] = new
           /\ \A d \in Callers \ {c} :
                 /\ d \in Busy => /\ caller'[d].pc = caller[d].pc
                                  /\ caller'[d].call = caller[d].call
                                  /\ caller'[d].backend = caller[d].backend
                                  /\ caller'[d].custom = caller[d].custom
                                  /\ caller'[d].id = caller[d].id
                 /\ d \notin Busy => caller'[d].pc = "idle"
    <2>1. caller'[c].pc = "resolved" /\ caller'[c].id = 0
        BY <1>3 DEF Prepared
    <2>2. \A d \in Callers : /\ Reporting(d)' <=> Reporting(d)
                             /\ Reporting(d) => caller'[d].id = caller[d].id
        BY <1>1, <1>3, <2>1 DEF Reporting, Busy
    <2>3. IsNumbered' /\ IsRanked' /\ IsPaired'
        BY <1>1, <2>2, SilenceKeeps DEF EventsInv
    <2>4. ASSUME NEW d \in Busy', d # c
          PROVE  /\ d \in Busy /\ caller'[d].pc = caller[d].pc
                 /\ caller'[d].call = caller[d].call /\ caller'[d].id = caller[d].id
                 /\ Named(d)' = Named(d)
        BY <1>3, <2>4 DEF Busy, Named, BackendOf
    <2>5. \A i \in DOMAIN events : events[i].id # 0
        BY DEF EventsInv, IsNumbered
    <2>6. ASSUME NEW d \in Busy'
          PROVE  /\ caller'[d].pc \in {"resolved", "inside"} => caller'[d].id = 0
                 /\ caller'[d].pc = "computing" =>
                       (caller'[d].call.verbose <=> caller'[d].id # 0)
                 /\ \A i \in DOMAIN events :
                       events[i].caller = d /\ events[i].id = caller'[d].id
                          => events[i].backend = Named(d)'
        <3>1. CASE d = c
            BY <2>1, <2>5, <3>1
        <3>2. CASE d # c
            BY <2>4, <3>2 DEF EventsInv, IsTold
        <3> QED
            BY <3>1, <3>2
    <2>7. IsTold'
        BY <1>1, <2>6 DEF IsTold
    <2> QED
        BY <2>3, <2>7 DEF EventsInv
<1> QED
    BY <1>2, <1>3, ResolveMoves

(* A caller's own step that reports nothing.                               *)
LEMMA QuietStepTells ==
    ASSUME EventsInv, NEW c \in Callers, OthersStay(c), UNCHANGED <<events, operation_id>>,
           Reporting(c)' <=> Reporting(c),
           caller'[c].pc = "idle" \/ Settled(c) \/ caller'[c].id = 0,
           caller'[c].pc \in {"resolved", "inside"} => caller'[c].id = 0,
           caller'[c].pc = "computing" => (caller'[c].call.verbose <=> caller'[c].id # 0),
           c \in Busy
    PROVE  EventsInv'
<1>1. \A d \in Callers : /\ Reporting(d)' <=> Reporting(d)
                         /\ Reporting(d) => caller'[d].id = caller[d].id
    BY DEF OthersStay, Reporting, Settled
<1>2. IsNumbered' /\ IsRanked' /\ IsPaired'
    BY <1>1, SilenceKeeps DEF EventsInv
<1>3. \A i \in DOMAIN events : events[i].id # 0
    BY DEF EventsInv, IsNumbered
<1>4. Settled(c) => caller'[c].id = caller[c].id /\ Named(c)' = Named(c)
    BY DEF Settled, Kept, Named, BackendOf
<1>5. \A i \in DOMAIN events :
         caller'[c].pc # "idle" /\ events[i].caller = c /\ events[i].id = caller'[c].id
            => events[i].backend = Named(c)'
    BY <1>3, <1>4 DEF EventsInv, IsTold
<1>6. IsTold'
    BY <1>5, ToldKeeps DEF EventsInv
<1> QED
    BY <1>2, <1>6 DEF EventsInv

(* An event of a busy caller is well formed.                               *)
LEMMA EventIsEvent ==
    ASSUME IInv, NEW c \in Busy, NEW id \in Nat,
           NEW phase \in {"start", "error", "complete"}, NEW custom
    PROVE  /\ Event(id, phase, c, custom) \in Events
           /\ Event(id, phase, c, custom).id = id
           /\ Event(id, phase, c, custom).phase = phase
           /\ Event(id, phase, c, custom).caller = c
           /\ Event(id, phase, c, custom).backend = BackendOf(c, custom)
<1>1. c \in Callers /\ caller[c] \in BusyCallers
    BY DEF IInv, TypeInv, Busy, Idle
<1>2. BackendOf(c, custom) \in {"cpu", "portable_metal", "custom_metal"}
    BY <1>1 DEF BackendOf, BusyCallers
<1> QED
    BY <1>1, <1>2 DEF Event, Events

(* A computation that starts has a fresh number, or none.                  *)
LEMMA DecideTells ==
    ASSUME IInv, EventsInv, NEW c \in Callers, Decide(c)
    PROVE  EventsInv'
<1>1. /\ caller[c].pc = "inside" /\ Kept(c) /\ OthersStay(c) /\ c \in Busy
      /\ \/ /\ caller'[c].pc = "leaving" /\ Settled(c)
            /\ UNCHANGED <<events, operation_id>>
         \/ /\ caller'[c].pc = "computing"
            /\ \/ /\ caller[c].call.verbose /\ caller'[c].id = operation_id
                  /\ operation_id' = operation_id + 1
                  /\ events' = Append(events,
                        Event(operation_id, "start", c, caller'[c].custom))
               \/ /\ ~caller[c].call.verbose /\ caller'[c].id = 0
                  /\ UNCHANGED <<events, operation_id>>
    BY DecideMoves DEF Busy
<1>2. ~Reporting(c) /\ caller'[c].call = caller[c].call
    BY <1>1 DEF Reporting, Kept
<1>3. CASE caller'[c].pc = "leaving" /\ Settled(c) /\ UNCHANGED <<events, operation_id>>
    BY <1>1, <1>2, <1>3, QuietStepTells DEF Reporting
<1>4. CASE /\ caller'[c].pc = "computing" /\ ~caller[c].call.verbose
           /\ caller'[c].id = 0 /\ UNCHANGED <<events, operation_id>>
    BY <1>1, <1>2, <1>4, QuietStepTells DEF Reporting
<1>5. CASE /\ caller'[c].pc = "computing" /\ caller[c].call.verbose
           /\ caller'[c].id = operation_id /\ operation_id' = operation_id + 1
           /\ events' = Append(events, Event(operation_id, "start", c, caller'[c].custom))
    <2>1. PICK event : event = Event(operation_id, "start", c, caller'[c].custom)
        OBVIOUS
    <2>2. operation_id \in Nat \ {0}
        BY DEF EventsInv, IsNumbered
    <2>3. /\ event \in Events /\ event.id = operation_id /\ event.phase = "start"
          /\ event.caller = c /\ event.backend = BackendOf(c, caller'[c].custom)
        BY <1>1, <2>1, <2>2, EventIsEvent
    <2>4. Reporting(c)' /\ Named(c)' = BackendOf(c, caller'[c].custom)
        BY <1>1, <1>5, <2>2 DEF Reporting, Named, BackendOf, Kept
    <2>5. events' = Append(events, event) /\ IsNumbered /\ IsRanked /\ IsPaired /\ IsTold
        BY <1>5, <2>1 DEF EventsInv
    <2>6. IsNumbered' /\ IsRanked' /\ IsPaired'
        BY <1>1, <1>2, <1>5, <2>3, <2>4, <2>5, StartKeeps
    <2>7. \A i \in DOMAIN events' :
              \/ i \in DOMAIN events /\ events'[i] = events[i]
              \/ events'[i].caller = c /\ events'[i].backend = Named(c)'
        BY <2>3, <2>4, <2>5, Appended
    <2>8. \A i \in DOMAIN events : events[i].id # caller'[c].id
        BY <1>5, <2>2, <2>5 DEF IsNumbered
    <2>9. IsTold'
        BY <1>1, <1>2, <1>5, <2>2, <2>5, <2>7, <2>8, ToldKeeps
    <2> QED
        BY <2>6, <2>9 DEF EventsInv
<1> QED
    BY <1>1, <1>3, <1>4, <1>5

(* Only a computation that reported its start reports its end.             *)
LEMMA EndTells ==
    ASSUME IInv, EventsInv, NEW c \in Callers, End(c)
    PROVE  EventsInv'
<1>1. /\ caller[c].pc = "computing" /\ caller'[c].pc = "leaving"
      /\ Settled(c) /\ OthersStay(c) /\ UNCHANGED operation_id
      /\ \/ /\ caller[c].call.verbose
            /\ \E phase \in {"error", "complete"} :
                  events' = Append(events, Event(caller[c].id, phase, c, caller[c].custom))
         \/ ~caller[c].call.verbose /\ UNCHANGED events
    BY EndMoves
<1>2. c \in Busy /\ (caller[c].call.verbose <=> caller[c].id # 0)
    BY <1>1 DEF Busy, EventsInv, IsTold
<1>3. CASE ~caller[c].call.verbose /\ UNCHANGED events
    BY <1>1, <1>2, <1>3, QuietStepTells DEF Reporting
<1>4. ASSUME NEW phase \in {"error", "complete"}, caller[c].call.verbose,
             events' = Append(events, Event(caller[c].id, phase, c, caller[c].custom))
      PROVE  EventsInv'
    <2>1. PICK event : event = Event(caller[c].id, phase, c, caller[c].custom)
        OBVIOUS
    <2>2. Reporting(c) /\ ~Reporting(c)' /\ caller[c].id \in Nat
        <3>1. Reporting(c) /\ ~Reporting(c)'
            BY <1>1, <1>2, <1>4 DEF Reporting
        <3> QED
            BY <3>1 DEF EventsInv, IsNumbered
    <2>3. /\ event \in Events /\ event.id = caller[c].id /\ event.phase = phase
          /\ event.caller = c /\ event.backend = Named(c)
        BY <1>2, <2>1, <2>2, EventIsEvent DEF Named
    <2>4. Named(c)' = Named(c) /\ caller'[c].id = caller[c].id
        BY <1>1 DEF Settled, Kept, Named, BackendOf
    <2>5. events' = Append(events, event) /\ IsNumbered /\ IsRanked /\ IsPaired /\ IsTold
        BY <1>4, <2>1 DEF EventsInv
    <2>6. IsNumbered' /\ IsRanked' /\ IsPaired'
        BY <1>1, <1>4, <2>2, <2>3, <2>5, EndPairs
    <2>7. \A i \in DOMAIN events' :
              \/ i \in DOMAIN events /\ events'[i] = events[i]
              \/ events'[i].caller = c /\ events'[i].backend = Named(c)'
        BY <2>3, <2>4, <2>5, Appended
    <2>8. \A i \in DOMAIN events :
             events[i].caller = c /\ events[i].id = caller'[c].id
                => events[i].backend = Named(c)'
        BY <1>2, <2>4, <2>5 DEF IsTold
    <2>9. IsTold'
        BY <1>1, <2>5, <2>7, <2>8, ToldKeeps
    <2> QED
        BY <2>6, <2>9 DEF EventsInv
<1> QED
    BY <1>1, <1>3, <1>4

(* Every step keeps the events numbered, ranked, paired and true.          *)
LEMMA EventsInductive == IInv /\ EventsInv /\ [Next]_vars => EventsInv'
<1>1. ASSUME IInv, EventsInv, UNCHANGED vars PROVE EventsInv'
    <2>1. UNCHANGED <<caller, events, operation_id>>
        BY <1>1 DEF vars
    <2>2. IsNumbered' /\ IsRanked' /\ IsPaired'
        BY <1>1, <2>1, SilenceKeeps DEF EventsInv, Reporting
    <2>3. IsTold'
        BY <1>1, <2>1 DEF EventsInv, IsTold, Named, BackendOf, Busy
    <2> QED
        BY <2>2, <2>3 DEF EventsInv
<1>2. ASSUME IInv, EventsInv, NEW c \in Callers, Enter(c) PROVE EventsInv'
    <2>1. /\ caller[c].pc = "resolved" /\ caller'[c].pc = "inside" /\ Settled(c)
          /\ OthersStay(c) /\ UNCHANGED <<events, operation_id>> /\ c \in Busy
        BY <1>2, EnterMoves DEF Busy
    <2>2. caller'[c].id = 0
        BY <1>2, <2>1 DEF EventsInv, IsTold, Settled
    <2> QED
        BY <1>2, <2>1, <2>2, QuietStepTells DEF Reporting
<1>3. ASSUME IInv, EventsInv, NEW c \in Callers, Compute(c) PROVE EventsInv'
    <2>1. /\ caller[c].pc = "computing" /\ caller'[c].pc = "computing" /\ Settled(c)
          /\ OthersStay(c) /\ UNCHANGED <<events, operation_id>> /\ c \in Busy
        BY <1>3, ComputeMoves DEF Busy
    <2>2. caller'[c].call.verbose <=> caller'[c].id # 0
        BY <1>3, <2>1 DEF EventsInv, IsTold, Settled, Kept
    <2>3. Reporting(c)' <=> Reporting(c)
        BY <2>1 DEF Reporting, Settled
    <2> QED
        BY <1>3, <2>1, <2>2, <2>3, QuietStepTells
<1>4. ASSUME IInv, EventsInv, NEW c \in Callers, Leave(c) PROVE EventsInv'
    <2>1. /\ caller[c].pc = "leaving" /\ caller'[c].pc = "idle"
          /\ OthersStay(c) /\ UNCHANGED <<events, operation_id>> /\ c \in Busy
        BY <1>4, LeaveMoves DEF Busy
    <2> QED
        BY <1>4, <2>1, QuietStepTells DEF Reporting
<1> QED
    BY <1>1, <1>2, <1>3, <1>4, ResolveTells, DecideTells, EndTells DEF Next

(* At first there is no event.                                             *)
LEMMA EventsInitially == Init => EventsInv
<1> SUFFICES ASSUME Init PROVE EventsInv
    OBVIOUS
<1>1. events = <<>> /\ operation_id = 1 /\ \A c \in Callers : caller[c].pc = "idle"
    BY DEF Init, Idle
<1>2. Starts = {} /\ DOMAIN events = {} /\ Busy = {}
    BY <1>1 DEF Starts, Busy
<1>3. IsFiniteSet(Starts) /\ Cardinality(Starts) = 0
    BY <1>2, FS_EmptySet
<1> QED
    BY <1>1, <1>2, <1>3 DEF EventsInv, IsNumbered, IsRanked, IsPaired, IsTold, Reporting

(* An only caller's events name what it uses, and it runs where it was     *)
(* promised.                                                               *)
LEMMA ReportsFollow == IInv /\ DispatchInv /\ EventsInv => ReportsAreHonest
<1> SUFFICES ASSUME IInv, DispatchInv, EventsInv, ~nested, NEW i \in DOMAIN events,
                    NEW c, c = events[i].caller, c \in Busy, caller[c].id = events[i].id,
                    caller[c].alone
             PROVE  /\ (events[i].backend = "custom_metal") = caller[c].custom
                    /\ caller[c].ran \subseteq {IF events[i].backend = "cpu" THEN "cpu" ELSE "gpu"}
    BY DEF ReportsAreHonest
<1>1. caller[c] \in BusyCallers /\ nested = FALSE
    BY DEF IInv, TypeInv, Busy, Idle
<1>2. WellPrepared(c) /\ HasDevice(c)
    BY <1>1 DEF DispatchInv
<1>3. events[i].backend = IF caller[c].custom THEN "custom_metal" ELSE caller[c].backend
    BY DEF EventsInv, IsTold, Named, BackendOf
<1>4. Target(c) \in Devices /\ caller[c].custom \in BOOLEAN
    BY <1>1 DEF IInv, TypeInv, BusyCallers, Devices, Target
<1>5. (events[i].backend = "custom_metal") = caller[c].custom
    BY <1>1, <1>3, <1>4 DEF BusyCallers
<1>6. Target(c) = IF events[i].backend = "cpu" THEN "cpu" ELSE "gpu"
    BY <1>2, <1>3, <1>4 DEF WellPrepared, HasDevice, Devices
<1> QED
    BY <1>2, <1>5, <1>6 DEF HasDevice

(* Events that are ranked and paired pair up.                              *)
LEMMA EventsFollow == EventsInv => EventsPairUp
<1> SUFFICES ASSUME EventsInv PROVE EventsPairUp
    OBVIOUS
<1>1. \A i \in Starts : events[i].id = Cardinality({j \in Starts : j <= i})
    BY DEF EventsInv, IsRanked
<1>2. ASSUME NEW i \in Starts
      PROVE  IF \E c \in Busy : caller[c].pc = "computing" /\ caller[c].id = events[i].id
             THEN Ends(i) = {}
             ELSE Cardinality(Ends(i)) = 1 /\ \A j \in Ends(i) : i < j
    <2>1. events[i].id # 0
        BY DEF EventsInv, IsNumbered, Starts
    <2>2. (\E c \in Busy : caller[c].pc = "computing" /\ caller[c].id = events[i].id)
             <=> \E d \in Callers : Reporting(d) /\ caller[d].id = events[i].id
        BY <2>1 DEF Busy, Reporting
    <2>3. CASE \E d \in Callers : Reporting(d) /\ caller[d].id = events[i].id
        BY <2>2, <2>3 DEF EventsInv, IsPaired
    <2>4. ASSUME ~(\E d \in Callers : Reporting(d) /\ caller[d].id = events[i].id),
                 NEW j \in DOMAIN events, i < j, Ends(i) = {j}
          PROVE  Cardinality(Ends(i)) = 1 /\ \A k \in Ends(i) : i < k
        BY <2>4, FS_Singleton
    <2> QED
        BY <2>2, <2>3, <2>4 DEF EventsInv, IsPaired
<1> QED
    BY <1>1, <1>2 DEF EventsPairUp, Starts, Ends

(* core.py, ExecutionReport and the verbose reporting: of a call that no   *)
(* other overlaps, the backend that was reported is the one that computes, *)
(* after every fallback.                                                   *)
THEOREM ReportsAreTrue == Spec => []ReportsAreHonest
BY Initially, Inductive, DispatchInitially, DispatchInductive, EventsInitially,
   EventsInductive, ReportsFollow, PTL DEF Spec

(* core.py, _execute_with_reporting: however calls overlap and fail,       *)
(* operations are numbered in the order of their start events, and each    *)
(* that is over has one event of its end, after that of its start.         *)
THEOREM EventsAreComplete == Spec => []EventsPairUp
BY Initially, Inductive, EventsInitially, EventsInductive, EventsFollow, PTL DEF Spec
=============================================================================
