------------------------ MODULE DiagonalKernelsProofs ------------------------
(***************************************************************************)
(* For every join, word width and batch size, and however the threads of a *)
(* launch meet: the profiles and summaries of the diagonal kernels are     *)
(* those of the portable reducers, and no sum has lost an addend.          *)
(***************************************************************************)
EXTENDS DiagonalKernels, FiniteSetTheorems, WellFoundedInduction, TLAPS

----------------------------------------------------------------------------
(* Numbers.                                                                *)

(* A set of numbers that has any has a least.                              *)
LEMMA LeastNumber ==
    ASSUME NEW T, T \subseteq Nat, T # {}
    PROVE  \E n \in T : \A m \in T : n <= m
<1> DEFINE R == OpToRel(<, Nat)
<1>1. IsWellFoundedOn(R, Nat)
    BY NatLessThanWellFounded
<1>2. \A m, n \in Nat : <<m, n>> \in R <=> m < n
    BY DEF OpToRel
<1> HIDE DEF R
<1>3. PICK n \in T : \A m \in T : ~ (<<m, n>> \in R)
    BY <1>1, WFMin
<1>4. \A m \in T : m \in Nat /\ n \in Nat /\ ~(m < n)
    BY <1>2, <1>3
<1>5. \A m \in T : n <= m
    BY <1>4
<1> QED
    BY <1>5

(* The minimum of the community module is the least.                       *)
LEMMA MinIsLeast ==
    ASSUME NEW T, T \subseteq Nat, T # {}
    PROVE  Min(T) \in T /\ \A n \in T : Min(T) <= n
<1>1. \E x \in T : \A y \in T : x <= y
    BY LeastNumber
<1> QED
    BY <1>1 DEF Min

(* a greatest.                                                             *)
LEMMA MaxIsGreatest ==
    ASSUME NEW T, T \subseteq Int, T # {}, NEW b \in Int, \A x \in T : x <= b
    PROVE  Max(T) \in T /\ \A x \in T : x <= Max(T)
<1> DEFINE D == {b - x : x \in T}
<1>1. D \subseteq Nat /\ D # {}
    <2>1. ASSUME NEW x \in T PROVE b - x \in Nat
        <3>1. x \in Int /\ x <= b
            OBVIOUS
        <3> QED
            BY <3>1
    <2> QED
        BY <2>1
<1>2. PICK d \in D : \A e \in D : d <= e
    BY <1>1, LeastNumber
<1>3. PICK m \in T : d = b - m
    BY <1>2
<1>4. ASSUME NEW x \in T PROVE m >= x
    <2>1. b - m <= b - x
        BY <1>2, <1>3
    <2>2. m \in Int /\ x \in Int
        OBVIOUS
    <2> QED
        BY <2>1, <2>2
<1>5. \E x \in T : \A y \in T : x >= y
    BY <1>4
<1>6. Max(T) \in T /\ \A y \in T : Max(T) >= y
    BY <1>5 DEF Max
<1> QED
    BY <1>6

(* An element that no other exceeds is the maximum.                        *)
LEMMA MaxIsUnique ==
    ASSUME NEW T, T \subseteq Int, NEW m \in T, \A x \in T : x <= m
    PROVE  Max(T) = m
<1>1. Max(T) \in T /\ m <= Max(T)
    BY MaxIsGreatest
<1>2. Max(T) <= m /\ Max(T) \in Int /\ m \in Int
    BY <1>1
<1>3. \A a, b \in Int : a <= b /\ b <= a => a = b
    OBVIOUS
<1> QED
    BY <1>1, <1>2, <1>3

(* Division with a remainder.                                              *)
LEMMA Division ==
    ASSUME NEW x \in Nat, NEW s \in Nat \ {0}
    PROVE  \E q \in Nat, t \in Nat : q = x \div s /\ x = s * q + t /\ t < s
<1>1. x = s * (x \div s) + (x % s)
    OBVIOUS
<1>2. x \div s \in Nat
    BY Z3
<1>3. x % s \in Nat /\ x % s < s
    BY Z3
<1> QED
    BY <1>1, <1>2, <1>3

(* Multiplication is monotone.                                             *)
LEMMA MoreTimes ==
    ASSUME NEW a \in Nat, NEW b \in Nat, NEW s \in Nat, a <= b
    PROVE  s * a <= s * b /\ s * a \in Nat /\ s * b \in Nat
<1>1. PICK d \in Nat : b = a + d
    <2>1. b - a \in Nat /\ b = a + (b - a)
        OBVIOUS
    <2> QED
        BY <2>1
<1>2. s * b = s * a + s * d /\ s * a \in Nat /\ s * d \in Nat
    BY <1>1
<1> QED
    BY <1>2

(* The rounding up of an edge: a position is at or beyond it exactly when  *)
(* it is so before the edge is rounded.                                    *)
LEMMA EdgeIsBelow ==
    ASSUME NEW i \in Nat, NEW n \in Nat, NEW count \in Nat \ {0}, NEW r \in Nat
    PROVE  Edge(i, n, count) <= r <=> i * n <= r * count
<1>1. PICK x \in Nat : x = i * n
    BY DEF Edge
<1>2. x + count - 1 \in Nat
    OBVIOUS
<1>3. PICK q \in Nat, t \in Nat : q = (x + count - 1) \div count
          /\ x + count - 1 = count * q + t /\ t < count
    BY <1>2, Division
<1>4. Edge(i, n, count) = q
    BY <1>1, <1>3 DEF Edge
<1>5. count * q \in Nat /\ count * r \in Nat /\ r * count = count * r
    OBVIOUS
<1>6. CASE q <= r
    <2>1. count * q <= count * r
        BY <1>6, MoreTimes
    <2>2. x <= count * r
        BY <1>3, <1>5, <2>1
    <2> QED
        BY <1>1, <1>4, <1>5, <1>6, <2>2
<1>7. CASE ~(q <= r)
    <2>1. r + 1 <= q /\ r + 1 \in Nat
        BY <1>7
    <2>2. count * (r + 1) <= count * q
        BY <2>1, MoreTimes
    <2>3. count * (r + 1) = count * r + count
        OBVIOUS
    <2>4. x > count * r
        BY <1>3, <1>5, <2>2, <2>3
    <2> QED
        BY <1>1, <1>4, <1>5, <1>7, <2>4
<1> QED
    BY <1>6, <1>7

(* Between the edges of a bin are the positions that division puts there.  *)
LEMMA BetweenEdges ==
    ASSUME NEW n \in Nat \ {0}, NEW count \in Nat \ {0}, NEW i \in Nat, NEW r \in Nat
    PROVE  Edge(i, n, count) <= r /\ r < Edge(i + 1, n, count) <=> (r * count) \div n = i
<1>1. PICK y \in Nat : y = r * count
    OBVIOUS
<1>2. PICK k \in Nat, t \in Nat : k = y \div n /\ y = n * k + t /\ t < n
    BY Division
<1>3. Edge(i, n, count) <= r <=> i * n <= y
    BY <1>1, EdgeIsBelow
<1>4. r < Edge(i + 1, n, count) <=> ~((i + 1) * n <= y)
    <2>1. i + 1 \in Nat
        OBVIOUS
    <2>2. Edge(i + 1, n, count) <= r <=> (i + 1) * n <= y
        BY <1>1, <2>1, EdgeIsBelow
    <2>3. Edge(i + 1, n, count) \in Nat
        <3>1. PICK x \in Nat : x = (i + 1) * n
            BY <2>1
        <3>2. x + count - 1 \in Nat
            OBVIOUS
        <3>3. (x + count - 1) \div count \in Nat
            BY <3>2, Division
        <3> QED
            BY <3>1, <3>3 DEF Edge
    <2>4. PICK e \in Nat : e = Edge(i + 1, n, count)
        BY <2>3
    <2>5. r < e <=> ~(e <= r)
        OBVIOUS
    <2> QED
        BY <2>2, <2>4, <2>5
<1>5. i * n = n * i /\ (i + 1) * n = n * i + n /\ n * i \in Nat /\ n * k \in Nat
    OBVIOUS
<1>6. CASE k = i
    BY <1>1, <1>2, <1>3, <1>4, <1>5, <1>6
<1>7. CASE k < i
    <2>1. k + 1 \in Nat /\ k + 1 <= i
        BY <1>7
    <2>2. n * (k + 1) <= n * i
        BY <2>1, MoreTimes
    <2>3. n * (k + 1) = n * k + n
        OBVIOUS
    <2>4. ~(i * n <= y)
        BY <1>2, <1>5, <2>2, <2>3
    <2> QED
        BY <1>1, <1>2, <1>3, <1>7, <2>4
<1>8. CASE i < k
    <2>1. i + 1 \in Nat /\ i + 1 <= k
        BY <1>8
    <2>2. n * (i + 1) <= n * k
        BY <2>1, MoreTimes
    <2>3. n * (i + 1) = n * i + n
        OBVIOUS
    <2>4. (i + 1) * n <= y
        BY <1>2, <1>5, <2>2, <2>3
    <2> QED
        BY <1>1, <1>2, <1>4, <1>8, <2>4
<1> QED
    BY <1>6, <1>7, <1>8

(* What remains is what division leaves, whatever the sign.                *)
LEMMA Remainder ==
    ASSUME NEW M \in Nat \ {0}, NEW x \in Int, NEW k \in Int, NEW t \in 0 .. M - 1,
           x = M * k + t
    PROVE  x % M = t
<1>1. x = M * (x \div M) + (x % M)
    OBVIOUS
<1>2. x \div M \in Int
    BY Z3
<1>3. (x % M) \in 0 .. M - 1
    BY Z3
<1>4. PICK q \in Int, r \in 0 .. M - 1 : q = x \div M /\ r = (x % M)
    BY <1>2, <1>3
<1>5. PICK d \in Int : d = q - k
    OBVIOUS
<1>6. M * d = t - r
    <2>1. M * q = M * k + M * d /\ M * q \in Int /\ M * k \in Int
        BY <1>5
    <2> QED
        BY <1>1, <1>4, <2>1
<1>7. d = 0
    <2>1. ASSUME d >= 1 PROVE FALSE
        <3>1. PICK e \in Nat : d = 1 + e
            <4>1. d - 1 \in Nat /\ d = 1 + (d - 1)
                BY <2>1
            <4> QED
                BY <4>1
        <3>2. M * d = M + M * e /\ M * e \in Nat
            BY <3>1
        <3> QED
            BY <1>6, <3>2
    <2>2. ASSUME d <= -1 PROVE FALSE
        <3>1. PICK e \in Nat : d = -1 - e
            <4>1. -1 - d \in Nat /\ d = -1 - (-1 - d)
                BY <2>2
            <4> QED
                BY <4>1
        <3>2. M * d = -M - M * e /\ M * e \in Nat
            BY <3>1
        <3> QED
            BY <1>6, <3>2
    <2> QED
        BY <2>1, <2>2
<1> QED
    BY <1>4, <1>6, <1>7

----------------------------------------------------------------------------
(* The words.                                                              *)

(* A number in range is itself as a word; a difference in range survives   *)
(* the overflow of the number it is taken from.                            *)
LEMMA Words ==
    /\ UIntMax = 2 * Sign - 1 /\ IntMax = Sign - 1 /\ Sign \in Nat \ {0}
    /\ \A x \in 0 .. UIntMax : U(x) = x
    /\ \A x \in (-Sign) .. IntMax : I(x) = x
    /\ \A x \in 0 .. UIntMax, y \in 0 .. IntMax : x - y <= IntMax => I(I(x) - I(y)) = x - y
<1> DEFINE M == 2^Width
           S == Sign
<1>1. M = 2 * S /\ S \in Nat \ {0} /\ M \in Nat \ {0}
    BY PowerAssumption
<1>2. UIntMax = M - 1 /\ IntMax = S - 1
    BY DEF UIntMax, IntMax
<1>3. \A x \in Int : U(x) = x % M
    BY DEF U
<1>3a. \A x \in Int : I(x) = IF U(x) < S THEN U(x) ELSE U(x) - M
    BY DEF I
<1> HIDE DEF M, S
<1>4. ASSUME NEW x \in 0 .. M - 1 PROVE U(x) = x
    <2>1. x = M * 0 + x /\ x \in Int
        BY <1>1
    <2>2. x % M = x
        BY <1>1, <2>1, Remainder
    <2> QED
        BY <1>3, <2>1, <2>2
<1>5. ASSUME NEW x \in (-M) .. -1 PROVE U(x) = x + M
    <2>1. x = M * (-1) + (x + M) /\ x + M \in 0 .. M - 1 /\ x \in Int
        BY <1>1
    <2>2. x % M = x + M
        BY <1>1, <2>1, Remainder
    <2> QED
        BY <1>3, <2>1, <2>2
<1>6. ASSUME NEW x \in (-S) .. S - 1 PROVE I(x) = x
    <2>1. CASE x >= 0
        <3>1. x \in 0 .. M - 1
            BY <1>1, <2>1
        <3>2. U(x) = x
            BY <1>4, <3>1
        <3> QED
            BY <1>1, <1>3a, <3>2
    <2>2. CASE x < 0
        <3>1. x \in (-M) .. -1
            BY <1>1, <2>2
        <3>2. U(x) = x + M
            BY <1>5, <3>1
        <3> QED
            BY <1>1, <1>3a, <2>2, <3>2
    <2> QED
        BY <2>1, <2>2
<1>7. ASSUME NEW x \in 0 .. M - 1, NEW y \in 0 .. S - 1, x - y <= S - 1
      PROVE  I(I(x) - I(y)) = x - y
    <2>1. I(y) = y
        BY <1>1, <1>6
    <2>2. CASE x < S
        <3>1. I(x) = x /\ x - y \in (-S) .. S - 1
            BY <1>1, <1>6, <2>2
        <3> QED
            BY <1>6, <2>1, <3>1
    <2>3. CASE x >= S
        <3>0. U(x) = x /\ x \in Int
            BY <1>1, <1>4
        <3>1. I(x) = x - M
            BY <1>1, <1>3a, <2>3, <3>0
        <3>2. PICK z \in Int, t \in 0 .. M - 1 : z = I(x) - I(y) /\ t = x - y /\ t < S
            BY <1>1, <1>7, <2>1, <2>3, <3>1
        <3>3. z = M * (-1) + t
            BY <1>1, <2>1, <3>1, <3>2
        <3>4. z % M = t
            <4>1. M \in Nat \ {0} /\ -1 \in Int
                BY <1>1
            <4> QED
                BY <3>2, <3>3, <4>1, Remainder
        <3>4a. U(z) = t
            BY <1>3, <3>2, <3>4
        <3>5. I(z) = t
            BY <1>3a, <3>2, <3>4a
        <3> QED
            BY <3>2, <3>5
    <2> QED
        BY <1>1, <2>2, <2>3
<1>8. \A x \in 0 .. M - 1 : U(x) = x
    BY <1>4
<1> QED
    BY <1>1, <1>2, <1>6, <1>7, <1>8 DEF S

(* Keys are in the order of the values, and decode to them.                *)
LEMMA KeysAreOrdered ==
    ASSUME NEW a \in Patterns, NEW b \in Patterns
    PROVE  /\ Value(a) \in Int /\ OrderedKey(a) \in Nat
           /\ Value(Decoded(OrderedKey(a))) = Value(a)
           /\ OrderedKey(a) <= OrderedKey(b) <=> Value(a) <= Value(b)
           /\ OrderedKey(a) = OrderedKey(b) <=> Value(a) = Value(b)
<1> DEFINE M == 2^Width
           S == Sign
<1>1. M = 2 * S /\ S \in Nat \ {0} /\ M \in Nat
    BY PowerAssumption
<1>2. a \in 0 .. M - 1 /\ a # S /\ b \in 0 .. M - 1 /\ b # S
    BY DEF Patterns, UIntMax
<1>3. \A x \in Int : /\ Value(x) = IF x < S THEN x ELSE S - x
                     /\ OrderedKey(x) = IF x < S THEN x + S ELSE M - 1 - x
                     /\ Decoded(x) = IF x >= S THEN x - S ELSE M - 1 - x
    BY DEF Value, OrderedKey, Decoded
<1> HIDE DEF M, S
<1>4. /\ Value(a) = IF a < S THEN a ELSE S - a
      /\ Value(b) = IF b < S THEN b ELSE S - b
      /\ OrderedKey(a) = IF a < S THEN a + S ELSE M - 1 - a
      /\ OrderedKey(b) = IF b < S THEN b + S ELSE M - 1 - b
    BY <1>2, <1>3
<1>5. Decoded(OrderedKey(a)) = a
    BY <1>1, <1>2, <1>3, <1>4
<1> QED
    BY <1>1, <1>2, <1>4, <1>5

----------------------------------------------------------------------------
(* The invariant.                                                          *)

(* The joins whose coordinates fit a word.                                 *)
Fits(j) ==
    j.n_a <= Sign /\ j.n_b <= Sign /\ j.exclusion <= IntMax
    /\ (j.kind = "matrix" => j.rows * j.cols <= UIntMax)

Rows(j) == 0 .. j.n_b - 1
Columns(j) == 0 .. j.n_a - 1
Ways(j) == IF j.kind # "matrix" /\ (j.self \/ j.kind = "bidirectional") THEN 1 .. 2 ELSE 1 .. 1
Diagonals(j) == IF j.self THEN j.n_a - j.exclusion ELSE j.n_a + j.n_b - 1

(* The cells whose correlations count, however the threads reach them.     *)
InJoin(j, r, c) ==
    (j.self => r <= c) /\ Distance(r, c) >= j.exclusion

Matters(j, r, c) ==
    /\ InJoin(j, r, c) /\ j.corr[<<r, c>>] # Invalid
    /\ j.kind = "sum" => Value(j.corr[<<r, c>>]) > j.threshold

Key(j, r, c) == OrderedKey(j.corr[<<r, c>>])

(* The diagonal of a cell, and the step that reaches it.                   *)
SlotOf(j, r, c) == IF j.self THEN c - r - j.exclusion ELSE j.n_a - 1 - c + r
StepOf(r, c) == IF r < c THEN r ELSE c

(* The cell of a diagonal's step, and the diagonal's length.               *)
RowAt(j, slot, step) ==
    step + (IF ~j.self /\ slot > j.n_a - 1 THEN slot - (j.n_a - 1) ELSE 0)

ColAt(j, slot, step) ==
    step + (IF j.self THEN j.exclusion + slot
            ELSE IF slot < j.n_a - 1 THEN j.n_a - 1 - slot ELSE 0)

LengthAt(j, slot) ==
    LET down == j.n_b - RowAt(j, slot, 0)
        right == j.n_a - ColAt(j, slot, 0)
    IN  IF down < right THEN down ELSE right

(* The bin of a position, and where a cell is written.                     *)
BinOf(x, n, bins) == (x * bins) \div n

TargetAt(j, r, c, e) ==
    IF j.kind = "matrix"
    THEN <<"m", BinOf(r, j.n_b, j.rows) * j.cols + BinOf(c, j.n_a, j.cols)>>
    ELSE IF e = 1 THEN <<"a", c>> ELSE <<IF j.self THEN "a" ELSE "b", r>>

OtherAt(r, c, e) == IF e = 1 THEN r ELSE c

(* What the launch has written of a cell: all of earlier batches and of    *)
(* the steps before a thread's own, and of that step the ends before.      *)
Written(r, c, e) ==
    LET slot == SlotOf(job, r, c)
        step == StepOf(r, c)
    IN  \/ phase = "done" \/ slot < first
        \/ /\ slot \in DOMAIN threads
           /\ \/ step < threads[slot].step
              \/ step = threads[slot].step /\ e < threads[slot].end

LaunchInv ==
    /\ job \in Jobs
    /\ phase \in {"launch", "profile", "index", "done", "refused"}
    /\ phase \in {"profile", "index", "done"} => Fits(job)
    /\ phase = "index" => Indexed
    /\ DOMAIN threads =
          IF phase \notin {"profile", "index"} THEN {}
          ELSE IF job.kind = "sum"
          THEN first .. Min({first + BatchSize, Diagonals(job)}) - 1
          ELSE 0 .. Diagonals(job) - 1
    /\ first \in Nat /\ (job.kind # "sum" \/ phase = "launch" => first = 0)
    /\ phase \in {"profile", "index"} => first < Diagonals(job)

Held == {Nothing} \cup {<<v>> : v \in Int}

ThreadInv ==
    \A slot \in DOMAIN threads :
        LET t == threads[slot]
        IN  /\ t \in [step : 0 .. LengthAt(job, slot), end : Ways(job), held : Held]
            /\ t.step < LengthAt(job, slot) =>
                  Matters(job, RowAt(job, slot, t.step), ColAt(job, slot, t.step))

ArrayInv ==
    /\ best \in [Positions -> Int] /\ index \in [Positions -> Nat \cup {Nothing}]
    /\ sums \in [Positions -> Int] /\ result \in [Positions -> Int]

MaximaRecorded ==
    \A r \in Rows(job), c \in Columns(job), e \in Ways(job) :
        job.kind # "sum" /\ Matters(job, r, c) /\ (phase = "index" \/ Written(r, c, e)) =>
            Key(job, r, c) <= best[TargetAt(job, r, c, e)]

MaximaFound ==
    \A p \in Positions :
        \/ best[p] = OrderedKey(Minus2)
        \/ \E r \in Rows(job), c \in Columns(job), e \in Ways(job) :
              Matters(job, r, c) /\ TargetAt(job, r, c, e) = p /\ best[p] = Key(job, r, c)

IndicesRecorded ==
    \A r \in Rows(job), c \in Columns(job), e \in Ways(job) :
        LET p == TargetAt(job, r, c, e)
        IN  /\ phase \in {"index", "done"} /\ Indexed /\ Matters(job, r, c)
            /\ Written(r, c, e) /\ best[p] = Key(job, r, c)
            => index[p] # Nothing /\ index[p] <= OtherAt(r, c, e)

IndicesFound ==
    \A p \in Positions :
        \/ index[p] = Nothing
        \/ /\ phase \in {"index", "done"}
           /\ \E r \in Rows(job), c \in Columns(job), e \in Ways(job) :
                 /\ Matters(job, r, c) /\ TargetAt(job, r, c, e) = p
                 /\ best[p] = Key(job, r, c) /\ index[p] = OtherAt(r, c, e)

(* The cell, and the way to write it, that brings a position the value of  *)
(* another: in a self-join a later one comes by the row.                   *)
Swapped(j, p, o) == p[1] = "b" \/ (j.self /\ o > p[2])
RowOf(j, p, o) == IF Swapped(j, p, o) THEN p[2] ELSE o
ColOf(j, p, o) == IF Swapped(j, p, o) THEN o ELSE p[2]
WayOf(j, p, o) == IF Swapped(j, p, o) THEN 2 ELSE 1
OthersOf(j, p) == IF p[1] = "a" THEN Rows(j) ELSE Columns(j)
BitsOf(j, p, o) == j.corr[<<RowOf(j, p, o), ColOf(j, p, o)>>]

Summands(j, p) ==
    {<<BitsOf(j, p, o), o>> :
        o \in {q \in OthersOf(j, p) : Matters(j, RowOf(j, p, q), ColOf(j, p, q))}}

WrittenOf(p, o) == Written(RowOf(job, p, o), ColOf(job, p, o), WayOf(job, p, o))

SumsAddUp ==
    job.kind = "sum" =>
        \A p \in Profiled :
            /\ result[p] + sums[p] = SumOf({x \in Summands(job, p) : WrittenOf(p, x[2])})
            /\ phase # "profile" => sums[p] = 0

IInv ==
    /\ LaunchInv /\ ThreadInv /\ ArrayInv
    /\ MaximaRecorded /\ MaximaFound /\ IndicesRecorded /\ IndicesFound
    /\ SumsAddUp

----------------------------------------------------------------------------
(* Where a thread goes.                                                    *)

(* What is assumed of a job, part by part.                                 *)
LEMMA JobFacts ==
    ASSUME NEW j \in Jobs
    PROVE  /\ j.n_a \in Nat \ {0} /\ j.n_b \in Nat \ {0} /\ j.exclusion \in Nat
           /\ j.rows \in Nat \ {0} /\ j.cols \in Nat \ {0} /\ j.threshold \in Int
           /\ j.self \in BOOLEAN
           /\ j.self => j.n_a = j.n_b /\ j.exclusion > 0 /\ j.kind # "bidirectional"
           /\ j.kind \in {"1nn", "1nn_value", "bidirectional", "sum", "matrix"}
           /\ j.kind # "matrix" => Fits(j)
           /\ j.kind = "matrix" => j.rows <= j.n_b /\ j.cols <= j.n_a
           /\ \A r \in Rows(j), c \in Columns(j) :
                 j.corr[<<r, c>>] # Invalid =>
                    j.corr[<<r, c>>] \in Patterns /\ Value(j.corr[<<r, c>>]) > Value(Minus2)
<1>1. /\ j.n_a \in Nat \ {0} /\ j.n_b \in Nat \ {0} /\ j.exclusion \in Nat
      /\ j.rows \in Nat \ {0} /\ j.cols \in Nat \ {0} /\ j.threshold \in Int
      /\ j.self \in BOOLEAN
      /\ j.self => j.n_a = j.n_b /\ j.exclusion > 0 /\ j.kind # "bidirectional"
      /\ j.kind \in {"1nn", "1nn_value", "bidirectional", "sum", "matrix"}
      /\ j.kind = "matrix" => j.rows <= j.n_b /\ j.cols <= j.n_a
    BY JobsAssumption
<1>2. j.kind # "matrix" => Fits(j)
    BY JobsAssumption DEF Fits
<1>3. j.corr \in [(0 .. j.n_b - 1) \X (0 .. j.n_a - 1) ->
                    {Invalid} \cup {b \in Patterns : Value(b) > Value(Minus2)}]
    BY JobsAssumption
<1>4. ASSUME NEW r \in Rows(j), NEW c \in Columns(j), j.corr[<<r, c>>] # Invalid
      PROVE  j.corr[<<r, c>>] \in Patterns /\ Value(j.corr[<<r, c>>]) > Value(Minus2)
    <2>1. <<r, c>> \in (0 .. j.n_b - 1) \X (0 .. j.n_a - 1)
        BY DEF Rows, Columns
    <2> QED
        BY <1>3, <1>4, <2>1
<1> QED
    BY <1>1, <1>2, <1>4

(* A slot starts at the edge of the join, though the difference that gives *)
(* its diagonal may overflow; and its diagonal ends at the edge.           *)
LEMMA Starts ==
    ASSUME job \in Jobs, Fits(job), NEW slot \in 0 .. Diagonals(job) - 1
    PROVE  /\ Start(slot).row = RowAt(job, slot, 0) /\ RowAt(job, slot, 0) \in Rows(job)
           /\ Start(slot).col = ColAt(job, slot, 0) /\ ColAt(job, slot, 0) \in Columns(job)
           /\ DiagonalLength(slot) = LengthAt(job, slot) /\ LengthAt(job, slot) \in Nat \ {0}
<1>1. PICK a \in Nat \ {0}, b \in Nat \ {0}, x \in Nat, S \in Nat \ {0} :
         /\ a = job.n_a /\ b = job.n_b /\ x = job.exclusion /\ S = Sign
         /\ a <= S /\ b <= S /\ (job.self => a = b /\ x > 0)
    BY JobFacts, PowerAssumption DEF Fits
<1>2. /\ UIntMax = 2 * S - 1 /\ IntMax = S - 1 /\ \A y \in 0 .. 2 * S - 1 : U(y) = y
      /\ \A y \in (-S) .. S - 1 : I(y) = y
      /\ \A y \in 0 .. 2 * S - 1, z \in 0 .. S - 1 : y - z <= S - 1 => I(I(y) - I(z)) = y - z
    BY <1>1, Words
<1>3. CASE job.self
    <2>1. slot \in 0 .. a - x - 1
        BY <1>1, <1>3 DEF Diagonals
    <2>2. PICK d \in 1 .. a - 1 : d = x + slot
        BY <1>1, <1>3, <2>1
    <2>3. I(d) = d /\ U(d) = d
        BY <1>1, <1>2, <2>2
    <2>4. Diagonal(slot) = d
        BY <1>1, <1>3, <2>2, <2>3 DEF Diagonal
    <2>5. Start(slot) = [col |-> d, row |-> 0]
        BY <1>3, <2>3, <2>4 DEF Start
    <2>6. ColAt(job, slot, 0) = d /\ RowAt(job, slot, 0) = 0
        BY <1>1, <1>3, <2>2 DEF ColAt, RowAt
    <2>7. U(a - d) = a - d /\ U(b) = b /\ a - d \in Nat \ {0} /\ a - d <= b
        <3>1. a - d \in 0 .. 2 * S - 1 /\ b \in 0 .. 2 * S - 1
            BY <1>1, <2>2
        <3>2. U(a - d) = a - d /\ U(b) = b
            BY <1>2, <3>1
        <3>3. a - d \in Nat \ {0} /\ a - d <= b
            BY <1>1, <1>3, <2>2
        <3> QED
            BY <3>2, <3>3
    <2>8. DiagonalLength(slot) = Min({a - d, b})
        <3>1. DiagonalLength(slot) = Min({U(a - d), U(b - 0)})
            BY <1>1, <2>5 DEF DiagonalLength
        <3>2. b - 0 = b
            OBVIOUS
        <3> QED
            BY <2>7, <3>1, <3>2
    <2>9. Min({a - d, b}) = a - d
        BY <2>7, MinIsLeast
    <2>10. LengthAt(job, slot) = a - d
        BY <1>1, <1>3, <2>6, <2>7 DEF LengthAt
    <2> QED
        BY <1>1, <1>3, <2>2, <2>5, <2>6, <2>7, <2>8, <2>9, <2>10 DEF Rows, Columns
<1>4. CASE ~job.self
    <2>1. slot \in 0 .. a + b - 2 /\ a - 1 \in 0 .. S - 1
        BY <1>1, <1>4 DEF Diagonals
    <2>2. PICK d \in Int : d = slot - (a - 1) /\ d >= -(a - 1) /\ d <= b - 1
        BY <1>1, <2>1
    <2>3. Diagonal(slot) = d
        <3>1. slot \in 0 .. 2 * S - 1 /\ slot - (a - 1) <= S - 1
            BY <1>1, <2>1
        <3>2. I(I(slot) - I(a - 1)) = slot - (a - 1)
            BY <1>2, <2>1, <3>1
        <3> QED
            BY <1>1, <1>4, <2>2, <3>2 DEF Diagonal
    <2>4. PICK col \in 0 .. a - 1, row \in 0 .. b - 1 :
             /\ col = IF d < 0 THEN -d ELSE 0
             /\ row = IF d > 0 THEN d ELSE 0
        <3>1. (IF d < 0 THEN -d ELSE 0) \in 0 .. a - 1
            BY <2>2
        <3>2. (IF d > 0 THEN d ELSE 0) \in 0 .. b - 1
            BY <2>2
        <3> QED
            BY <3>1, <3>2
    <2>5. Start(slot) = [col |-> col, row |-> row]
        <3>1. d < 0 => U(-d) = -d
            BY <1>1, <1>2, <2>2
        <3>2. d > 0 => U(d) = d
            BY <1>1, <1>2, <2>2
        <3> QED
            BY <1>4, <2>2, <2>3, <2>4, <3>1, <3>2 DEF Start
    <2>6. ColAt(job, slot, 0) = col /\ RowAt(job, slot, 0) = row
        BY <1>1, <1>4, <2>1, <2>2, <2>4 DEF ColAt, RowAt
    <2>7. /\ U(a - col) = a - col /\ U(b - row) = b - row
          /\ a - col \in Nat \ {0} /\ b - row \in Nat \ {0}
        <3>1. a - col \in 0 .. 2 * S - 1 /\ b - row \in 0 .. 2 * S - 1
            BY <1>1, <2>4
        <3> QED
            BY <1>2, <2>4, <3>1
    <2>8. DiagonalLength(slot) = Min({a - col, b - row})
        BY <1>1, <2>5, <2>7 DEF DiagonalLength
    <2>9. LengthAt(job, slot) = IF b - row < a - col THEN b - row ELSE a - col
        BY <1>1, <2>6 DEF LengthAt
    <2>10. Min({a - col, b - row}) = IF b - row < a - col THEN b - row ELSE a - col
        <3>1. Min({a - col, b - row}) \in {a - col, b - row}
              /\ Min({a - col, b - row}) <= a - col /\ Min({a - col, b - row}) <= b - row
            BY <2>7, MinIsLeast
        <3> QED
            BY <2>7, <3>1
    <2> QED
        BY <1>1, <2>5, <2>6, <2>7, <2>8, <2>9, <2>10 DEF Rows, Columns
<1> QED
    BY <1>1, <1>3, <1>4, JobFacts

(* A step along a diagonal is at one cell of the join, and counts if that  *)
(* cell matters.                                                           *)
LEMMA Steps ==
    ASSUME job \in Jobs, Fits(job), NEW slot \in 0 .. Diagonals(job) - 1,
           NEW step \in 0 .. LengthAt(job, slot) - 1
    PROVE  /\ Row(slot, step) = RowAt(job, slot, step) /\ RowAt(job, slot, step) \in Rows(job)
           /\ Col(slot, step) = ColAt(job, slot, step) /\ ColAt(job, slot, step) \in Columns(job)
           /\ SlotOf(job, RowAt(job, slot, step), ColAt(job, slot, step)) = slot
           /\ StepOf(RowAt(job, slot, step), ColAt(job, slot, step)) = step
           /\ Corr(Row(slot, step), Col(slot, step))
                 = job.corr[<<RowAt(job, slot, step), ColAt(job, slot, step)>>]
           /\ Counts(slot, step)
                 <=> Matters(job, RowAt(job, slot, step), ColAt(job, slot, step))
<1>1. PICK a \in Nat \ {0}, b \in Nat \ {0}, x \in Nat, S \in Nat \ {0} :
         /\ a = job.n_a /\ b = job.n_b /\ x = job.exclusion /\ S = Sign
         /\ a <= S /\ b <= S /\ x <= S - 1 /\ (job.self => a = b /\ x > 0)
    BY JobFacts, PowerAssumption, Words DEF Fits
<1>2. /\ \A y \in 0 .. 2 * S - 1 : U(y) = y
      /\ \A y \in (-S) .. S - 1 : I(y) = y
    BY <1>1, Words
<1>3. PICK r \in Nat, c \in Nat :
         /\ r = RowAt(job, slot, 0) /\ c = ColAt(job, slot, 0) /\ r <= b - 1 /\ c <= a - 1
         /\ Start(slot).row = r /\ Start(slot).col = c
    BY <1>1, Starts DEF Rows, Columns
<1>4. r + step \in 0 .. b - 1 /\ c + step \in 0 .. a - 1
    BY <1>1, <1>3 DEF LengthAt
<1>5. RowAt(job, slot, step) = r + step /\ ColAt(job, slot, step) = c + step
    BY <1>1, <1>3 DEF RowAt, ColAt, Diagonals
<1>6. Row(slot, step) = r + step /\ Col(slot, step) = c + step
    <2>1. r + step \in 0 .. 2 * S - 1 /\ c + step \in 0 .. 2 * S - 1
        BY <1>1, <1>4
    <2> QED
        BY <1>2, <1>3, <2>1 DEF Row, Col
<1>7. /\ SlotOf(job, r + step, c + step) = slot /\ StepOf(r + step, c + step) = step
      /\ job.self => r + step <= c + step
    <2>1. CASE job.self
        BY <1>1, <1>3, <2>1 DEF RowAt, ColAt, SlotOf, StepOf, Diagonals
    <2>2. CASE ~job.self
        BY <1>1, <1>3, <2>2 DEF RowAt, ColAt, SlotOf, StepOf, Diagonals
    <2> QED
        BY <2>1, <2>2
<1>8. PICK row \in Nat, col \in Nat : row = r + step /\ col = c + step
    OBVIOUS
<1>9. Corr(row, col) = job.corr[<<row, col>>]
    BY <1>1, <1>4, <1>8 DEF Corr
<1>10. ~Excluded(row, col) <=> Distance(row, col) >= x
    <2>1. I(row) = row /\ I(col) = col /\ I(x) = x
        BY <1>1, <1>2, <1>4, <1>8
    <2>2. Excluded(row, col) <=> x > 0 /\ Distance(col, row) < x
        BY <1>1, <2>1 DEF Excluded
    <2> QED
        BY <2>2 DEF Distance
<1>11. Counts(slot, step) <=> Matters(job, row, col)
    BY <1>1, <1>6, <1>7, <1>8, <1>9, <1>10 DEF Counts, Matters, InJoin
<1> QED
    BY <1>1, <1>4, <1>5, <1>6, <1>7, <1>8, <1>9, <1>11 DEF Rows, Columns

(* Every cell of the join that is not excluded is on a diagonal.           *)
LEMMA Reached ==
    ASSUME NEW j \in Jobs, NEW r \in Rows(j), NEW c \in Columns(j), InJoin(j, r, c)
    PROVE  /\ SlotOf(j, r, c) \in 0 .. Diagonals(j) - 1
           /\ StepOf(r, c) \in 0 .. LengthAt(j, SlotOf(j, r, c)) - 1
           /\ RowAt(j, SlotOf(j, r, c), StepOf(r, c)) = r
           /\ ColAt(j, SlotOf(j, r, c), StepOf(r, c)) = c
<1>1. PICK a \in Nat \ {0}, b \in Nat \ {0}, x \in Nat :
         /\ a = j.n_a /\ b = j.n_b /\ x = j.exclusion /\ (j.self => a = b /\ x > 0)
    BY JobFacts
<1>2. r \in 0 .. b - 1 /\ c \in 0 .. a - 1 /\ (j.self => c - r >= x)
    BY <1>1 DEF Rows, Columns, InJoin, Distance
<1>3. CASE j.self
    <2>1. SlotOf(j, r, c) = c - r - x /\ StepOf(r, c) = r
        BY <1>1, <1>2, <1>3 DEF SlotOf, StepOf
    <2>2. PICK s \in Nat : s = c - r - x /\ s <= a - x - 1
        BY <1>1, <1>2, <1>3
    <2>3. LengthAt(j, s) = a - (x + s)
        BY <1>1, <1>3, <2>2 DEF LengthAt, RowAt, ColAt
    <2>4. RowAt(j, s, r) = r /\ ColAt(j, s, r) = c /\ Diagonals(j) = a - x
        BY <1>1, <1>2, <1>3, <2>2 DEF Diagonals, RowAt, ColAt
    <2>5. s \in 0 .. a - x - 1 /\ r \in 0 .. a - (x + s) - 1
        BY <1>1, <1>2, <1>3, <2>2
    <2> QED
        BY <2>1, <2>2, <2>3, <2>4, <2>5
<1>4. CASE ~j.self
    <2>1. PICK s \in Nat : s = SlotOf(j, r, c) /\ s = a - 1 - c + r
        BY <1>1, <1>2, <1>4 DEF SlotOf
    <2>2. s \in 0 .. Diagonals(j) - 1
        BY <1>1, <1>2, <1>4, <2>1 DEF Diagonals
    <2>3. RowAt(j, s, StepOf(r, c)) = r /\ ColAt(j, s, StepOf(r, c)) = c
        BY <1>1, <1>2, <1>4, <2>1 DEF RowAt, ColAt, StepOf
    <2>4. StepOf(r, c) \in 0 .. LengthAt(j, s) - 1
        BY <1>1, <1>2, <1>4, <2>1 DEF RowAt, ColAt, StepOf, LengthAt
    <2> QED
        BY <2>1, <2>2, <2>3, <2>4
<1> QED
    BY <1>1, <1>3, <1>4, JobFacts

(* What a thread skips does not matter.                                    *)
LEMMA NextStepIsNext ==
    ASSUME job \in Jobs, Fits(job), NEW slot \in 0 .. Diagonals(job) - 1,
           NEW from \in 0 .. LengthAt(job, slot)
    PROVE  /\ NextStep(slot, from) \in from .. LengthAt(job, slot)
           /\ NextStep(slot, from) < LengthAt(job, slot) =>
                 Matters(job, RowAt(job, slot, NextStep(slot, from)),
                         ColAt(job, slot, NextStep(slot, from)))
           /\ \A step \in from .. LengthAt(job, slot) - 1 :
                 Matters(job, RowAt(job, slot, step), ColAt(job, slot, step)) =>
                    NextStep(slot, from) <= step
<1>1. PICK n \in Nat \ {0} : n = LengthAt(job, slot) /\ n = DiagonalLength(slot)
    BY Starts
<1> DEFINE T == {s \in from .. n - 1 : Counts(slot, s)}
<1>2. T \cup {n} \subseteq Nat /\ T \cup {n} # {}
    BY <1>1
<1>3. NextStep(slot, from) = Min(T \cup {n})
    <2>1. T \cup {n} = {n} \cup T
        OBVIOUS
    <2> QED
        BY <1>1, <2>1 DEF NextStep
<1>4. Min(T \cup {n}) \in T \cup {n} /\ \A y \in T \cup {n} : Min(T \cup {n}) <= y
    BY <1>2, MinIsLeast
<1>5. PICK k \in Nat : k = NextStep(slot, from) /\ k \in T \cup {n} /\ \A y \in T : k <= y
    BY <1>2, <1>3, <1>4
<1>6. k \in from .. n
    BY <1>1, <1>5
<1>7. \A s \in from .. n - 1 :
         s \in T <=> Matters(job, RowAt(job, slot, s), ColAt(job, slot, s))
    <2>1. ASSUME NEW s \in from .. n - 1
          PROVE  Counts(slot, s) <=> Matters(job, RowAt(job, slot, s), ColAt(job, slot, s))
        <3>1. s \in 0 .. LengthAt(job, slot) - 1
            BY <1>1
        <3> QED
            BY <3>1, Steps
    <2> QED
        BY <2>1
<1> QED
    BY <1>1, <1>5, <1>6, <1>7

----------------------------------------------------------------------------
(* The bins.                                                               *)

(* The edges at or before a position are those up to its bin's.            *)
LEMMA EdgesBefore ==
    ASSUME NEW x \in Nat, NEW n \in Nat \ {0}, NEW bins \in Nat \ {0}
    PROVE  /\ BinOf(x, n, bins) \in Nat
           /\ \A i \in Nat : x >= Edge(i, n, bins) <=> i <= BinOf(x, n, bins)
<1>1. PICK y \in Nat : y = x * bins
    OBVIOUS
<1>2. PICK k \in Nat, t \in Nat : k = y \div n /\ y = n * k + t /\ t < n
    BY Division
<1>3. BinOf(x, n, bins) = k
    BY <1>1, <1>2 DEF BinOf
<1>4. ASSUME NEW i \in Nat PROVE x >= Edge(i, n, bins) <=> i <= k
    <2>1. Edge(i, n, bins) <= x <=> i * n <= y
        BY <1>1, EdgeIsBelow
    <2>2. Edge(i, n, bins) \in Int
        <3>1. PICK z \in Nat : z = i * n
            OBVIOUS
        <3>2. z + bins - 1 \in Nat
            OBVIOUS
        <3>3. (z + bins - 1) \div bins \in Nat
            BY <3>2, Division
        <3> QED
            BY <3>1, <3>3 DEF Edge
    <2>3. PICK e \in Int : e = Edge(i, n, bins)
        BY <2>2
    <2>4. i * n = n * i /\ n * i \in Nat /\ n * k \in Nat
        OBVIOUS
    <2>5. CASE i <= k
        <3>1. n * i <= n * k
            BY <2>5, MoreTimes
        <3> QED
            BY <1>2, <2>1, <2>3, <2>4, <2>5, <3>1
    <2>6. CASE i > k
        <3>1. k + 1 \in Nat /\ k + 1 <= i
            BY <2>6
        <3>2. n * (k + 1) <= n * i
            BY <3>1, MoreTimes
        <3>3. n * (k + 1) = n * k + n
            OBVIOUS
        <3> QED
            BY <1>2, <2>1, <2>3, <2>4, <2>6, <3>2, <3>3
    <2> QED
        BY <2>5, <2>6
<1> QED
    BY <1>3, <1>4

(* With no more bins than positions, a position is in a bin, and the next  *)
(* position in the same or the next.                                       *)
LEMMA BinsMoveByOne ==
    ASSUME NEW x \in Nat, NEW n \in Nat \ {0}, NEW bins \in Nat \ {0}, bins <= n
    PROVE  /\ BinOf(x + 1, n, bins) \in {BinOf(x, n, bins), BinOf(x, n, bins) + 1}
           /\ x < n => BinOf(x, n, bins) < bins
           /\ BinOf(x, n, bins) \in Nat
<1>1. PICK y \in Nat : y = x * bins /\ (x + 1) * bins = y + bins
    OBVIOUS
<1>2. PICK k \in Nat, t \in Nat : k = y \div n /\ y = n * k + t /\ t < n
    BY Division
<1>3. PICK l \in Nat, u \in Nat : l = (y + bins) \div n /\ y + bins = n * l + u /\ u < n
    <2>1. y + bins \in Nat
        OBVIOUS
    <2> QED
        BY <2>1, Division
<1>4. BinOf(x, n, bins) = k /\ BinOf(x + 1, n, bins) = l
    BY <1>1, <1>2, <1>3 DEF BinOf
<1>5. k <= l
    <2>1. ASSUME l + 1 <= k PROVE FALSE
        <3>1. n * (l + 1) <= n * k
            BY <2>1, MoreTimes
        <3>2. n * (l + 1) = n * l + n /\ n * l \in Nat /\ n * k \in Nat
            OBVIOUS
        <3> QED
            BY <1>2, <1>3, <3>1, <3>2
    <2> QED
        BY <2>1
<1>6. l <= k + 1
    <2>1. ASSUME k + 2 <= l PROVE FALSE
        <3>1. n * (k + 2) <= n * l
            BY <2>1, MoreTimes
        <3>2. n * (k + 2) = n * k + n + n /\ n * l \in Nat /\ n * k \in Nat
            OBVIOUS
        <3> QED
            BY <1>2, <1>3, <3>1, <3>2
    <2> QED
        BY <2>1
<1>7. ASSUME x < n, bins <= k PROVE FALSE
    <2>1. n * bins <= n * k
        BY <1>7, MoreTimes
    <2>2. PICK d \in Nat : n = x + 1 + d
        <3>1. n - x - 1 \in Nat /\ n = x + 1 + (n - x - 1)
            BY <1>7
        <3> QED
            BY <3>1
    <2>3. n * bins = x * bins + bins + d * bins /\ d * bins \in Nat /\ n * k \in Nat
        BY <2>2
    <2> QED
        BY <1>1, <1>2, <2>1, <2>3
<1> QED
    BY <1>4, <1>5, <1>6, <1>7

(* The bisection as a function of its bounds.                              *)
Middle(lower, upper) == lower + (upper - lower) \div 2

Searching(x, n, bins, g) ==
    g = [bounds \in (0 .. bins) \X (0 .. bins) |->
            IF bounds[1] + 1 >= bounds[2] THEN bounds[1]
            ELSE IF x >= Edge(Middle(bounds[1], bounds[2]), n, bins)
            THEN g[<<Middle(bounds[1], bounds[2]), bounds[2]>>]
            ELSE g[<<bounds[1], Middle(bounds[1], bounds[2])>>]]

(* The bin k, or the nearest to it that the bounds allow.                  *)
Clamped(k, lower, upper) ==
    IF lower + 1 >= upper \/ k <= lower THEN lower
    ELSE IF k + 1 >= upper THEN upper - 1 ELSE k

(* One step of the bisection keeps the bin within the bounds.              *)
LEMMA ClampedStep ==
    ASSUME NEW k \in Nat, NEW lower \in Nat, NEW upper \in Nat, lower + 1 < upper
    PROVE  \E m \in Nat :
              /\ m = Middle(lower, upper) /\ lower < m /\ m < upper
              /\ k >= m => Clamped(k, lower, upper) = Clamped(k, m, upper)
              /\ ~(k >= m) => Clamped(k, lower, upper) = Clamped(k, lower, m)
<1>1. PICK d \in Nat : d = upper - lower /\ d >= 2
    <2>1. upper - lower \in Nat /\ upper - lower >= 2
        OBVIOUS
    <2> QED
        BY <2>1
<1>2. PICK h \in Nat : h = d \div 2 /\ h >= 1 /\ h < d
    <2>1. d \div 2 \in Nat /\ d \div 2 >= 1 /\ d \div 2 < d
        BY <1>1
    <2> QED
        BY <2>1
<1>3. PICK m \in Nat : m = Middle(lower, upper) /\ lower < m /\ m < upper
    <2>1. PICK m \in Nat : m = lower + h /\ lower < m /\ m < upper
        BY <1>1, <1>2
    <2> QED
        BY <1>1, <1>2, <2>1 DEF Middle
<1>4. k >= m => Clamped(k, lower, upper) = Clamped(k, m, upper)
    BY <1>3 DEF Clamped
<1>5. ~(k >= m) => Clamped(k, lower, upper) = Clamped(k, lower, m)
    BY <1>3 DEF Clamped
<1> QED
    BY <1>3, <1>4, <1>5

(* So there is such a function, and it can only be this one: of the bounds *)
(* with another result, those closest together would lead to closer ones.  *)
LEMMA FirstBinIsRight ==
    ASSUME NEW n \in Nat \ {0}, NEW bins \in Nat \ {0}, bins <= n, NEW x \in 0 .. n - 1
    PROVE  FirstBin(x, n, bins) = BinOf(x, n, bins)
<1>1. PICK k \in Nat : /\ k = BinOf(x, n, bins) /\ k < bins
                      /\ \A i \in Nat : x >= Edge(i, n, bins) <=> i <= k
    <2>1. x \in Nat /\ x < n
        OBVIOUS
    <2>2. BinOf(x, n, bins) \in Nat /\ BinOf(x, n, bins) < bins
        BY <2>1, BinsMoveByOne
    <2>3. \A i \in Nat : x >= Edge(i, n, bins) <=> i <= BinOf(x, n, bins)
        BY <2>1, EdgesBefore
    <2> QED
        BY <2>2, <2>3
<1> DEFINE B == (0 .. bins) \X (0 .. bins)
           F == [bounds \in B |-> Clamped(k, bounds[1], bounds[2])]
<1>2. ASSUME NEW l \in 0 .. bins, NEW u \in 0 .. bins, ~(l + 1 >= u)
      PROVE  \E m \in 0 .. bins :
                /\ m = Middle(l, u) /\ l < m /\ m < u
                /\ x >= Edge(m, n, bins) => Clamped(k, l, u) = Clamped(k, m, u)
                /\ ~(x >= Edge(m, n, bins)) => Clamped(k, l, u) = Clamped(k, l, m)
    <2>1. PICK m \in Nat :
             /\ m = Middle(l, u) /\ l < m /\ m < u
             /\ k >= m => Clamped(k, l, u) = Clamped(k, m, u)
             /\ ~(k >= m) => Clamped(k, l, u) = Clamped(k, l, m)
        BY <1>2, ClampedStep
    <2>2. m \in 0 .. bins
        BY <2>1
    <2>3. x >= Edge(m, n, bins) <=> k >= m
        BY <1>1
    <2> QED
        BY <2>1, <2>2, <2>3
<1>3. Searching(x, n, bins, F)
    <2>1. ASSUME NEW bounds \in B
          PROVE  Clamped(k, bounds[1], bounds[2])
                 = IF bounds[1] + 1 >= bounds[2] THEN bounds[1]
                   ELSE IF x >= Edge(Middle(bounds[1], bounds[2]), n, bins)
                   THEN F[<<Middle(bounds[1], bounds[2]), bounds[2]>>]
                   ELSE F[<<bounds[1], Middle(bounds[1], bounds[2])>>]
        <3>0. PICK l \in 0 .. bins, u \in 0 .. bins : l = bounds[1] /\ u = bounds[2]
            OBVIOUS
        <3>1. CASE l + 1 >= u
            BY <3>0, <3>1 DEF Clamped
        <3>2. CASE ~(l + 1 >= u)
            <4>1. PICK m \in 0 .. bins :
                     /\ m = Middle(l, u)
                     /\ x >= Edge(m, n, bins) => Clamped(k, l, u) = Clamped(k, m, u)
                     /\ ~(x >= Edge(m, n, bins)) => Clamped(k, l, u) = Clamped(k, l, m)
                BY <1>2, <3>2
            <4>2. F[<<m, u>>] = Clamped(k, m, u) /\ F[<<l, m>>] = Clamped(k, l, m)
                OBVIOUS
            <4> QED
                BY <3>0, <3>2, <4>1, <4>2
        <3> QED
            BY <3>1, <3>2
    <2> HIDE DEF F
    <2>2. F = [bounds \in B |->
                 IF bounds[1] + 1 >= bounds[2] THEN bounds[1]
                 ELSE IF x >= Edge(Middle(bounds[1], bounds[2]), n, bins)
                 THEN F[<<Middle(bounds[1], bounds[2]), bounds[2]>>]
                 ELSE F[<<bounds[1], Middle(bounds[1], bounds[2])>>]]
        BY <2>1 DEF F
    <2> QED
        BY <2>2 DEF Searching
<1> DEFINE search[bounds \in B] ==
              LET lower == bounds[1]
                  upper == bounds[2]
                  middle == lower + (upper - lower) \div 2
              IN  IF lower + 1 >= upper THEN lower
                  ELSE IF x >= Edge(middle, n, bins) THEN search[<<middle, upper>>]
                  ELSE search[<<lower, middle>>]
<1>4. Searching(x, n, bins, search)
    <2>1. F = [bounds \in B |->
                 LET lower == bounds[1]
                     upper == bounds[2]
                     middle == lower + (upper - lower) \div 2
                 IN  IF lower + 1 >= upper THEN lower
                     ELSE IF x >= Edge(middle, n, bins) THEN F[<<middle, upper>>]
                     ELSE F[<<lower, middle>>]]
        BY <1>3 DEF Searching, Middle
    <2> HIDE DEF F
    <2>2. search = [bounds \in B |->
                 LET lower == bounds[1]
                     upper == bounds[2]
                     middle == lower + (upper - lower) \div 2
                 IN  IF lower + 1 >= upper THEN lower
                     ELSE IF x >= Edge(middle, n, bins) THEN search[<<middle, upper>>]
                     ELSE search[<<lower, middle>>]]
        BY <2>1
    <2> HIDE DEF search
    <2> QED
        BY <2>2 DEF Searching, Middle
<1>5. FirstBin(x, n, bins) = search[<<0, bins>>]
    BY DEF FirstBin
<1> HIDE DEF search, F
<1>6. ASSUME NEW l \in 0 .. bins, NEW u \in 0 .. bins
      PROVE  search[<<l, u>>]
             = IF l + 1 >= u THEN l
               ELSE IF x >= Edge(Middle(l, u), n, bins)
               THEN search[<<Middle(l, u), u>>] ELSE search[<<l, Middle(l, u)>>]
    BY <1>4 DEF Searching
<1> DEFINE Wrong(l, u) == search[<<l, u>>] # Clamped(k, l, u)
           T == {d \in 0 .. bins : \E l \in 0 .. bins, u \in 0 .. bins : d = u - l /\ Wrong(l, u)}
<1>7. ASSUME NEW l \in 0 .. bins, NEW u \in 0 .. bins, Wrong(l, u)
      PROVE  /\ u - l \in T
             /\ \E e \in T : e < u - l
    <2>1. ~(l + 1 >= u)
        BY <1>6, <1>7 DEF Clamped
    <2>2. PICK m \in 0 .. bins :
             /\ m = Middle(l, u) /\ l < m /\ m < u
             /\ x >= Edge(m, n, bins) => Clamped(k, l, u) = Clamped(k, m, u)
             /\ ~(x >= Edge(m, n, bins)) => Clamped(k, l, u) = Clamped(k, l, m)
        BY <1>2, <2>1
    <2>3. Wrong(m, u) \/ Wrong(l, m)
        BY <1>6, <1>7, <2>1, <2>2
    <2> HIDE DEF Wrong
    <2>4. u - l \in T
        BY <1>7, <2>1
    <2>5. Wrong(m, u) => u - m \in T /\ u - m < u - l
        BY <2>2
    <2>6. Wrong(l, m) => m - l \in T /\ m - l < u - l
        BY <2>2
    <2> QED
        BY <2>3, <2>4, <2>5, <2>6
<1> HIDE DEF Wrong
<1>8. T = {}
    <2>1. ASSUME T # {} PROVE FALSE
        <3>1. T \subseteq Nat
            OBVIOUS
        <3>2. PICK d \in T : \A e \in T : d <= e
            BY <2>1, <3>1, LeastNumber
        <3>3. PICK l \in 0 .. bins, u \in 0 .. bins : d = u - l /\ Wrong(l, u)
            OBVIOUS
        <3>4. PICK e \in T : e < u - l
            BY <1>7, <3>3
        <3>5. d <= e /\ d \in Nat /\ e \in Nat
            BY <3>1, <3>2
        <3> QED
            BY <3>3, <3>4, <3>5
    <2> QED
        BY <2>1
<1>9. ~Wrong(0, bins)
    <2>1. bins \in 0 .. bins /\ 0 \in 0 .. bins
        OBVIOUS
    <2>2. Wrong(0, bins) => bins - 0 \in T
        BY <1>7, <2>1
    <2> QED
        BY <1>8, <2>2
<1>10. Clamped(k, 0, bins) = k
    BY <1>1 DEF Clamped
<1> QED
    BY <1>1, <1>5, <1>9, <1>10 DEF Wrong

(* A thread's bin as a function of its steps.                              *)
Moving(x, step, n, bins, g) ==
    g = [s \in 0 .. step |->
            IF s = 0 THEN FirstBin(x, n, bins)
            ELSE IF g[s - 1] + 1 < bins /\ x + s >= Edge(g[s - 1] + 1, n, bins)
            THEN g[s - 1] + 1 ELSE g[s - 1]]

(* From the right bin, moving up by one where the next edge is reached     *)
(* leads to the right bin.                                                 *)
LEMMA BinStep ==
    ASSUME NEW n \in Nat \ {0}, NEW bins \in Nat \ {0}, bins <= n,
           NEW x \in Nat, NEW s \in Nat \ {0}, x + s < n
    PROVE  BinOf(x + s, n, bins)
           = IF /\ BinOf(x + (s - 1), n, bins) + 1 < bins
                /\ x + s >= Edge(BinOf(x + (s - 1), n, bins) + 1, n, bins)
             THEN BinOf(x + (s - 1), n, bins) + 1 ELSE BinOf(x + (s - 1), n, bins)
<1>1. PICK y \in Nat : y = x + (s - 1) /\ y + 1 = x + s /\ y + 1 < n
    <2>1. x + (s - 1) \in Nat /\ x + (s - 1) + 1 = x + s
        OBVIOUS
    <2> QED
        BY <2>1
<1>2. PICK k \in Nat : k = BinOf(y, n, bins)
    BY BinsMoveByOne
<1>3. PICK l \in Nat : l = BinOf(y + 1, n, bins) /\ l \in {k, k + 1} /\ l < bins
    <2>1. y + 1 \in Nat
        OBVIOUS
    <2>2. BinOf(y + 1, n, bins) \in {k, k + 1}
        BY <1>2, BinsMoveByOne
    <2>3. BinOf(y + 1, n, bins) < bins /\ BinOf(y + 1, n, bins) \in Nat
        BY <1>1, <2>1, BinsMoveByOne
    <2> QED
        BY <2>2, <2>3
<1>4. y + 1 >= Edge(k + 1, n, bins) <=> k + 1 <= l
    <2>1. k + 1 \in Nat /\ y + 1 \in Nat
        OBVIOUS
    <2> QED
        BY <1>3, <2>1, EdgesBefore
<1>5. l = IF k + 1 < bins /\ y + 1 >= Edge(k + 1, n, bins) THEN k + 1 ELSE k
    BY <1>3, <1>4
<1> QED
    BY <1>1, <1>2, <1>3, <1>5

(* So the function exists, and it can only be this one: the first step     *)
(* with another bin would follow one without.                              *)
LEMMA BinAfterIsRight ==
    ASSUME NEW n \in Nat \ {0}, NEW bins \in Nat \ {0}, bins <= n,
           NEW x \in Nat, NEW step \in Nat, x + step < n
    PROVE  BinAfter(x, step, n, bins) = BinOf(x + step, n, bins)
<1> DEFINE F == [s \in 0 .. step |-> BinOf(x + s, n, bins)]
<1>1. FirstBin(x, n, bins) = BinOf(x + 0, n, bins)
    <2>1. x \in 0 .. n - 1 /\ x + 0 = x
        OBVIOUS
    <2> QED
        BY <2>1, FirstBinIsRight
<1>2. ASSUME NEW s \in 0 .. step, s # 0
      PROVE  /\ s - 1 \in 0 .. step
             /\ BinOf(x + s, n, bins)
                = IF /\ BinOf(x + (s - 1), n, bins) + 1 < bins
                     /\ x + s >= Edge(BinOf(x + (s - 1), n, bins) + 1, n, bins)
                  THEN BinOf(x + (s - 1), n, bins) + 1 ELSE BinOf(x + (s - 1), n, bins)
    <2>1. s \in Nat \ {0} /\ x + s < n /\ s - 1 \in 0 .. step
        BY <1>2
    <2> QED
        BY <2>1, BinStep
<1>3. Moving(x, step, n, bins, F)
    <2>1. ASSUME NEW s \in 0 .. step
          PROVE  BinOf(x + s, n, bins)
                 = IF s = 0 THEN FirstBin(x, n, bins)
                   ELSE IF F[s - 1] + 1 < bins /\ x + s >= Edge(F[s - 1] + 1, n, bins)
                   THEN F[s - 1] + 1 ELSE F[s - 1]
        <3>1. CASE s = 0
            BY <1>1, <3>1
        <3>2. CASE s # 0
            <4>1. s - 1 \in 0 .. step
                BY <1>2, <3>2
            <4>2. F[s - 1] = BinOf(x + (s - 1), n, bins)
                BY <4>1
            <4> HIDE DEF F
            <4> QED
                BY <1>2, <3>2, <4>2
        <3> QED
            BY <3>1, <3>2
    <2> HIDE DEF F
    <2>2. F = [s \in 0 .. step |->
                 IF s = 0 THEN FirstBin(x, n, bins)
                 ELSE IF F[s - 1] + 1 < bins /\ x + s >= Edge(F[s - 1] + 1, n, bins)
                 THEN F[s - 1] + 1 ELSE F[s - 1]]
        BY <2>1 DEF F
    <2> QED
        BY <2>2 DEF Moving
<1> DEFINE bin[s \in 0 .. step] ==
              IF s = 0 THEN FirstBin(x, n, bins)
              ELSE IF bin[s - 1] + 1 < bins /\ x + s >= Edge(bin[s - 1] + 1, n, bins)
              THEN bin[s - 1] + 1 ELSE bin[s - 1]
<1>4. Moving(x, step, n, bins, bin)
    <2> HIDE DEF F
    <2>1. F = [s \in 0 .. step |->
                 IF s = 0 THEN FirstBin(x, n, bins)
                 ELSE IF F[s - 1] + 1 < bins /\ x + s >= Edge(F[s - 1] + 1, n, bins)
                 THEN F[s - 1] + 1 ELSE F[s - 1]]
        BY <1>3 DEF Moving
    <2>2. bin = [s \in 0 .. step |->
                 IF s = 0 THEN FirstBin(x, n, bins)
                 ELSE IF bin[s - 1] + 1 < bins /\ x + s >= Edge(bin[s - 1] + 1, n, bins)
                 THEN bin[s - 1] + 1 ELSE bin[s - 1]]
        BY <2>1
    <2> HIDE DEF bin
    <2> QED
        BY <2>2 DEF Moving
<1>5. BinAfter(x, step, n, bins) = bin[step]
    BY DEF BinAfter
<1> HIDE DEF bin, F
<1>6. ASSUME NEW s \in 0 .. step
      PROVE  bin[s] = IF s = 0 THEN FirstBin(x, n, bins)
                      ELSE IF bin[s - 1] + 1 < bins /\ x + s >= Edge(bin[s - 1] + 1, n, bins)
                      THEN bin[s - 1] + 1 ELSE bin[s - 1]
    BY <1>4 DEF Moving
<1> DEFINE T == {s \in 0 .. step : bin[s] # BinOf(x + s, n, bins)}
<1>7. T = {}
    <2>1. ASSUME T # {} PROVE FALSE
        <3>1. T \subseteq Nat
            OBVIOUS
        <3>2. PICK s \in T : \A t \in T : s <= t
            BY <2>1, <3>1, LeastNumber
        <3>3. s \in 0 .. step /\ bin[s] # BinOf(x + s, n, bins)
            OBVIOUS
        <3>4. s # 0
            BY <1>1, <1>6, <3>3
        <3>5. s - 1 \in 0 .. step /\ s - 1 < s
            BY <3>3, <3>4
        <3>6. s - 1 \notin T
            BY <3>2, <3>5
        <3>7. bin[s - 1] = BinOf(x + (s - 1), n, bins)
            BY <3>5, <3>6
        <3> QED
            BY <1>2, <1>6, <3>3, <3>4, <3>7
    <2> QED
        BY <2>1
<1>8. step \in 0 .. step
    OBVIOUS
<1> QED
    BY <1>5, <1>7, <1>8

(* A thread's cell of a summary is the pair of its row's and its column's  *)
(* bins.                                                                   *)
LEMMA CellIsOfBins ==
    ASSUME job \in Jobs, Fits(job), job.kind = "matrix", NEW slot \in 0 .. Diagonals(job) - 1,
           NEW step \in 0 .. LengthAt(job, slot) - 1
    PROVE  MatrixCell(slot, step)
           = BinOf(RowAt(job, slot, step), job.n_b, job.rows) * job.cols
             + BinOf(ColAt(job, slot, step), job.n_a, job.cols)
<1>1. PICK a \in Nat \ {0}, b \in Nat \ {0}, rows \in Nat \ {0}, cols \in Nat \ {0} :
         /\ a = job.n_a /\ b = job.n_b /\ rows = job.rows /\ cols = job.cols
         /\ rows <= b /\ cols <= a
    BY JobFacts
<1>2. PICK r \in 0 .. b - 1, c \in 0 .. a - 1 :
         /\ r = RowAt(job, slot, 0) /\ c = ColAt(job, slot, 0)
         /\ Start(slot).row = r /\ Start(slot).col = c
    BY <1>1, Starts DEF Rows, Columns
<1>3. /\ RowAt(job, slot, step) = r + step /\ ColAt(job, slot, step) = c + step
      /\ r + step < b /\ c + step < a /\ step \in Nat
    <2>1. RowAt(job, slot, step) = r + step /\ ColAt(job, slot, step) = c + step
        BY <1>1, <1>2, JobFacts DEF RowAt, ColAt, Diagonals
    <2>2. RowAt(job, slot, step) \in Rows(job) /\ ColAt(job, slot, step) \in Columns(job)
        BY Steps
    <2>3. LengthAt(job, slot) \in Nat
        BY Starts
    <2> QED
        BY <1>1, <1>2, <2>1, <2>2, <2>3 DEF Rows, Columns
<1>4. PICK i \in Nat : i = BinOf(r + step, b, rows) /\ i < rows
                        /\ BinAfter(r, step, b, rows) = i
    <2>1. r + step \in Nat /\ r \in Nat
        BY <1>3
    <2>2. BinOf(r + step, b, rows) \in Nat /\ BinOf(r + step, b, rows) < rows
        BY <1>1, <1>3, <2>1, BinsMoveByOne
    <2>3. BinAfter(r, step, b, rows) = BinOf(r + step, b, rows)
        <3>1. rows <= b /\ r + step < b /\ step \in Nat
            BY <1>1, <1>3
        <3> QED
            BY <2>1, <3>1, BinAfterIsRight
    <2> QED
        BY <2>2, <2>3
<1>5. PICK k \in Nat : k = BinOf(c + step, a, cols) /\ k < cols
                        /\ BinAfter(c, step, a, cols) = k
    <2>1. c + step \in Nat /\ c \in Nat
        BY <1>3
    <2>2. BinOf(c + step, a, cols) \in Nat /\ BinOf(c + step, a, cols) < cols
        BY <1>1, <1>3, <2>1, BinsMoveByOne
    <2>3. BinAfter(c, step, a, cols) = BinOf(c + step, a, cols)
        <3>1. cols <= a /\ c + step < a /\ step \in Nat
            BY <1>1, <1>3
        <3> QED
            BY <2>1, <3>1, BinAfterIsRight
    <2> QED
        BY <2>2, <2>3
<1>6. i * cols + k \in 0 .. rows * cols - 1
    <2>1. PICK d \in Nat : rows = i + 1 + d
        <3>1. rows - i - 1 \in Nat /\ rows = i + 1 + (rows - i - 1)
            BY <1>4
        <3> QED
            BY <3>1
    <2>2. rows * cols = i * cols + cols + d * cols /\ i * cols \in Nat /\ d * cols \in Nat
        BY <2>1
    <2> QED
        BY <1>5, <2>2
<1>7. rows * cols <= UIntMax /\ rows * cols \in Nat /\ UIntMax \in Int
    BY <1>1, Words DEF Fits
<1>8. U(i * cols + k) = i * cols + k
    <2>1. PICK x \in Int : x = i * cols + k
        BY <1>6
    <2>2. x \in 0 .. UIntMax
        BY <1>6, <1>7, <2>1
    <2> QED
        BY <2>1, <2>2, Words
<1> QED
    BY <1>1, <1>2, <1>3, <1>4, <1>5, <1>8 DEF MatrixCell

----------------------------------------------------------------------------
(* Sums of a set, in whatever order.                                       *)

(* Induction on finite sets, by a smallest counterexample.                 *)
LEMMA SmallestCounterexample ==
    ASSUME NEW T, IsFiniteSet(T), NEW bad \in SUBSET SUBSET T, bad # {}
    PROVE  \E s \in bad : \A x \in s : s \ {x} \notin bad
<1> DEFINE sizes == {Cardinality(s) : s \in bad}
<1>1. \A s \in bad : s \subseteq T /\ IsFiniteSet(s) /\ Cardinality(s) \in Nat
    BY FS_Subset, FS_CardinalityType
<1>2. sizes \subseteq Nat /\ sizes # {}
    BY <1>1
<1>3. PICK n \in sizes : \A m \in sizes : n <= m
    BY <1>2, LeastNumber
<1>4. PICK s \in bad : n = Cardinality(s)
    OBVIOUS
<1>5. ASSUME NEW x \in s, s \ {x} \in bad PROVE FALSE
    <2>1. Cardinality(s \ {x}) = Cardinality(s) - 1
        BY <1>1, FS_RemoveElement
    <2>2. n <= Cardinality(s \ {x})
        BY <1>3, <1>5
    <2> QED
        BY <1>1, <1>4, <2>1, <2>2
<1> QED
    BY <1>5

First(s) == CHOOSE x \in s : TRUE

(* The sums of f over the subsets of T, element by element.                *)
Adding(f, T, g) ==
    /\ g = [s \in SUBSET T |-> g[s]]
    /\ \A s \in SUBSET T : g[s] = IF s = {} THEN 0 ELSE f[First(s)] + g[s \ {First(s)}]

(* There is such a sum: were there a least size up to which there is       *)
(* none, the sum up to the size before could be continued.                 *)
LEMMA AddingExists ==
    ASSUME NEW T, IsFiniteSet(T), NEW f
    PROVE  \E g : Adding(f, T, g)
<1> DEFINE Eq(g, s) == g[s] = IF s = {} THEN 0 ELSE f[First(s)] + g[s \ {First(s)}]
           Upto(g, k) == /\ g = [s \in SUBSET T |-> g[s]]
                         /\ \A s \in SUBSET T : Cardinality(s) <= k => Eq(g, s)
           bad == {k \in Nat : ~ \E g : Upto(g, k)}
<1>1. \A s \in SUBSET T : /\ IsFiniteSet(s) /\ Cardinality(s) \in Nat
                          /\ Cardinality(s) = 0 <=> s = {}
                          /\ s # {} => First(s) \in s
    BY FS_Subset, FS_CardinalityType, FS_EmptySet DEF First
<1>2. \A s \in SUBSET T : s # {} => /\ s \ {First(s)} \in SUBSET T
                                    /\ Cardinality(s \ {First(s)}) = Cardinality(s) - 1
    BY <1>1, FS_RemoveElement
<1>3. ASSUME bad # {} PROVE FALSE
    <2>1. PICK k \in bad : \A m \in bad : k <= m
        BY <1>3, LeastNumber
    <2>2. k \in Nat /\ ~ \E g : Upto(g, k)
        OBVIOUS
    <2>3. CASE k = 0
        <3> DEFINE g == [s \in SUBSET T |-> 0]
        <3>1. \A s \in SUBSET T : Cardinality(s) <= 0 => Eq(g, s)
            BY <1>1
        <3>2. g = [s \in SUBSET T |-> g[s]]
            OBVIOUS
        <3>3. Upto(g, 0)
            BY <3>1, <3>2
        <3> QED
            BY <2>2, <2>3, <3>3
    <2>4. CASE k # 0
        <3>1. k - 1 \in Nat /\ k - 1 \notin bad /\ 0 <= k - 1
            <4>1. k - 1 \in Nat /\ ~(k <= k - 1) /\ 0 <= k - 1
                BY <2>2, <2>4
            <4>2. k - 1 \in bad => k <= k - 1
                BY <2>1
            <4> QED
                BY <4>1, <4>2
        <3>2. PICK g : Upto(g, k - 1)
            BY <3>1
        <3> DEFINE h == [s \in SUBSET T |->
                            IF Cardinality(s) <= k - 1 THEN g[s]
                            ELSE f[First(s)] + g[s \ {First(s)}]]
        <3>3. h = [s \in SUBSET T |-> h[s]]
            OBVIOUS
        <3>4. \A s \in SUBSET T : h[s] = IF Cardinality(s) <= k - 1 THEN g[s]
                                         ELSE f[First(s)] + g[s \ {First(s)}]
            OBVIOUS
        <3> HIDE DEF h
        <3>5. ASSUME NEW s \in SUBSET T, Cardinality(s) <= k PROVE Eq(h, s)
            <4>1. CASE s = {}
                <5>1. Cardinality(s) = 0 /\ h[s] = g[s]
                    BY <1>1, <3>1, <3>4, <4>1
                <5>2. Eq(g, s)
                    <6>1. Cardinality(s) <= k - 1
                        BY <3>1, <5>1
                    <6> QED
                        BY <3>2, <6>1
                <5> QED
                    BY <4>1, <5>1, <5>2
            <4>2. CASE s # {}
                <5>1. PICK r \in SUBSET T : r = s \ {First(s)}
                          /\ Cardinality(r) = Cardinality(s) - 1
                    BY <1>2, <4>2
                <5>2. PICK n \in Nat : n = Cardinality(s)
                    BY <1>1
                <5>3. Cardinality(r) <= k - 1
                    BY <2>2, <3>5, <5>1, <5>2
                <5>4. h[r] = g[r]
                    BY <3>4, <5>3
                <5>5. CASE n <= k - 1
                    <6>1. h[s] = g[s]
                        BY <3>4, <5>2, <5>5
                    <6>2. Eq(g, s)
                        BY <3>2, <5>2, <5>5
                    <6> QED
                        BY <4>2, <5>1, <5>4, <6>1, <6>2
                <5>6. CASE ~(n <= k - 1)
                    <6>1. h[s] = f[First(s)] + g[r]
                        BY <3>4, <5>1, <5>2, <5>6
                    <6> QED
                        BY <4>2, <5>1, <5>4, <6>1
                <5> QED
                    BY <5>5, <5>6
            <4> QED
                BY <4>1, <4>2
        <3>6. Upto(h, k)
            BY <3>3, <3>5
        <3> QED
            BY <2>2, <3>6
    <2> QED
        BY <2>3, <2>4
<1>4. Cardinality(T) \in Nat
    BY FS_CardinalityType
<1>5. PICK g : Upto(g, Cardinality(T))
    BY <1>3, <1>4
<1>6. \A s \in SUBSET T : Cardinality(s) <= Cardinality(T)
    BY FS_Subset
<1>7. \A s \in SUBSET T : Eq(g, s)
    BY <1>5, <1>6
<1> QED
    BY <1>5, <1>7 DEF Adding

(* Sums are integers.                                                      *)
LEMMA SumsAreInt ==
    ASSUME NEW T, IsFiniteSet(T), NEW f, \A x \in T : f[x] \in Int, NEW g, Adding(f, T, g)
    PROVE  \A s \in SUBSET T : g[s] \in Int
<1> DEFINE bad == {s \in SUBSET T : g[s] \notin Int}
<1> SUFFICES ASSUME bad # {} PROVE FALSE
    OBVIOUS
<1>1. bad \in SUBSET SUBSET T
    OBVIOUS
<1> HIDE DEF bad
<1>2. PICK s \in bad : \A x \in s : s \ {x} \notin bad
    BY <1>1, SmallestCounterexample
<1> USE DEF bad
<1>3. s \in SUBSET T /\ g[s] \notin Int
    OBVIOUS
<1>4. s # {} /\ First(s) \in s
    <2>1. s = {} => g[s] = 0
        BY <1>3 DEF Adding
    <2>2. s # {}
        BY <1>3, <2>1
    <2> QED
        BY <2>2 DEF First
<1>5. g[s \ {First(s)}] \in Int /\ f[First(s)] \in Int
    BY <1>2, <1>3, <1>4
<1>6. g[s] = f[First(s)] + g[s \ {First(s)}]
    BY <1>3, <1>4 DEF Adding
<1> QED
    BY <1>3, <1>5, <1>6

(* Any element may come first.                                             *)
LEMMA AnyFirst ==
    ASSUME NEW T, IsFiniteSet(T), NEW f, \A x \in T : f[x] \in Int, NEW g, Adding(f, T, g)
    PROVE  \A s \in SUBSET T : \A x \in s : g[s] = f[x] + g[s \ {x}]
<1> DEFINE bad == {s \in SUBSET T : \E x \in s : g[s] # f[x] + g[s \ {x}]}
<1> SUFFICES ASSUME bad # {} PROVE FALSE
    OBVIOUS
<1>1. bad \in SUBSET SUBSET T
    OBVIOUS
<1> HIDE DEF bad
<1>2. PICK s \in bad : \A x \in s : s \ {x} \notin bad
    BY <1>1, SmallestCounterexample
<1>3. PICK x \in s : g[s] # f[x] + g[s \ {x}]
    BY DEF bad
<1>4. s \in SUBSET T /\ s # {}
    BY <1>3 DEF bad
<1>5. PICK y \in s : y = First(s)
    BY <1>4 DEF First
<1>6. g[s] = f[y] + g[s \ {y}]
    BY <1>4, <1>5 DEF Adding
<1>7. x # y
    BY <1>3, <1>6
<1>8. s \ {y} \notin bad /\ s \ {x} \notin bad /\ s \ {y} \in SUBSET T
          /\ s \ {x} \in SUBSET T
    BY <1>2, <1>4
<1>9. g[s \ {y}] = f[x] + g[(s \ {y}) \ {x}]
    BY <1>7, <1>8 DEF bad
<1>10. g[s \ {x}] = f[y] + g[(s \ {x}) \ {y}]
    BY <1>7, <1>8 DEF bad
<1>11. (s \ {x}) \ {y} = (s \ {y}) \ {x} /\ (s \ {y}) \ {x} \in SUBSET T
    BY <1>4
<1>12. PICK rest \in Int, a \in Int, b \in Int :
          rest = g[(s \ {y}) \ {x}] /\ a = f[x] /\ b = f[y]
    BY <1>4, <1>11, SumsAreInt
<1>13. g[s] = b + (a + rest) /\ g[s \ {x}] = b + rest
    BY <1>6, <1>9, <1>10, <1>11, <1>12
<1>14. b + (a + rest) = a + (b + rest)
    OBVIOUS
<1> QED
    BY <1>3, <1>12, <1>13, <1>14

(* A sum does not depend on the set it is taken in.                        *)
LEMMA SumsAgree ==
    ASSUME NEW T, IsFiniteSet(T), NEW A \in SUBSET T, NEW f,
           NEW g, Adding(f, A, g), NEW k, Adding(f, T, k)
    PROVE  \A s \in SUBSET A : g[s] = k[s]
<1> DEFINE bad == {s \in SUBSET A : g[s] # k[s]}
<1> SUFFICES ASSUME bad # {} PROVE FALSE
    OBVIOUS
<1>1. bad \in SUBSET SUBSET T
    OBVIOUS
<1> HIDE DEF bad
<1>2. PICK s \in bad : \A x \in s : s \ {x} \notin bad
    BY <1>1, SmallestCounterexample
<1>3. s \in SUBSET A /\ s \in SUBSET T /\ g[s] # k[s]
    BY DEF bad
<1>4. CASE s = {}
    BY <1>3, <1>4 DEF Adding
<1>5. CASE s # {}
    <2>1. First(s) \in s
        BY <1>5 DEF First
    <2>2. g[s] = f[First(s)] + g[s \ {First(s)}] /\ k[s] = f[First(s)] + k[s \ {First(s)}]
        BY <1>3, <1>5 DEF Adding
    <2>3. g[s \ {First(s)}] = k[s \ {First(s)}]
        BY <1>2, <1>3, <2>1 DEF bad
    <2> QED
        BY <1>3, <2>2, <2>3
<1> QED
    BY <1>4, <1>5

Addends(T) == [x \in T |-> Value(x[1])]

(* The sum of a finite set is one of these.                                *)
LEMMA SumIsAdding ==
    ASSUME NEW T, IsFiniteSet(T)
    PROVE  \E g : Adding(Addends(T), T, g) /\ SumOf(T) = g[T]
<1> DEFINE iter[s \in SUBSET T] ==
              IF s = {} THEN 0
              ELSE LET x == CHOOSE x \in s : TRUE IN Value(x[1]) + iter[s \ {x}]
<1>1. SumOf(T) = iter[T]
    BY DEF SumOf, MapThenSumSet, MapThenFoldSet
<1>2. PICK g : Adding(Addends(T), T, g)
    BY AddingExists
<1>3. \A s \in SUBSET T : s # {} => Addends(T)[First(s)] = Value(First(s)[1])
    BY DEF First, Addends
<1>4. g = [s \in SUBSET T |-> IF s = {} THEN 0 ELSE Value(First(s)[1]) + g[s \ {First(s)}]]
    <2>1. g = [s \in SUBSET T |-> g[s]]
        BY <1>2 DEF Adding
    <2>2. \A s \in SUBSET T :
             g[s] = IF s = {} THEN 0 ELSE Value(First(s)[1]) + g[s \ {First(s)}]
        BY <1>2, <1>3 DEF Adding
    <2> QED
        BY <2>1, <2>2
<1>5. iter = [s \in SUBSET T |->
                 IF s = {} THEN 0
                 ELSE LET x == CHOOSE x \in s : TRUE IN Value(x[1]) + iter[s \ {x}]]
    <2>1. g = [s \in SUBSET T |->
                 IF s = {} THEN 0
                 ELSE LET x == CHOOSE x \in s : TRUE IN Value(x[1]) + g[s \ {x}]]
        BY <1>4 DEF First
    <2> QED
        BY <2>1
<1> HIDE DEF iter
<1>6. iter = [s \in SUBSET T |->
                 IF s = {} THEN 0 ELSE Value(First(s)[1]) + iter[s \ {First(s)}]]
    BY <1>5 DEF First
<1>7. \A s \in SUBSET T :
         iter[s] = IF s = {} THEN 0 ELSE Value(First(s)[1]) + iter[s \ {First(s)}]
    BY <1>6
<1>8. iter = [s \in SUBSET T |-> iter[s]]
    BY <1>6
<1>9. Adding(Addends(T), T, iter)
    BY <1>3, <1>7, <1>8 DEF Adding
<1> QED
    BY <1>1, <1>9

(* One more addend adds its value.                                         *)
LEMMA SumOfOneMore ==
    ASSUME NEW S, IsFiniteSet(S), NEW x, x \notin S, Value(x[1]) \in Int,
           \A y \in S : Value(y[1]) \in Int
    PROVE  SumOf(S \cup {x}) = SumOf(S) + Value(x[1]) /\ SumOf(S) \in Int
<1> DEFINE T == S \cup {x}
           f == Addends(T)
<1>1. IsFiniteSet(T) /\ S \in SUBSET T /\ T \in SUBSET T /\ x \in T /\ T \ {x} = S
    BY FS_AddElement
<1>2. PICK g : Adding(Addends(S), S, g) /\ SumOf(S) = g[S]
    BY SumIsAdding
<1>3. PICK k : Adding(f, T, k) /\ SumOf(T) = k[T]
    BY <1>1, SumIsAdding
<1>4. /\ \A y \in T : f[y] \in Int
      /\ f[x] = Value(x[1])
    BY DEF Addends
<1>5. Adding(f, S, g)
    <2>1. \A s \in SUBSET S : s # {} => f[First(s)] = Addends(S)[First(s)]
        BY DEF Addends, First
    <2> HIDE DEF f
    <2> QED
        BY <1>2, <2>1 DEF Adding
<1> HIDE DEF f, T
<1>6. g[S] = k[S]
    <2>1. S \in SUBSET S
        OBVIOUS
    <2> QED
        BY <1>1, <1>3, <1>5, <2>1, SumsAgree
<1>7. k[T] = f[x] + k[T \ {x}]
    BY <1>1, <1>3, <1>4, AnyFirst
<1>8. k[S] \in Int
    BY <1>1, <1>3, <1>4, SumsAreInt
<1>9. PICK a \in Int, v \in Int : a = k[S] /\ v = Value(x[1]) /\ v + a = a + v
    BY <1>8
<1> QED
    BY <1>1, <1>2, <1>3, <1>4, <1>6, <1>7, <1>9 DEF T

(* The sum of no cells is 0.                                               *)
LEMMA SumOfNone == SumOf({}) = 0
<1>1. IsFiniteSet({})
    BY FS_EmptySet
<1>2. PICK g : Adding(Addends({}), {}, g) /\ SumOf({}) = g[{}]
    BY <1>1, SumIsAdding
<1> QED
    BY <1>2 DEF Adding

----------------------------------------------------------------------------
(* Where a thread writes.                                                  *)

(* A position and another determine the cell and the way that brings the   *)
(* one the value of the other; the reference finds it there too.           *)
LEMMA PositionHasCells ==
    ASSUME job \in Jobs, job.kind # "matrix", NEW p \in Profiled, NEW o \in OthersOf(job, p)
    PROVE  /\ RowOf(job, p, o) \in Rows(job) /\ ColOf(job, p, o) \in Columns(job)
           /\ WayOf(job, p, o) \in Ways(job) /\ p[1] \in {"a", "b"}
           /\ TargetAt(job, RowOf(job, p, o), ColOf(job, p, o), WayOf(job, p, o)) = p
           /\ OtherAt(RowOf(job, p, o), ColOf(job, p, o), WayOf(job, p, o)) = o
           /\ (IF p[1] = "a" THEN Given(o, p[2]) ELSE Given(p[2], o))
                = IF InJoin(job, RowOf(job, p, o), ColOf(job, p, o))
                  THEN BitsOf(job, p, o) ELSE Invalid
<1>1. PICK a \in Nat \ {0}, b \in Nat \ {0}, x \in Nat :
         /\ a = job.n_a /\ b = job.n_b /\ x = job.exclusion
         /\ job.self \in BOOLEAN /\ (job.self => a = b /\ x > 0 /\ job.kind # "bidirectional")
    BY JobFacts
<1>2. CASE p[1] = "a"
    <2>1. PICK c \in 0 .. a - 1 : p = <<"a", c>>
        BY <1>1, <1>2 DEF Profiled, Positions
    <2>2. o \in 0 .. b - 1
        BY <1>1, <1>2 DEF OthersOf, Rows
    <2>3. CASE job.self /\ o > c
        <3>1. RowOf(job, p, o) = c /\ ColOf(job, p, o) = o /\ WayOf(job, p, o) = 2
            BY <2>1, <2>3 DEF RowOf, ColOf, WayOf, Swapped
        <3>2. InJoin(job, c, o) <=> ~(Distance(o, c) < x)
            BY <1>1, <2>2, <2>3 DEF InJoin, Distance
        <3>3. Given(o, c) = IF InJoin(job, c, o) THEN BitsOf(job, p, o) ELSE Invalid
            BY <1>1, <2>3, <3>1, <3>2 DEF Given, BitsOf
        <3>4. TargetAt(job, c, o, 2) = p /\ OtherAt(c, o, 2) = o /\ 2 \in Ways(job)
            BY <2>1, <2>3 DEF TargetAt, OtherAt, Ways
        <3> QED
            BY <1>1, <1>2, <2>1, <2>2, <2>3, <3>1, <3>3, <3>4 DEF Rows, Columns
    <2>4. CASE ~(job.self /\ o > c)
        <3>1. RowOf(job, p, o) = o /\ ColOf(job, p, o) = c /\ WayOf(job, p, o) = 1
            BY <2>1, <2>4 DEF RowOf, ColOf, WayOf, Swapped
        <3>2. InJoin(job, o, c) <=> ~(Distance(o, c) < x)
            BY <1>1, <2>2, <2>4 DEF InJoin, Distance
        <3>3. Given(o, c) = IF InJoin(job, o, c) THEN BitsOf(job, p, o) ELSE Invalid
            BY <1>1, <2>4, <3>1, <3>2 DEF Given, BitsOf
        <3>4. TargetAt(job, o, c, 1) = p /\ OtherAt(o, c, 1) = o /\ 1 \in Ways(job)
            BY <2>1 DEF TargetAt, OtherAt, Ways
        <3> QED
            BY <1>1, <1>2, <2>1, <2>2, <3>1, <3>3, <3>4 DEF Rows, Columns
    <2> QED
        BY <2>3, <2>4
<1>3. CASE p[1] # "a"
    <2>1. PICK r \in 0 .. b - 1 : p = <<"b", r>> /\ job.kind = "bidirectional"
        BY <1>1, <1>3 DEF Profiled, Positions
    <2>2. o \in 0 .. a - 1 /\ ~job.self
        BY <1>1, <1>3, <2>1 DEF OthersOf, Columns
    <2>3. RowOf(job, p, o) = r /\ ColOf(job, p, o) = o /\ WayOf(job, p, o) = 2
        BY <2>1 DEF RowOf, ColOf, WayOf, Swapped
    <2>4. InJoin(job, r, o) <=> ~(Distance(r, o) < x)
        BY <1>1, <2>2 DEF InJoin, Distance
    <2>5. Given(r, o) = IF InJoin(job, r, o) THEN BitsOf(job, p, o) ELSE Invalid
        BY <1>1, <2>2, <2>3, <2>4 DEF Given, BitsOf
    <2>6. TargetAt(job, r, o, 2) = p /\ OtherAt(r, o, 2) = o /\ 2 \in Ways(job)
        BY <2>1, <2>2 DEF TargetAt, OtherAt, Ways
    <2> QED
        BY <1>1, <1>3, <2>1, <2>2, <2>3, <2>5, <2>6 DEF Rows, Columns
<1> QED
    BY <1>2, <1>3

(* And a cell and a way determine the position and the other.              *)
LEMMA CellHasPosition ==
    ASSUME job \in Jobs, job.kind # "matrix", NEW r \in Rows(job), NEW c \in Columns(job),
           NEW e \in Ways(job), InJoin(job, r, c)
    PROVE  /\ TargetAt(job, r, c, e) \in Profiled
           /\ OtherAt(r, c, e) \in OthersOf(job, TargetAt(job, r, c, e))
           /\ RowOf(job, TargetAt(job, r, c, e), OtherAt(r, c, e)) = r
           /\ ColOf(job, TargetAt(job, r, c, e), OtherAt(r, c, e)) = c
           /\ WayOf(job, TargetAt(job, r, c, e), OtherAt(r, c, e)) = e
<1>1. PICK a \in Nat \ {0}, b \in Nat \ {0}, x \in Nat :
         /\ a = job.n_a /\ b = job.n_b /\ x = job.exclusion
         /\ job.self \in BOOLEAN /\ (job.self => a = b /\ x > 0 /\ job.kind # "bidirectional")
    BY JobFacts
<1>2. r \in 0 .. b - 1 /\ c \in 0 .. a - 1 /\ (job.self => r < c)
    BY <1>1 DEF Rows, Columns, InJoin, Distance
<1>3. CASE e = 1
    <2>1. TargetAt(job, r, c, e) = <<"a", c>> /\ OtherAt(r, c, e) = r
        BY <1>3 DEF TargetAt, OtherAt
    <2>2. <<"a", c>> \in Profiled
        BY <1>1, <1>2 DEF Profiled, Positions
    <2>3. ~Swapped(job, <<"a", c>>, r)
        BY <1>1, <1>2 DEF Swapped
    <2> QED
        BY <1>3, <2>1, <2>2, <2>3 DEF RowOf, ColOf, WayOf, OthersOf
<1>4. CASE e # 1
    <2>1. e = 2 /\ (job.self \/ job.kind = "bidirectional")
        BY <1>4 DEF Ways
    <2>2. CASE job.self
        <3>1. TargetAt(job, r, c, e) = <<"a", r>> /\ OtherAt(r, c, e) = c
            BY <1>4, <2>2 DEF TargetAt, OtherAt
        <3>2. <<"a", r>> \in Profiled /\ c \in Rows(job)
            BY <1>1, <1>2, <2>2 DEF Profiled, Positions, Rows
        <3>3. Swapped(job, <<"a", r>>, c)
            BY <1>1, <1>2, <2>2 DEF Swapped
        <3> QED
            BY <2>1, <3>1, <3>2, <3>3 DEF RowOf, ColOf, WayOf, OthersOf
    <2>3. CASE ~job.self
        <3>1. TargetAt(job, r, c, e) = <<"b", r>> /\ OtherAt(r, c, e) = c
            BY <1>4, <2>3 DEF TargetAt, OtherAt
        <3>2. <<"b", r>> \in Profiled
            BY <1>1, <1>2, <2>1, <2>3 DEF Profiled, Positions
        <3>3. Swapped(job, <<"b", r>>, c)
            BY DEF Swapped
        <3> QED
            BY <2>1, <3>1, <3>2, <3>3 DEF RowOf, ColOf, WayOf, OthersOf
    <2> QED
        BY <2>2, <2>3
<1> QED
    BY <1>3, <1>4

(* The ways are the ends of the kernel.                                    *)
LEMMA WaysAreEnds ==
    ASSUME job \in Jobs
    PROVE  /\ Ways(job) = 1 .. Cardinality(DOMAIN Ends)
           /\ Cardinality(DOMAIN Ends) \in {1, 2}
           /\ job.kind = "matrix" => Ends[1] = "cell" /\ Cardinality(DOMAIN Ends) = 1
           /\ job.kind # "matrix" => Ends[1] = "col"
           /\ 2 \in Ways(job) => Ends[2] = "row" /\ job.kind # "matrix"
<1>1. Cardinality(1 .. 1) = 1 /\ Cardinality(1 .. 2) = 2
    <2>1. 1 \in Int /\ 2 \in Int
        OBVIOUS
    <2>2. Cardinality(1 .. 1) = IF 1 > 1 THEN 0 ELSE 1 - 1 + 1
        BY <2>1, FS_Interval
    <2>3. Cardinality(1 .. 2) = IF 1 > 2 THEN 0 ELSE 2 - 1 + 1
        BY <2>1, FS_Interval
    <2> QED
        BY <2>2, <2>3
<1>2. CASE job.kind = "matrix"
    <2>1. Ends = <<"cell">>
        BY <1>2 DEF Ends
    <2>2. DOMAIN Ends = 1 .. 1 /\ Ends[1] = "cell"
        BY <2>1
    <2>3. Ways(job) = 1 .. 1
        BY <1>2 DEF Ways
    <2> QED
        BY <1>1, <1>2, <2>2, <2>3
<1>3. CASE job.kind # "matrix" /\ (job.self \/ job.kind = "bidirectional")
    <2>1. Ends = <<"col", "row">>
        BY <1>3 DEF Ends
    <2>2. DOMAIN Ends = 1 .. 2 /\ Ends[1] = "col" /\ Ends[2] = "row"
        BY <2>1
    <2>3. Ways(job) = 1 .. 2
        BY <1>3 DEF Ways
    <2> QED
        BY <1>1, <1>3, <2>2, <2>3
<1>4. CASE job.kind # "matrix" /\ ~(job.self \/ job.kind = "bidirectional")
    <2>1. Ends = <<"col">>
        BY <1>4 DEF Ends
    <2>2. DOMAIN Ends = 1 .. 1 /\ Ends[1] = "col"
        BY <2>1
    <2>3. Ways(job) = 1 .. 1
        BY <1>4 DEF Ways
    <2> QED
        BY <1>1, <1>4, <2>2, <2>3
<1> QED
    BY <1>2, <1>3, <1>4

(* The cell of a summary is one of its cells, and tells its bins.          *)
LEMMA BinsMakeCells ==
    ASSUME NEW rows \in Nat \ {0}, NEW cols \in Nat \ {0},
           NEW i \in 0 .. rows - 1, NEW k \in 0 .. cols - 1
    PROVE  /\ i * cols + k \in 0 .. rows * cols - 1
           /\ \A u \in 0 .. rows - 1, v \in 0 .. cols - 1 :
                 i * cols + k = u * cols + v => i = u /\ k = v
<1>1. i * cols + k \in 0 .. rows * cols - 1
    <2>1. PICK d \in Nat : rows = i + 1 + d
        <3>1. rows - i - 1 \in Nat /\ rows = i + 1 + (rows - i - 1)
            OBVIOUS
        <3> QED
            BY <3>1
    <2>2. rows * cols = i * cols + cols + d * cols /\ i * cols \in Nat /\ d * cols \in Nat
        BY <2>1
    <2> QED
        BY <2>2
<1>2. ASSUME NEW u \in 0 .. rows - 1, NEW v \in 0 .. cols - 1, i * cols + k = u * cols + v
      PROVE  i = u /\ k = v
    <2>1. PICK y \in Nat : y = i * cols + k /\ y = u * cols + v
        BY <1>1, <1>2
    <2>2. /\ y = cols * i + k /\ y = cols * u + v
          /\ y \in Int /\ i \in Int /\ u \in Int /\ cols \in Nat \ {0}
        BY <2>1
    <2>3. y % cols = k
        BY <2>2, Remainder
    <2>4. y % cols = v
        BY <2>2, Remainder
    <2>5. cols * i = cols * u
        BY <2>2, <2>3, <2>4
    <2>6. i = u
        <3>1. ASSUME i + 1 <= u PROVE FALSE
            <4>1. cols * (i + 1) <= cols * u
                BY <3>1, MoreTimes
            <4>2. cols * (i + 1) = cols * i + cols /\ cols * i \in Nat
                OBVIOUS
            <4> QED
                BY <2>5, <4>1, <4>2
        <3>2. ASSUME u + 1 <= i PROVE FALSE
            <4>1. cols * (u + 1) <= cols * i
                BY <3>2, MoreTimes
            <4>2. cols * (u + 1) = cols * u + cols /\ cols * u \in Nat
                OBVIOUS
            <4> QED
                BY <2>5, <4>1, <4>2
        <3> QED
            BY <3>1, <3>2
    <2> QED
        BY <2>3, <2>4, <2>6
<1> QED
    BY <1>1, <1>2

(* What is written is a position.                                          *)
LEMMA TargetsArePositions ==
    ASSUME job \in Jobs, NEW r \in Rows(job), NEW c \in Columns(job), NEW e \in Ways(job)
    PROVE  TargetAt(job, r, c, e) \in Positions
<1>1. PICK a \in Nat \ {0}, b \in Nat \ {0}, rows \in Nat \ {0}, cols \in Nat \ {0} :
         /\ a = job.n_a /\ b = job.n_b /\ rows = job.rows /\ cols = job.cols
         /\ (job.self => a = b)
         /\ (job.kind = "matrix" => rows <= b /\ cols <= a)
    BY JobFacts
<1>2. r \in 0 .. b - 1 /\ c \in 0 .. a - 1
    BY <1>1 DEF Rows, Columns
<1>3. CASE job.kind = "matrix"
    <2>1. BinOf(r, b, rows) \in 0 .. rows - 1 /\ BinOf(c, a, cols) \in 0 .. cols - 1
        <3>1. /\ r \in Nat /\ r < b /\ c \in Nat /\ c < a
              /\ rows <= b /\ cols <= a
            BY <1>1, <1>2, <1>3
        <3>2. BinOf(r, b, rows) \in Nat /\ BinOf(r, b, rows) < rows
            BY <3>1, BinsMoveByOne
        <3>3. BinOf(c, a, cols) \in Nat /\ BinOf(c, a, cols) < cols
            BY <3>1, BinsMoveByOne
        <3> QED
            BY <3>2, <3>3
    <2>2. BinOf(r, b, rows) * cols + BinOf(c, a, cols) \in 0 .. rows * cols - 1
        BY <2>1, BinsMakeCells
    <2> QED
        BY <1>1, <1>3, <2>2 DEF TargetAt, Positions
<1>4. CASE job.kind # "matrix"
    BY <1>1, <1>2, <1>4 DEF TargetAt, Positions
<1> QED
    BY <1>3, <1>4

----------------------------------------------------------------------------
(* A step of a thread.                                                     *)

HereRow(slot) == RowAt(job, slot, threads[slot].step)
HereCol(slot) == ColAt(job, slot, threads[slot].step)

(* The slots of a launch are diagonals of the join, from the first of the  *)
(* batch on.                                                               *)
LEMMA SlotsAreDiagonals ==
    ASSUME LaunchInv
    PROVE  \A slot \in Slots :
              /\ slot \in 0 .. Diagonals(job) - 1 /\ first <= slot
              /\ phase \in {"profile", "index"} /\ Fits(job) /\ job \in Jobs
<1>1. ASSUME NEW slot \in Slots PROVE slot \in 0 .. Diagonals(job) - 1 /\ first <= slot
    <2>1. phase \in {"profile", "index"} /\ first \in Nat /\ first < Diagonals(job)
        BY DEF LaunchInv, Slots
    <2>2. Diagonals(job) \in Int
        BY JobFacts DEF Diagonals, LaunchInv
    <2>3. CASE job.kind = "sum"
        <3>1. slot \in first .. Min({first + BatchSize, Diagonals(job)}) - 1
            BY <2>1, <2>3 DEF LaunchInv, Slots
        <3>2. /\ Min({first + BatchSize, Diagonals(job)}) \in Nat
              /\ Min({first + BatchSize, Diagonals(job)}) <= Diagonals(job)
            BY <2>1, <2>2, KernelAssumption, MinIsLeast
        <3> QED
            BY <2>1, <2>2, <3>1, <3>2
    <2>4. CASE job.kind # "sum"
        BY <2>1, <2>2, <2>4 DEF LaunchInv, Slots
    <2> QED
        BY <2>3, <2>4
<1> QED
    BY <1>1 DEF LaunchInv, Slots

(* What a running thread writes, and where.                                *)
LEMMA ThreadIsHere ==
    ASSUME LaunchInv, ThreadInv, NEW slot \in Slots, Running(slot)
    PROVE  /\ HereRow(slot) \in Rows(job) /\ HereCol(slot) \in Columns(job)
           /\ Matters(job, HereRow(slot), HereCol(slot))
           /\ threads[slot].step \in 0 .. LengthAt(job, slot) - 1
           /\ threads[slot].end \in Ways(job)
           /\ SlotOf(job, HereRow(slot), HereCol(slot)) = slot
           /\ StepOf(HereRow(slot), HereCol(slot)) = threads[slot].step
           /\ Row(slot, threads[slot].step) = HereRow(slot)
           /\ Col(slot, threads[slot].step) = HereCol(slot)
           /\ Bits(slot) = job.corr[<<HereRow(slot), HereCol(slot)>>]
           /\ OrderedKey(Bits(slot)) = Key(job, HereRow(slot), HereCol(slot))
           /\ OrderedKey(Bits(slot)) \in Nat /\ Value(Bits(slot)) \in Int
           /\ Here(slot) = TargetAt(job, HereRow(slot), HereCol(slot), threads[slot].end)
           /\ Here(slot) \in Positions
<1>1. /\ slot \in 0 .. Diagonals(job) - 1 /\ Fits(job) /\ job \in Jobs
      /\ phase \in {"profile", "index"}
    BY SlotsAreDiagonals
<1>2. DiagonalLength(slot) = LengthAt(job, slot) /\ LengthAt(job, slot) \in Nat
    BY <1>1, Starts
<1>3. PICK step \in 0 .. LengthAt(job, slot) - 1 : step = threads[slot].step
    BY <1>2 DEF ThreadInv, Slots, Running
<1>4. /\ threads[slot].end \in Ways(job)
      /\ Matters(job, HereRow(slot), HereCol(slot))
    BY <1>2, <1>3 DEF ThreadInv, Slots, HereRow, HereCol
<1>5. /\ Row(slot, step) = HereRow(slot) /\ HereRow(slot) \in Rows(job)
      /\ Col(slot, step) = HereCol(slot) /\ HereCol(slot) \in Columns(job)
      /\ SlotOf(job, HereRow(slot), HereCol(slot)) = slot
      /\ StepOf(HereRow(slot), HereCol(slot)) = step
      /\ Corr(Row(slot, step), Col(slot, step)) = job.corr[<<HereRow(slot), HereCol(slot)>>]
    BY <1>1, <1>3, Steps DEF HereRow, HereCol
<1>6. Bits(slot) = job.corr[<<HereRow(slot), HereCol(slot)>>]
    BY <1>3, <1>5 DEF Bits
<1>7. OrderedKey(Bits(slot)) = Key(job, HereRow(slot), HereCol(slot))
    BY <1>6 DEF Key
<1>8. OrderedKey(Bits(slot)) \in Nat /\ Value(Bits(slot)) \in Int
    <2>1. Bits(slot) \in Patterns
        BY <1>1, <1>4, <1>5, <1>6, JobFacts DEF Matters
    <2> QED
        BY <2>1, KeysAreOrdered
<1>9. Here(slot) = TargetAt(job, HereRow(slot), HereCol(slot), threads[slot].end)
    <2>1. Here(slot) = Target(slot, step, Ends[threads[slot].end])
        BY <1>3 DEF Here
    <2>2. threads[slot].end \in {1, 2}
        BY <1>4 DEF Ways
    <2>3. CASE job.kind = "matrix"
        <3>1. threads[slot].end = 1 /\ Ends[1] = "cell"
            BY <1>1, <1>4, <2>3, WaysAreEnds DEF Ways
        <3>2. MatrixCell(slot, step)
              = BinOf(HereRow(slot), job.n_b, job.rows) * job.cols
                + BinOf(HereCol(slot), job.n_a, job.cols)
            BY <1>1, <1>3, <2>3, CellIsOfBins DEF HereRow, HereCol
        <3> QED
            BY <2>1, <2>3, <3>1, <3>2 DEF Target, TargetAt
    <2>4. CASE job.kind # "matrix" /\ threads[slot].end = 1
        <3>1. Ends[1] = "col"
            BY <1>1, <2>4, WaysAreEnds
        <3> QED
            BY <1>5, <2>1, <2>4, <3>1 DEF Target, TargetAt
    <2>5. CASE job.kind # "matrix" /\ threads[slot].end = 2
        <3>1. Ends[2] = "row"
            BY <1>1, <1>4, <2>5, WaysAreEnds
        <3> QED
            BY <1>5, <2>1, <2>5, <3>1 DEF Target, TargetAt, RowArray
    <2> QED
        BY <2>2, <2>3, <2>4, <2>5
<1>10. Here(slot) \in Positions
    BY <1>1, <1>4, <1>5, <1>9, TargetsArePositions
<1> QED
    BY <1>3, <1>4, <1>5, <1>6, <1>7, <1>8, <1>9, <1>10

(* The step writes its cell at its end, and nothing else: what it passes   *)
(* on the way to the next does not matter.                                 *)
LEMMA Advances ==
    ASSUME LaunchInv, ThreadInv, NEW slot \in Slots, Running(slot), Advance(slot),
           UNCHANGED <<job, phase, first>>
    PROVE  /\ LaunchInv' /\ ThreadInv'
           /\ ~Written(HereRow(slot), HereCol(slot), threads[slot].end)
           /\ \A r \in Rows(job), c \in Columns(job), e \in Ways(job) :
                 Matters(job, r, c) =>
                    (Written(r, c, e)' <=>
                        \/ Written(r, c, e)
                        \/ r = HereRow(slot) /\ c = HereCol(slot) /\ e = threads[slot].end)
<1>1. /\ slot \in 0 .. Diagonals(job) - 1 /\ Fits(job) /\ job \in Jobs /\ first <= slot
      /\ phase \in {"profile", "index"} /\ slot \in DOMAIN threads
    BY SlotsAreDiagonals DEF Slots
<1>2. PICK n \in Nat : n = LengthAt(job, slot) /\ n = DiagonalLength(slot)
    BY <1>1, Starts
<1>3. PICK step \in 0 .. n - 1, end \in Ways(job) :
         /\ threads[slot].step = step /\ threads[slot].end = end
         /\ threads[slot] \in [step : 0 .. n, end : Ways(job), held : Held]
    BY <1>1, <1>2, ThreadIsHere DEF ThreadInv
<1>4. PICK card \in {1, 2} : card = Cardinality(DOMAIN Ends) /\ Ways(job) = 1 .. card
    BY <1>1, WaysAreEnds
<1>5. PICK next \in (step + 1) .. n :
         /\ next = NextStep(slot, step + 1)
         /\ next < n => Matters(job, RowAt(job, slot, next), ColAt(job, slot, next))
         /\ \A k \in (step + 1) .. n - 1 :
               Matters(job, RowAt(job, slot, k), ColAt(job, slot, k)) => next <= k
    <2>1. step + 1 \in 0 .. LengthAt(job, slot)
        BY <1>2
    <2> QED
        BY <1>1, <1>2, <2>1, NextStepIsNext
<1>6. PICK t \in [step : 0 .. n, end : Ways(job), held : Held] :
         /\ t = threads'[slot]
         /\ t.step = IF end < card THEN step ELSE next
         /\ t.end = IF end < card THEN 2 ELSE 1
    <2>1. threads'[slot] = IF end < card
                           THEN [threads[slot] EXCEPT !.end = 2, !.held = Nothing]
                           ELSE [step |-> next, end |-> 1, held |-> Nothing]
        BY <1>1, <1>3, <1>4, <1>5 DEF Advance
    <2>2. 1 \in Ways(job) /\ (end < card => 2 \in Ways(job)) /\ Nothing \in Held
        BY <1>3, <1>4 DEF Held
    <2>3. CASE end < card
        BY <1>3, <2>1, <2>2, <2>3
    <2>4. CASE ~(end < card)
        <3>1. threads'[slot] = [step |-> next, end |-> 1, held |-> Nothing]
            BY <2>1, <2>4
        <3>2. next \in 0 .. n
            BY <1>5
        <3> QED
            BY <2>2, <2>4, <3>1, <3>2
    <2> QED
        BY <2>3, <2>4
<1>7. /\ DOMAIN threads' = DOMAIN threads
      /\ \A s \in DOMAIN threads : s # slot => threads'[s] = threads[s]
    BY <1>1 DEF Advance
<1>8. LaunchInv'
    BY <1>7 DEF LaunchInv, Fits, Indexed, Diagonals
<1>9. ThreadInv'
    <2>2. ASSUME t.step < n
          PROVE  Matters(job, RowAt(job, slot, t.step), ColAt(job, slot, t.step))
        <3>1. CASE end < card
            <4>1. t.step = step
                BY <1>6, <3>1
            <4> QED
                BY <1>3, <4>1, ThreadIsHere DEF HereRow, HereCol
        <3>2. CASE ~(end < card)
            BY <1>5, <1>6, <2>2, <3>2
        <3> QED
            BY <3>1, <3>2
    <2>3. ASSUME NEW s \in DOMAIN threads
          PROVE  /\ threads'[s] \in [step : 0 .. LengthAt(job, s), end : Ways(job), held : Held]
                 /\ threads'[s].step < LengthAt(job, s) =>
                       Matters(job, RowAt(job, s, threads'[s].step),
                               ColAt(job, s, threads'[s].step))
        <3>1. CASE s = slot
            BY <1>2, <1>6, <2>2, <3>1
        <3>2. CASE s # slot
            BY <1>7, <3>2 DEF ThreadInv
        <3> QED
            BY <3>1, <3>2
    <2>4. job' = job
        OBVIOUS
    <2> QED
        BY <1>7, <2>3, <2>4 DEF ThreadInv
<1>10. /\ HereRow(slot) \in Rows(job) /\ HereCol(slot) \in Columns(job)
       /\ HereRow(slot) = RowAt(job, slot, step) /\ HereCol(slot) = ColAt(job, slot, step)
       /\ SlotOf(job, HereRow(slot), HereCol(slot)) = slot
       /\ StepOf(HereRow(slot), HereCol(slot)) = step /\ threads[slot].end = end
    BY <1>3, ThreadIsHere DEF HereRow, HereCol
<1>11. ~Written(HereRow(slot), HereCol(slot), end)
    <2>1. ~(phase = "done") /\ ~(slot < first)
        BY <1>1 DEF LaunchInv
    <2>2. ~(step < threads[slot].step) /\ ~(end < threads[slot].end)
        BY <1>3, <1>4
    <2> QED
        BY <1>10, <2>1, <2>2 DEF Written
<1>12. ASSUME NEW r \in Rows(job), NEW c \in Columns(job), NEW e \in Ways(job), Matters(job, r, c)
       PROVE  Written(r, c, e)' <=>
                 \/ Written(r, c, e)
                 \/ r = HereRow(slot) /\ c = HereCol(slot) /\ e = end
    <2> DEFINE s == SlotOf(job, r, c)
               k == StepOf(r, c)
    <2>1. /\ s \in 0 .. Diagonals(job) - 1 /\ k \in 0 .. LengthAt(job, s) - 1
          /\ RowAt(job, s, k) = r /\ ColAt(job, s, k) = c
        BY <1>1, <1>12, Reached DEF Matters
    <2>2. /\ Written(r, c, e) <=> \/ phase = "done" \/ s < first
                                  \/ /\ s \in DOMAIN threads
                                     /\ \/ k < threads[s].step
                                        \/ k = threads[s].step /\ e < threads[s].end
          /\ Written(r, c, e)' <=> \/ phase = "done" \/ s < first
                                   \/ /\ s \in DOMAIN threads'
                                      /\ \/ k < threads'[s].step
                                         \/ k = threads'[s].step /\ e < threads'[s].end
        BY DEF Written
    <2> HIDE DEF s, k
    <2>3. CASE s # slot
        <3>1. ~(r = HereRow(slot) /\ c = HereCol(slot))
            BY <1>10, <2>3 DEF s
        <3> QED
            BY <1>7, <2>2, <2>3, <3>1
    <2>4. CASE s = slot
        <3>1. ~(phase = "done") /\ ~(s < first)
            BY <1>1, <2>4 DEF LaunchInv
        <3>2. Written(r, c, e) <=> (k < step \/ (k = step /\ e < end))
            BY <1>1, <1>3, <2>2, <2>4, <3>1
        <3>3. Written(r, c, e)' <=> (k < t.step \/ (k = t.step /\ e < t.end))
            BY <1>1, <1>6, <1>7, <2>2, <2>4, <3>1
        <3>4. k = step <=> (r = HereRow(slot) /\ c = HereCol(slot))
            BY <1>10, <2>1, <2>4 DEF k
        <3>5. k \in 0 .. n - 1 /\ Matters(job, RowAt(job, slot, k), ColAt(job, slot, k))
            BY <1>2, <1>12, <2>1, <2>4
        <3>6. CASE end < card
            <4>1. t.step = step /\ t.end = 2 /\ end = 1 /\ e \in 1 .. 2
                BY <1>4, <1>6, <3>6
            <4> QED
                BY <3>2, <3>3, <3>4, <4>1
        <3>7. CASE ~(end < card)
            <4>1. t.step = next /\ t.end = 1 /\ end = card /\ e \in 1 .. card
                BY <1>4, <1>6, <3>7
            <4>2. k < next <=> k <= step
                BY <1>5, <3>5
            <4> QED
                BY <3>2, <3>3, <3>4, <3>5, <4>1, <4>2
        <3> QED
            BY <3>6, <3>7
    <2> QED
        BY <2>3, <2>4
<1> QED
    BY <1>8, <1>9, <1>10, <1>11, <1>12

(* Threads that a launch starts have written nothing that matters.         *)
LEMMA LaunchedWriteNothing ==
    ASSUME job \in Jobs, Fits(job), UNCHANGED job, NEW from \in Nat, NEW count \in Nat,
           from + count <= Diagonals(job), threads' = Launched(from, count)
    PROVE  /\ DOMAIN threads' = from .. from + count - 1 /\ ThreadInv'
           /\ \A r \in Rows(job), c \in Columns(job), e \in Ways(job) :
                 Matters(job, r, c) =>
                    (Written(r, c, e)' <=> phase' = "done" \/ SlotOf(job, r, c) < first')
<1>1. 1 \in Ways(job) /\ Nothing \in Held /\ Ways(job) \subseteq {1, 2}
    BY DEF Ways, Held
<1>2. DOMAIN threads' = from .. from + count - 1
    BY DEF Launched
<1>3. ASSUME NEW slot \in DOMAIN threads'
      PROVE  /\ slot \in 0 .. Diagonals(job) - 1
             /\ threads'[slot] \in [step : 0 .. LengthAt(job, slot), end : Ways(job), held : Held]
             /\ threads'[slot].step = NextStep(slot, 0) /\ threads'[slot].end = 1
             /\ threads'[slot].step < LengthAt(job, slot) =>
                   Matters(job, RowAt(job, slot, threads'[slot].step),
                           ColAt(job, slot, threads'[slot].step))
             /\ \A step \in 0 .. LengthAt(job, slot) - 1 :
                   Matters(job, RowAt(job, slot, step), ColAt(job, slot, step)) =>
                      threads'[slot].step <= step
    <2>1. slot \in from .. from + count - 1 /\ slot \in 0 .. Diagonals(job) - 1
        <3>1. Diagonals(job) \in Int
            BY JobFacts DEF Diagonals
        <3> QED
            BY <1>2, <3>1
    <2>2. threads'[slot] = [step |-> NextStep(slot, 0), end |-> 1, held |-> Nothing]
        BY <2>1 DEF Launched
    <2>3. LengthAt(job, slot) \in Nat /\ 0 \in 0 .. LengthAt(job, slot)
        BY <2>1, Starts
    <2>4. /\ NextStep(slot, 0) \in 0 .. LengthAt(job, slot)
          /\ NextStep(slot, 0) < LengthAt(job, slot) =>
                Matters(job, RowAt(job, slot, NextStep(slot, 0)),
                        ColAt(job, slot, NextStep(slot, 0)))
          /\ \A step \in 0 .. LengthAt(job, slot) - 1 :
                Matters(job, RowAt(job, slot, step), ColAt(job, slot, step)) =>
                   NextStep(slot, 0) <= step
        BY <2>1, <2>3, NextStepIsNext
    <2>5. threads'[slot].step = NextStep(slot, 0) /\ threads'[slot].end = 1
        BY <2>2
    <2>6. threads'[slot] \in [step : 0 .. LengthAt(job, slot), end : Ways(job), held : Held]
        BY <1>1, <2>2, <2>4
    <2> QED
        BY <2>1, <2>4, <2>5, <2>6
<1>4. ThreadInv'
    BY <1>3 DEF ThreadInv
<1>5. ASSUME NEW r \in Rows(job), NEW c \in Columns(job), NEW e \in Ways(job), Matters(job, r, c)
      PROVE  Written(r, c, e)' <=> phase' = "done" \/ SlotOf(job, r, c) < first'
    <2>1. PICK s, k : s = SlotOf(job, r, c) /\ k = StepOf(r, c)
        OBVIOUS
    <2>2. /\ k \in 0 .. LengthAt(job, s) - 1 /\ RowAt(job, s, k) = r /\ ColAt(job, s, k) = c
          /\ s \in 0 .. Diagonals(job) - 1
        BY <1>5, <2>1, Reached DEF Matters
    <2>3. LengthAt(job, s) \in Nat
        BY <2>2, Starts
    <2>4. ASSUME s \in DOMAIN threads'
          PROVE  ~(k < threads'[s].step) /\ ~(e < threads'[s].end)
        <3>1. threads'[s].step <= k /\ threads'[s].step \in Nat /\ threads'[s].end = 1
            BY <1>3, <1>5, <2>2, <2>3, <2>4
        <3>2. e \in {1, 2} /\ k \in Nat
            BY <1>1, <2>2, <2>3
        <3> QED
            BY <3>1, <3>2
    <2> QED
        BY <2>1, <2>4 DEF Written
<1> QED
    BY <1>2, <1>4, <1>5

(* When its threads are done a launch has written the diagonals it has     *)
(* reached.                                                                *)
LEMMA AllDoneWrites ==
    ASSUME LaunchInv, ThreadInv, AllDone, phase \in {"profile", "index"}, 
           NEW r \in Rows(job), NEW c \in Columns(job), NEW e \in Ways(job), Matters(job, r, c)
    PROVE  /\ SlotOf(job, r, c) \in 0 .. Diagonals(job) - 1
           /\ Written(r, c, e) <=>
                 SlotOf(job, r, c) < first \/ SlotOf(job, r, c) \in DOMAIN threads
           /\ job.kind # "sum" => Written(r, c, e)
           /\ job.kind = "sum" => (Written(r, c, e) <=> SlotOf(job, r, c) < first + BatchSize)
<1>1. PICK s, k : s = SlotOf(job, r, c) /\ k = StepOf(r, c)
    OBVIOUS
<1>2. job \in Jobs /\ Fits(job) /\ phase # "done" /\ first \in Nat
    BY DEF LaunchInv
<1>3. /\ k \in 0 .. LengthAt(job, s) - 1 /\ s \in 0 .. Diagonals(job) - 1
    BY <1>1, <1>2, Reached DEF Matters
<1>4. LengthAt(job, s) \in Nat /\ DiagonalLength(s) = LengthAt(job, s)
    BY <1>2, <1>3, Starts
<1>5. ASSUME s \in DOMAIN threads PROVE k < threads[s].step
    <2>1. ~(threads[s].step < LengthAt(job, s)) /\ threads[s].step \in 0 .. LengthAt(job, s)
        BY <1>4, <1>5 DEF AllDone, Running, Slots, ThreadInv
    <2> QED
        BY <1>3, <1>4, <2>1
<1>6. Written(r, c, e) <=> s < first \/ s \in DOMAIN threads
    BY <1>1, <1>2, <1>5 DEF Written
<1>7. job.kind # "sum" => s \in DOMAIN threads
    BY <1>3 DEF LaunchInv
<1>8. ASSUME job.kind = "sum"
      PROVE  s < first \/ s \in DOMAIN threads <=> s < first + BatchSize
    <2>1. DOMAIN threads = first .. Min({first + BatchSize, Diagonals(job)}) - 1
        BY <1>8 DEF LaunchInv
    <2>2. PICK n \in Nat : n = Diagonals(job) /\ s \in 0 .. n - 1
        <3>1. Diagonals(job) \in Int
            BY <1>2, JobFacts DEF Diagonals
        <3> QED
            BY <1>3, <3>1
    <2>3. PICK m \in Nat : /\ m = Min({first + BatchSize, n}) /\ m \in {first + BatchSize, n}
                           /\ m <= first + BatchSize /\ m <= n
        BY <1>2, <2>2, KernelAssumption, MinIsLeast
    <2> QED
        BY <1>2, <2>1, <2>2, <2>3, KernelAssumption
<1> QED
    BY <1>1, <1>3, <1>6, <1>7, <1>8

----------------------------------------------------------------------------
(* The actions.                                                            *)

Arrays == <<best, index, sums, result>>

(* What the arrays promise is kept by a step that writes no cell.          *)
LEMMA ArraysKeep ==
    ASSUME IInv, UNCHANGED job, UNCHANGED Arrays,
           UNCHANGED phase \/ (phase = "launch" /\ phase' \in {"profile", "done", "refused"}),
           \A r \in Rows(job), c \in Columns(job), e \in Ways(job) :
              Matters(job, r, c) =>
                 /\ Written(r, c, e)' <=> Written(r, c, e)
                 /\ phase = "launch" => ~Written(r, c, e)
    PROVE  /\ ArrayInv' /\ MaximaRecorded' /\ MaximaFound' /\ IndicesRecorded' /\ IndicesFound'
           /\ SumsAddUp'
<1>1. Positions' = Positions /\ Profiled' = Profiled /\ job' = job
    BY DEF Positions, Profiled
<1>2. best' = best /\ index' = index /\ sums' = sums /\ result' = result
    BY DEF Arrays
<1>3. ArrayInv'
    BY <1>1, <1>2 DEF IInv, ArrayInv
<1>4. MaximaRecorded'
    <2>1. ASSUME NEW r \in Rows(job), NEW c \in Columns(job), NEW e \in Ways(job),
                 job.kind # "sum", Matters(job, r, c), phase' = "index" \/ Written(r, c, e)'
          PROVE  Key(job, r, c) <= best[TargetAt(job, r, c, e)]
        <3>1. phase = "index" \/ Written(r, c, e)
            BY <2>1
        <3> QED
            BY <2>1, <3>1 DEF IInv, MaximaRecorded
    <2> QED
        BY <1>1, <1>2, <2>1 DEF MaximaRecorded
<1>5. MaximaFound'
    BY <1>1, <1>2 DEF IInv, MaximaFound
<1>6. IndicesRecorded'
    <2>1. ASSUME NEW r \in Rows(job), NEW c \in Columns(job), NEW e \in Ways(job), NEW q,
                 q = TargetAt(job, r, c, e), phase' \in {"index", "done"}, Indexed,
                 Matters(job, r, c), Written(r, c, e)', best[q] = Key(job, r, c)
          PROVE  index[q] # Nothing /\ index[q] <= OtherAt(r, c, e)
        <3>1. Written(r, c, e) /\ phase \in {"index", "done"}
            BY <2>1
        <3> QED
            BY <2>1, <3>1 DEF IInv, IndicesRecorded
    <2> QED
        BY <1>1, <1>2, <2>1 DEF IndicesRecorded, Indexed
<1>7. IndicesFound'
    <2>1. ASSUME NEW q \in Positions, index[q] # Nothing
          PROVE  /\ phase' \in {"index", "done"}
                 /\ \E r \in Rows(job), c \in Columns(job), e \in Ways(job) :
                       /\ Matters(job, r, c) /\ TargetAt(job, r, c, e) = q
                       /\ best[q] = Key(job, r, c) /\ index[q] = OtherAt(r, c, e)
        <3>1. phase \in {"index", "done"}
            BY <2>1 DEF IInv, IndicesFound
        <3> QED
            BY <2>1, <3>1 DEF IInv, IndicesFound
    <2> QED
        BY <1>1, <1>2, <2>1 DEF IndicesFound
<1>8. SumsAddUp'
    <2>1. ASSUME job.kind = "sum", NEW p \in Profiled
          PROVE  /\ result[p] + sums[p]
                    = SumOf({x \in Summands(job, p) : WrittenOf(p, x[2])'})
                 /\ phase' # "profile" => sums[p] = 0
        <3>1. ASSUME NEW x \in Summands(job, p)
              PROVE  WrittenOf(p, x[2])' <=> WrittenOf(p, x[2])
            <4>1. /\ x[2] \in OthersOf(job, p)
                  /\ Matters(job, RowOf(job, p, x[2]), ColOf(job, p, x[2]))
                BY DEF Summands
            <4>2. /\ RowOf(job, p, x[2]) \in Rows(job) /\ ColOf(job, p, x[2]) \in Columns(job)
                  /\ WayOf(job, p, x[2]) \in Ways(job)
                BY <2>1, <4>1, PositionHasCells DEF IInv, LaunchInv
            <4> QED
                BY <1>1, <4>1, <4>2 DEF WrittenOf
        <3>2. {x \in Summands(job, p) : WrittenOf(p, x[2])'}
              = {x \in Summands(job, p) : WrittenOf(p, x[2])}
            BY <3>1
        <3> QED
            BY <2>1, <3>2 DEF IInv, SumsAddUp
    <2> QED
        BY <1>1, <1>2, <2>1 DEF SumsAddUp
<1> QED
    BY <1>3, <1>4, <1>5, <1>6, <1>7, <1>8

(* What a thread holds is not written yet.                                 *)
LEMMA HoldingKeeps ==
    ASSUME IInv, NEW slot \in Slots, NEW v \in Int,
           threads' = [threads EXCEPT ![slot].held = <<v>>],
           phase # "launch", UNCHANGED <<job, phase, first>>, UNCHANGED Arrays
    PROVE  IInv'
<1>1. slot \in DOMAIN threads /\ ThreadInv /\ LaunchInv
    BY DEF Slots, IInv
<1>2. /\ DOMAIN threads' = DOMAIN threads
      /\ \A s \in DOMAIN threads : s # slot => threads'[s] = threads[s]
    BY <1>1
<1>3. /\ threads'[slot] \in [step : 0 .. LengthAt(job, slot), end : Ways(job), held : Held]
      /\ threads'[slot].step = threads[slot].step /\ threads'[slot].end = threads[slot].end
    <2>1. <<v>> \in Held
        BY DEF Held
    <2>2. threads'[slot] = [threads[slot] EXCEPT !.held = <<v>>]
        BY <1>1
    <2>3. threads[slot] \in [step : 0 .. LengthAt(job, slot), end : Ways(job), held : Held]
        BY <1>1 DEF ThreadInv
    <2> QED
        BY <2>1, <2>2, <2>3
<1>4. \A s \in DOMAIN threads :
         /\ threads'[s].step = threads[s].step /\ threads'[s].end = threads[s].end
         /\ threads'[s] \in [step : 0 .. LengthAt(job, s), end : Ways(job), held : Held]
    BY <1>1, <1>2, <1>3 DEF ThreadInv
<1>5. LaunchInv'
    BY <1>1, <1>2 DEF LaunchInv, Fits, Indexed, Diagonals
<1>6. ThreadInv'
    BY <1>1, <1>2, <1>4 DEF ThreadInv
<1>7. \A r \in Rows(job), c \in Columns(job), e \in Ways(job) :
         Matters(job, r, c) => (Written(r, c, e)' <=> Written(r, c, e))
    BY <1>2, <1>4 DEF Written
<1> QED
    BY <1>5, <1>6, <1>7, ArraysKeep DEF IInv

(* The greater and the smaller of two.                                     *)
LEMMA TwoNumbers ==
    ASSUME NEW a \in Int, NEW b \in Int
    PROVE  /\ Max({a, b}) \in {a, b} /\ a <= Max({a, b}) /\ b <= Max({a, b})
           /\ a \in Nat /\ b \in Nat =>
                 Min({a, b}) \in {a, b} /\ Min({a, b}) <= a /\ Min({a, b}) <= b
<1>1. PICK c \in Int : a <= c /\ b <= c
    BY a \in Int, b \in Int
<1>2. Max({a, b}) \in {a, b} /\ \A x \in {a, b} : x <= Max({a, b})
    BY <1>1, MaxIsGreatest
<1>3. a \in Nat /\ b \in Nat =>
         Min({a, b}) \in {a, b} /\ \A x \in {a, b} : Min({a, b}) <= x
    BY MinIsLeast
<1> QED
    BY <1>2, <1>3

(* An atomic maximum keeps the invariant: the cell written is now          *)
(* recorded, and the key at its position is still that of some cell.       *)
LEMMA FetchMaxKeeps ==
    ASSUME IInv, NEW slot \in Slots, FetchMax(slot)
    PROVE  IInv'
<1> DEFINE p == Here(slot)
           r0 == HereRow(slot)
           c0 == HereCol(slot)
           e0 == threads[slot].end
<1>1. /\ phase = "profile" /\ job.kind # "sum" /\ Running(slot) /\ Advance(slot)
      /\ UNCHANGED <<job, phase, first, index, sums, result>>
      /\ best' = [best EXCEPT ![p] = Max({best[p], OrderedKey(Bits(slot))})]
    BY DEF FetchMax
<1>2. LaunchInv /\ ThreadInv /\ ArrayInv /\ job \in Jobs
    BY DEF IInv, LaunchInv
<1>3. /\ r0 \in Rows(job) /\ c0 \in Columns(job) /\ e0 \in Ways(job) /\ Matters(job, r0, c0)
      /\ p = TargetAt(job, r0, c0, e0) /\ p \in Positions
    BY <1>1, <1>2, ThreadIsHere
<1>4. PICK k \in Int : k = OrderedKey(Bits(slot)) /\ k = Key(job, r0, c0)
    <2>1. /\ OrderedKey(Bits(slot)) \in Nat /\ Key(job, r0, c0) = OrderedKey(Bits(slot))
        BY <1>1, <1>2, ThreadIsHere
    <2> HIDE DEF r0, c0
    <2> QED
        BY <2>1
<1>5. /\ LaunchInv' /\ ThreadInv'
      /\ \A r \in Rows(job), c \in Columns(job), e \in Ways(job) :
            Matters(job, r, c) =>
               (Written(r, c, e)' <=> Written(r, c, e) \/ (r = r0 /\ c = c0 /\ e = e0))
    BY <1>1, <1>2, Advances
<1> HIDE DEF p, r0, c0, e0
<1>6. best[p] \in Int
    BY <1>2, <1>3 DEF ArrayInv
<1>7. PICK m \in Int : /\ m = Max({best[p], k}) /\ m \in {best[p], k}
                       /\ best[p] <= m /\ k <= m
    <2>1. /\ Max({best[p], k}) \in {best[p], k}
          /\ best[p] <= Max({best[p], k}) /\ k <= Max({best[p], k})
        BY <1>6, TwoNumbers
    <2> QED
        BY <1>6, <2>1
<1>8. /\ best' \in [Positions -> Int] /\ best'[p] = m
      /\ \A q \in Positions : /\ best[q] \in Int /\ best'[q] \in Int /\ best[q] <= best'[q]
                              /\ q # p => best'[q] = best[q]
    <2>1. best' = [best EXCEPT ![p] = m] /\ best \in [Positions -> Int]
        BY <1>1, <1>2, <1>4, <1>7 DEF ArrayInv
    <2> QED
        BY <1>3, <1>7, <2>1
<1>9. Positions' = Positions /\ job' = job /\ phase' = phase /\ index' = index
    BY <1>1 DEF Positions
<1>10. ArrayInv'
    BY <1>1, <1>2, <1>8, <1>9 DEF ArrayInv
<1>11. MaximaRecorded'
    <2>1. ASSUME NEW r \in Rows(job), NEW c \in Columns(job), NEW e \in Ways(job),
                 Matters(job, r, c), Written(r, c, e)'
          PROVE  Key(job, r, c) <= best'[TargetAt(job, r, c, e)]
        <3>1. TargetAt(job, r, c, e) \in Positions
            BY <1>2, TargetsArePositions
        <3>2. Key(job, r, c) \in Int
            BY <1>2, <2>1, JobFacts, KeysAreOrdered DEF Key, Matters
        <3>3. CASE Written(r, c, e)
            <4>1. Key(job, r, c) <= best[TargetAt(job, r, c, e)]
                BY <1>1, <2>1, <3>3 DEF IInv, MaximaRecorded
            <4> QED
                BY <1>8, <3>1, <3>2, <4>1
        <3>4. CASE r = r0 /\ c = c0 /\ e = e0
            BY <1>3, <1>4, <1>7, <1>8, <3>4
        <3> QED
            BY <1>5, <2>1, <3>3, <3>4
    <2> QED
        BY <1>1, <1>9, <2>1 DEF MaximaRecorded
<1>12. MaximaFound'
    <2>1. ASSUME NEW q \in Positions
          PROVE  \/ best'[q] = OrderedKey(Minus2)
                 \/ \E r \in Rows(job), c \in Columns(job), e \in Ways(job) :
                       Matters(job, r, c) /\ TargetAt(job, r, c, e) = q
                       /\ best'[q] = Key(job, r, c)
        <3>1. CASE best'[q] = best[q]
            BY <3>1 DEF IInv, MaximaFound
        <3>2. CASE best'[q] # best[q]
            <4>1. q = p /\ best'[q] = Key(job, r0, c0)
                BY <1>4, <1>7, <1>8, <3>2
            <4> QED
                BY <1>3, <4>1
        <3> QED
            BY <3>1, <3>2
    <2> QED
        BY <1>9, <2>1 DEF MaximaFound
<1>13. IndicesRecorded'
    BY <1>1, <1>9 DEF IndicesRecorded
<1>14. IndicesFound'
    BY <1>1, <1>9 DEF IInv, IndicesFound
<1>15. SumsAddUp'
    BY <1>1, <1>9 DEF SumsAddUp
<1> QED
    BY <1>5, <1>10, <1>11, <1>12, <1>13, <1>14, <1>15 DEF IInv

(* An atomic minimum of indices does: the maxima are final, and the index  *)
(* at the position is that of a cell that reaches the maximum.             *)
LEMMA FetchMinKeeps ==
    ASSUME IInv, NEW slot \in Slots, FetchMin(slot)
    PROVE  IInv'
<1> DEFINE p == Here(slot)
           r0 == HereRow(slot)
           c0 == HereCol(slot)
           e0 == threads[slot].end
<1>1. /\ phase = "index" /\ Running(slot) /\ Advance(slot)
      /\ UNCHANGED <<job, phase, first, best, sums, result>>
    BY DEF FetchMin
<1>2. LaunchInv /\ ThreadInv /\ ArrayInv /\ job \in Jobs /\ Indexed
    BY <1>1 DEF IInv, LaunchInv
<1>3. /\ r0 \in Rows(job) /\ c0 \in Columns(job) /\ e0 \in Ways(job) /\ Matters(job, r0, c0)
      /\ p = TargetAt(job, r0, c0, e0) /\ p \in Positions
      /\ OrderedKey(Bits(slot)) = Key(job, r0, c0)
      /\ Row(slot, threads[slot].step) = r0 /\ Col(slot, threads[slot].step) = c0
    BY <1>1, <1>2, ThreadIsHere
<1>4. PICK other \in Nat :
         /\ other = OtherAt(r0, c0, e0)
         /\ index' = IF best[p] = Key(job, r0, c0)
                     THEN [index EXCEPT ![p] = IF index[p] = Nothing THEN other
                                               ELSE Min({index[p], other})]
                     ELSE index
    <2>1. job.kind # "matrix" /\ e0 \in {1, 2}
        BY <1>2, <1>3 DEF Indexed, Ways
    <2>2. (IF Ends[e0] = "col" THEN r0 ELSE c0) = OtherAt(r0, c0, e0)
        <3>1. CASE e0 = 1
            BY <1>2, <2>1, <3>1, WaysAreEnds DEF OtherAt
        <3>2. CASE e0 = 2
            BY <1>2, <1>3, <2>1, <3>2, WaysAreEnds DEF OtherAt
        <3> QED
            BY <2>1, <3>1, <3>2
    <2>3. OtherAt(r0, c0, e0) \in Nat
        BY <1>2, <1>3, JobFacts DEF OtherAt, Rows, Columns
    <2>4. index' = IF best[p] = Key(job, r0, c0)
                   THEN [index EXCEPT ![p] = IF index[p] = Nothing THEN OtherAt(r0, c0, e0)
                                             ELSE Min({index[p], OtherAt(r0, c0, e0)})]
                   ELSE index
        BY <1>3, <2>2 DEF FetchMin
    <2> QED
        BY <2>3, <2>4
<1>5. /\ LaunchInv' /\ ThreadInv'
      /\ \A r \in Rows(job), c \in Columns(job), e \in Ways(job) :
            Matters(job, r, c) =>
               (Written(r, c, e)' <=> Written(r, c, e) \/ (r = r0 /\ c = c0 /\ e = e0))
    BY <1>1, <1>2, Advances
<1> HIDE DEF p, r0, c0, e0
<1>6. Nothing \notin Nat /\ index \in [Positions -> Nat \cup {Nothing}]
    BY <1>2, MarksAssumption DEF ArrayInv
<1>7. /\ index' \in [Positions -> Nat \cup {Nothing}]
      /\ \A q \in Positions : q # p => index'[q] = index[q]
      /\ best[p] # Key(job, r0, c0) => index'[p] = index[p]
      /\ best[p] = Key(job, r0, c0) =>
            /\ index'[p] \in Nat /\ index'[p] <= other
            /\ index'[p] = index[p] \/ index'[p] = other
            /\ index[p] # Nothing => index'[p] <= index[p]
    <2>1. CASE best[p] # Key(job, r0, c0)
        BY <1>4, <1>6, <2>1
    <2>2. CASE best[p] = Key(job, r0, c0) /\ index[p] = Nothing
        <3>1. index' = [index EXCEPT ![p] = other]
            BY <1>4, <2>2
        <3> QED
            BY <1>3, <1>4, <1>6, <2>2, <3>1
    <2>3. CASE best[p] = Key(job, r0, c0) /\ index[p] # Nothing
        <3>1. PICK m \in Nat : /\ m = Min({index[p], other}) /\ m \in {index[p], other}
                               /\ m <= other /\ m <= index[p]
            <4>1. index[p] \in Nat /\ index[p] \in Int /\ other \in Int
                BY <1>3, <1>6, <2>3
            <4>2. /\ Min({index[p], other}) \in {index[p], other}
                  /\ Min({index[p], other}) <= index[p] /\ Min({index[p], other}) <= other
                BY <4>1, TwoNumbers
            <4> QED
                BY <4>1, <4>2
        <3>2. index' = [index EXCEPT ![p] = m]
            BY <1>4, <2>3, <3>1
        <3> QED
            BY <1>3, <1>4, <1>6, <2>3, <3>1, <3>2
    <2> QED
        BY <2>1, <2>2, <2>3
<1>8. Positions' = Positions /\ job' = job /\ phase' = phase /\ best' = best
    BY <1>1 DEF Positions
<1>9. ArrayInv'
    BY <1>1, <1>2, <1>7, <1>8 DEF ArrayInv
<1>10. MaximaRecorded'
    BY <1>1, <1>8 DEF IInv, MaximaRecorded
<1>11. MaximaFound'
    BY <1>8 DEF IInv, MaximaFound
<1>12. IndicesRecorded'
    <2>1. ASSUME NEW r \in Rows(job), NEW c \in Columns(job), NEW e \in Ways(job), NEW q,
                 q = TargetAt(job, r, c, e), Matters(job, r, c), Written(r, c, e)',
                 best[q] = Key(job, r, c)
          PROVE  index'[q] # Nothing /\ index'[q] <= OtherAt(r, c, e)
        <3>1. q \in Positions
            BY <1>2, <2>1, TargetsArePositions
        <3>2. CASE Written(r, c, e)
            <4>1. index[q] # Nothing /\ index[q] <= OtherAt(r, c, e)
                BY <1>1, <1>2, <2>1, <3>2 DEF IInv, IndicesRecorded
            <4>2. CASE index'[q] = index[q]
                BY <4>1, <4>2
            <4>3. CASE index'[q] # index[q]
                <5>1. q = p /\ index'[q] \in Nat /\ index'[q] <= index[q] /\ index[q] \in Nat
                    BY <1>6, <1>7, <3>1, <4>1, <4>3
                <5>2. OtherAt(r, c, e) \in Nat
                    BY <1>2, JobFacts DEF OtherAt, Rows, Columns
                <5> QED
                    BY <1>6, <4>1, <5>1, <5>2
            <4> QED
                BY <4>2, <4>3
        <3>3. CASE r = r0 /\ c = c0 /\ e = e0
            BY <1>3, <1>4, <1>6, <1>7, <2>1, <3>3
        <3> QED
            BY <1>5, <2>1, <3>2, <3>3
    <2> QED
        BY <1>1, <1>8, <2>1 DEF IndicesRecorded
<1>13. IndicesFound'
    <2>1. ASSUME NEW q \in Positions
          PROVE  \/ index'[q] = Nothing
                 \/ \E r \in Rows(job), c \in Columns(job), e \in Ways(job) :
                       /\ Matters(job, r, c) /\ TargetAt(job, r, c, e) = q
                       /\ best[q] = Key(job, r, c) /\ index'[q] = OtherAt(r, c, e)
        <3>1. CASE index'[q] = index[q]
            BY <3>1 DEF IInv, IndicesFound
        <3>2. CASE index'[q] # index[q]
            <4>1. q = p /\ best[q] = Key(job, r0, c0) /\ index'[q] = other
                BY <1>7, <3>2
            <4> QED
                BY <1>3, <1>4, <4>1
        <3> QED
            BY <3>1, <3>2
    <2> QED
        BY <1>1, <1>8, <2>1 DEF IndicesFound
<1>14. SumsAddUp'
    BY <1>2, <1>8 DEF SumsAddUp, Indexed
<1> QED
    BY <1>5, <1>9, <1>10, <1>11, <1>12, <1>13, <1>14 DEF IInv

(* Without a launch nothing is written that matters.                       *)
LEMMA BeforeTheLaunch ==
    ASSUME job \in Jobs, phase # "done", first = 0, DOMAIN threads = {},
           NEW r \in Rows(job), NEW c \in Columns(job), NEW e \in Ways(job), Matters(job, r, c)
    PROVE  ~Written(r, c, e)
<1>1. PICK s \in Int : s = SlotOf(job, r, c) /\ s >= 0
    <2>1. SlotOf(job, r, c) \in 0 .. Diagonals(job) - 1
        BY Reached DEF Matters
    <2> QED
        BY <2>1
<1> QED
    BY <1>1 DEF Written

(* The addends of a position are finitely many numbers.                    *)
LEMMA SummandsAreNumbers ==
    ASSUME job \in Jobs, job.kind # "matrix", NEW p \in Profiled
    PROVE  /\ IsFiniteSet(Summands(job, p))
           /\ \A x \in Summands(job, p) :
                 /\ x[2] \in OthersOf(job, p) /\ x = <<BitsOf(job, p, x[2]), x[2]>>
                 /\ RowOf(job, p, x[2]) \in Rows(job) /\ ColOf(job, p, x[2]) \in Columns(job)
                 /\ WayOf(job, p, x[2]) \in Ways(job)
                 /\ Matters(job, RowOf(job, p, x[2]), ColOf(job, p, x[2]))
                 /\ Value(x[1]) \in Int
<1> DEFINE S == {q \in OthersOf(job, p) : Matters(job, RowOf(job, p, q), ColOf(job, p, q))}
           f == [o \in S |-> <<BitsOf(job, p, o), o>>]
<1>1. IsFiniteSet(OthersOf(job, p))
    <2>1. job.n_a \in Nat /\ job.n_b \in Nat
        BY JobFacts
    <2>2. 0 \in Int /\ job.n_a - 1 \in Int /\ job.n_b - 1 \in Int
        BY <2>1
    <2>3. IsFiniteSet(0 .. job.n_a - 1) /\ IsFiniteSet(0 .. job.n_b - 1)
        BY <2>2, FS_Interval
    <2> QED
        BY <2>3 DEF OthersOf, Rows, Columns
<1>2. IsFiniteSet(S)
    <2>1. S \in SUBSET OthersOf(job, p)
        OBVIOUS
    <2> HIDE DEF S
    <2> QED
        BY <1>1, <2>1, FS_Subset
<1>3. Summands(job, p) = {f[o] : o \in S}
    BY DEF Summands
<1>4. f \in Surjection(S, Summands(job, p))
    <2>1. f \in [S -> Summands(job, p)]
        BY DEF Summands
    <2> HIDE DEF f, S
    <2> QED
        BY <1>3, <2>1 DEF Surjection
<1>5. IsFiniteSet(Summands(job, p))
    <2> HIDE DEF f, S
    <2> QED
        BY <1>2, <1>4, FS_Surjection
<1>6. ASSUME NEW x \in Summands(job, p)
      PROVE  /\ x[2] \in OthersOf(job, p) /\ x = <<BitsOf(job, p, x[2]), x[2]>>
             /\ RowOf(job, p, x[2]) \in Rows(job) /\ ColOf(job, p, x[2]) \in Columns(job)
             /\ WayOf(job, p, x[2]) \in Ways(job)
             /\ Matters(job, RowOf(job, p, x[2]), ColOf(job, p, x[2]))
             /\ Value(x[1]) \in Int
    <2>1. PICK o \in OthersOf(job, p) :
             /\ x = <<BitsOf(job, p, o), o>>
             /\ Matters(job, RowOf(job, p, o), ColOf(job, p, o))
        BY DEF Summands
    <2>2. x[2] = o /\ x[1] = BitsOf(job, p, o)
        BY <2>1
    <2>3. /\ RowOf(job, p, o) \in Rows(job) /\ ColOf(job, p, o) \in Columns(job)
          /\ WayOf(job, p, o) \in Ways(job)
        BY PositionHasCells
    <2>4. BitsOf(job, p, o) \in Patterns
        BY <2>1, <2>3, JobFacts DEF BitsOf, Matters
    <2>5. Value(BitsOf(job, p, o)) \in Int
        BY <2>4, KeysAreOrdered
    <2> QED
        BY <2>1, <2>2, <2>3, <2>5
<1> QED
    BY <1>5, <1>6

(* An exchange that succeeds does: the sum is the one the thread has       *)
(* loaded, so it grows by the cell written and loses none.                 *)
LEMMA StoreKeeps ==
    ASSUME IInv, NEW slot \in Slots, CompareExchange(slot), Store(slot),
           sums[Here(slot)] = threads[slot].held[1]
    PROVE  IInv'
<1>0. PICK p, r0, c0, e0, o0 :
         /\ p = Here(slot) /\ r0 = HereRow(slot) /\ c0 = HereCol(slot)
         /\ e0 = threads[slot].end /\ o0 = OtherAt(r0, c0, e0)
    OBVIOUS
<1>1. /\ phase = "profile" /\ job.kind = "sum" /\ Running(slot) /\ Advance(slot)
      /\ UNCHANGED <<job, phase, first, best, index, result>>
      /\ sums' = [sums EXCEPT ![p] = sums[p] + Value(Bits(slot))]
    BY <1>0 DEF CompareExchange, Store
<1>2. LaunchInv /\ ThreadInv /\ ArrayInv /\ job \in Jobs
    BY DEF IInv, LaunchInv
<1>3. /\ r0 \in Rows(job) /\ c0 \in Columns(job) /\ e0 \in Ways(job) /\ Matters(job, r0, c0)
      /\ p = TargetAt(job, r0, c0, e0) /\ p \in Positions
      /\ Bits(slot) = job.corr[<<r0, c0>>]
    BY <1>0, <1>1, <1>2, ThreadIsHere
<1>4. PICK v \in Int : v = Value(Bits(slot))
    <2>1. Value(Bits(slot)) \in Int
        BY <1>1, <1>2, ThreadIsHere
    <2> QED
        BY <2>1
<1>5. /\ LaunchInv' /\ ThreadInv' /\ ~Written(r0, c0, e0)
      /\ \A r \in Rows(job), c \in Columns(job), e \in Ways(job) :
            Matters(job, r, c) =>
               (Written(r, c, e)' <=> Written(r, c, e) \/ (r = r0 /\ c = c0 /\ e = e0))
    BY <1>0, <1>1, <1>2, Advances
<1>6. /\ p \in Profiled /\ o0 \in OthersOf(job, p) /\ RowOf(job, p, o0) = r0
      /\ ColOf(job, p, o0) = c0 /\ WayOf(job, p, o0) = e0
    BY <1>0, <1>1, <1>2, <1>3, CellHasPosition DEF Matters
<1>7. sums \in [Positions -> Int] /\ result \in [Positions -> Int]
    BY <1>2 DEF ArrayInv
<1>8. /\ sums' \in [Positions -> Int] /\ sums'[p] = sums[p] + v
      /\ \A q \in Positions : q # p => sums'[q] = sums[q]
    BY <1>1, <1>3, <1>4, <1>7
<1>9. /\ Positions' = Positions /\ job' = job /\ phase' = phase /\ index' = index
      /\ best' = best /\ result' = result /\ Profiled' = Profiled
    BY <1>1 DEF Positions, Profiled
<1>10. ArrayInv'
    BY <1>2, <1>8, <1>9 DEF ArrayInv
<1>11. MaximaRecorded' /\ IndicesRecorded'
    BY <1>1, <1>9 DEF MaximaRecorded, IndicesRecorded
<1>12. MaximaFound' /\ IndicesFound'
    BY <1>1, <1>9 DEF IInv, MaximaFound, IndicesFound
<1>13. SumsAddUp'
    <2>1. ASSUME NEW q \in Profiled
          PROVE  result[q] + sums'[q] = SumOf({x \in Summands(job, q) : WrittenOf(q, x[2])'})
        <3> DEFINE W == {x \in Summands(job, q) : WrittenOf(q, x[2])}
                   X == {x \in Summands(job, q) : WrittenOf(q, x[2])'}
        <3>1. q \in Positions /\ result[q] \in Int /\ sums[q] \in Int
            BY <1>7 DEF Profiled
        <3>2. result[q] + sums[q] = SumOf(W)
            BY <1>1 DEF IInv, SumsAddUp
        <3>3. ASSUME NEW x \in Summands(job, q)
              PROVE  /\ WrittenOf(q, x[2])' <=>
                           \/ WrittenOf(q, x[2])
                           \/ /\ RowOf(job, q, x[2]) = r0 /\ ColOf(job, q, x[2]) = c0
                              /\ WayOf(job, q, x[2]) = e0
                     /\ TargetAt(job, RowOf(job, q, x[2]), ColOf(job, q, x[2]),
                                 WayOf(job, q, x[2])) = q
                     /\ OtherAt(RowOf(job, q, x[2]), ColOf(job, q, x[2]),
                                WayOf(job, q, x[2])) = x[2]
                     /\ x = <<BitsOf(job, q, x[2]), x[2]>>
            <4>1. /\ x[2] \in OthersOf(job, q) /\ x = <<BitsOf(job, q, x[2]), x[2]>>
                  /\ RowOf(job, q, x[2]) \in Rows(job) /\ ColOf(job, q, x[2]) \in Columns(job)
                  /\ WayOf(job, q, x[2]) \in Ways(job)
                  /\ Matters(job, RowOf(job, q, x[2]), ColOf(job, q, x[2]))
                BY <1>1, <1>2, SummandsAreNumbers
            <4>2. /\ TargetAt(job, RowOf(job, q, x[2]), ColOf(job, q, x[2]),
                              WayOf(job, q, x[2])) = q
                  /\ OtherAt(RowOf(job, q, x[2]), ColOf(job, q, x[2]),
                             WayOf(job, q, x[2])) = x[2]
                BY <1>1, <1>2, <4>1, PositionHasCells
            <4> QED
                BY <1>5, <1>9, <4>1, <4>2 DEF WrittenOf
        <3>4. CASE q # p
            <4>1. \A x \in Summands(job, q) : WrittenOf(q, x[2])' <=> WrittenOf(q, x[2])
                BY <1>3, <3>3, <3>4
            <4>2. X = W
                BY <4>1
            <4> QED
                BY <1>8, <3>1, <3>2, <3>4, <4>2
        <3>5. CASE q = p
            <4> DEFINE x0 == <<BitsOf(job, p, o0), o0>>
            <4>1. x0 \in Summands(job, p) /\ x0[2] = o0 /\ x0[1] = Bits(slot)
                BY <1>3, <1>6 DEF Summands, BitsOf
            <4>2. ~WrittenOf(p, o0) /\ WrittenOf(p, o0)'
                BY <1>3, <1>5, <1>6, <1>9 DEF WrittenOf
            <4>3. ASSUME NEW x \in Summands(job, p)
                  PROVE  WrittenOf(p, x[2])' <=> WrittenOf(p, x[2]) \/ x = x0
                <5>1. CASE x[2] = o0
                    BY <3>3, <3>5, <4>2, <5>1
                <5>2. CASE x[2] # o0
                    BY <1>0, <3>3, <3>5, <4>1, <5>2
                <5> QED
                    BY <5>1, <5>2
            <4> HIDE DEF x0
            <4>4. X = W \cup {x0} /\ x0 \notin W
                BY <3>5, <4>1, <4>2, <4>3
            <4>5. IsFiniteSet(W) /\ \A x \in W : Value(x[1]) \in Int
                <5>1. IsFiniteSet(Summands(job, q)) /\ W \in SUBSET Summands(job, q)
                      /\ \A x \in Summands(job, q) : Value(x[1]) \in Int
                    BY <1>1, <1>2, SummandsAreNumbers
                <5> QED
                    BY <5>1, FS_Subset
            <4>6. Value(x0[1]) \in Int /\ Value(x0[1]) = v
                BY <1>4, <4>1
            <4> HIDE DEF W, X
            <4>7. SumOf(X) = SumOf(W) + Value(x0[1])
                BY <4>4, <4>5, <4>6, SumOfOneMore
            <4>8. result[p] + (sums[p] + v) = (result[p] + sums[p]) + v
                BY <3>1, <3>5
            <4> QED
                BY <1>8, <3>2, <3>5, <4>6, <4>7, <4>8 DEF X
        <3> QED
            BY <3>4, <3>5
    <2> QED
        BY <1>1, <1>9, <2>1 DEF SumsAddUp
<1> QED
    BY <1>5, <1>10, <1>11, <1>12, <1>13 DEF IInv

(* A load keeps it, which writes nothing; and so does an exchange, whether *)
(* it succeeds or only loads anew.                                         *)
LEMMA LoadKeeps ==
    ASSUME IInv, NEW slot \in Slots, Load(slot) \/ CompareExchange(slot)
    PROVE  IInv'
<1>1. /\ phase = "profile" /\ Running(slot) /\ LaunchInv /\ ThreadInv /\ ArrayInv
    BY DEF Load, CompareExchange, IInv
<1>2. PICK v \in Int : v = sums[Here(slot)]
    <2>1. Here(slot) \in Positions
        BY <1>1, ThreadIsHere
    <2> QED
        BY <1>1, <2>1 DEF ArrayInv
<1>3. ASSUME threads' = [threads EXCEPT ![slot].held = <<v>>],
             UNCHANGED <<job, phase, first>>, UNCHANGED Arrays
      PROVE  IInv'
    BY <1>1, <1>3, HoldingKeeps
<1>4. CASE Load(slot)
    BY <1>2, <1>3, <1>4 DEF Load, Arrays
<1>5. CASE CompareExchange(slot) /\ sums[Here(slot)] = threads[slot].held[1]
    <2>1. Store(slot)
        BY <1>5 DEF CompareExchange
    <2> QED
        BY <1>5, <2>1, StoreKeeps
<1>6. CASE CompareExchange(slot) /\ sums[Here(slot)] # threads[slot].held[1]
    BY <1>2, <1>3, <1>6 DEF CompareExchange, Arrays
<1> QED
    BY <1>4, <1>5, <1>6

(* The end of a batch of a sum does: its cells are all written, the        *)
(* partial sums go to the result, and the next threads have written        *)
(* nothing.                                                                *)
LEMMA NextBatchKeeps ==
    ASSUME IInv, NextBatch
    PROVE  IInv'
<1>1. /\ phase = "profile" /\ job.kind = "sum" /\ AllDone
      /\ UNCHANGED <<job, best, index>>
      /\ result' = [p \in DOMAIN result |-> result[p] + sums[p]]
      /\ sums' = [p \in DOMAIN sums |-> 0]
    BY DEF NextBatch
<1>2. LaunchInv /\ ThreadInv /\ ArrayInv /\ job \in Jobs /\ Fits(job) /\ first \in Nat
    BY <1>1 DEF IInv, LaunchInv
<1>3. PICK n \in Nat \ {0} : n = Diagonals(job) /\ n = DiagonalCount /\ first < n
    <2>1. Diagonals(job) \in Int /\ Diagonals(job) = DiagonalCount /\ first < Diagonals(job)
        BY <1>1, <1>2, JobFacts DEF Diagonals, DiagonalCount, LaunchInv
    <2> QED
        BY <1>2, <2>1
<1>4. Positions' = Positions /\ Profiled' = Profiled /\ job' = job
    BY <1>1 DEF Positions, Profiled
<1>5. /\ ArrayInv' /\ \A p \in Positions : /\ result'[p] = result[p] + sums[p]
                                           /\ sums'[p] = 0 /\ result'[p] \in Int
    BY <1>1, <1>2, <1>4 DEF ArrayInv
<1>6. /\ LaunchInv' /\ ThreadInv' /\ phase' \in {"profile", "done"}
      /\ \A r \in Rows(job), c \in Columns(job), e \in Ways(job) :
            Matters(job, r, c) => (Written(r, c, e)' <=> Written(r, c, e))
    <2>1. CASE first + BatchSize < n
        <3>1. PICK from \in Nat, count \in Nat :
                 /\ from = first + BatchSize /\ count = Min({BatchSize, n - from})
                 /\ from + count <= n /\ from < n
                 /\ from + count = Min({from + BatchSize, n})
            <4>1. PICK from \in Nat, left \in Nat, size \in Nat :
                     /\ from = first + BatchSize /\ left = n - from /\ size = BatchSize
                     /\ from < n
                BY <1>2, <1>3, <2>1, KernelAssumption
            <4>2. /\ Min({size, left}) \in {size, left}
                  /\ Min({size, left}) <= size /\ Min({size, left}) <= left
                BY TwoNumbers
            <4>3. /\ Min({from + size, n}) \in {from + size, n}
                  /\ Min({from + size, n}) <= from + size /\ Min({from + size, n}) <= n
                <5>1. from + size \in Nat /\ from + size \in Int /\ n \in Int /\ n \in Nat
                    OBVIOUS
                <5> QED
                    BY <5>1, TwoNumbers
            <4>4. PICK count \in Nat : count = Min({size, left})
                BY <4>2
            <4>5. from + count <= n /\ from + count = Min({from + size, n})
                BY <4>1, <4>2, <4>3, <4>4
            <4> QED
                BY <4>1, <4>4, <4>5
        <3>2. first' = from /\ phase' = phase /\ threads' = Launched(from, count)
            BY <1>3, <2>1, <3>1 DEF NextBatch
        <3>3. /\ DOMAIN threads' = from .. from + count - 1 /\ ThreadInv'
              /\ \A r \in Rows(job), c \in Columns(job), e \in Ways(job) :
                    Matters(job, r, c) =>
                       (Written(r, c, e)' <=> phase' = "done" \/ SlotOf(job, r, c) < first')
            BY <1>1, <1>2, <1>3, <3>1, <3>2, LaunchedWriteNothing
        <3>4. LaunchInv'
            <4>1. DOMAIN threads' = from .. Min({from + BatchSize, n}) - 1
                BY <3>1, <3>3
            <4> QED
                BY <1>1, <1>2, <1>3, <3>1, <3>2, <4>1 DEF LaunchInv, Fits, Indexed, Diagonals
        <3>5. ASSUME NEW r \in Rows(job), NEW c \in Columns(job), NEW e \in Ways(job),
                     Matters(job, r, c)
              PROVE  Written(r, c, e)' <=> Written(r, c, e)
            BY <1>1, <1>2, <3>1, <3>2, <3>3, <3>5, AllDoneWrites
        <3> QED
            BY <1>1, <3>2, <3>3, <3>4, <3>5
    <2>2. CASE ~(first + BatchSize < n)
        <3>1. phase' = "done" /\ threads' = <<>> /\ first' = first
            BY <1>3, <2>2 DEF NextBatch
        <3>2. LaunchInv' /\ ThreadInv'
            <4>1. DOMAIN threads' = {}
                BY <3>1
            <4> QED
                BY <1>1, <1>2, <3>1, <4>1 DEF LaunchInv, ThreadInv, Fits, Indexed, Diagonals
        <3>3. ASSUME NEW r \in Rows(job), NEW c \in Columns(job), NEW e \in Ways(job),
                     Matters(job, r, c)
              PROVE  Written(r, c, e)' <=> Written(r, c, e)
            <4>1. PICK s \in Nat : s = SlotOf(job, r, c) /\ s < n
                <5>1. SlotOf(job, r, c) \in 0 .. n - 1
                    BY <1>1, <1>2, <1>3, <3>3, AllDoneWrites
                <5> QED
                    BY <5>1
            <4>2. Written(r, c, e) <=> s < first + BatchSize
                BY <1>1, <1>2, <3>3, <4>1, AllDoneWrites
            <4>3. s < first + BatchSize
                BY <1>2, <1>3, <2>2, <4>1, KernelAssumption
            <4> QED
                BY <3>1, <4>2, <4>3 DEF Written
        <3> QED
            BY <3>1, <3>2, <3>3
    <2> QED
        BY <2>1, <2>2
<1>7. MaximaRecorded' /\ IndicesRecorded'
    BY <1>1, <1>4 DEF MaximaRecorded, IndicesRecorded, Indexed
<1>8. MaximaFound'
    BY <1>1, <1>4 DEF IInv, MaximaFound
<1>9. IndicesFound'
    BY <1>1, <1>4 DEF IInv, IndicesFound
<1>10. SumsAddUp'
    <2>1. ASSUME NEW p \in Profiled
          PROVE  /\ result'[p] + sums'[p]
                    = SumOf({x \in Summands(job, p) : WrittenOf(p, x[2])'})
                 /\ sums'[p] = 0
        <3>1. ASSUME NEW x \in Summands(job, p)
              PROVE  WrittenOf(p, x[2])' <=> WrittenOf(p, x[2])
            <4>1. /\ RowOf(job, p, x[2]) \in Rows(job) /\ ColOf(job, p, x[2]) \in Columns(job)
                  /\ WayOf(job, p, x[2]) \in Ways(job)
                  /\ Matters(job, RowOf(job, p, x[2]), ColOf(job, p, x[2]))
                BY <1>1, <1>2, SummandsAreNumbers
            <4> QED
                BY <1>4, <1>6, <4>1 DEF WrittenOf
        <3>2. {x \in Summands(job, p) : WrittenOf(p, x[2])'}
              = {x \in Summands(job, p) : WrittenOf(p, x[2])}
            BY <3>1
        <3>3. p \in Positions /\ result[p] \in Int /\ sums[p] \in Int
            BY <1>2 DEF Profiled, ArrayInv
        <3>4. result[p] + sums[p] = SumOf({x \in Summands(job, p) : WrittenOf(p, x[2])})
            BY <1>1 DEF IInv, SumsAddUp
        <3>5. result'[p] = result[p] + sums[p] /\ sums'[p] = 0
            BY <1>5, <3>3
        <3>6. result'[p] + sums'[p] = result[p] + sums[p]
            BY <3>3, <3>5
        <3> QED
            BY <3>2, <3>4, <3>5, <3>6
    <2> QED
        BY <1>4, <2>1 DEF SumsAddUp
<1> QED
    BY <1>5, <1>6, <1>7, <1>8, <1>9, <1>10 DEF IInv

(* The end of a launch does: its maxima are those of all cells, or so are  *)
(* its indices.                                                            *)
LEMMA FinishKeeps ==
    ASSUME IInv, Finish
    PROVE  IInv'
<1>1. /\ phase \in {"profile", "index"} /\ job.kind # "sum" /\ AllDone
      /\ UNCHANGED <<job, first, best, index, sums, result>>
    BY DEF Finish
<1>2. LaunchInv /\ ThreadInv /\ ArrayInv /\ job \in Jobs /\ Fits(job) /\ first = 0
    BY <1>1 DEF IInv, LaunchInv
<1>3. PICK n \in Nat \ {0} : n = Diagonals(job) /\ n = DiagonalCount
    <2>1. Diagonals(job) \in Int /\ Diagonals(job) = DiagonalCount /\ 0 < Diagonals(job)
        BY <1>1, <1>2, JobFacts DEF Diagonals, DiagonalCount, LaunchInv
    <2> QED
        BY <2>1
<1>4. Positions' = Positions /\ Profiled' = Profiled /\ job' = job
    BY <1>1 DEF Positions, Profiled
<1>5. \A r \in Rows(job), c \in Columns(job), e \in Ways(job) :
         Matters(job, r, c) => Written(r, c, e)
    BY <1>1, <1>2, AllDoneWrites
<1>6. ArrayInv'
    BY <1>1, <1>2, <1>4 DEF ArrayInv
<1>7. MaximaRecorded'
    BY <1>1, <1>4, <1>5 DEF IInv, MaximaRecorded
<1>8. MaximaFound'
    BY <1>1, <1>4 DEF IInv, MaximaFound
<1>9. SumsAddUp'
    BY <1>1, <1>4 DEF SumsAddUp
<1>10. CASE phase = "profile" /\ Indexed
    <2>1. phase' = "index" /\ threads' = Launched(0, n)
        BY <1>3, <1>10 DEF Finish
    <2>2. /\ DOMAIN threads' = 0 .. 0 + n - 1 /\ ThreadInv'
          /\ \A r \in Rows(job), c \in Columns(job), e \in Ways(job) :
                Matters(job, r, c) =>
                   (Written(r, c, e)' <=> phase' = "done" \/ SlotOf(job, r, c) < first')
        <3>1. 0 \in Nat /\ n \in Nat /\ 0 + n <= Diagonals(job)
            BY <1>3
        <3> QED
            BY <1>1, <1>2, <2>1, <3>1, LaunchedWriteNothing
    <2>3. LaunchInv'
        <3>1. DOMAIN threads' = 0 .. n - 1
            BY <2>2
        <3> QED
            BY <1>1, <1>2, <1>3, <1>10, <2>1, <3>1 DEF LaunchInv, Fits, Indexed, Diagonals
    <2>4. \A r \in Rows(job), c \in Columns(job), e \in Ways(job) :
             Matters(job, r, c) => ~Written(r, c, e)'
        <3>1. ASSUME NEW r \in Rows(job), NEW c \in Columns(job), NEW e \in Ways(job),
                     Matters(job, r, c)
              PROVE  ~Written(r, c, e)'
            <4>1. PICK s \in Nat : s = SlotOf(job, r, c)
                <5>1. SlotOf(job, r, c) \in 0 .. Diagonals(job) - 1
                    BY <1>1, <1>2, <3>1, AllDoneWrites
                <5> QED
                    BY <1>3, <5>1
            <4> QED
                BY <1>1, <1>2, <2>1, <2>2, <3>1, <4>1
        <3> QED
            BY <3>1
    <2>5. IndicesRecorded'
        BY <1>4, <2>4 DEF IndicesRecorded
    <2>6. IndicesFound'
        BY <1>1, <1>4, <2>1 DEF IInv, IndicesFound
    <2> QED
        BY <1>6, <1>7, <1>8, <1>9, <2>2, <2>3, <2>5, <2>6 DEF IInv
<1>11. CASE ~(phase = "profile" /\ Indexed)
    <2>1. phase' = "done" /\ threads' = <<>> /\ DOMAIN threads' = {}
        BY <1>11 DEF Finish
    <2>2. LaunchInv' /\ ThreadInv'
        BY <1>1, <1>2, <2>1 DEF LaunchInv, ThreadInv, Fits, Indexed, Diagonals
    <2>3. IndicesRecorded'
        <3>1. CASE phase = "index"
            BY <1>1, <1>4, <1>5, <3>1 DEF IInv, IndicesRecorded, Indexed
        <3>2. CASE phase = "profile"
            BY <1>1, <1>4, <1>11, <3>2 DEF IndicesRecorded, Indexed
        <3> QED
            BY <1>1, <3>1, <3>2
    <2>4. IndicesFound'
        BY <1>1, <1>4, <2>1 DEF IInv, IndicesFound
    <2> QED
        BY <1>6, <1>7, <1>8, <1>9, <2>2, <2>3, <2>4 DEF IInv
<1> QED
    BY <1>10, <1>11

(* The start of the first launch does: its threads have written nothing.   *)
LEMMA LaunchKeeps ==
    ASSUME IInv, Launch
    PROVE  IInv'
<1>1. /\ phase = "launch" /\ UNCHANGED <<job, first>> /\ UNCHANGED Arrays
    BY DEF Launch, Arrays
<1>2. LaunchInv /\ job \in Jobs /\ first = 0 /\ DOMAIN threads = {} /\ phase # "done"
    BY <1>1 DEF IInv, LaunchInv
<1>3. PICK n \in Int : n = Diagonals(job) /\ n = DiagonalCount
    BY <1>2, JobFacts DEF Diagonals, DiagonalCount
<1>4. \A r \in Rows(job), c \in Columns(job), e \in Ways(job) :
         Matters(job, r, c) => ~Written(r, c, e)
    BY <1>2, BeforeTheLaunch
<1>5. ASSUME LaunchInv', ThreadInv', phase' \in {"profile", "done", "refused"},
             \A r \in Rows(job), c \in Columns(job), e \in Ways(job) :
                Matters(job, r, c) => ~Written(r, c, e)'
      PROVE  IInv'
    <2>1. /\ ArrayInv' /\ MaximaRecorded' /\ MaximaFound' /\ IndicesRecorded' /\ IndicesFound'
          /\ SumsAddUp'
        BY <1>1, <1>4, <1>5, ArraysKeep
    <2> QED
        BY <1>5, <2>1 DEF IInv
<1>6. CASE job.kind = "matrix" /\ ~IndexingIsSafe
    <2>1. phase' = "refused" /\ threads' = threads
        BY <1>6 DEF Launch
    <2>2. LaunchInv' /\ ThreadInv'
        BY <1>1, <1>2, <2>1 DEF LaunchInv, ThreadInv
    <2>3. ASSUME NEW r \in Rows(job), NEW c \in Columns(job), NEW e \in Ways(job),
                 Matters(job, r, c)
          PROVE  ~Written(r, c, e)'
        <3>1. PICK s \in Int : s = SlotOf(job, r, c) /\ s >= 0
            <4>1. SlotOf(job, r, c) \in 0 .. Diagonals(job) - 1
                BY <1>2, <2>3, Reached DEF Matters
            <4> QED
                BY <1>3, <4>1
        <3> QED
            BY <1>1, <1>2, <2>1, <3>1 DEF Written
    <2> QED
        BY <1>5, <2>1, <2>2, <2>3
<1>7. CASE ~(job.kind = "matrix" /\ ~IndexingIsSafe)
    <2>1. Fits(job)
        <3>1. CASE job.kind # "matrix"
            BY <1>2, <3>1, JobFacts
        <3>2. CASE job.kind = "matrix"
            <4>1. PICK a \in Nat \ {0}, b \in Nat \ {0}, S \in Nat \ {0} :
                     /\ a = job.n_a /\ b = job.n_b /\ S = Sign /\ IntMax = S - 1
                     /\ (job.self => a = b) /\ job.self \in BOOLEAN
                BY <1>2, JobFacts, PowerAssumption DEF IntMax
            <4>2. /\ job.exclusion <= IntMax /\ job.rows * job.cols <= UIntMax
                  /\ IF job.self THEN a - 1 <= S - 1 ELSE a + b - 2 <= S - 1
                BY <1>7, <3>2, <4>1 DEF IndexingIsSafe
            <4>3. a <= S /\ b <= S
                BY <4>1, <4>2
            <4> QED
                BY <4>1, <4>2, <4>3 DEF Fits
        <3> QED
            BY <3>1, <3>2
    <2>2. CASE n <= 0
        <3>1. phase' = "done" /\ threads' = threads
            BY <1>3, <1>7, <2>2 DEF Launch
        <3>2. LaunchInv' /\ ThreadInv'
            BY <1>1, <1>2, <2>1, <3>1 DEF LaunchInv, ThreadInv, Fits
        <3>3. ASSUME NEW r \in Rows(job), NEW c \in Columns(job), Matters(job, r, c)
              PROVE  FALSE
            <4>1. SlotOf(job, r, c) \in 0 .. n - 1
                BY <1>2, <1>3, <3>3, Reached DEF Matters
            <4> QED
                BY <2>2, <4>1
        <3> QED
            BY <1>5, <3>1, <3>2, <3>3
    <2>3. CASE n > 0
        <3>1. PICK count \in Nat :
                 /\ count = IF job.kind = "sum" THEN Min({BatchSize, n}) ELSE n
                 /\ count <= n
            <4>1. n \in Nat /\ BatchSize \in Nat /\ n \in Int /\ BatchSize \in Int
                BY <2>3, KernelAssumption
            <4>2. Min({BatchSize, n}) \in {BatchSize, n} /\ Min({BatchSize, n}) <= n
                BY <4>1, TwoNumbers
            <4> QED
                BY <4>1, <4>2
        <3>2. phase' = "profile" /\ threads' = Launched(0, count)
            BY <1>3, <1>7, <2>3, <3>1 DEF Launch
        <3>3. /\ DOMAIN threads' = 0 .. 0 + count - 1 /\ ThreadInv'
              /\ \A r \in Rows(job), c \in Columns(job), e \in Ways(job) :
                    Matters(job, r, c) =>
                       (Written(r, c, e)' <=> phase' = "done" \/ SlotOf(job, r, c) < first')
            <4>1. 0 \in Nat /\ 0 + count <= Diagonals(job)
                BY <1>3, <3>1
            <4> QED
                BY <1>1, <1>2, <2>1, <3>2, <4>1, LaunchedWriteNothing
        <3>4. LaunchInv'
            <4>1. DOMAIN threads' = 0 .. count - 1
                BY <3>3
            <4>2. job.kind = "sum" => count = Min({0 + BatchSize, n})
                <5>1. 0 + BatchSize = BatchSize
                    BY KernelAssumption
                <5> QED
                    BY <3>1, <5>1
            <4>3. job' = job /\ first' = 0 /\ Diagonals(job') = n /\ Fits(job')
                BY <1>1, <1>2, <1>3, <2>1
            <4>4. DOMAIN threads' = IF job.kind = "sum" THEN 0 .. Min({0 + BatchSize, n}) - 1
                                    ELSE 0 .. n - 1
                BY <3>1, <4>1, <4>2
            <4> QED
                BY <1>2, <2>3, <3>2, <4>3, <4>4 DEF LaunchInv
        <3>5. ASSUME NEW r \in Rows(job), NEW c \in Columns(job), NEW e \in Ways(job),
                     Matters(job, r, c)
              PROVE  ~Written(r, c, e)'
            <4>1. PICK s \in Int : s = SlotOf(job, r, c) /\ s >= 0
                <5>1. SlotOf(job, r, c) \in 0 .. Diagonals(job) - 1
                    BY <1>2, <3>5, Reached DEF Matters
                <5> QED
                    BY <1>3, <5>1
            <4> QED
                BY <1>1, <1>2, <3>2, <3>3, <3>5, <4>1
        <3> QED
            BY <1>5, <3>2, <3>3, <3>4, <3>5
    <2> QED
        BY <2>2, <2>3
<1> QED
    BY <1>6, <1>7

(* The invariant holds at the start, when no cell is written.              *)
LEMMA Initially ==
    ASSUME Init
    PROVE  IInv
<1>1. /\ job \in Jobs /\ phase = "launch" /\ first = 0 /\ DOMAIN threads = {}
    BY DEF Init
<1>2. LaunchInv /\ ThreadInv
    BY <1>1 DEF LaunchInv, ThreadInv
<1>3. \A r \in Rows(job), c \in Columns(job), e \in Ways(job) :
         Matters(job, r, c) => ~Written(r, c, e)
    BY <1>1, BeforeTheLaunch
<1>4. OrderedKey(Minus2) \in Int
    BY MarksAssumption, KeysAreOrdered
<1>5. ArrayInv
    BY <1>4 DEF Init, ArrayInv
<1>6. MaximaRecorded /\ IndicesRecorded
    BY <1>1, <1>3 DEF MaximaRecorded, IndicesRecorded
<1>7. MaximaFound /\ IndicesFound
    BY DEF Init, MaximaFound, IndicesFound
<1>8. SumsAddUp
    <2>1. ASSUME job.kind = "sum", NEW p \in Profiled
          PROVE  /\ result[p] + sums[p] = SumOf({x \in Summands(job, p) : WrittenOf(p, x[2])})
                 /\ sums[p] = 0
        <3>1. p \in Positions
            BY DEF Profiled
        <3>2. result[p] = 0 /\ sums[p] = 0
            BY <3>1 DEF Init
        <3>3. ASSUME NEW x \in Summands(job, p) PROVE ~WrittenOf(p, x[2])
            BY <1>1, <1>3, <2>1, SummandsAreNumbers DEF WrittenOf
        <3>4. {x \in Summands(job, p) : WrittenOf(p, x[2])} = {}
            BY <3>3
        <3> QED
            BY <3>2, <3>4, SumOfNone
    <2> QED
        BY <2>1 DEF SumsAddUp
<1> QED
    BY <1>2, <1>5, <1>6, <1>7, <1>8 DEF IInv

(* IInv is an invariant: each action keeps it.                             *)
THEOREM Invariance == Spec => []IInv
<1>1. Init => IInv
    BY Initially
<1>2. IInv /\ [Next]_vars => IInv'
    <2> SUFFICES ASSUME IInv, [Next]_vars PROVE IInv'
        OBVIOUS
    <2>1. CASE Launch
        BY <2>1, LaunchKeeps
    <2>2. CASE NextBatch
        BY <2>2, NextBatchKeeps
    <2>3. CASE Finish
        BY <2>3, FinishKeeps
    <2>4. ASSUME NEW slot \in Slots, FetchMax(slot) PROVE IInv'
        BY <2>4, FetchMaxKeeps
    <2>5. ASSUME NEW slot \in Slots, FetchMin(slot) PROVE IInv'
        BY <2>5, FetchMinKeeps
    <2>6. ASSUME NEW slot \in Slots, Load(slot) \/ CompareExchange(slot) PROVE IInv'
        BY <2>6, LoadKeeps
    <2>7. CASE UNCHANGED vars
        <3>1. LaunchInv' /\ ThreadInv'
            BY <2>7 DEF vars, IInv, LaunchInv, ThreadInv, Fits, Indexed, Diagonals
        <3>2. \A r \in Rows(job), c \in Columns(job), e \in Ways(job) :
                 Matters(job, r, c) =>
                    /\ Written(r, c, e)' <=> Written(r, c, e)
                    /\ phase = "launch" => ~Written(r, c, e)
            <4>1. ASSUME NEW r \in Rows(job), NEW c \in Columns(job), NEW e \in Ways(job),
                         Matters(job, r, c)
                  PROVE  Written(r, c, e)' <=> Written(r, c, e)
                BY <2>7 DEF vars, Written
            <4>2. ASSUME phase = "launch"
                  PROVE  job \in Jobs /\ phase # "done" /\ first = 0 /\ DOMAIN threads = {}
                BY <4>2 DEF IInv, LaunchInv
            <4> QED
                BY <4>1, <4>2, BeforeTheLaunch
        <3>3. UNCHANGED <<job, phase>> /\ UNCHANGED Arrays
            BY <2>7 DEF vars, Arrays
        <3> QED
            BY <3>1, <3>2, <3>3, ArraysKeep DEF IInv
    <2> QED
        BY <2>1, <2>2, <2>3, <2>4, <2>5, <2>6, <2>7 DEF Next
<1> QED
    BY <1>1, <1>2, PTL DEF Spec

----------------------------------------------------------------------------
(* What the arrays hold in the end.                                        *)

(* What counts of the reference's values of a position are its addends.    *)
LEMMA ValuesAreSummands ==
    ASSUME job \in Jobs, job.kind # "matrix", NEW p \in Profiled
    PROVE  {x \in Valid(ValuesAt(p)) : job.kind = "sum" => Value(x[1]) > job.threshold}
           = Summands(job, p)
<1> DEFINE given(o) == IF p[1] = "a" THEN Given(o, p[2]) ELSE Given(p[2], o)
<1>1. ValuesAt(p) = {<<given(o), o>> : o \in OthersOf(job, p)}
    BY DEF ValuesAt, OthersOf, Rows, Columns
<1>2. ASSUME NEW o \in OthersOf(job, p)
      PROVE  /\ given(o) # Invalid /\ (job.kind = "sum" => Value(given(o)) > job.threshold)
                <=> Matters(job, RowOf(job, p, o), ColOf(job, p, o))
             /\ given(o) # Invalid => given(o) = BitsOf(job, p, o)
    <2>1. given(o) = IF InJoin(job, RowOf(job, p, o), ColOf(job, p, o))
                     THEN BitsOf(job, p, o) ELSE Invalid
        BY PositionHasCells
    <2> HIDE DEF given
    <2> QED
        BY <2>1 DEF Matters, BitsOf
<1> HIDE DEF given
<1>3. ASSUME NEW x
      PROVE  x \in Valid(ValuesAt(p)) /\ (job.kind = "sum" => Value(x[1]) > job.threshold)
             <=> x \in Summands(job, p)
    <2>1. x \in Valid(ValuesAt(p)) <=>
             \E o \in OthersOf(job, p) : x = <<given(o), o>> /\ given(o) # Invalid
        BY <1>1 DEF Valid
    <2>2. x \in Summands(job, p) <=>
             \E o \in OthersOf(job, p) :
                x = <<BitsOf(job, p, o), o>> /\ Matters(job, RowOf(job, p, o), ColOf(job, p, o))
        BY DEF Summands
    <2> QED
        BY <1>2, <2>1, <2>2
<1> QED
    BY <1>3

(* A maximum is the highest of the values that count, or the sentinel; and *)
(* a value is that maximum exactly when their keys are the same.           *)
LEMMA HighestIsBest ==
    ASSUME IInv, phase = "done", job.kind # "sum", NEW p \in Positions, NEW V,
           \A x \in V : \E r \in Rows(job), c \in Columns(job), e \in Ways(job) :
              /\ Matters(job, r, c) /\ TargetAt(job, r, c, e) = p
              /\ x[1] = job.corr[<<r, c>>],
           \A r \in Rows(job), c \in Columns(job), e \in Ways(job) :
              Matters(job, r, c) /\ TargetAt(job, r, c, e) = p =>
                 \E x \in V : x[1] = job.corr[<<r, c>>]
    PROVE  /\ Value(Decoded(best[p]))
              = Max({Value(x[1]) : x \in V} \cup {Value(Minus2)})
           /\ \A x \in V : Value(x[1]) = Value(Decoded(best[p]))
                              <=> best[p] = OrderedKey(x[1])
           /\ V # {} => best[p] # OrderedKey(Minus2)
<1>1. job \in Jobs /\ ArrayInv /\ MaximaRecorded /\ MaximaFound
    BY DEF IInv, LaunchInv
<1>2. Minus2 \in Patterns
    BY MarksAssumption
<1>3. ASSUME NEW x \in V
      PROVE  /\ x[1] \in Patterns /\ Value(x[1]) > Value(Minus2)
             /\ OrderedKey(x[1]) <= best[p]
    <2>1. PICK r \in Rows(job), c \in Columns(job), e \in Ways(job) :
             /\ Matters(job, r, c) /\ TargetAt(job, r, c, e) = p
             /\ x[1] = job.corr[<<r, c>>]
        OBVIOUS
    <2>2. Written(r, c, e)
        BY DEF Written
    <2>3. Key(job, r, c) <= best[p]
        BY <1>1, <2>1, <2>2 DEF MaximaRecorded
    <2>4. x[1] \in Patterns /\ Value(x[1]) > Value(Minus2)
        BY <1>1, <2>1, JobFacts DEF Matters
    <2> QED
        BY <2>1, <2>3, <2>4 DEF Key
<1>4. PICK b \in Patterns : /\ best[p] = OrderedKey(b)
                            /\ b = Minus2 \/ \E x \in V : b = x[1]
    <2>1. CASE best[p] = OrderedKey(Minus2)
        BY <1>2, <2>1
    <2>2. CASE best[p] # OrderedKey(Minus2)
        <3>1. PICK r \in Rows(job), c \in Columns(job), e \in Ways(job) :
                 /\ Matters(job, r, c) /\ TargetAt(job, r, c, e) = p
                 /\ best[p] = Key(job, r, c)
            BY <1>1, <2>2 DEF MaximaFound
        <3>2. PICK x \in V : x[1] = job.corr[<<r, c>>]
            BY <3>1
        <3> QED
            BY <1>3, <3>1, <3>2 DEF Key
    <2> QED
        BY <2>1, <2>2
<1>5. /\ Value(b) \in Int /\ Value(Decoded(best[p])) = Value(b)
      /\ Value(Minus2) \in Int
    BY <1>2, <1>4, KeysAreOrdered
<1>6. ASSUME NEW x \in V
      PROVE  /\ Value(x[1]) \in Int /\ Value(x[1]) <= Value(b)
             /\ Value(x[1]) = Value(b) <=> OrderedKey(b) = OrderedKey(x[1])
    BY <1>3, <1>4, KeysAreOrdered
<1>7. Value(Minus2) <= Value(b)
    BY <1>2, <1>3, <1>4, <1>5, <1>6
<1>8. Max({Value(x[1]) : x \in V} \cup {Value(Minus2)}) = Value(b)
    <2> DEFINE T == {Value(x[1]) : x \in V} \cup {Value(Minus2)}
    <2>1. T \subseteq Int /\ Value(b) \in T /\ \A y \in T : y <= Value(b)
        BY <1>4, <1>5, <1>6, <1>7
    <2> HIDE DEF T
    <2>2. Max(T) = Value(b)
        BY <2>1, MaxIsUnique
    <2> QED
        BY <2>2 DEF T
<1>9. V # {} => best[p] # OrderedKey(Minus2)
    <2>1. ASSUME NEW x \in V, best[p] = OrderedKey(Minus2) PROVE FALSE
        <3>1. OrderedKey(x[1]) <= OrderedKey(Minus2) <=> Value(x[1]) <= Value(Minus2)
            BY <1>2, <1>3, KeysAreOrdered
        <3> QED
            BY <1>3, <1>5, <1>6, <2>1, <3>1
    <2> QED
        BY <2>1
<1> QED
    BY <1>4, <1>5, <1>6, <1>8, <1>9

(* In the end all cells are written: a maximum is that of some cell and    *)
(* below none, and an index is the least that reaches it.                  *)
LEMMA NearestInTheEnd ==
    ASSUME IInv
    PROVE  NearestByKernel
<1> SUFFICES ASSUME phase = "done", job.kind \in {"1nn", "1nn_value", "bidirectional"},
                    NEW p \in Profiled
             PROVE  /\ Value(Decoded(best[p])) = Highest(ValuesAt(p))
                    /\ job.kind # "1nn_value" =>
                          index[p] = IF Valid(ValuesAt(p)) = {} THEN Nothing
                                     ELSE Min(FirstOf(ValuesAt(p)))
    BY DEF NearestByKernel
<1> DEFINE V == Valid(ValuesAt(p))
<1>1. /\ job \in Jobs /\ p \in Positions /\ job.kind # "sum" /\ job.kind # "matrix"
      /\ ArrayInv /\ IndicesRecorded /\ IndicesFound
    BY DEF IInv, LaunchInv, Profiled
<1>2. V = Summands(job, p)
    <2>1. {x \in V : job.kind = "sum" => Value(x[1]) > job.threshold} = Summands(job, p)
        BY <1>1, ValuesAreSummands
    <2> QED
        BY <1>1, <2>1
<1>3. ASSUME NEW x \in V
      PROVE  \E r \in Rows(job), c \in Columns(job), e \in Ways(job) :
                /\ Matters(job, r, c) /\ TargetAt(job, r, c, e) = p
                /\ x[1] = job.corr[<<r, c>>] /\ x[2] = OtherAt(r, c, e) /\ x[2] \in Nat
    <2>1. /\ x[2] \in OthersOf(job, p) /\ x = <<BitsOf(job, p, x[2]), x[2]>>
          /\ Matters(job, RowOf(job, p, x[2]), ColOf(job, p, x[2]))
        BY <1>1, <1>2, SummandsAreNumbers
    <2>2. PICK o, r, c, e :
             /\ o = x[2] /\ o \in OthersOf(job, p)
             /\ r = RowOf(job, p, o) /\ c = ColOf(job, p, o) /\ e = WayOf(job, p, o)
        BY <2>1
    <2>3. /\ r \in Rows(job) /\ c \in Columns(job) /\ e \in Ways(job)
          /\ TargetAt(job, r, c, e) = p /\ OtherAt(r, c, e) = o
        BY <1>1, <2>2, PositionHasCells
    <2>4. x[1] = job.corr[<<r, c>>] /\ Matters(job, r, c)
        <3>1. x[1] = BitsOf(job, p, o)
            BY <2>1, <2>2
        <3> QED
            BY <2>1, <2>2, <3>1 DEF BitsOf
    <2>5. o \in Nat
        BY <1>1, <2>2, JobFacts DEF OthersOf, Rows, Columns
    <2> QED
        BY <2>2, <2>3, <2>4, <2>5
<1>4. ASSUME NEW r \in Rows(job), NEW c \in Columns(job), NEW e \in Ways(job),
             Matters(job, r, c), TargetAt(job, r, c, e) = p
      PROVE  \E x \in V : x[1] = job.corr[<<r, c>>] /\ x[2] = OtherAt(r, c, e)
    <2>1. PICK o \in OthersOf(job, p) :
             /\ o = OtherAt(r, c, e) /\ RowOf(job, p, o) = r /\ ColOf(job, p, o) = c
        BY <1>1, <1>4, CellHasPosition DEF Matters
    <2>2. <<job.corr[<<r, c>>], o>> \in V
        BY <1>2, <1>4, <2>1 DEF Summands, BitsOf
    <2> QED
        BY <2>1, <2>2
<1> HIDE DEF V
<1>5. /\ Value(Decoded(best[p])) = Max({Value(x[1]) : x \in V} \cup {Value(Minus2)})
      /\ \A x \in V : Value(x[1]) = Value(Decoded(best[p])) <=> best[p] = OrderedKey(x[1])
      /\ V # {} => best[p] # OrderedKey(Minus2)
    <2>1. \A x \in V : \E r \in Rows(job), c \in Columns(job), e \in Ways(job) :
             /\ Matters(job, r, c) /\ TargetAt(job, r, c, e) = p
             /\ x[1] = job.corr[<<r, c>>]
        BY <1>3
    <2>2. \A r \in Rows(job), c \in Columns(job), e \in Ways(job) :
             Matters(job, r, c) /\ TargetAt(job, r, c, e) = p =>
                \E x \in V : x[1] = job.corr[<<r, c>>]
        BY <1>4
    <2> QED
        BY <1>1, <2>1, <2>2, HighestIsBest
<1>6. Value(Decoded(best[p])) = Highest(ValuesAt(p))
    BY <1>5 DEF Highest, V
<1>7. ASSUME job.kind # "1nn_value", V = {}
      PROVE  index[p] = Nothing
    BY <1>1, <1>4, <1>7 DEF IndicesFound
<1>8. ASSUME job.kind # "1nn_value", V # {}
      PROVE  index[p] = Min(FirstOf(ValuesAt(p)))
    <2> DEFINE F == {x[2] : x \in {y \in V : best[p] = OrderedKey(y[1])}}
    <2>1. FirstOf(ValuesAt(p)) = F
        <3>1. FirstOf(ValuesAt(p))
              = {x[2] : x \in {y \in V : Value(y[1]) = Value(Decoded(best[p]))}}
            BY <1>6 DEF FirstOf, V
        <3>2. {y \in V : Value(y[1]) = Value(Decoded(best[p]))}
              = {y \in V : best[p] = OrderedKey(y[1])}
            BY <1>5
        <3> QED
            BY <3>1, <3>2
    <2>2. F \subseteq Nat
        BY <1>3
    <2>3. ASSUME NEW o \in F PROVE index[p] # Nothing /\ index[p] <= o
        <3>1. PICK x \in V : x[2] = o /\ best[p] = OrderedKey(x[1])
            OBVIOUS
        <3>2. PICK r \in Rows(job), c \in Columns(job), e \in Ways(job) :
                 /\ Matters(job, r, c) /\ TargetAt(job, r, c, e) = p
                 /\ x[1] = job.corr[<<r, c>>] /\ x[2] = OtherAt(r, c, e)
            BY <1>3
        <3>3. Written(r, c, e) /\ Indexed /\ best[p] = Key(job, r, c)
            BY <1>8, <3>1, <3>2 DEF Written, Indexed, Key
        <3> QED
            BY <1>1, <3>1, <3>2, <3>3 DEF IndicesRecorded
    <2>4. F # {}
        <3>1. PICK r \in Rows(job), c \in Columns(job), e \in Ways(job) :
                 /\ Matters(job, r, c) /\ TargetAt(job, r, c, e) = p
                 /\ best[p] = Key(job, r, c)
            BY <1>1, <1>5, <1>8 DEF IInv, MaximaFound
        <3>2. PICK x \in V : x[1] = job.corr[<<r, c>>]
            BY <1>4, <3>1
        <3>3. best[p] = OrderedKey(x[1])
            BY <3>1, <3>2 DEF Key
        <3> QED
            BY <3>2, <3>3
    <2>5. index[p] \in F
        <3>1. index[p] # Nothing
            BY <2>3, <2>4
        <3>2. PICK r \in Rows(job), c \in Columns(job), e \in Ways(job) :
                 /\ Matters(job, r, c) /\ TargetAt(job, r, c, e) = p
                 /\ best[p] = Key(job, r, c) /\ index[p] = OtherAt(r, c, e)
            BY <1>1, <3>1 DEF IndicesFound
        <3>3. PICK x \in V : x[1] = job.corr[<<r, c>>] /\ x[2] = OtherAt(r, c, e)
            BY <1>4, <3>2
        <3>4. best[p] = OrderedKey(x[1])
            BY <3>2, <3>3 DEF Key
        <3> QED
            BY <3>2, <3>3, <3>4
    <2> HIDE DEF F
    <2>6. Min(F) \in F /\ Min(F) <= index[p] /\ index[p] <= Min(F)
        BY <2>2, <2>3, <2>4, <2>5, MinIsLeast
    <2>7. Min(F) \in Nat /\ index[p] \in Nat
        BY <2>2, <2>5, <2>6
    <2> QED
        BY <2>1, <2>6, <2>7
<1> QED
    BY <1>6, <1>7, <1>8 DEF V

(* The nearest-neighbour kernels agree with the portable reducer, however  *)
(* the atomic operations of their threads interleave.                      *)
THEOREM NearestIsRight == Spec => []NearestByKernel
<1>1. IInv => NearestByKernel
    BY NearestInTheEnd
<1> QED
    BY <1>1, Invariance, PTL

(* In the end a sum is that of all its summands.                           *)
LEMMA SumsInTheEnd ==
    ASSUME IInv, phase = "done", job.kind = "sum", NEW p \in Profiled
    PROVE  result[p] = SumOf({x \in Valid(ValuesAt(p)) : Value(x[1]) > job.threshold})
<1>1. job \in Jobs /\ ArrayInv /\ p \in Positions
    BY DEF IInv, LaunchInv, Profiled
<1>2. {x \in Valid(ValuesAt(p)) : Value(x[1]) > job.threshold} = Summands(job, p)
    <2>1. {x \in Valid(ValuesAt(p)) : job.kind = "sum" => Value(x[1]) > job.threshold}
          = Summands(job, p)
        BY <1>1, ValuesAreSummands
    <2> QED
        BY <2>1
<1>3. {x \in Summands(job, p) : WrittenOf(p, x[2])} = Summands(job, p)
    BY DEF WrittenOf, Written
<1>4. result[p] + sums[p] = SumOf(Summands(job, p)) /\ sums[p] = 0
    BY <1>3 DEF IInv, SumsAddUp
<1>5. result[p] \in Int
    BY <1>1 DEF ArrayInv
<1>6. result[p] = SumOf(Summands(job, p))
    BY <1>4, <1>5
<1> QED
    BY <1>2, <1>6

CellsBetween(i, j) ==
    {<<Given(r, c), <<r, c>> >> :
        r \in Edge(i, job.n_b, job.rows) .. Edge(i + 1, job.n_b, job.rows) - 1,
        c \in Edge(j, job.n_a, job.cols) .. Edge(j + 1, job.n_a, job.cols) - 1}

(* In the end a cell of the summary has the maximum of the cells between   *)
(* its edges.                                                              *)
LEMMA SummaryInTheEnd ==
    ASSUME IInv, phase = "done", job.kind = "matrix",
           NEW i \in 0 .. job.rows - 1, NEW j \in 0 .. job.cols - 1
    PROVE  Value(Decoded(best[<<"m", i * job.cols + j>>]))
           = Highest({x \in CellsBetween(i, j) : job.self => x[2][1] <= x[2][2]})
<1>1. job \in Jobs
    BY DEF IInv, LaunchInv
<1>2. PICK a \in Nat \ {0}, b \in Nat \ {0}, x0 \in Nat, rows \in Nat \ {0}, cols \in Nat \ {0} :
         /\ a = job.n_a /\ b = job.n_b /\ x0 = job.exclusion /\ rows = job.rows /\ cols = job.cols
         /\ rows <= b /\ cols <= a /\ job.self \in BOOLEAN /\ (job.self => a = b /\ x0 > 0)
    BY <1>1, JobFacts
<1>3. i \in 0 .. rows - 1 /\ j \in 0 .. cols - 1
    BY <1>2
<1>4. PICK p \in Positions : p = <<"m", i * cols + j>>
    <2>1. i * cols + j \in 0 .. rows * cols - 1
        BY <1>3, BinsMakeCells
    <2> QED
        BY <1>2, <2>1 DEF Positions
<1>5. ASSUME NEW n \in Nat \ {0}, NEW bins \in Nat \ {0}, bins <= n, NEW k \in 0 .. bins - 1, NEW y
      PROVE  y \in Edge(k, n, bins) .. Edge(k + 1, n, bins) - 1
             <=> y \in 0 .. n - 1 /\ BinOf(y, n, bins) = k
    <2>1. Edge(k, n, bins) \in Nat /\ Edge(k + 1, n, bins) \in Nat
        <3>1. PICK u \in Nat, v \in Nat : u = k * n + bins - 1 /\ v = (k + 1) * n + bins - 1
            <4>1. k * n \in Nat /\ (k + 1) * n \in Nat /\ bins - 1 \in Nat
                BY <1>5
            <4> QED
                BY <4>1
        <3>2. u \div bins \in Nat /\ v \div bins \in Nat
            BY Division
        <3> QED
            BY <3>1, <3>2 DEF Edge
    <2>2. Edge(k + 1, n, bins) <= n
        <3>1. PICK l \in Nat : l = k + 1 /\ l <= bins
            BY <1>5
        <3>2. n * l <= n * bins
            BY <3>1, MoreTimes
        <3>3. l * n <= n * bins
            BY <3>2
        <3> QED
            BY <3>1, <3>3, EdgeIsBelow
    <2>3. ASSUME NEW z \in Nat
          PROVE  Edge(k, n, bins) <= z /\ z < Edge(k + 1, n, bins) <=> BinOf(z, n, bins) = k
        <3>1. k \in Nat
            BY <1>5
        <3> QED
            BY <3>1, BetweenEdges DEF BinOf
    <2> QED
        BY <2>1, <2>2, <2>3
<1>6. ASSUME NEW r \in Rows(job), NEW c \in Columns(job), NEW e \in Ways(job)
      PROVE  TargetAt(job, r, c, e) = p
             <=> BinOf(r, b, rows) = i /\ BinOf(c, a, cols) = j
    <2>1. r \in Nat /\ r < b /\ c \in Nat /\ c < a
        BY <1>2 DEF Rows, Columns
    <2>2. BinOf(r, b, rows) \in 0 .. rows - 1 /\ BinOf(c, a, cols) \in 0 .. cols - 1
        <3>1. BinOf(r, b, rows) \in Nat /\ BinOf(r, b, rows) < rows
            BY <1>2, <2>1, BinsMoveByOne
        <3>2. BinOf(c, a, cols) \in Nat /\ BinOf(c, a, cols) < cols
            BY <1>2, <2>1, BinsMoveByOne
        <3> QED
            BY <3>1, <3>2
    <2>3. BinOf(r, b, rows) * cols + BinOf(c, a, cols) = i * cols + j
          <=> BinOf(r, b, rows) = i /\ BinOf(c, a, cols) = j
        BY <1>3, <2>2, BinsMakeCells
    <2>4. TargetAt(job, r, c, e) = <<"m", BinOf(r, b, rows) * cols + BinOf(c, a, cols)>>
        BY <1>2 DEF TargetAt
    <2> QED
        BY <1>4, <2>3, <2>4
<1> DEFINE V == Valid({x \in CellsBetween(i, j) : job.self => x[2][1] <= x[2][2]})
<1>7. ASSUME NEW r \in Rows(job), NEW c \in Columns(job)
      PROVE  (job.self => r <= c) /\ Given(r, c) # Invalid
             <=> Matters(job, r, c)
    <2>1. r \in 0 .. b - 1 /\ c \in 0 .. a - 1
        BY <1>2 DEF Rows, Columns
    <2>2. ASSUME job.self => r <= c
          PROVE  Given(r, c) = IF Distance(r, c) < x0 THEN Invalid ELSE job.corr[<<r, c>>]
        BY <1>2, <2>1, <2>2 DEF Given
    <2>3. Distance(r, c) < x0 <=> ~(Distance(r, c) >= x0)
        BY <1>2, <2>1 DEF Distance
    <2> QED
        BY <1>2, <2>2, <2>3 DEF Matters, InJoin
<1>8. ASSUME NEW r \in Rows(job), NEW c \in Columns(job), Matters(job, r, c)
      PROVE  Given(r, c) = job.corr[<<r, c>>]
    <2>1. r \in 0 .. b - 1 /\ c \in 0 .. a - 1 /\ (job.self => r <= c) /\ Distance(r, c) >= x0
        BY <1>2, <1>8 DEF Rows, Columns, Matters, InJoin
    <2>2. ~(Distance(r, c) < x0)
        BY <1>2, <2>1 DEF Distance
    <2> QED
        BY <1>2, <2>1, <2>2 DEF Given
<1>9. ASSUME NEW x
      PROVE  x \in V <=>
                \E r \in Rows(job), c \in Columns(job) :
                   /\ x = <<job.corr[<<r, c>>], <<r, c>> >> /\ Matters(job, r, c)
                   /\ BinOf(r, b, rows) = i /\ BinOf(c, a, cols) = j
    <2>1. /\ \A r : r \in Edge(i, b, rows) .. Edge(i + 1, b, rows) - 1
                    <=> r \in Rows(job) /\ BinOf(r, b, rows) = i
          /\ \A c : c \in Edge(j, a, cols) .. Edge(j + 1, a, cols) - 1
                    <=> c \in Columns(job) /\ BinOf(c, a, cols) = j
        BY <1>2, <1>3, <1>5 DEF Rows, Columns
    <2>2. x \in CellsBetween(i, j) <=>
             \E r \in Rows(job), c \in Columns(job) :
                /\ x = <<Given(r, c), <<r, c>> >>
                /\ BinOf(r, b, rows) = i /\ BinOf(c, a, cols) = j
        BY <1>2, <2>1 DEF CellsBetween
    <2>3. x \in V <=>
             \E r \in Rows(job), c \in Columns(job) :
                /\ x = <<Given(r, c), <<r, c>> >>
                /\ BinOf(r, b, rows) = i /\ BinOf(c, a, cols) = j
                /\ (job.self => r <= c) /\ Given(r, c) # Invalid
        BY <2>2 DEF Valid
    <2> QED
        BY <1>7, <1>8, <2>3
<1> HIDE DEF V
<1>10. Value(Decoded(best[p])) = Max({Value(x[1]) : x \in V} \cup {Value(Minus2)})
    <2>1. \A x \in V : \E r \in Rows(job), c \in Columns(job), e \in Ways(job) :
             /\ Matters(job, r, c) /\ TargetAt(job, r, c, e) = p
             /\ x[1] = job.corr[<<r, c>>]
        <3>1. ASSUME NEW x \in V
              PROVE  \E r \in Rows(job), c \in Columns(job), e \in Ways(job) :
                        /\ Matters(job, r, c) /\ TargetAt(job, r, c, e) = p
                        /\ x[1] = job.corr[<<r, c>>]
            <4>1. PICK r \in Rows(job), c \in Columns(job) :
                     /\ x = <<job.corr[<<r, c>>], <<r, c>> >> /\ Matters(job, r, c)
                     /\ BinOf(r, b, rows) = i /\ BinOf(c, a, cols) = j
                BY <1>9
            <4>2. 1 \in Ways(job)
                BY DEF Ways
            <4>3. x[1] = job.corr[<<r, c>>]
                BY <4>1
            <4> QED
                BY <1>6, <4>1, <4>2, <4>3
        <3> QED
            BY <3>1
    <2>2. \A r \in Rows(job), c \in Columns(job), e \in Ways(job) :
             Matters(job, r, c) /\ TargetAt(job, r, c, e) = p =>
                \E x \in V : x[1] = job.corr[<<r, c>>]
        <3>1. ASSUME NEW r \in Rows(job), NEW c \in Columns(job), NEW e \in Ways(job),
                     Matters(job, r, c), TargetAt(job, r, c, e) = p
              PROVE  \E x \in V : x[1] = job.corr[<<r, c>>]
            <4>1. <<job.corr[<<r, c>>], <<r, c>> >> \in V
                BY <1>6, <1>9, <3>1
            <4> QED
                BY <4>1
        <3> QED
            BY <3>1
    <2> QED
        BY <2>1, <2>2, HighestIsBest
<1> QED
    BY <1>2, <1>4, <1>10 DEF Highest, V

(* The sum kernel loses no addend, whatever its threads and batches; and   *)
(* the cells of a summary are those of the portable reducer.               *)
THEOREM PooledIsRight == Spec => []PooledByKernel
<1>1. IInv => PooledByKernel
    <2>1. IInv /\ phase = "done" /\ job.kind = "sum" =>
             \A p \in Profiled :
                result[p] = SumOf({x \in Valid(ValuesAt(p)) : Value(x[1]) > job.threshold})
        BY SumsInTheEnd
    <2>2. IInv /\ phase = "done" /\ job.kind = "matrix" =>
             \A i \in 0 .. job.rows - 1, j \in 0 .. job.cols - 1 :
                Value(Decoded(best[<<"m", i * job.cols + j>>])) =
                   Highest({x \in CellsBetween(i, j) : job.self => x[2][1] <= x[2][2]})
        BY SummaryInTheEnd
    <2>3. CASE job.kind = "sum"
        BY <2>1, <2>3 DEF PooledByKernel
    <2>4. CASE job.kind # "sum"
        BY <2>2, <2>4 DEF PooledByKernel, CellsBetween
    <2> QED
        BY <2>3, <2>4
<1> QED
    BY <1>1, Invariance, PTL
=============================================================================
