------------------------- MODULE TiledReducersProofs -------------------------
(***************************************************************************)
(* Proofs about the portable reducers of core.py, for every join, matrix   *)
(* and memory budget: the tile shape is within the budget, and after every *)
(* tile each reducer holds what it promises of the cells seen so far.      *)
(***************************************************************************)
EXTENDS TiledReducers, FiniteSetTheorems, WellFoundedInduction, TLAPS

(* A set of numbers that has any has a least.                              *)
LEMMA LeastNumber ==
    ASSUME NEW T, T \subseteq Nat, T # {}
    PROVE  \E n \in T : \A m \in T : n <= m
<1> DEFINE R == OpToRel(<, Nat)
<1>1. IsWellFoundedOn(R, Nat)
    BY NatLessThanWellFounded
<1>2. \A m, n \in Nat : <<m, n>> \in R <=> m < n
    BY DEF OpToRel
<1> HIDE DEF R
<1>3. PICK n \in T : \A m \in T : ~ (<<m, n>> \in R)
    BY <1>1, WFMin
<1>4. \A m \in T : m \in Nat /\ n \in Nat /\ ~(m < n)
    BY <1>2, <1>3
<1>5. \A m \in T : n <= m
    BY <1>4
<1> QED
    BY <1>5

(* The minimum of the community module is the least.                       *)
LEMMA MinIsLeast ==
    ASSUME NEW T, T \subseteq Nat, T # {}
    PROVE  Min(T) \in T /\ \A n \in T : Min(T) <= n
<1>1. \E x \in T : \A y \in T : x <= y
    BY LeastNumber
<1> QED
    BY <1>1 DEF Min

(* What a bound lacks to each number of a set has a least, so the set has  *)
(* a greatest.                                                             *)
LEMMA MaxIsGreatest ==
    ASSUME NEW T, T \subseteq Int, T # {}, NEW b \in Int, \A x \in T : x <= b
    PROVE  Max(T) \in T /\ \A x \in T : x <= Max(T)
<1> DEFINE D == {b - x : x \in T}
<1>1. D \subseteq Nat /\ D # {}
    <2>1. ASSUME NEW x \in T PROVE b - x \in Nat
        <3>1. x \in Int /\ x <= b
            OBVIOUS
        <3> QED
            BY <3>1
    <2> QED
        BY <2>1
<1>2. PICK d \in D : \A e \in D : d <= e
    BY <1>1, LeastNumber
<1>3. PICK m \in T : d = b - m
    BY <1>2
<1>4. ASSUME NEW x \in T PROVE m >= x
    <2>1. b - m <= b - x
        BY <1>2, <1>3
    <2>2. m \in Int /\ x \in Int
        OBVIOUS
    <2> QED
        BY <2>1, <2>2
<1>5. \E x \in T : \A y \in T : x >= y
    BY <1>4
<1>6. Max(T) \in T /\ \A y \in T : Max(T) >= y
    BY <1>5 DEF Max
<1> QED
    BY <1>6

(* An element that no other exceeds is the maximum.                        *)
LEMMA MaxIsUnique ==
    ASSUME NEW T, T \subseteq Int, NEW m \in T, \A x \in T : x <= m
    PROVE  Max(T) = m
<1>1. Max(T) \in T /\ m <= Max(T)
    BY MaxIsGreatest
<1>2. Max(T) <= m /\ Max(T) \in Int /\ m \in Int
    BY <1>1
<1>3. \A a, b \in Int : a <= b /\ b <= a => a = b
    OBVIOUS
<1> QED
    BY <1>1, <1>2, <1>3

----------------------------------------------------------------------------
(* The shape of a tile.                                                    *)

(* The square root is rounded down: were it not, the least number whose    *)
(* successor's square is beyond n would not be the least.                  *)
LEMMA SquareRoot ==
    ASSUME NEW n \in Nat
    PROVE  IntegerSqrt(n) \in Nat /\ IntegerSqrt(n) * IntegerSqrt(n) <= n
<1> DEFINE T == {s \in Nat : (s + 1) * (s + 1) > n}
<1>1. n \in T
    <2>1. \A k \in Nat : (k + 1) * (k + 1) = k * k + 2 * k + 1 /\ k * k \in Nat
        OBVIOUS
    <2>2. n * n \in Nat /\ (n + 1) * (n + 1) = n * n + 2 * n + 1
        BY <2>1
    <2>3. PICK q \in Nat : q = n * n
        BY <2>2
    <2>4. q + 2 * n + 1 > n
        OBVIOUS
    <2> QED
        BY <2>2, <2>3, <2>4
<1>2. PICK s \in T : \A t \in T : s <= t
    BY <1>1, LeastNumber
<1>3. s \in 0 .. n /\ (s + 1) * (s + 1) > n
    BY <1>1, <1>2
<1>4. s * s <= n
    <2>1. CASE s = 0
        BY <2>1
    <2>2. CASE s # 0
        <3>1. s - 1 \in Nat /\ s - 1 < s
            BY <1>3, <2>2
        <3>2. s - 1 \notin T
            BY <1>2, <3>1
        <3>3. ~((s - 1 + 1) * (s - 1 + 1) > n)
            BY <3>1, <3>2
        <3>4. s - 1 + 1 = s /\ s * s \in Nat
            BY <1>3
        <3> QED
            BY <3>3, <3>4
    <2> QED
        BY <2>1, <2>2
<1>5. \E t \in 0 .. n : t * t <= n /\ (t + 1) * (t + 1) > n
    BY <1>3, <1>4
<1>6. /\ IntegerSqrt(n) \in 0 .. n
      /\ IntegerSqrt(n) * IntegerSqrt(n) <= n
    BY <1>5 DEF IntegerSqrt
<1> QED
    BY <1>6

(* The greater of two.                                                     *)
LEMMA MaxOfPair ==
    ASSUME NEW a \in Nat, NEW b \in Nat
    PROVE  /\ Max({a, b}) \in {a, b} /\ a <= Max({a, b}) /\ b <= Max({a, b})
<1>1. a <= a + b /\ b <= a + b /\ a + b \in Int
    OBVIOUS
<1>2. \A x \in {a, b} : x <= a + b
    BY <1>1
<1>3. {a, b} \subseteq Int /\ {a, b} # {}
    OBVIOUS
<1> QED
    BY <1>1, <1>2, <1>3, MaxIsGreatest

(* A tile has a row and a column at least, and no more than the join; what *)
(* it has more than one of, it has by the budget.                          *)
LEMMA TileRowsAreFew ==
    ASSUME NEW j \in Jobs
    PROVE  /\ TileRows(j) \in 1 .. j.rows
           /\ \/ TileRows(j) = 1
              \/ /\ TileRows(j) <= j.budget \div (4 * j.axis_bytes)
                 /\ TileRows(j) * TileRows(j) <= j.budget \div (4 * j.cell_bytes)
<1> DEFINE axis == j.budget \div (4 * j.axis_bytes)
           cell == j.budget \div (4 * j.cell_bytes)
           root == IntegerSqrt(Max({1, cell}))
           T == {j.rows, j.max_subsequences, j.row_cap, Max({1, axis}), Max({1, root})}
<1>0. PICK rows \in Nat \ {0}, longest \in Nat \ {0}, cap \in Nat \ {0}, budget \in Nat \ {0},
           ab \in Nat \ {0}, cb \in Nat \ {0} :
         /\ rows = j.rows /\ longest = j.max_subsequences /\ cap = j.row_cap
         /\ budget = j.budget /\ ab = j.axis_bytes /\ cb = j.cell_bytes
    BY JobsAssumption
<1>1. axis \in Nat /\ cell \in Nat
    <2>1. 4 * ab \in Nat \ {0} /\ 4 * cb \in Nat \ {0}
        BY <1>0
    <2>2. budget \div (4 * ab) \in Nat
        BY <2>1
    <2>3. budget \div (4 * cb) \in Nat
        BY <2>1
    <2> QED
        BY <1>0, <2>2, <2>3
<1> HIDE DEF axis, cell
<1>2. Max({1, cell}) \in {1, cell} /\ 1 <= Max({1, cell})
    BY <1>1, MaxOfPair
<1>3. PICK n \in Nat : n = Max({1, cell})
    BY <1>1, <1>2
<1>4. root \in Nat /\ root * root <= n
    BY <1>3, SquareRoot
<1> HIDE DEF root
<1>5. /\ Max({1, root}) \in {1, root} /\ 1 <= Max({1, root})
      /\ Max({1, axis}) \in {1, axis} /\ 1 <= Max({1, axis})
    BY <1>1, <1>4, MaxOfPair
<1>6. PICK x \in Nat \ {0}, r \in Nat \ {0} : x = Max({1, axis}) /\ r = Max({1, root})
    BY <1>1, <1>4, <1>5
<1>7. T \subseteq Nat \ {0} /\ T # {} /\ rows \in T /\ x \in T /\ r \in T
    BY <1>0, <1>6
<1>8. TileRows(j) = Min(T)
    BY DEF TileRows, axis, cell, root
<1> HIDE DEF T
<1>9. PICK t \in Nat \ {0} : t = TileRows(j) /\ t <= rows /\ t <= x /\ t <= r
    BY <1>7, <1>8, MinIsLeast
<1>10. t = 1 \/ (t <= axis /\ t * t <= cell)
    <2>1. ASSUME t # 1 PROVE t <= axis /\ t * t <= cell
        <3>2. x # 1 /\ r # 1
            BY <1>9, <2>1
        <3>3. x = axis /\ r = root
            BY <1>5, <1>6, <3>2
        <3>4. t <= root
            BY <1>9, <3>3
        <3>5. t * t <= root * root
            <4>1. \A a, b \in Nat : a <= b => a * a <= b * b
                <5>1. ASSUME NEW a \in Nat, NEW b \in Nat, a <= b PROVE a * a <= b * b
                    <6>1. PICK d \in Nat : b = a + d
                        <7>1. b - a \in Nat /\ b = a + (b - a)
                            BY <5>1
                        <7> QED
                            BY <7>1
                    <6>2. b * b = a * a + (2 * (a * d) + d * d) /\ a * d \in Nat
                              /\ d * d \in Nat /\ a * a \in Nat
                        BY <6>1
                    <6> QED
                        BY <6>2
                <5> QED
                    BY <5>1
            <4> QED
                BY <1>4, <3>4, <4>1
        <3>6. t * t \in Nat /\ root * root \in Nat /\ root * root <= n
            BY <1>4
        <3>7. t * t <= n
            BY <3>5, <3>6
        <3>8. t * t >= 2
            <4>1. PICK d \in Nat : t = 2 + d
                <5>1. t - 2 \in Nat /\ t = 2 + (t - 2)
                    BY <2>1
                <5> QED
                    BY <5>1
            <4>2. t * t = 4 + 4 * d + d * d /\ d * d \in Nat
                BY <4>1
            <4> QED
                BY <4>2
        <3>9. n = cell
            BY <1>2, <1>3, <3>6, <3>7, <3>8
        <3> QED
            BY <1>9, <3>3, <3>7, <3>9
    <2> QED
        BY <2>1
<1>11. t \in 1 .. rows
    BY <1>9
<1> QED
    BY <1>0, <1>9, <1>10, <1>11 DEF axis, cell

(* The same of its columns, by what the budget leaves when its rows are    *)
(* paid for.                                                               *)
LEMMA TileColumnsAreFew ==
    ASSUME NEW j \in Jobs
    PROVE  /\ TileColumns(j) \in 1 .. j.columns
           /\ \/ TileColumns(j) = 1
              \/ TileColumns(j) <= Max({0, j.budget - TileRows(j) * j.axis_bytes})
                                      \div (j.axis_bytes + TileRows(j) * j.cell_bytes)
<1> DEFINE remaining == Max({0, j.budget - TileRows(j) * j.axis_bytes})
           each == j.axis_bytes + TileRows(j) * j.cell_bytes
           T == {j.columns, j.max_subsequences, Max({1, remaining \div each})}
<1>0. PICK columns \in Nat \ {0}, longest \in Nat \ {0}, budget \in Nat \ {0},
           ab \in Nat \ {0}, cb \in Nat \ {0}, t \in Nat \ {0} :
         /\ columns = j.columns /\ longest = j.max_subsequences
         /\ budget = j.budget /\ ab = j.axis_bytes /\ cb = j.cell_bytes
         /\ t = TileRows(j)
    <2>1. /\ j.columns \in Nat \ {0} /\ j.max_subsequences \in Nat \ {0}
          /\ j.budget \in Nat \ {0} /\ j.axis_bytes \in Nat \ {0}
          /\ j.cell_bytes \in Nat \ {0}
        BY JobsAssumption
    <2>2. TileRows(j) \in Nat \ {0}
        BY TileRowsAreFew
    <2> QED
        BY <2>1, <2>2
<1>1. remaining \in Nat
    <2>1. t * ab \in Nat
        BY <1>0
    <2>2. PICK left \in Int : left = budget - t * ab
        BY <2>1
    <2>3. Max({0, left}) \in Nat
        <3>1. CASE left >= 0
            BY <3>1, MaxOfPair
        <3>2. CASE left < 0
            BY <3>2, MaxIsUnique
        <3> QED
            BY <3>1, <3>2
    <2> QED
        BY <1>0, <2>2, <2>3
<1>2. each \in Nat \ {0}
    <2>1. t * cb \in Nat
        BY <1>0
    <2>2. ab + t * cb \in Nat \ {0}
        BY <2>1
    <2> QED
        BY <1>0, <2>2
<1> HIDE DEF remaining, each
<1>3. PICK q \in Nat : q = remaining \div each
    <2>1. \A a \in Nat, b \in Nat \ {0} : a \div b \in Nat
        OBVIOUS
    <2> QED
        BY <1>1, <1>2, <2>1
<1>4. PICK x \in Nat \ {0} : x = Max({1, remaining \div each}) /\ x \in {1, q}
    BY <1>3, MaxOfPair
<1>5. T \subseteq Nat \ {0} /\ T # {} /\ columns \in T /\ x \in T
    BY <1>0, <1>4
<1>6. TileColumns(j) = Min(T)
    BY DEF TileColumns, remaining, each
<1> HIDE DEF T
<1>7. PICK n \in Nat \ {0} : n = TileColumns(j) /\ n <= columns /\ n <= x
    BY <1>5, <1>6, MinIsLeast
<1>8. n = 1 \/ n <= q
    BY <1>4, <1>7
<1> QED
    BY <1>0, <1>3, <1>7, <1>8 DEF remaining, each

(* What is at most a quotient is, times the divisor, at most the           *)
(* dividend.                                                               *)
LEMMA QuotientTimes ==
    ASSUME NEW a \in Nat, NEW b \in Nat, NEW c \in Nat \ {0}, a <= b \div c
    PROVE  a * c <= b
<1>1. PICK q \in Nat, r \in Nat : b = c * q + r /\ q = b \div c
    <2>1. b \div c \in Nat
        OBVIOUS
    <2>2. b % c \in Nat
        OBVIOUS
    <2>3. b = c * (b \div c) + (b % c)
        OBVIOUS
    <2> QED
        BY <2>1, <2>2, <2>3
<1>2. PICK d \in Nat : q = a + d
    <2>1. q - a \in Nat /\ q = a + (q - a)
        BY <1>1
    <2> QED
        BY <2>1
<1>3. c * q = a * c + d * c /\ a * c \in Nat /\ d * c \in Nat
    BY <1>2
<1> QED
    BY <1>1, <1>3

(* A tile of more than a cell is within the budget: of several columns,    *)
(* because they were counted by what its rows leave; of one column and     *)
(* several rows, because an axis and the square take a quarter of it       *)
(* each.                                                                   *)
LEMMA ShapeFits ==
    ASSUME NEW j \in Jobs, TileRows(j) * TileColumns(j) > 1
    PROVE  TileBytes(j, TileRows(j), TileColumns(j)) <= j.budget
<1>1. PICK budget \in Nat \ {0}, ab \in Nat \ {0}, cb \in Nat \ {0},
           R \in Nat \ {0}, C \in Nat \ {0} :
         /\ budget = j.budget /\ ab = j.axis_bytes /\ cb = j.cell_bytes
         /\ R = TileRows(j) /\ C = TileColumns(j)
    <2>1. j.rows \in Nat /\ j.columns \in Nat
        BY JobsAssumption
    <2>2. TileRows(j) \in 1 .. j.rows /\ TileColumns(j) \in 1 .. j.columns
        BY TileRowsAreFew, TileColumnsAreFew
    <2>3. TileRows(j) \in Nat \ {0} /\ TileColumns(j) \in Nat \ {0}
        BY <2>1, <2>2
    <2> QED
        BY <2>3, JobsAssumption
<1>2. TileBytes(j, R, C) = (R + C) * ab + R * C * cb
    BY <1>1 DEF TileBytes
<1>3. PICK Ra \in Nat, Rc \in Nat : Ra = R * ab /\ Rc = R * cb
    BY <1>1
<1>4. CASE C > 1
    <2>1. C <= Max({0, budget - Ra}) \div (ab + Rc)
        BY <1>1, <1>3, <1>4, TileColumnsAreFew
    <2>2. PICK m \in Nat : m = Max({0, budget - Ra}) /\ (m # 0 => m = budget - Ra)
        <3>1. CASE budget - Ra >= 0
            BY <3>1, MaxOfPair
        <3>2. CASE budget - Ra < 0
            BY <3>2, MaxIsUnique
        <3>3. budget - Ra >= 0 \/ budget - Ra < 0
            OBVIOUS
        <3> QED
            BY <3>1, <3>2, <3>3
    <2> DEFINE each == ab + Rc
    <2>3. each \in Nat \ {0}
        OBVIOUS
    <2>3a. C <= m \div each
        BY <2>1, <2>2
    <2> HIDE DEF each
    <2>4. C * each <= m
        BY <2>2, <2>3, <2>3a, QuotientTimes
    <2>5. C * each = C * ab + C * Rc /\ C * ab \in Nat \ {0} /\ C * Rc \in Nat
        <3>1. C * ab \in Nat \ {0} /\ C * Rc \in Nat
            OBVIOUS
        <3> QED
            BY <3>1 DEF each
    <2>6. m = budget - Ra
        BY <2>2, <2>4, <2>5
    <2>7. C * ab + C * Rc <= budget - Ra
        BY <2>4, <2>5, <2>6
    <2>8. (R + C) * ab + R * C * cb = Ra + C * ab + C * Rc
        BY <1>3
    <2> QED
        BY <1>1, <1>2, <2>5, <2>7, <2>8
<1>5. CASE C = 1
    <2>1. R > 1
        BY <1>1, <1>5
    <2>2. R <= budget \div (4 * ab) /\ R * R <= budget \div (4 * cb)
        BY <1>1, <2>1, TileRowsAreFew
    <2>3. R * (4 * ab) <= budget
        <3>1. 4 * ab \in Nat \ {0}
            OBVIOUS
        <3> QED
            BY <2>2, <3>1, QuotientTimes
    <2>4. (R * R) * (4 * cb) <= budget
        <3>1. 4 * cb \in Nat \ {0} /\ R * R \in Nat
            OBVIOUS
        <3> QED
            BY <2>2, <3>1, QuotientTimes
    <2>5. 4 * Ra <= budget
        <3>1. R * (4 * ab) = 4 * Ra
            BY <1>3
        <3> QED
            BY <2>3, <3>1
    <2>6. 4 * (R * Rc) <= budget /\ R * Rc \in Nat
        <3>1. (R * R) * (4 * cb) = 4 * (R * Rc)
            BY <1>3
        <3> QED
            BY <2>4, <3>1
    <2>7. 2 * Rc <= R * Rc
        <3>1. PICK d \in Nat : R = 2 + d
            <4>1. R - 2 \in Nat /\ R = 2 + (R - 2)
                BY <2>1
            <4> QED
                BY <4>1
        <3>2. R * Rc = 2 * Rc + d * Rc /\ d * Rc \in Nat
            BY <3>1
        <3> QED
            BY <3>2
    <2>8. ab <= Ra
        <3>1. PICK d \in Nat : R = 1 + d
            <4>1. R - 1 \in Nat /\ R = 1 + (R - 1)
                OBVIOUS
            <4> QED
                BY <4>1
        <3>2. R * ab = ab + d * ab /\ d * ab \in Nat
            BY <3>1
        <3> QED
            BY <1>3, <3>2
    <2>9. (R + C) * ab + R * C * cb = Ra + ab + Rc
        BY <1>3, <1>5
    <2>10. Ra + ab + Rc <= budget
        BY <2>5, <2>6, <2>7, <2>8
    <2> QED
        BY <1>1, <1>2, <2>9, <2>10
<1> QED
    BY <1>4, <1>5

----------------------------------------------------------------------------
(* The traversal. *)
Progress ==
    /\ job \in Jobs
    /\ row_start \in Rows
    /\ col_start \in 0 .. job.columns
    /\ col_start = job.columns => row_start = 0

(* While columns are left, the tile at the corner is not empty and stays   *)
(* inside the matrix.                                                      *)
LEMMA CornerIsInside ==
    ASSUME Progress, col_start < job.columns
    PROVE  /\ job.rows \in Nat \ {0} /\ job.columns \in Nat \ {0}
           /\ row_start \in Nat /\ col_start \in Nat
           /\ row_end \in Nat /\ row_start < row_end /\ row_end <= job.rows
           /\ col_end \in Nat /\ col_start < col_end /\ col_end <= job.columns
<1>1. PICK rows \in Nat \ {0}, columns \in Nat \ {0} : rows = job.rows
          /\ columns = job.columns
    BY JobsAssumption DEF Progress
<1>2. PICK R \in 1 .. rows, C \in 1 .. columns : R = TileRows(job) /\ C = TileColumns(job)
    BY <1>1, TileRowsAreFew, TileColumnsAreFew DEF Progress
<1>3. row_start \in Nat /\ row_start < rows /\ col_start \in Nat /\ col_start < columns
    BY <1>1 DEF Progress, Rows, Positions
<1>4. row_end = (IF rows <= row_start + R THEN rows ELSE row_start + R)
    BY <1>1, <1>2 DEF row_end, Least
<1>5. col_end = (IF columns <= col_start + C THEN columns ELSE col_start + C)
    BY <1>1, <1>2 DEF col_end, Least
<1> QED
    BY <1>1, <1>2, <1>3, <1>4, <1>5

(* At the start the corner is the first.                                   *)
LEMMA InitProgress == Init => Progress
<1> SUFFICES ASSUME Init PROVE Progress
    OBVIOUS
<1>1. job.rows \in Nat \ {0} /\ job.columns \in Nat \ {0}
    BY JobsAssumption DEF Init
<1> QED
    BY <1>1 DEF Init, Progress, Rows, Positions

(* The traversal stays in the matrix.                                      *)
LEMMA NextProgress == Progress /\ [Next]_vars => Progress'
<1> SUFFICES ASSUME Progress, [Next]_vars PROVE Progress'
    OBVIOUS
<1>1. CASE Reduce
    <2>1. /\ job.rows \in Nat \ {0} /\ job.columns \in Nat \ {0}
          /\ row_end \in Nat /\ col_end \in Nat
          /\ col_end <= job.columns
        BY <1>1, CornerIsInside DEF Reduce
    <2>2. CASE row_end < job.rows
        BY <1>1, <2>1, <2>2 DEF Reduce, NextTile, Progress, Rows, Positions
    <2>3. CASE ~(row_end < job.rows)
        BY <1>1, <2>1, <2>3 DEF Reduce, NextTile, Progress, Rows, Positions
    <2> QED
        BY <2>2, <2>3
<1>2. CASE UNCHANGED <<job, corner>>
    BY <1>2 DEF corner, Progress, Rows, Positions
<1> QED
    BY <1>1, <1>2 DEF Next, Finish, vars

(* A tile is what is seen more after it than before it, and nothing of it  *)
(* was seen before.                                                        *)
LEMMA TileIsSeen ==
    ASSUME Progress, Reduce, NEW r \in Rows, NEW c \in Columns
    PROVE  /\ Seen(r, c)' <=> Seen(r, c) \/ InTile(r, c)
           /\ ~(Seen(r, c) /\ InTile(r, c))
<1>1. /\ job.rows \in Nat \ {0} /\ job.columns \in Nat \ {0}
      /\ row_start \in Nat /\ col_start \in Nat
      /\ row_end \in Nat /\ row_start < row_end /\ row_end <= job.rows
      /\ col_end \in Nat /\ col_start < col_end /\ col_end <= job.columns
    BY CornerIsInside DEF Reduce
<1>2. job' = job /\ r \in Nat /\ c \in Nat /\ r < job.rows /\ c < job.columns
    BY <1>1 DEF Reduce, Rows, Columns, Positions
<1>3. Progress'
    BY NextProgress DEF Next
<1>4. Seen(r, c)' <=> c < col_start' \/ (c < col_end' /\ r < row_start')
    BY DEF Seen
<1>5. CASE row_end < job.rows
    <2>1. row_start' = row_end /\ col_start' = col_start
        BY <1>5 DEF Reduce, NextTile
    <2>2. col_end' = col_end
        BY <1>2, <2>1 DEF col_end, Least
    <2> QED
        BY <1>1, <1>2, <1>4, <2>1, <2>2 DEF Seen, InTile
<1>6. CASE ~(row_end < job.rows)
    <2>1. row_start' = 0 /\ col_start' = col_end
        BY <1>6 DEF Reduce, NextTile
    <2> QED
        BY <1>1, <1>2, <1>4, <1>6, <2>1 DEF Seen, InTile
<1> QED
    BY <1>5, <1>6

(* Before the first tile nothing is seen.                                  *)
LEMMA NothingIsSeen ==
    ASSUME Init, NEW r \in Rows, NEW c \in Columns
    PROVE  ~Seen(r, c)
<1>1. job.rows \in Nat /\ job.columns \in Nat
    BY JobsAssumption DEF Init
<1>2. r \in Nat /\ c \in Nat /\ row_start = 0 /\ col_start = 0
    BY <1>1 DEF Init, Rows, Columns, Positions
<1> QED
    BY <1>2 DEF Seen

(* A cell is a correlation or invalid.                                     *)
LEMMA CellsAreProper ==
    ASSUME job \in Jobs, NEW r \in Rows, NEW c \in Columns
    PROVE  /\ Cell(r, c) \in Int /\ -2 * Scale <= Cell(r, c) /\ Cell(r, c) <= Scale
           /\ Cell(r, c) = InvalidValue \/ IsCorrelation(Cell(r, c))
<1>1. r \in Positions(0, job.rows) /\ c \in Positions(0, job.columns)
    BY DEF Rows, Columns
<1>2. job.sim[<<r, c>>] = InvalidValue
         \/ (job.sim[<<r, c>>] \in Int /\ IsCorrelation(job.sim[<<r, c>>]))
    BY <1>1, JobsAssumption
<1>3. Cell(r, c) = InvalidValue \/ (Cell(r, c) \in Int /\ IsCorrelation(Cell(r, c)))
    BY <1>2 DEF Cell, MaskedCell
<1>4. Scale \in Nat \ {0}
    BY ScaleAssumption
<1> QED
    BY <1>3, <1>4 DEF InvalidValue, IsCorrelation

----------------------------------------------------------------------------
(* The best matches. *)
Invalid(v) == v = InvalidValue
Valued(f, places) == {e \in {[value |-> f[p], index |-> p] : p \in places} : ~Invalid(e.value)}
Cellwise(v) == v \in Int /\ (Invalid(v) \/ IsCorrelation(v))

(* An invalid value is below every correlation.                            *)
LEMMA ValuesAreOrdered ==
    /\ \A v : Cellwise(v) => InvalidValue <= v /\ v <= Scale
    /\ InvalidValue \in Int /\ Scale \in Nat /\ InvalidValue < -Scale
    /\ ~IsCorrelation(InvalidValue)
<1>1. Scale \in Nat \ {0}
    BY ScaleAssumption
<1> QED
    BY <1>1 DEF Cellwise, Invalid, InvalidValue, IsCorrelation

(* The winner of a tile's row or column is its maximum at the first        *)
(* place.                                                                  *)
LEMMA WinnerIsFirst ==
    ASSUME NEW start \in Nat, NEW stop \in Nat, start < stop,
           NEW f, DOMAIN f = Positions(start, stop),
           \A p \in Positions(start, stop) : Cellwise(f[p])
    PROVE  LET w == Winner(f, start)
           IN  /\ w = [value |-> w.value, index |-> w.index]
               /\ w.index \in Positions(start, stop) /\ f[w.index] = w.value
               /\ \A p \in Positions(start, stop) : f[p] <= w.value
               /\ \A p \in Positions(start, stop) : f[p] = w.value => w.index <= p
<1> DEFINE values == Range(f)
           b == Max(values)
           at == {p \in DOMAIN f : f[p] = b}
<1>1. values = {f[p] : p \in Positions(start, stop)}
    BY DEF Range
<1>2. start \in Positions(start, stop) /\ Positions(start, stop) \subseteq Nat
    BY DEF Positions
<1>3. values \subseteq Int /\ values # {} /\ \A v \in values : v <= Scale
    BY <1>1, <1>2, ValuesAreOrdered DEF Cellwise
<1> HIDE DEF values
<1>4. b \in values /\ \A v \in values : v <= b
    <2>1. Scale \in Int
        BY ValuesAreOrdered
    <2> QED
        BY <1>3, <2>1, MaxIsGreatest
<1>5. at \subseteq Nat /\ at # {}
    BY <1>1, <1>2, <1>4
<1>6. Min(at) \in at /\ \A p \in at : Min(at) <= p
    BY <1>5, MinIsLeast
<1>7. Winner(f, start) = [value |-> b, index |-> Min(at)]
    BY DEF Winner, values
<1> HIDE DEF b
<1> QED
    BY <1>1, <1>4, <1>6, <1>7

(* A strict update keeps the best at the lowest index, as what was seen    *)
(* before is below the tile's positions.                                   *)
LEMMA UpdatedIsBest ==
    ASSUME NEW start \in Nat, NEW stop \in Nat, start < stop,
           NEW f, DOMAIN f = Positions(start, stop),
           \A p \in Positions(start, stop) : Cellwise(f[p]),
           NEW before,
           \A e \in before : Cellwise(e.value) /\ ~Invalid(e.value) /\ e.index \in Nat
               /\ e.index < start,
           NEW entry, IsBestOf(entry, before)
    PROVE  IsBestOf(Updated(entry, Winner(f, start)),
                    before \cup Valued(f, Positions(start, stop)))
<1> DEFINE new == Valued(f, Positions(start, stop))
<1>1. PICK b, w : /\ Winner(f, start) = [value |-> b, index |-> w]
                  /\ w \in Positions(start, stop) /\ f[w] = b
                  /\ \A p \in Positions(start, stop) : f[p] <= b
                  /\ \A p \in Positions(start, stop) : f[p] = b => w <= p
    BY WinnerIsFirst
<1>2. Cellwise(b) /\ b \in Int /\ w \in Nat /\ start <= w
    BY <1>1 DEF Positions, Cellwise
<1>3. \A e \in new : \E p \in Positions(start, stop) :
          e = [value |-> f[p], index |-> p] /\ ~Invalid(f[p])
    BY DEF Valued
<1>4. \A e \in new : /\ Cellwise(e.value) /\ e.index \in Nat /\ start <= e.index
                     /\ e.value <= b /\ (e.value = b => w <= e.index)
    BY <1>1, <1>3 DEF Positions
<1>5. InvalidValue <= b
    BY <1>2, ValuesAreOrdered
<1>6. CASE b = InvalidValue
    <2>1. new = {}
        <3>1. ASSUME NEW p \in Positions(start, stop) PROVE Invalid(f[p])
            <4>1. f[p] <= b /\ InvalidValue <= f[p] /\ f[p] \in Int
                BY <1>1, ValuesAreOrdered DEF Cellwise
            <4> QED
                BY <1>6, <4>1, ValuesAreOrdered DEF Invalid
        <3> QED
            BY <1>3, <3>1
    <2>2. InvalidValue <= entry.value /\ entry.value \in Int
        <3>1. CASE before = {}
            BY <3>1, ValuesAreOrdered DEF IsBestOf, Sentinel
        <3>2. CASE before # {}
            BY <3>2, ValuesAreOrdered DEF IsBestOf, Cellwise
        <3> QED
            BY <3>1, <3>2
    <2>3. Updated(entry, Winner(f, start)) = entry
        BY <1>1, <1>2, <1>6, <2>2 DEF Updated
    <2> QED
        BY <2>1, <2>3
<1>7. CASE b # InvalidValue
    <2>1. [value |-> b, index |-> w] \in new
        BY <1>1, <1>7 DEF Valued, Invalid
    <2>2. CASE before = {}
        <3>1. entry = Sentinel
            BY <2>2 DEF IsBestOf
        <3>2. b > InvalidValue
            BY <1>2, <1>5, <1>7, ValuesAreOrdered
        <3>3. Updated(entry, Winner(f, start)) = [value |-> b, index |-> w]
            BY <1>1, <3>1, <3>2 DEF Updated, Sentinel
        <3>4. \A e \in new : e.value < b \/ (e.value = b /\ w <= e.index)
            BY <1>2, <1>4 DEF Cellwise
        <3> QED
            BY <2>1, <2>2, <3>3, <3>4 DEF IsBestOf
    <2>3. CASE before # {}
        <3>1. entry \in before /\ entry.value \in Int /\ entry.index \in Nat
                  /\ entry.index < start
            BY <2>3 DEF IsBestOf, Cellwise
        <3>2. \A e \in before : e.value < entry.value \/ (e.value = entry.value /\ entry.index <= e.index)
            BY <2>3 DEF IsBestOf
        <3>3. CASE b > entry.value
            <4>1. Updated(entry, Winner(f, start)) = [value |-> b, index |-> w]
                BY <1>1, <3>3 DEF Updated
            <4>2. \A e \in before : e.value < b
                BY <1>2, <3>1, <3>2, <3>3 DEF Cellwise
            <4>3. \A e \in new : e.value < b \/ (e.value = b /\ w <= e.index)
                BY <1>2, <1>4 DEF Cellwise
            <4> QED
                BY <2>1, <4>1, <4>2, <4>3 DEF IsBestOf
        <3>4. CASE ~(b > entry.value)
            <4>1. Updated(entry, Winner(f, start)) = entry
                BY <1>1, <3>4 DEF Updated
            <4>2. ASSUME NEW e \in new
                  PROVE  e.value < entry.value \/ (e.value = entry.value /\ entry.index <= e.index)
                <5>1. e.value <= b /\ e.value \in Int /\ start <= e.index /\ e.index \in Nat
                    BY <1>4 DEF Cellwise
                <5> QED
                    BY <1>2, <3>1, <3>4, <5>1
            <4> QED
                BY <3>1, <3>2, <4>1, <4>2 DEF IsBestOf
        <3> QED
            BY <3>3, <3>4
    <2> QED
        BY <2>2, <2>3
<1> QED
    BY <1>6, <1>7

Down(c) == [r \in Rows |-> Cell(r, c)]
Along(r) == [c \in Columns |-> Cell(r, c)]
SeenDown(c) == {r \in Rows : Seen(r, c)}
SeenAlong(r) == {c \in Columns : Seen(r, c)}

BestInv ==
    /\ column_best = [c \in Columns |-> column_best[c]]
    /\ row_best = [r \in Rows |-> row_best[r]]
    /\ \A c \in Columns : IsBestOf(column_best[c], Valued(Down(c), SeenDown(c)))
    /\ \A r \in Rows : IsBestOf(row_best[r], Valued(Along(r), SeenAlong(r)))

(* This is what the property says.                                         *)
LEMMA BestInvSuffices == BestInv => BestIsFirst
<1>1. \A c \in Columns :
         SeenEntries({r \in Rows : Seen(r, c)}, LAMBDA r : Cell(r, c)) = Valued(Down(c), SeenDown(c))
    BY DEF SeenEntries, Valued, Down, SeenDown, Invalid
<1>2. \A r \in Rows :
         SeenEntries({c \in Columns : Seen(r, c)}, LAMBDA c : Cell(r, c)) = Valued(Along(r), SeenAlong(r))
    BY DEF SeenEntries, Valued, Along, SeenAlong, Invalid
<1> QED
    BY <1>1, <1>2 DEF BestInv, BestIsFirst

(* Of nothing the sentinel is the best.                                    *)
LEMMA InitBest == Init => BestInv
<1> SUFFICES ASSUME Init PROVE BestInv
    OBVIOUS
<1>1. \A c \in Columns : SeenDown(c) = {}
    BY NothingIsSeen DEF SeenDown
<1>2. \A r \in Rows : SeenAlong(r) = {}
    BY NothingIsSeen DEF SeenAlong
<1>3. \A f : Valued(f, {}) = {}
    BY DEF Valued
<1> QED
    BY <1>1, <1>2, <1>3 DEF Init, BestInv, IsBestOf

(* What only depends on the join and the corner.                           *)
LEMMA ViewIsKept ==
    ASSUME job' = job
    PROVE  /\ Rows' = Rows /\ Columns' = Columns
           /\ \A r, c : Cell(r, c)' = Cell(r, c)
           /\ corner' = corner => \A r, c : Seen(r, c)' <=> Seen(r, c)
<1>1. Rows' = Rows /\ Columns' = Columns
    BY DEF Rows, Columns
<1>2. \A r, c : Cell(r, c)' = Cell(r, c)
    BY DEF Cell
<1>3. ASSUME corner' = corner PROVE \A r, c : Seen(r, c)' <=> Seen(r, c)
    <2>1. row_start' = row_start /\ col_start' = col_start
        BY <1>3 DEF corner
    <2>2. col_end' = col_end
        BY <2>1 DEF col_end
    <2> QED
        BY <2>1, <2>2 DEF Seen
<1> QED
    BY <1>1, <1>2, <1>3

(* The same of all cells.                                                  *)
LEMMA CellsAreCellwise ==
    ASSUME job \in Jobs
    PROVE  \A r \in Rows, c \in Columns : Cellwise(Cell(r, c))
BY CellsAreProper DEF Cellwise, Invalid

(* A column's best match after a tile: what it had seen is above the       *)
(* tile.                                                                   *)
LEMMA ColumnIsBest ==
    ASSUME Progress, BestInv, Reduce, NEW c \in Columns
    PROVE  IsBestOf(column_best'[c], Valued(Down(c)', SeenDown(c)'))
<1>1. /\ job.rows \in Nat \ {0} /\ job.columns \in Nat \ {0}
      /\ row_start \in Nat /\ col_start \in Nat
      /\ row_end \in Nat /\ row_start < row_end /\ row_end <= job.rows
      /\ col_end \in Nat /\ col_start < col_end /\ col_end <= job.columns
    BY CornerIsInside DEF Reduce
<1>2. job' = job /\ Rows' = Rows /\ Columns' = Columns
    BY DEF Reduce, Rows, Columns
<1>3. Down(c)' = Down(c)
    BY <1>2 DEF Down, Cell
<1>4. \A r \in Rows : Seen(r, c)' <=> Seen(r, c) \/ InTile(r, c)
    BY TileIsSeen
<1>5. SeenDown(c)' = {r \in Rows : Seen(r, c)'}
    BY <1>2 DEF SeenDown
<1>6. c \in Nat /\ c < job.columns
    BY <1>1 DEF Columns, Positions
<1>7. CASE ~(col_start <= c /\ c < col_end)
    <2>1. column_best'[c] = column_best[c]
        BY <1>7 DEF Reduce, ReduceBest
    <2>2. SeenDown(c)' = SeenDown(c)
        BY <1>4, <1>5, <1>7 DEF SeenDown, InTile
    <2> QED
        BY <1>3, <2>1, <2>2 DEF BestInv
<1>8. CASE col_start <= c /\ c < col_end
    <2> DEFINE tile == Positions(row_start, row_end)
               f == [r \in tile |-> Cell(r, c)]
               before == Valued(Down(c), SeenDown(c))
    <2>1. tile \subseteq Rows
        BY <1>1 DEF Positions, Rows
    <2>2. \A r \in Rows : InTile(r, c) <=> r \in tile
        BY <1>1, <1>8 DEF InTile, Positions, Rows
    <2>3. SeenDown(c)' = SeenDown(c) \cup tile
        BY <1>4, <1>5, <2>1, <2>2 DEF SeenDown
    <2>4. \A r \in SeenDown(c) : r \in Rows /\ r \in Nat /\ r < row_start
        BY <1>1, <1>6, <1>8 DEF SeenDown, Seen, Rows, Positions
    <2>5. Valued(Down(c), SeenDown(c) \cup tile) = before \cup Valued(f, tile)
        BY <2>1, <2>4 DEF Valued, Down
    <2>6. column_best'[c] = Updated(column_best[c], Winner(f, row_start))
        BY <1>8 DEF Reduce, ReduceBest
    <2>7. \A p \in tile : Cellwise(f[p])
        BY <2>1, CellsAreCellwise DEF Progress
    <2>8. \A e \in before : Cellwise(e.value) /\ ~Invalid(e.value) /\ e.index \in Nat
              /\ e.index < row_start
        <3>1. ASSUME NEW e \in before
              PROVE  Cellwise(e.value) /\ ~Invalid(e.value) /\ e.index \in Nat
                  /\ e.index < row_start
            <4>1. PICK p \in SeenDown(c) : e = [value |-> Down(c)[p], index |-> p]
                      /\ ~Invalid(e.value)
                BY DEF Valued
            <4>2. Down(c)[p] = Cell(p, c) /\ Cellwise(Cell(p, c)) /\ p \in Nat
                      /\ p < row_start
                BY <2>4, CellsAreCellwise DEF Down, Progress
            <4> QED
                BY <4>1, <4>2
        <3> QED
            BY <3>1
    <2>9. IsBestOf(column_best[c], before)
        BY DEF BestInv
    <2> HIDE DEF before, f
    <2>10. DOMAIN f = Positions(row_start, row_end)
        BY DEF f
    <2>11. IsBestOf(Updated(column_best[c], Winner(f, row_start)), before \cup Valued(f, tile))
        BY <1>1, <2>7, <2>8, <2>9, <2>10, UpdatedIsBest
    <2> QED
        BY <1>3, <2>3, <2>5, <2>6, <2>11
<1> QED
    BY <1>7, <1>8

(* A row's best match after a tile: what it had seen is left of the tile.  *)
LEMMA RowIsBest ==
    ASSUME Progress, BestInv, Reduce, NEW r \in Rows
    PROVE  IsBestOf(row_best'[r], Valued(Along(r)', SeenAlong(r)'))
<1>1. /\ job.rows \in Nat \ {0} /\ job.columns \in Nat \ {0}
      /\ row_start \in Nat /\ col_start \in Nat
      /\ row_end \in Nat /\ row_start < row_end /\ row_end <= job.rows
      /\ col_end \in Nat /\ col_start < col_end /\ col_end <= job.columns
    BY CornerIsInside DEF Reduce
<1>2. job' = job /\ Rows' = Rows /\ Columns' = Columns
    BY DEF Reduce, Rows, Columns
<1>3. Along(r)' = Along(r)
    BY <1>2 DEF Along, Cell
<1>4. \A c \in Columns : Seen(r, c)' <=> Seen(r, c) \/ InTile(r, c)
    BY TileIsSeen
<1>5. SeenAlong(r)' = {c \in Columns : Seen(r, c)'}
    BY <1>2 DEF SeenAlong
<1>6. r \in Nat /\ r < job.rows
    BY <1>1 DEF Rows, Positions
<1>7. CASE ~(row_start <= r /\ r < row_end)
    <2>1. row_best'[r] = row_best[r]
        BY <1>7 DEF Reduce, ReduceBest
    <2>2. SeenAlong(r)' = SeenAlong(r)
        BY <1>4, <1>5, <1>7 DEF SeenAlong, InTile
    <2> QED
        BY <1>3, <2>1, <2>2 DEF BestInv
<1>8. CASE row_start <= r /\ r < row_end
    <2> DEFINE tile == Positions(col_start, col_end)
               f == [c \in tile |-> Cell(r, c)]
               before == Valued(Along(r), SeenAlong(r))
    <2>1. tile \subseteq Columns
        BY <1>1 DEF Positions, Columns
    <2>2. \A c \in Columns : InTile(r, c) <=> c \in tile
        BY <1>1, <1>8 DEF InTile, Positions, Columns
    <2>3. SeenAlong(r)' = SeenAlong(r) \cup tile
        BY <1>4, <1>5, <2>1, <2>2 DEF SeenAlong
    <2>4. \A c \in SeenAlong(r) : c \in Columns /\ c \in Nat /\ c < col_start
        BY <1>1, <1>6, <1>8 DEF SeenAlong, Seen, Columns, Positions
    <2>5. Valued(Along(r), SeenAlong(r) \cup tile) = before \cup Valued(f, tile)
        BY <2>1, <2>4 DEF Valued, Along
    <2>6. row_best'[r] = Updated(row_best[r], Winner(f, col_start))
        BY <1>8 DEF Reduce, ReduceBest
    <2>7. \A p \in tile : Cellwise(f[p])
        BY <2>1, CellsAreCellwise DEF Progress
    <2>8. \A e \in before : Cellwise(e.value) /\ ~Invalid(e.value) /\ e.index \in Nat
              /\ e.index < col_start
        <3>1. ASSUME NEW e \in before
              PROVE  Cellwise(e.value) /\ ~Invalid(e.value) /\ e.index \in Nat
                  /\ e.index < col_start
            <4>1. PICK p \in SeenAlong(r) : e = [value |-> Along(r)[p], index |-> p]
                      /\ ~Invalid(e.value)
                BY DEF Valued
            <4>2. Along(r)[p] = Cell(r, p) /\ Cellwise(Cell(r, p)) /\ p \in Nat
                      /\ p < col_start
                BY <2>4, CellsAreCellwise DEF Along, Progress
            <4> QED
                BY <4>1, <4>2
        <3> QED
            BY <3>1
    <2>9. IsBestOf(row_best[r], before)
        BY DEF BestInv
    <2> HIDE DEF before, f
    <2>10. DOMAIN f = Positions(col_start, col_end)
        BY DEF f
    <2>11. IsBestOf(Updated(row_best[r], Winner(f, col_start)), before \cup Valued(f, tile))
        BY <1>1, <2>7, <2>8, <2>9, <2>10, UpdatedIsBest
    <2> QED
        BY <1>3, <2>3, <2>5, <2>6, <2>11
<1> QED
    BY <1>7, <1>8

(* Every step keeps the best matches.                                      *)
LEMMA NextBest == Progress /\ BestInv /\ [Next]_vars => BestInv'
<1> SUFFICES ASSUME Progress, BestInv, [Next]_vars PROVE BestInv'
    OBVIOUS
<1>1. CASE Reduce
    <2>1. Rows' = Rows /\ Columns' = Columns
        BY <1>1 DEF Reduce, Rows, Columns
    <2>2. column_best' = [c \in Columns |-> column_best'[c]]
              /\ row_best' = [r \in Rows |-> row_best'[r]]
        BY <1>1 DEF Reduce, ReduceBest
    <2>3. \A c \in Columns : IsBestOf(column_best'[c], Valued(Down(c)', SeenDown(c)'))
        BY <1>1, ColumnIsBest
    <2>4. \A r \in Rows : IsBestOf(row_best'[r], Valued(Along(r)', SeenAlong(r)'))
        BY <1>1, RowIsBest
    <2> QED
        BY <2>1, <2>2, <2>3, <2>4 DEF BestInv, Valued, Invalid, InvalidValue
<1>2. CASE UNCHANGED <<job, corner, reducers>>
    <2>1. /\ Rows' = Rows /\ Columns' = Columns
          /\ \A r, c : Cell(r, c)' = Cell(r, c) /\ (Seen(r, c)' <=> Seen(r, c))
        BY <1>2, ViewIsKept DEF corner
    <2>2. \A c : Down(c)' = Down(c) /\ SeenDown(c)' = SeenDown(c)
        BY <2>1 DEF Down, SeenDown
    <2>3. \A r : Along(r)' = Along(r) /\ SeenAlong(r)' = SeenAlong(r)
        BY <2>1 DEF Along, SeenAlong
    <2>4. column_best' = column_best /\ row_best' = row_best
        BY <1>2 DEF reducers
    <2> QED
        BY <2>1, <2>2, <2>3, <2>4 DEF BestInv, Valued, Invalid, InvalidValue
<1> QED
    BY <1>1, <1>2 DEF Next, Finish, vars

----------------------------------------------------------------------------
(* The matrix summary. *)

(* Division with a remainder.                                              *)
LEMMA Division ==
    ASSUME NEW x \in Nat, NEW s \in Nat \ {0}
    PROVE  \E q \in Nat, t \in Nat : q = x \div s /\ x = s * q + t /\ t < s
<1>1. x = s * (x \div s) + (x % s)
    OBVIOUS
<1>2. x \div s \in Nat
    BY Z3
<1>3. x % s \in Nat /\ x % s < s
    BY Z3
<1> QED
    BY <1>1, <1>2, <1>3

(* Multiplication is monotone.                                             *)
LEMMA MoreTimes ==
    ASSUME NEW a \in Nat, NEW b \in Nat, NEW s \in Nat, a <= b
    PROVE  s * a <= s * b /\ s * a \in Nat /\ s * b \in Nat
<1>1. PICK d \in Nat : b = a + d
    <2>1. b - a \in Nat /\ b = a + (b - a)
        OBVIOUS
    <2> QED
        BY <2>1
<1>2. s * b = s * a + s * d /\ s * a \in Nat /\ s * d \in Nat
    BY <1>1
<1> QED
    BY <1>2

(* The rounding up of _summary_bins: a position is at or beyond an edge    *)
(* exactly when it is so before the edge is rounded.                       *)
LEMMA EdgeIsBelow ==
    ASSUME NEW i \in Nat, NEW n \in Nat, NEW count \in Nat \ {0}, NEW r \in Nat
    PROVE  Edge(i, n, count) <= r <=> i * n <= r * count
<1>1. PICK x \in Nat : x = i * n
    BY DEF Edge
<1>2. x + count - 1 \in Nat
    OBVIOUS
<1>3. PICK q \in Nat, t \in Nat : q = (x + count - 1) \div count
          /\ x + count - 1 = count * q + t /\ t < count
    BY <1>2, Division
<1>4. Edge(i, n, count) = q
    BY <1>1, <1>3 DEF Edge
<1>5. count * q \in Nat /\ count * r \in Nat /\ r * count = count * r
    OBVIOUS
<1>6. CASE q <= r
    <2>1. count * q <= count * r
        BY <1>6, MoreTimes
    <2>2. x <= count * r
        BY <1>3, <1>5, <2>1
    <2> QED
        BY <1>1, <1>4, <1>5, <1>6, <2>2
<1>7. CASE ~(q <= r)
    <2>1. r + 1 <= q /\ r + 1 \in Nat
        BY <1>7
    <2>2. count * (r + 1) <= count * q
        BY <2>1, MoreTimes
    <2>3. count * (r + 1) = count * r + count
        OBVIOUS
    <2>4. x > count * r
        BY <1>3, <1>5, <2>2, <2>3
    <2> QED
        BY <1>1, <1>4, <1>5, <1>7, <2>4
<1> QED
    BY <1>6, <1>7

(* So a position is between two edges exactly when it scales down to the   *)
(* bin.                                                                    *)
LEMMA BetweenEdges ==
    ASSUME NEW n \in Nat \ {0}, NEW count \in Nat \ {0}, NEW i \in Nat, NEW r \in Nat
    PROVE  Edge(i, n, count) <= r /\ r < Edge(i + 1, n, count) <=> (r * count) \div n = i
<1>1. PICK y \in Nat : y = r * count
    OBVIOUS
<1>2. PICK k \in Nat, t \in Nat : k = y \div n /\ y = n * k + t /\ t < n
    BY Division
<1>3. Edge(i, n, count) <= r <=> i * n <= y
    BY <1>1, EdgeIsBelow
<1>4. r < Edge(i + 1, n, count) <=> ~((i + 1) * n <= y)
    <2>1. i + 1 \in Nat
        OBVIOUS
    <2>2. Edge(i + 1, n, count) <= r <=> (i + 1) * n <= y
        BY <1>1, <2>1, EdgeIsBelow
    <2>3. Edge(i + 1, n, count) \in Nat
        <3>1. PICK x \in Nat : x = (i + 1) * n
            BY <2>1
        <3>2. x + count - 1 \in Nat
            OBVIOUS
        <3>3. (x + count - 1) \div count \in Nat
            BY <3>2, Division
        <3> QED
            BY <3>1, <3>3 DEF Edge
    <2>4. PICK e \in Nat : e = Edge(i + 1, n, count)
        BY <2>3
    <2>5. r < e <=> ~(e <= r)
        OBVIOUS
    <2> QED
        BY <2>2, <2>4, <2>5
<1>5. i * n = n * i /\ (i + 1) * n = n * i + n /\ n * i \in Nat /\ n * k \in Nat
    OBVIOUS
<1>6. CASE k = i
    BY <1>1, <1>2, <1>3, <1>4, <1>5, <1>6
<1>7. CASE k < i
    <2>1. k + 1 \in Nat /\ k + 1 <= i
        BY <1>7
    <2>2. n * (k + 1) <= n * i
        BY <2>1, MoreTimes
    <2>3. n * (k + 1) = n * k + n
        OBVIOUS
    <2>4. ~(i * n <= y)
        BY <1>2, <1>5, <2>2, <2>3
    <2> QED
        BY <1>1, <1>2, <1>3, <1>7, <2>4
<1>8. CASE i < k
    <2>1. i + 1 \in Nat /\ i + 1 <= k
        BY <1>8
    <2>2. n * (i + 1) <= n * k
        BY <2>1, MoreTimes
    <2>3. n * (i + 1) = n * i + n
        OBVIOUS
    <2>4. (i + 1) * n <= y
        BY <1>2, <1>5, <2>2, <2>3
    <2> QED
        BY <1>1, <1>2, <1>4, <1>8, <2>4
<1> QED
    BY <1>6, <1>7, <1>8

(* A cell is in the bin its row and column scale down to.                  *)
LEMMA CellsAreInBins ==
    ASSUME job \in Jobs, NEW bin \in Bins, NEW r \in Rows, NEW c \in Columns
    PROVE  InBin(bin, r, c) <=> BinOf(r, c) = bin
<1>1. PICK n \in Nat \ {0}, m \in Nat \ {0}, h \in Nat \ {0}, w \in Nat \ {0} :
         n = job.rows /\ m = job.columns /\ h = job.height /\ w = job.width
    BY JobsAssumption
<1>2. PICK i \in Nat, j \in Nat : bin = <<i, j>>
    BY <1>1 DEF Bins, Positions
<1>3. r \in Nat /\ c \in Nat
    BY <1>1 DEF Rows, Columns, Positions
<1>4. Edge(i, n, h) <= r /\ r < Edge(i + 1, n, h) <=> (r * h) \div n = i
    BY <1>1, <1>2, <1>3, BetweenEdges, ZenonT(60)
<1>5. Edge(j, m, w) <= c /\ c < Edge(j + 1, m, w) <=> (c * w) \div m = j
    BY <1>1, <1>2, <1>3, BetweenEdges, ZenonT(60)
<1>6. InBin(bin, r, c) <=> /\ Edge(i, n, h) <= r /\ r < Edge(i + 1, n, h)
                           /\ Edge(j, m, w) <= c /\ c < Edge(j + 1, m, w)
    BY <1>1, <1>2 DEF InBin
<1>7. BinOf(r, c) = bin <=> (r * h) \div n = i /\ (c * w) \div m = j
    BY <1>1, <1>2 DEF BinOf
<1> QED
    BY <1>4, <1>5, <1>6, <1>7

(* A maximum is the maximum of maxima.                                     *)
LEMMA MaxOfUnion ==
    ASSUME NEW A, NEW B, A \subseteq Int, B \subseteq Int, A # {}, NEW b \in Int,
           \A x \in A \cup B : x <= b
    PROVE  Max({Max(A)} \cup B) = Max(A \cup B)
<1>1. Max(A) \in A /\ \A x \in A : x <= Max(A)
    BY MaxIsGreatest
<1>2. A \cup B \subseteq Int /\ A \cup B # {}
    OBVIOUS
<1>3. Max(A \cup B) \in A \cup B /\ \A x \in A \cup B : x <= Max(A \cup B)
    BY <1>2, MaxIsGreatest
<1>4. PICK m \in Int, a \in Int : m = Max(A \cup B) /\ a = Max(A)
    BY <1>1, <1>3
<1>5. m \in {a} \cup B
    <2>1. CASE m \in B
        BY <2>1
    <2>2. CASE m \in A
        <3>1. m <= a /\ a <= m
            BY <1>1, <1>3, <1>4, <2>2
        <3> QED
            BY <3>1
    <2> QED
        BY <1>3, <1>4, <2>1, <2>2
<1>6. \A x \in {a} \cup B : x <= m
    BY <1>1, <1>3, <1>4
<1>7. {a} \cup B \subseteq Int
    OBVIOUS
<1>8. Max({a} \cup B) = m
    BY <1>5, <1>6, <1>7, MaxIsUnique
<1> QED
    BY <1>4, <1>8

Counted(bin) ==
    {p \in Rows \X Columns : /\ Seen(p[1], p[2]) /\ BinOf(p[1], p[2]) = bin
                             /\ job.self_join => p[1] <= p[2]}

CellsAt(places) == {Cell(p[1], p[2]) : p \in places}

SummaryInv ==
    /\ summary = [bin \in Bins |-> summary[bin]]
    /\ \A bin \in Bins : summary[bin] = Max({InvalidValue} \cup CellsAt(Counted(bin)))

(* This is what the property says.                                         *)
LEMMA SummaryInvSuffices == SummaryInv => SummaryIsBinned
BY DEF SummaryInv, SummaryIsBinned, Counted, CellsAt

(* Of nothing an invalid value is the maximum.                             *)
LEMMA InitSummary == Init => SummaryInv
<1> SUFFICES ASSUME Init PROVE SummaryInv
    OBVIOUS
<1>1. \A bin \in Bins : Counted(bin) = {}
    BY NothingIsSeen DEF Counted
<1>2. CellsAt({}) = {}
    BY DEF CellsAt
<1>3. Max({InvalidValue}) = InvalidValue
    BY MaxIsUnique, ValuesAreOrdered
<1>4. \A bin \in Bins : {InvalidValue} \cup CellsAt(Counted(bin)) = {InvalidValue}
    BY <1>1, <1>2
<1>5. \A bin \in Bins : summary[bin] = InvalidValue
    BY DEF Init
<1>6. summary = [bin \in Bins |-> summary[bin]]
    BY DEF Init
<1> QED
    BY <1>3, <1>4, <1>5, <1>6 DEF SummaryInv

(* A bin after a tile.                                                     *)
LEMMA SummaryOfTile ==
    ASSUME Progress, SummaryInv, Reduce, NEW bin \in Bins
    PROVE  summary'[bin] = Max({InvalidValue} \cup CellsAt(Counted(bin)'))
<1>1. /\ job.rows \in Nat \ {0} /\ job.columns \in Nat \ {0}
      /\ row_start \in Nat /\ col_start \in Nat
      /\ row_end \in Nat /\ row_start < row_end /\ row_end <= job.rows
      /\ col_end \in Nat /\ col_start < col_end /\ col_end <= job.columns
    BY CornerIsInside DEF Reduce
<1>2. job' = job /\ Rows' = Rows /\ Columns' = Columns
    BY DEF Reduce, Rows, Columns
<1> DEFINE tile == {p \in Positions(row_start, row_end) \X Positions(col_start, col_end) :
                       InBin(bin, p[1], p[2]) /\ (job.self_join => p[1] <= p[2])}
           A == {InvalidValue} \cup CellsAt(Counted(bin))
           B == CellsAt(tile)
<1>3. tile = {p \in Rows \X Columns : /\ InTile(p[1], p[2]) /\ BinOf(p[1], p[2]) = bin
                                      /\ job.self_join => p[1] <= p[2]}
    <2>1. \A r, c : r \in Positions(row_start, row_end)
              /\ c \in Positions(col_start, col_end)
                       <=> r \in Rows /\ c \in Columns /\ InTile(r, c)
        BY <1>1 DEF Positions, Rows, Columns, InTile
    <2>2. \A r \in Rows, c \in Columns : InBin(bin, r, c) <=> BinOf(r, c) = bin
        BY CellsAreInBins DEF Progress
    <2>3. ASSUME NEW p \in Rows \X Columns
          PROVE  p \in tile <=> /\ InTile(p[1], p[2]) /\ BinOf(p[1], p[2]) = bin
                                /\ job.self_join => p[1] <= p[2]
        <3>1. PICK r \in Rows, c \in Columns : p = <<r, c>>
            OBVIOUS
        <3>2. p[1] = r /\ p[2] = c
            BY <3>1
        <3>3. p \in Positions(row_start, row_end) \X Positions(col_start, col_end)
                  <=> InTile(r, c)
            BY <2>1, <3>1
        <3>4. InBin(bin, r, c) <=> BinOf(r, c) = bin
            BY <2>2
        <3> QED
            BY <3>2, <3>3, <3>4
    <2>4. ASSUME NEW p \in tile PROVE p \in Rows \X Columns
        <3>1. PICK r \in Positions(row_start, row_end), c \in Positions(col_start, col_end) :
                  p = <<r, c>>
            OBVIOUS
        <3> QED
            BY <2>1, <3>1
    <2> HIDE DEF tile
    <2> QED
        BY <2>3, <2>4
<1>4. Counted(bin)' = Counted(bin) \cup tile
    <2>1. \A r, c : BinOf(r, c)' = BinOf(r, c)
        BY <1>2 DEF BinOf
    <2>2. \A p \in Rows \X Columns : Seen(p[1], p[2])'
              <=> Seen(p[1], p[2]) \/ InTile(p[1], p[2])
        BY TileIsSeen
    <2> HIDE DEF tile
    <2>3. ASSUME NEW p PROVE p \in Counted(bin)' <=> p \in Counted(bin) \cup tile
        <3>1. p \in Counted(bin)' <=> /\ p \in Rows \X Columns
                                      /\ Seen(p[1], p[2])' /\ BinOf(p[1], p[2]) = bin
                                      /\ job.self_join => p[1] <= p[2]
            BY <1>2, <2>1 DEF Counted
        <3>2. p \in Counted(bin) <=> /\ p \in Rows \X Columns
                                     /\ Seen(p[1], p[2]) /\ BinOf(p[1], p[2]) = bin
                                     /\ job.self_join => p[1] <= p[2]
            BY DEF Counted
        <3> QED
            BY <1>3, <2>2, <3>1, <3>2
    <2> QED
        BY <2>3
<1>5. A \cup B = {InvalidValue} \cup CellsAt(Counted(bin)')
    BY <1>4 DEF CellsAt
<1>6. A \subseteq Int /\ B \subseteq Int /\ A # {} /\ \A x \in A \cup B : x <= Scale
    <2>1. \A p \in Rows \X Columns : Cellwise(Cell(p[1], p[2]))
        BY CellsAreCellwise DEF Progress
    <2>2. Counted(bin) \subseteq Rows \X Columns /\ tile \subseteq Rows \X Columns
        BY <1>3 DEF Counted
    <2>3. \A x \in CellsAt(Counted(bin)) \cup B : Cellwise(x)
        BY <2>1, <2>2 DEF CellsAt
    <2>4. \A x \in A \cup B : x \in Int /\ x <= Scale
        BY <2>3, ValuesAreOrdered DEF Cellwise
    <2> QED
        BY <2>4
<1>7. summary'[bin] = Max({summary[bin]} \cup B)
    BY DEF Reduce, ReduceSummary, CellsAt
<1>8. summary[bin] = Max(A)
    BY DEF SummaryInv
<1> HIDE DEF A, B
<1>9. Scale \in Int
    BY ValuesAreOrdered
<1>10. Max({Max(A)} \cup B) = Max(A \cup B)
    BY <1>6, <1>9, MaxOfUnion
<1> QED
    BY <1>5, <1>7, <1>8, <1>10

(* Every step keeps the summary.                                           *)
LEMMA NextSummary == Progress /\ SummaryInv /\ [Next]_vars => SummaryInv'
<1> SUFFICES ASSUME Progress, SummaryInv, [Next]_vars PROVE SummaryInv'
    OBVIOUS
<1>1. CASE Reduce
    <2>1. Bins' = Bins /\ \A r, c : Cell(r, c)' = Cell(r, c)
        BY <1>1, ViewIsKept DEF Reduce, Bins
    <2>2. summary' = [bin \in Bins |-> summary'[bin]]
        BY <1>1 DEF Reduce, ReduceSummary
    <2>3. \A bin \in Bins : summary'[bin] = Max({InvalidValue} \cup CellsAt(Counted(bin)'))
        BY <1>1, SummaryOfTile
    <2> QED
        BY <2>1, <2>2, <2>3 DEF SummaryInv, CellsAt, InvalidValue
<1>2. CASE UNCHANGED <<job, corner, reducers>>
    <2>1. /\ Rows' = Rows /\ Columns' = Columns /\ Bins' = Bins
          /\ \A r, c : Cell(r, c)' = Cell(r, c) /\ (Seen(r, c)' <=> Seen(r, c))
        BY <1>2, ViewIsKept DEF corner, Bins
    <2>2. \A bin : Counted(bin)' = Counted(bin)
        BY <1>2, <2>1 DEF Counted, BinOf
    <2>3. summary' = summary
        BY <1>2 DEF reducers
    <2> QED
        BY <2>1, <2>2, <2>3 DEF SummaryInv, CellsAt, InvalidValue
<1> QED
    BY <1>1, <1>2 DEF Next, Finish, vars

----------------------------------------------------------------------------
(* The sums. *)

(* Induction on finite sets, by a smallest counterexample.                 *)
LEMMA SmallestCounterexample ==
    ASSUME NEW T, IsFiniteSet(T), NEW bad \in SUBSET SUBSET T, bad # {}
    PROVE  \E s \in bad : \A x \in s : s \ {x} \notin bad
<1> DEFINE sizes == {Cardinality(s) : s \in bad}
<1>1. \A s \in bad : s \subseteq T /\ IsFiniteSet(s) /\ Cardinality(s) \in Nat
    BY FS_Subset, FS_CardinalityType
<1>2. sizes \subseteq Nat /\ sizes # {}
    BY <1>1
<1>3. PICK n \in sizes : \A m \in sizes : n <= m
    BY <1>2, LeastNumber
<1>4. PICK s \in bad : n = Cardinality(s)
    OBVIOUS
<1>5. ASSUME NEW x \in s, s \ {x} \in bad PROVE FALSE
    <2>1. Cardinality(s \ {x}) = Cardinality(s) - 1
        BY <1>1, FS_RemoveElement
    <2>2. n <= Cardinality(s \ {x})
        BY <1>3, <1>5
    <2> QED
        BY <1>1, <1>4, <2>1, <2>2
<1> QED
    BY <1>5

First(s) == CHOOSE x \in s : TRUE

(* The sums of f over the subsets of T, element by element.                *)
Adding(f, T, g) ==
    /\ g = [s \in SUBSET T |-> g[s]]
    /\ \A s \in SUBSET T : g[s] = IF s = {} THEN 0 ELSE f[First(s)] + g[s \ {First(s)}]

(* There is such a sum: were there a least size up to which there is       *)
(* none, the sum up to the size before could be continued.                 *)
LEMMA AddingExists ==
    ASSUME NEW T, IsFiniteSet(T), NEW f
    PROVE  \E g : Adding(f, T, g)
<1> DEFINE Eq(g, s) == g[s] = IF s = {} THEN 0 ELSE f[First(s)] + g[s \ {First(s)}]
           Upto(g, k) == /\ g = [s \in SUBSET T |-> g[s]]
                         /\ \A s \in SUBSET T : Cardinality(s) <= k => Eq(g, s)
           bad == {k \in Nat : ~ \E g : Upto(g, k)}
<1>1. \A s \in SUBSET T : /\ IsFiniteSet(s) /\ Cardinality(s) \in Nat
                          /\ Cardinality(s) = 0 <=> s = {}
                          /\ s # {} => First(s) \in s
    BY FS_Subset, FS_CardinalityType, FS_EmptySet DEF First
<1>2. \A s \in SUBSET T : s # {} => /\ s \ {First(s)} \in SUBSET T
                                    /\ Cardinality(s \ {First(s)}) = Cardinality(s) - 1
    BY <1>1, FS_RemoveElement
<1>3. ASSUME bad # {} PROVE FALSE
    <2>1. PICK k \in bad : \A m \in bad : k <= m
        BY <1>3, LeastNumber
    <2>2. k \in Nat /\ ~ \E g : Upto(g, k)
        OBVIOUS
    <2>3. CASE k = 0
        <3> DEFINE g == [s \in SUBSET T |-> 0]
        <3>1. \A s \in SUBSET T : Cardinality(s) <= 0 => Eq(g, s)
            BY <1>1
        <3>2. g = [s \in SUBSET T |-> g[s]]
            OBVIOUS
        <3>3. Upto(g, 0)
            BY <3>1, <3>2
        <3> QED
            BY <2>2, <2>3, <3>3
    <2>4. CASE k # 0
        <3>1. k - 1 \in Nat /\ k - 1 \notin bad /\ 0 <= k - 1
            <4>1. k - 1 \in Nat /\ ~(k <= k - 1) /\ 0 <= k - 1
                BY <2>2, <2>4
            <4>2. k - 1 \in bad => k <= k - 1
                BY <2>1
            <4> QED
                BY <4>1, <4>2
        <3>2. PICK g : Upto(g, k - 1)
            BY <3>1
        <3> DEFINE h == [s \in SUBSET T |->
                            IF Cardinality(s) <= k - 1 THEN g[s]
                            ELSE f[First(s)] + g[s \ {First(s)}]]
        <3>3. h = [s \in SUBSET T |-> h[s]]
            OBVIOUS
        <3>4. \A s \in SUBSET T : h[s] = IF Cardinality(s) <= k - 1 THEN g[s]
                                         ELSE f[First(s)] + g[s \ {First(s)}]
            OBVIOUS
        <3> HIDE DEF h
        <3>5. ASSUME NEW s \in SUBSET T, Cardinality(s) <= k PROVE Eq(h, s)
            <4>1. CASE s = {}
                <5>1. Cardinality(s) = 0 /\ h[s] = g[s]
                    BY <1>1, <3>1, <3>4, <4>1
                <5>2. Eq(g, s)
                    <6>1. Cardinality(s) <= k - 1
                        BY <3>1, <5>1
                    <6> QED
                        BY <3>2, <6>1
                <5> QED
                    BY <4>1, <5>1, <5>2
            <4>2. CASE s # {}
                <5>1. PICK r \in SUBSET T : r = s \ {First(s)}
                          /\ Cardinality(r) = Cardinality(s) - 1
                    BY <1>2, <4>2
                <5>2. PICK n \in Nat : n = Cardinality(s)
                    BY <1>1
                <5>3. Cardinality(r) <= k - 1
                    BY <2>2, <3>5, <5>1, <5>2
                <5>4. h[r] = g[r]
                    BY <3>4, <5>3
                <5>5. CASE n <= k - 1
                    <6>1. h[s] = g[s]
                        BY <3>4, <5>2, <5>5
                    <6>2. Eq(g, s)
                        BY <3>2, <5>2, <5>5
                    <6> QED
                        BY <4>2, <5>1, <5>4, <6>1, <6>2
                <5>6. CASE ~(n <= k - 1)
                    <6>1. h[s] = f[First(s)] + g[r]
                        BY <3>4, <5>1, <5>2, <5>6
                    <6> QED
                        BY <4>2, <5>1, <5>4, <6>1
                <5> QED
                    BY <5>5, <5>6
            <4> QED
                BY <4>1, <4>2
        <3>6. Upto(h, k)
            BY <3>3, <3>5
        <3> QED
            BY <2>2, <3>6
    <2> QED
        BY <2>3, <2>4
<1>4. Cardinality(T) \in Nat
    BY FS_CardinalityType
<1>5. PICK g : Upto(g, Cardinality(T))
    BY <1>3, <1>4
<1>6. \A s \in SUBSET T : Cardinality(s) <= Cardinality(T)
    BY FS_Subset
<1>7. \A s \in SUBSET T : Eq(g, s)
    BY <1>5, <1>6
<1> QED
    BY <1>5, <1>7 DEF Adding

(* Sums are integers.                                                      *)
LEMMA SumsAreInt ==
    ASSUME NEW T, IsFiniteSet(T), NEW f, \A x \in T : f[x] \in Int, NEW g, Adding(f, T, g)
    PROVE  \A s \in SUBSET T : g[s] \in Int
<1> DEFINE bad == {s \in SUBSET T : g[s] \notin Int}
<1> SUFFICES ASSUME bad # {} PROVE FALSE
    OBVIOUS
<1>1. bad \in SUBSET SUBSET T
    OBVIOUS
<1> HIDE DEF bad
<1>2. PICK s \in bad : \A x \in s : s \ {x} \notin bad
    BY <1>1, SmallestCounterexample
<1> USE DEF bad
<1>3. s \in SUBSET T /\ g[s] \notin Int
    OBVIOUS
<1>4. s # {} /\ First(s) \in s
    <2>1. s = {} => g[s] = 0
        BY <1>3 DEF Adding
    <2>2. s # {}
        BY <1>3, <2>1
    <2> QED
        BY <2>2 DEF First
<1>5. g[s \ {First(s)}] \in Int /\ f[First(s)] \in Int
    BY <1>2, <1>3, <1>4
<1>6. g[s] = f[First(s)] + g[s \ {First(s)}]
    BY <1>3, <1>4 DEF Adding
<1> QED
    BY <1>3, <1>5, <1>6

(* Any element may come first.                                             *)
LEMMA AnyFirst ==
    ASSUME NEW T, IsFiniteSet(T), NEW f, \A x \in T : f[x] \in Int, NEW g, Adding(f, T, g)
    PROVE  \A s \in SUBSET T : \A x \in s : g[s] = f[x] + g[s \ {x}]
<1> DEFINE bad == {s \in SUBSET T : \E x \in s : g[s] # f[x] + g[s \ {x}]}
<1> SUFFICES ASSUME bad # {} PROVE FALSE
    OBVIOUS
<1>1. bad \in SUBSET SUBSET T
    OBVIOUS
<1> HIDE DEF bad
<1>2. PICK s \in bad : \A x \in s : s \ {x} \notin bad
    BY <1>1, SmallestCounterexample
<1>3. PICK x \in s : g[s] # f[x] + g[s \ {x}]
    BY DEF bad
<1>4. s \in SUBSET T /\ s # {}
    BY <1>3 DEF bad
<1>5. PICK y \in s : y = First(s)
    BY <1>4 DEF First
<1>6. g[s] = f[y] + g[s \ {y}]
    BY <1>4, <1>5 DEF Adding
<1>7. x # y
    BY <1>3, <1>6
<1>8. s \ {y} \notin bad /\ s \ {x} \notin bad /\ s \ {y} \in SUBSET T
          /\ s \ {x} \in SUBSET T
    BY <1>2, <1>4
<1>9. g[s \ {y}] = f[x] + g[(s \ {y}) \ {x}]
    BY <1>7, <1>8 DEF bad
<1>10. g[s \ {x}] = f[y] + g[(s \ {x}) \ {y}]
    BY <1>7, <1>8 DEF bad
<1>11. (s \ {x}) \ {y} = (s \ {y}) \ {x} /\ (s \ {y}) \ {x} \in SUBSET T
    BY <1>4
<1>12. PICK rest \in Int, a \in Int, b \in Int :
          rest = g[(s \ {y}) \ {x}] /\ a = f[x] /\ b = f[y]
    BY <1>4, <1>11, SumsAreInt
<1>13. g[s] = b + (a + rest) /\ g[s \ {x}] = b + rest
    BY <1>6, <1>9, <1>10, <1>11, <1>12
<1>14. b + (a + rest) = a + (b + rest)
    OBVIOUS
<1> QED
    BY <1>3, <1>12, <1>13, <1>14

(* A sum does not depend on the set it is taken in.                        *)
LEMMA SumsAgree ==
    ASSUME NEW T, IsFiniteSet(T), NEW A \in SUBSET T, NEW f,
           NEW g, Adding(f, A, g), NEW k, Adding(f, T, k)
    PROVE  \A s \in SUBSET A : g[s] = k[s]
<1> DEFINE bad == {s \in SUBSET A : g[s] # k[s]}
<1> SUFFICES ASSUME bad # {} PROVE FALSE
    OBVIOUS
<1>1. bad \in SUBSET SUBSET T
    OBVIOUS
<1> HIDE DEF bad
<1>2. PICK s \in bad : \A x \in s : s \ {x} \notin bad
    BY <1>1, SmallestCounterexample
<1>3. s \in SUBSET A /\ s \in SUBSET T /\ g[s] # k[s]
    BY DEF bad
<1>4. CASE s = {}
    BY <1>3, <1>4 DEF Adding
<1>5. CASE s # {}
    <2>1. First(s) \in s
        BY <1>5 DEF First
    <2>2. g[s] = f[First(s)] + g[s \ {First(s)}] /\ k[s] = f[First(s)] + k[s \ {First(s)}]
        BY <1>3, <1>5 DEF Adding
    <2>3. g[s \ {First(s)}] = k[s \ {First(s)}]
        BY <1>2, <1>3, <2>1 DEF bad
    <2> QED
        BY <1>3, <2>2, <2>3
<1> QED
    BY <1>4, <1>5

(* The sum over two disjoint sets is that of the sums.                     *)
LEMMA SumsAddUp ==
    ASSUME NEW T, IsFiniteSet(T), NEW f, \A x \in T : f[x] \in Int, NEW k, Adding(f, T, k),
           NEW A \in SUBSET T
    PROVE  \A B \in SUBSET T : A \cap B = {} => k[A \cup B] = k[A] + k[B]
<1> DEFINE bad == {B \in SUBSET T : A \cap B = {} /\ k[A \cup B] # k[A] + k[B]}
<1> SUFFICES ASSUME bad # {} PROVE FALSE
    OBVIOUS
<1>1. bad \in SUBSET SUBSET T
    OBVIOUS
<1> HIDE DEF bad
<1>2. PICK B \in bad : \A x \in B : B \ {x} \notin bad
    BY <1>1, SmallestCounterexample
<1>3. B \in SUBSET T /\ A \cap B = {} /\ k[A \cup B] # k[A] + k[B]
    BY DEF bad
<1>4. k[A] \in Int /\ k[B] \in Int
    BY <1>3, SumsAreInt
<1>5. CASE B = {}
    <2>1. k[B] = 0 /\ A \cup B = A
        BY <1>3, <1>5 DEF Adding
    <2> QED
        <3>1. k[A \cup B] = k[A]
            BY <2>1
        <3>2. k[A] + 0 = k[A]
            BY <1>4
        <3> QED
            BY <1>3, <2>1, <3>1, <3>2
<1>6. CASE B # {}
    <2>1. PICK x \in B : TRUE
        BY <1>6
    <2>2. B \ {x} \in SUBSET T /\ A \cap (B \ {x}) = {} /\ A \cup B \in SUBSET T
              /\ x \in A \cup B
        BY <1>3
    <2>3. k[A \cup (B \ {x})] = k[A] + k[B \ {x}]
        BY <1>2, <2>2 DEF bad
    <2>4. (A \cup B) \ {x} = A \cup (B \ {x})
        BY <1>3
    <2>5. k[A \cup B] = f[x] + k[(A \cup B) \ {x}]
        BY <2>2, AnyFirst
    <2>6. k[B] = f[x] + k[B \ {x}]
        BY <1>3, AnyFirst
    <2>7. PICK a \in Int, b \in Int, v \in Int : a = k[A] /\ b = k[B \ {x}] /\ v = f[x]
        BY <1>3, <1>4, <2>2, SumsAreInt
    <2>8. v + (a + b) = a + (v + b)
        OBVIOUS
    <2> QED
        BY <1>3, <2>3, <2>4, <2>5, <2>6, <2>7, <2>8
<1> QED
    BY <1>5, <1>6

Above(f, rows, threshold) == {r \in rows : f[r] > threshold}

(* Total is such a sum, before a step and after it.                        *)
LEMMA TotalIsSum ==
    ASSUME NEW c, NEW rows \in SUBSET Rows, NEW T, T = Above(Down(c), rows, job.threshold),
           IsFiniteSet(T)
    PROVE  \E g : Adding(Down(c), T, g) /\ Total(c, rows) = g[T]
<1>1. T = {r \in rows : Cell(r, c) > job.threshold} /\ T \subseteq Rows
    BY DEF Above, Down
<1> DEFINE iter[s \in SUBSET {r \in rows : Cell(r, c) > job.threshold}] ==
              IF s = {} THEN 0
              ELSE LET x == CHOOSE x \in s : TRUE IN Cell(x, c) + iter[s \ {x}]
<1>2. Total(c, rows) = iter[{r \in rows : Cell(r, c) > job.threshold}]
    BY DEF Total, MapThenSumSet, MapThenFoldSet
<1>3. PICK g : Adding(Down(c), T, g)
    BY AddingExists
<1>4. \A s \in SUBSET T : s # {} => First(s) \in Rows
    BY <1>1 DEF First
<1>5. \A s \in SUBSET T : s # {} => Down(c)[First(s)] = Cell(First(s), c)
    BY <1>4 DEF Down
<1>6. \A s \in SUBSET T : g[s] = IF s = {} THEN 0 ELSE Cell(First(s), c) + g[s \ {First(s)}]
    BY <1>3, <1>5 DEF Adding
<1>7. g = [s \in SUBSET T |-> IF s = {} THEN 0 ELSE Cell(First(s), c) + g[s \ {First(s)}]]
    <2>1. g = [s \in SUBSET T |-> g[s]]
        BY <1>3 DEF Adding
    <2> QED
        BY <1>6, <2>1
<1>8. iter = [s \in SUBSET {r \in rows : Cell(r, c) > job.threshold} |->
                 IF s = {} THEN 0
                 ELSE LET x == CHOOSE x \in s : TRUE IN Cell(x, c) + iter[s \ {x}]]
    <2>1. g = [s \in SUBSET {r \in rows : Cell(r, c) > job.threshold} |->
                 IF s = {} THEN 0
                 ELSE LET x == CHOOSE x \in s : TRUE IN Cell(x, c) + g[s \ {x}]]
        BY <1>1, <1>7 DEF First
    <2> QED
        BY <2>1
<1> HIDE DEF iter
<1>9. iter = [s \in SUBSET T |-> IF s = {} THEN 0 ELSE Cell(First(s), c) + iter[s \ {First(s)}]]
    BY <1>1, <1>8 DEF First
<1>10. \A s \in SUBSET T : iter[s] = IF s = {} THEN 0 ELSE Cell(First(s), c) + iter[s \ {First(s)}]
    BY <1>9
<1>11. iter = [s \in SUBSET T |-> iter[s]]
    BY <1>9
<1>12. Adding(Down(c), T, iter)
    BY <1>5, <1>10, <1>11 DEF Adding
<1> QED
    BY <1>1, <1>2, <1>12

(* A step that keeps the join keeps the totals.                            *)
LEMMA TotalIsKept ==
    ASSUME job' = job, NEW c, NEW rows
    PROVE  Total(c, rows)' = Total(c, rows)
BY DEF Total, MapThenSumSet, MapThenFoldSet, Cell

(* The total of two disjoint sets of rows is that of the totals.           *)
LEMMA TotalOfUnion ==
    ASSUME job \in Jobs, NEW c \in Columns, NEW A \in SUBSET Rows, NEW B \in SUBSET Rows,
           A \cap B = {}
    PROVE  /\ Total(c, A \cup B) = Total(c, A) + Total(c, B)
           /\ Total(c, A) \in Int
<1> DEFINE f == Down(c)
           X == Above(f, A, job.threshold)
           Y == Above(f, B, job.threshold)
           T == Above(f, A \cup B, job.threshold)
<1>1. IsFiniteSet(Rows)
    BY FS_Interval, JobsAssumption DEF Rows, Positions
<1>2. X \in SUBSET T /\ Y \in SUBSET T /\ X \cap Y = {} /\ T = X \cup Y /\ T \subseteq Rows
    BY DEF Above
<1>3. IsFiniteSet(X) /\ IsFiniteSet(Y) /\ IsFiniteSet(T)
    BY <1>1, <1>2, FS_Subset
<1>4. \A x \in T : f[x] \in Int
    BY <1>2, CellsAreProper DEF Down
<1>5. PICK g : Adding(f, X, g) /\ Total(c, A) = g[X]
    BY <1>3, TotalIsSum
<1>6. PICK h : Adding(f, Y, h) /\ Total(c, B) = h[Y]
    BY <1>3, TotalIsSum
<1>7. PICK k : Adding(f, T, k) /\ Total(c, A \cup B) = k[T]
    BY <1>3, TotalIsSum
<1> HIDE DEF f, X, Y, T
<1>8. g[X] = k[X]
    BY <1>2, <1>3, <1>5, <1>7, SumsAgree
<1>9. h[Y] = k[Y]
    BY <1>2, <1>3, <1>6, <1>7, SumsAgree
<1>10. k[X \cup Y] = k[X] + k[Y]
    <2>1. Adding(f, T, k) /\ IsFiniteSet(T) /\ (\A x \in T : f[x] \in Int) /\ X \in SUBSET T
        BY <1>2, <1>3, <1>4, <1>7
    <2>2. \A R \in SUBSET T : X \cap R = {} => k[X \cup R] = k[X] + k[R]
        BY <2>1, SumsAddUp
    <2> QED
        BY <1>2, <2>2
<1>11. k[X] \in Int
    BY <1>2, <1>3, <1>4, <1>7, SumsAreInt
<1> QED
    BY <1>2, <1>5, <1>6, <1>7, <1>8, <1>9, <1>10, <1>11

(* The total of no rows.                                                   *)
LEMMA TotalOfNothing ==
    ASSUME NEW c
    PROVE  Total(c, {}) = 0
<1>1. Above(Down(c), {}, job.threshold) = {}
    BY DEF Above
<1>2. IsFiniteSet({})
    BY FS_EmptySet
<1>3. PICK g : Adding(Down(c), {}, g) /\ Total(c, {}) = g[{}]
    BY <1>1, <1>2, TotalIsSum
<1> QED
    BY <1>3 DEF Adding

SumInv ==
    /\ sums = [c \in Columns |-> sums[c]]
    /\ \A c \in Columns : sums[c] = Total(c, SeenDown(c))

(* This is what the property says.                                         *)
LEMMA SumInvSuffices == SumInv => SumIsComplete
BY DEF SumInv, SumIsComplete, SeenDown

(* Nothing is summed at first.                                             *)
LEMMA InitSum == Init => SumInv
<1> SUFFICES ASSUME Init PROVE SumInv
    OBVIOUS
<1>1. \A c \in Columns : SeenDown(c) = {}
    BY NothingIsSeen DEF SeenDown
<1>2. \A c \in Columns : sums[c] = 0
    BY DEF Init
<1>3. sums = [c \in Columns |-> sums[c]]
    BY DEF Init
<1> QED
    BY <1>1, <1>2, <1>3, TotalOfNothing DEF SumInv

(* A column of the tile has seen the rows above the tile, and then the     *)
(* tile's.                                                                 *)
LEMMA ColumnOfTile ==
    ASSUME Progress, Reduce, NEW c \in Columns
    PROVE  LET tile == Positions(row_start, row_end)
           IN  /\ tile \in SUBSET Rows
               /\ ~(col_start <= c /\ c < col_end) => SeenDown(c)' = SeenDown(c)
               /\ col_start <= c /\ c < col_end =>
                     /\ SeenDown(c)' = SeenDown(c) \cup tile
                     /\ SeenDown(c) = Positions(0, row_start)
                     /\ SeenDown(c) \cap tile = {}
<1> DEFINE tile == Positions(row_start, row_end)
<1>1. /\ job.rows \in Nat \ {0} /\ job.columns \in Nat \ {0}
      /\ row_start \in Nat /\ col_start \in Nat
      /\ row_end \in Nat /\ row_start < row_end /\ row_end <= job.rows
      /\ col_end \in Nat /\ col_start < col_end /\ col_end <= job.columns
    BY CornerIsInside DEF Reduce
<1>2. job' = job /\ Rows' = Rows
    BY DEF Reduce, Rows
<1>4. \A r \in Rows : Seen(r, c)' <=> Seen(r, c) \/ InTile(r, c)
    BY TileIsSeen
<1>5. SeenDown(c)' = {r \in Rows : Seen(r, c)'}
    BY <1>2 DEF SeenDown
<1>6. c \in Nat /\ c < job.columns
    BY <1>1 DEF Columns, Positions
<1>7. tile \in SUBSET Rows
    BY <1>1 DEF Positions, Rows
<1>8. ASSUME ~(col_start <= c /\ c < col_end) PROVE SeenDown(c)' = SeenDown(c)
    BY <1>4, <1>5, <1>8 DEF SeenDown, InTile
<1>9. ASSUME col_start <= c, c < col_end
      PROVE  /\ SeenDown(c)' = SeenDown(c) \cup tile
             /\ SeenDown(c) = Positions(0, row_start)
             /\ SeenDown(c) \cap tile = {}
    <2>1. \A r \in Rows : InTile(r, c) <=> r \in tile
        BY <1>1, <1>9 DEF InTile, Positions, Rows
    <2>2. SeenDown(c)' = SeenDown(c) \cup tile
        BY <1>4, <1>5, <1>7, <2>1 DEF SeenDown
    <2>3. \A r : r \in SeenDown(c) <=> r \in Positions(0, row_start)
        BY <1>1, <1>6, <1>9 DEF SeenDown, Seen, Rows, Positions
    <2>4. Positions(0, row_start) \cap tile = {}
        BY <1>1 DEF Positions
    <2> QED
        BY <2>2, <2>3, <2>4
<1> QED
    BY <1>7, <1>8, <1>9

(* Every step keeps the sums: a tile's rows are none of those its columns  *)
(* have seen.                                                              *)
LEMMA NextSum == Progress /\ SumInv /\ [Next]_vars => SumInv'
<1> SUFFICES ASSUME Progress, SumInv, [Next]_vars PROVE SumInv'
    OBVIOUS
<1>1. CASE Reduce
    <2> DEFINE tile == Positions(row_start, row_end)
    <2>1. job' = job /\ Columns' = Columns /\ Rows' = Rows
        BY <1>1 DEF Reduce, Columns, Rows
    <2>2. sums' = [c \in Columns |-> sums'[c]]
        BY <1>1 DEF Reduce, ReduceSum
    <2>3. ASSUME NEW c \in Columns PROVE sums'[c] = Total(c, SeenDown(c))'
        <3>1. PICK S : S = SeenDown(c)'
            OBVIOUS
        <3>2. Total(c, S)' = Total(c, S)
            BY <2>1, TotalIsKept
        <3>3. sums[c] = Total(c, SeenDown(c))
            BY DEF SumInv
        <3>4. sums'[c] = Total(c, S)
            <4>1. CASE ~(col_start <= c /\ c < col_end)
                <5>1. sums'[c] = sums[c]
                    BY <1>1, <4>1 DEF Reduce, ReduceSum
                <5>2. S = SeenDown(c)
                    BY <1>1, <3>1, <4>1, ColumnOfTile
                <5> QED
                    BY <3>3, <5>1, <5>2
            <4>2. CASE col_start <= c /\ c < col_end
                <5>1. sums'[c] = sums[c] + Total(c, tile)
                    BY <1>1, <4>2 DEF Reduce, ReduceSum
                <5>2. S = SeenDown(c) \cup tile /\ SeenDown(c) \cap tile = {}
                          /\ tile \in SUBSET Rows
                    BY <1>1, <3>1, <4>2, ColumnOfTile
                <5>3. SeenDown(c) \in SUBSET Rows
                    BY DEF SeenDown
                <5>4. Total(c, SeenDown(c) \cup tile) = Total(c, SeenDown(c)) + Total(c, tile)
                    BY <5>2, <5>3, TotalOfUnion DEF Progress
                <5> QED
                    BY <3>3, <5>1, <5>2, <5>4
            <4> QED
                BY <4>1, <4>2
        <3>5. Total(c, SeenDown(c))' = Total(c, S)'
            BY <3>1 DEF Total, MapThenSumSet, MapThenFoldSet
        <3> QED
            BY <3>2, <3>4, <3>5
    <2> QED
        BY <2>1, <2>2, <2>3 DEF SumInv
<1>2. CASE UNCHANGED <<job, corner, reducers>>
    <2>1. job' = job /\ Rows' = Rows /\ Columns' = Columns
        BY <1>2, ViewIsKept
    <2>2. \A r, c : Seen(r, c)' <=> Seen(r, c)
        BY <1>2, ViewIsKept DEF corner
    <2>3. sums' = sums
        BY <1>2 DEF reducers
    <2>4. ASSUME NEW c \in Columns PROVE sums'[c] = Total(c, SeenDown(c))'
        <3>1. PICK S : S = SeenDown(c)
            OBVIOUS
        <3>2. SeenDown(c)' = S
            BY <2>1, <2>2, <3>1 DEF SeenDown
        <3>3. Total(c, SeenDown(c))' = Total(c, S)'
            BY <3>2 DEF Total, MapThenSumSet, MapThenFoldSet
        <3>4. Total(c, S)' = Total(c, S)
            BY <2>1, TotalIsKept
        <3> QED
            BY <2>3, <3>1, <3>3, <3>4 DEF SumInv
    <2> QED
        BY <2>1, <2>3, <2>4 DEF SumInv
<1> QED
    BY <1>1, <1>2 DEF Next, Finish, vars

----------------------------------------------------------------------------
(* The ranking. *)

(* To outrank is a strict total order on entries.                          *)
LEMMA OutranksIsOrder ==
    /\ \A a \in Entry : ~Outranks(a, a)
    /\ \A a, b \in Entry : ~(Outranks(a, b) /\ Outranks(b, a))
    /\ \A a, b, c \in Entry : Outranks(a, b) /\ Outranks(b, c) => Outranks(a, c)
    /\ \A a, b \in Entry : a = b \/ Outranks(a, b) \/ Outranks(b, a)
<1>1. \A a \in Entry : a.value \in Int /\ a.index \in Int
    BY DEF Entry
<1>2. \A a, b \in Entry : a.value = b.value /\ a.index = b.index => a = b
    BY DEF Entry
<1>3. \A a, b \in Entry : a = b \/ Outranks(a, b) \/ Outranks(b, a)
    <2> SUFFICES ASSUME NEW a \in Entry, NEW b \in Entry
                 PROVE  a = b \/ Outranks(a, b) \/ Outranks(b, a)
        OBVIOUS
    <2>1. a.value = b.value /\ a.index = b.index => a = b
        BY <1>2
    <2> QED
        BY <1>1, <2>1 DEF Outranks
<1> QED
    BY <1>1, <1>3 DEF Outranks

(* A proper part of a finite set is smaller.                               *)
LEMMA PartIsSmaller ==
    ASSUME NEW B, IsFiniteSet(B), NEW A, A \subseteq B, A # B
    PROVE  Cardinality(A) < Cardinality(B) /\ Cardinality(A) \in Nat
        /\ Cardinality(B) \in Nat
<1>1. IsFiniteSet(A) /\ Cardinality(A) <= Cardinality(B)
          /\ (Cardinality(A) = Cardinality(B) => B = A)
    BY FS_Subset
<1>2. Cardinality(A) \in Nat /\ Cardinality(B) \in Nat
    BY <1>1, FS_CardinalityType
<1> QED
    BY <1>1, <1>2

(* The places of a sequence are ordered by rank, equal entries by place,   *)
(* and of two places the earlier has fewer before it.                      *)
LEMMA BeforeIsOrder ==
    ASSUME NEW n \in Nat, NEW e, DOMAIN e = 1 .. n, \A p \in 1 .. n : e[p] \in Entry
    PROVE  /\ \A p \in 1 .. n : /\ Before(e, p) \subseteq 1 .. n /\ p \notin Before(e, p)
                                /\ IsFiniteSet(Before(e, p))
                                /\ Cardinality(Before(e, p)) \in 0 .. n - 1
           /\ \A p, q \in 1 .. n : p = q \/ p \in Before(e, q) \/ q \in Before(e, p)
           /\ \A p, q \in 1 .. n : p \in Before(e, q) =>
                    Cardinality(Before(e, p)) < Cardinality(Before(e, q))
<1>1. \A p \in 1 .. n : Before(e, p) \subseteq 1 .. n /\ p \notin Before(e, p)
    BY OutranksIsOrder DEF Before
<1>2. IsFiniteSet(1 .. n) /\ Cardinality(1 .. n) = n
    <2>1. 1 \in Int /\ n \in Int
        OBVIOUS
    <2>2. IsFiniteSet(1 .. n) /\ Cardinality(1 .. n) = IF 1 > n THEN 0 ELSE n - 1 + 1
        BY <2>1, FS_Interval
    <2> QED
        BY <2>2
<1>3. ASSUME NEW p \in 1 .. n
      PROVE  IsFiniteSet(Before(e, p)) /\ Cardinality(Before(e, p)) \in 0 .. n - 1
    <2>1. Before(e, p) \subseteq 1 .. n /\ Before(e, p) # 1 .. n
        BY <1>1
    <2>2. IsFiniteSet(Before(e, p))
        BY <1>2, <2>1, FS_Subset
    <2>3. Cardinality(Before(e, p)) < n /\ Cardinality(Before(e, p)) \in Nat
        BY <1>2, <2>1, PartIsSmaller
    <2> QED
        BY <2>2, <2>3
<1>4. ASSUME NEW p \in 1 .. n, NEW q \in 1 .. n
      PROVE  p = q \/ p \in Before(e, q) \/ q \in Before(e, p)
    <2>1. e[p] = e[q] \/ Outranks(e[p], e[q]) \/ Outranks(e[q], e[p])
        BY OutranksIsOrder
    <2>2. p = q \/ p < q \/ q < p
        OBVIOUS
    <2> QED
        BY <2>1, <2>2 DEF Before
<1>5. ASSUME NEW p \in 1 .. n, NEW q \in 1 .. n, p \in Before(e, q)
      PROVE  Cardinality(Before(e, p)) < Cardinality(Before(e, q))
    <2>1. Before(e, p) \subseteq Before(e, q)
        <3>1. ASSUME NEW r \in Before(e, p) PROVE r \in Before(e, q)
            <4>1. r \in 1 .. n /\ e[r] \in Entry /\ e[p] \in Entry /\ e[q] \in Entry
                BY <1>1
            <4>2. Outranks(e[r], e[p]) \/ (e[r] = e[p] /\ r < p)
                BY DEF Before
            <4>3. Outranks(e[p], e[q]) \/ (e[p] = e[q] /\ p < q)
                BY <1>5 DEF Before
            <4>4. Outranks(e[r], e[p]) /\ Outranks(e[p], e[q]) => Outranks(e[r], e[q])
                BY <4>1, OutranksIsOrder
            <4>5. r < p /\ p < q => r < q
                BY <4>1
            <4>6. Outranks(e[r], e[q]) \/ (e[r] = e[q] /\ r < q)
                BY <4>2, <4>3, <4>4, <4>5
            <4> QED
                BY <4>1, <4>6 DEF Before
        <3> QED
            BY <3>1
    <2>2. Before(e, p) # Before(e, q)
        BY <1>1, <1>5
    <2> QED
        BY <1>3, <2>1, <2>2, PartIsSmaller
<1> QED
    BY <1>1, <1>3, <1>4, <1>5

(* So every number below the length is the rank of a place.                *)
LEMMA RanksAreAll ==
    ASSUME NEW n \in Nat, NEW e, DOMAIN e = 1 .. n, \A p \in 1 .. n : e[p] \in Entry
    PROVE  \A i \in 0 .. n - 1 : \E p \in 1 .. n : Cardinality(Before(e, p)) = i
<1> DEFINE f == [p \in 1 .. n |-> Cardinality(Before(e, p))]
           S == {f[p] : p \in 1 .. n}
<1>0. IsFiniteSet(1 .. n) /\ Cardinality(1 .. n) = n /\ IsFiniteSet(0 .. n - 1)
          /\ Cardinality(0 .. n - 1) = n
    <2>1. 0 \in Int /\ 1 \in Int /\ n \in Int /\ n - 1 \in Int
        OBVIOUS
    <2>2. IsFiniteSet(1 .. n) /\ Cardinality(1 .. n) = IF 1 > n THEN 0 ELSE n - 1 + 1
        BY <2>1, FS_Interval
    <2>3. IsFiniteSet(0 .. n - 1) /\ Cardinality(0 .. n - 1) = IF 0 > n - 1 THEN 0 ELSE n - 1 - 0 + 1
        BY <2>1, FS_Interval
    <2> QED
        BY <2>2, <2>3
<1>1. \A p \in 1 .. n : f[p] \in 0 .. n - 1
    BY BeforeIsOrder
<1>2. \A p, q \in 1 .. n : f[p] = f[q] => p = q
    <2>1. ASSUME NEW p \in 1 .. n, NEW q \in 1 .. n, f[p] = f[q], p # q PROVE FALSE
        <3>1. p \in Before(e, q) \/ q \in Before(e, p)
            BY <2>1, BeforeIsOrder
        <3>2. f[p] < f[q] \/ f[q] < f[p]
            BY <3>1, BeforeIsOrder
        <3> QED
            BY <1>1, <2>1, <3>2
    <2> QED
        BY <2>1
<1>3. DOMAIN f = 1 .. n
    OBVIOUS
<1> HIDE DEF f
<1>4. f \in Bijection(1 .. n, S)
    <2>1. f \in [1 .. n -> S]
        <3>1. f = [p \in 1 .. n |-> f[p]]
            BY DEF f
        <3> QED
            BY <3>1
    <2> QED
        BY <1>2, <2>1 DEF Bijection, Injection, Surjection, IsInjective
<1>5. Cardinality(S) = n
    BY <1>0, <1>4, FS_Bijection DEF ExistsBijection
<1>6. S = 0 .. n - 1
    <2>1. S \subseteq 0 .. n - 1
        BY <1>1
    <2> QED
        BY <1>0, <1>5, <2>1, FS_Subset
<1>7. ASSUME NEW i \in 0 .. n - 1 PROVE \E p \in 1 .. n : Cardinality(Before(e, p)) = i
    <2>1. PICK p \in 1 .. n : f[p] = i
        BY <1>6
    <2> QED
        BY <2>1 DEF f
<1> QED
    BY <1>7

(* The k first entries are those at the places of the first k ranks.       *)
LEMMA TopKPlaces ==
    ASSUME NEW e \in Seq(Entry), NEW k \in Nat
    PROVE  LET n == Len(e)
               m == Least(k, n)
               t == TopK(e, k)
           IN  /\ t \in Seq(Entry) /\ Len(t) = m /\ m \in Nat /\ m <= n /\ m <= k
               /\ \E at \in [1 .. m -> 1 .. n] : \A i \in 1 .. m :
                     t[i] = e[at[i]] /\ Cardinality(Before(e, at[i])) = i - 1
<1> DEFINE n == Len(e)
           m == Least(k, n)
           t == TopK(e, k)
           at == [i \in 1 .. m |-> CHOOSE p \in DOMAIN e : Cardinality(Before(e, p)) = i - 1]
<1>1. n \in Nat /\ DOMAIN e = 1 .. n /\ \A p \in 1 .. n : e[p] \in Entry
    OBVIOUS
<1>2. m \in Nat /\ m <= n /\ m <= k
    BY <1>1 DEF Least
<1>3. t = [i \in 1 .. m |-> e[CHOOSE p \in DOMAIN e : Cardinality(Before(e, p)) = i - 1]]
    BY DEF TopK
<1> HIDE DEF n, m, t
<1>4. ASSUME NEW i \in 1 .. m
      PROVE  at[i] \in 1 .. n /\ Cardinality(Before(e, at[i])) = i - 1 /\ t[i] = e[at[i]]
    <2>1. i - 1 \in 0 .. n - 1
        BY <1>1, <1>2
    <2>2. \E p \in DOMAIN e : Cardinality(Before(e, p)) = i - 1
        BY <1>1, <2>1, RanksAreAll, SMTT(30)
    <2>3. at[i] \in DOMAIN e /\ Cardinality(Before(e, at[i])) = i - 1
        BY <2>2
    <2> QED
        BY <1>1, <1>3, <2>3
<1>5. at \in [1 .. m -> 1 .. n]
    BY <1>4
<1>6. DOMAIN t = 1 .. m /\ \A i \in 1 .. m : t[i] \in Entry
    BY <1>1, <1>3, <1>4
<1>7. t \in Seq(Entry) /\ Len(t) = m
    <2>1. t = [i \in 1 .. m |-> t[i]]
        BY <1>3
    <2> QED
        BY <1>2, <1>6, <2>1
<1> QED
    BY <1>2, <1>4, <1>5, <1>7 DEF n, m, t

(* What the k first of n entries are: in order, none of them left out for  *)
(* another, and behind whatever k or more of the entries outrank.          *)
IsTop(t, e, k, n, m) ==
    /\ t \in Seq(Entry) /\ Len(t) = m /\ m \in Nat /\ m <= k
    /\ \E at \in [1 .. m -> 1 .. n] :
          /\ \A i \in 1 .. m : t[i] = e[at[i]]
          /\ \A i, j \in 1 .. m : i < j => at[i] # at[j]
              /\ (Outranks(t[i], t[j]) \/ t[i] = t[j])
    /\ \A q \in 1 .. n : \/ \E i \in 1 .. m : t[i] = e[q]
                         \/ m = k /\ \A i \in 1 .. m : Outranks(t[i], e[q])
    /\ \A Q \in SUBSET (1 .. n), x \in Entry :
          Cardinality(Q) >= k /\ (\A q \in Q : Outranks(e[q], x))
             => \A i \in 1 .. m : Outranks(t[i], x)

(* These are the first k.                                                  *)
LEMMA TopKIsBest ==
    ASSUME NEW e \in Seq(Entry), NEW k \in Nat
    PROVE  IsTop(TopK(e, k), e, k, Len(e), Least(k, Len(e)))
<1>0. PICK t, m : t = TopK(e, k) /\ m = Least(k, Len(e))
    OBVIOUS
<1>1. PICK n \in Nat : n = Len(e) /\ DOMAIN e = 1 .. n /\ \A p \in 1 .. n : e[p] \in Entry
    OBVIOUS
<1>2. t \in Seq(Entry) /\ Len(t) = m /\ m \in Nat /\ m <= n /\ m <= k
    BY <1>0, <1>1, TopKPlaces
<1>3. PICK at \in [1 .. m -> 1 .. n] : \A i \in 1 .. m :
         t[i] = e[at[i]] /\ Cardinality(Before(e, at[i])) = i - 1
    <2>1. \E at \in [1 .. Least(k, Len(e)) -> 1 .. Len(e)] :
              \A i \in 1 .. Least(k, Len(e)) :
             TopK(e, k)[i] = e[at[i]] /\ Cardinality(Before(e, at[i])) = i - 1
        BY TopKPlaces
    <2> QED
        BY <1>0, <1>1, <2>1
<1>4. \A p \in 1 .. n : /\ Before(e, p) \subseteq 1 .. n /\ p \notin Before(e, p)
                        /\ IsFiniteSet(Before(e, p))
                        /\ Cardinality(Before(e, p)) \in 0 .. n - 1
    BY <1>1, BeforeIsOrder
<1>5. \A p, q \in 1 .. n : p = q \/ p \in Before(e, q) \/ q \in Before(e, p)
    BY <1>1, BeforeIsOrder
<1>6. \A p, q \in 1 .. n : p \in Before(e, q)
          => Cardinality(Before(e, p)) < Cardinality(Before(e, q))
    BY <1>1, BeforeIsOrder
<1>7. \A p, q \in 1 .. n : p \in Before(e, q) => Outranks(e[p], e[q]) \/ e[p] = e[q]
    BY DEF Before
<1>8. \A p, q \in 1 .. n : Cardinality(Before(e, p)) < Cardinality(Before(e, q))
          => p \in Before(e, q)
    <2>1. ASSUME NEW p \in 1 .. n, NEW q \in 1 .. n,
                 Cardinality(Before(e, p)) < Cardinality(Before(e, q)), p \notin Before(e, q)
          PROVE  FALSE
        <3>1. p = q \/ q \in Before(e, p)
            BY <1>5, <2>1
        <3>2. Cardinality(Before(e, p)) \in Int /\ Cardinality(Before(e, q)) \in Int
            BY <1>4
        <3>3. q \in Before(e, p) => Cardinality(Before(e, q)) < Cardinality(Before(e, p))
            BY <1>6
        <3> QED
            BY <2>1, <3>1, <3>2, <3>3
    <2> QED
        BY <2>1
<1>9. \A i \in 1 .. m : at[i] \in 1 .. n
    BY <1>3
<1>10. \A i, j \in 1 .. m : i < j => at[i] # at[j] /\ (Outranks(t[i], t[j]) \/ t[i] = t[j])
    <2>1. ASSUME NEW i \in 1 .. m, NEW j \in 1 .. m, i < j
          PROVE  at[i] # at[j] /\ (Outranks(t[i], t[j]) \/ t[i] = t[j])
        <3>1. i - 1 < j - 1
            BY <1>2, <2>1
        <3>2. at[i] \in Before(e, at[j])
            BY <1>3, <1>8, <1>9, <3>1
        <3> QED
            BY <1>3, <1>4, <1>7, <1>9, <3>2
    <2> QED
        BY <2>1
<1>11. ASSUME NEW q \in 1 .. n
       PROVE  \/ \E i \in 1 .. m : t[i] = e[q]
              \/ m = k /\ \A i \in 1 .. m : Outranks(t[i], e[q])
    <2>1. PICK rank \in 0 .. n - 1 : rank = Cardinality(Before(e, q))
        BY <1>4
    <2>2. CASE rank < m
        <3>1. PICK i \in 1 .. m : i - 1 = rank
            <4>1. rank + 1 \in 1 .. m /\ (rank + 1) - 1 = rank
                BY <1>2, <2>2
            <4> QED
                BY <4>1
        <3>2. Cardinality(Before(e, at[i])) = rank /\ at[i] \in 1 .. n
            BY <1>3, <1>9, <3>1
        <3>3. at[i] = q
            <4>1. at[i] \in Before(e, q) => rank < rank
                BY <1>6, <2>1, <3>2
            <4>2. q \in Before(e, at[i]) => rank < rank
                BY <1>6, <2>1, <3>2
            <4> QED
                BY <1>5, <3>2, <4>1, <4>2
        <3> QED
            BY <1>3, <3>3
    <2>3. CASE ~(rank < m)
        <3>1. m = k
            BY <1>0, <1>1, <1>2, <2>3 DEF Least
        <3>2. \A i \in 1 .. m : at[i] \in Before(e, q)
            <4>1. \A i \in 1 .. m : i - 1 < rank
                BY <1>2, <2>3
            <4> QED
                BY <1>3, <1>8, <1>9, <2>1, <4>1
        <3>3. \A i \in 1 .. m : Outranks(t[i], e[q]) \/ t[i] = e[q]
            BY <1>3, <1>7, <1>9, <3>2
        <3> QED
            BY <3>1, <3>3
    <2> QED
        BY <2>2, <2>3
<1>12. ASSUME NEW Q \in SUBSET (1 .. n), NEW x \in Entry, Cardinality(Q) >= k,
              \A q \in Q : Outranks(e[q], x), NEW i \in 1 .. m
       PROVE  Outranks(t[i], x)
    <2>1. CASE at[i] \in Q
        BY <1>3, <1>12, <2>1
    <2>2. CASE at[i] \notin Q
        <3>1. ~(Q \subseteq Before(e, at[i]))
            <4>1. ASSUME Q \subseteq Before(e, at[i]) PROVE FALSE
                <5>1. IsFiniteSet(Before(e, at[i])) /\ Cardinality(Before(e, at[i])) = i - 1
                    BY <1>3, <1>4, <1>9
                <5>2. Cardinality(Q) <= i - 1 /\ IsFiniteSet(Q)
                    BY <4>1, <5>1, FS_Subset
                <5>3. Cardinality(Q) \in Nat
                    BY <5>2, FS_CardinalityType
                <5> QED
                    BY <1>2, <1>12, <5>2, <5>3
            <4> QED
                BY <4>1
        <3>2. PICK q \in Q : q \notin Before(e, at[i])
            BY <3>1
        <3>3. at[i] \in Before(e, q)
            BY <1>5, <1>9, <2>2, <3>2
        <3>4. Outranks(t[i], e[q]) \/ t[i] = e[q]
            BY <1>3, <1>7, <1>9, <3>3
        <3>5. t[i] \in Entry /\ e[q] \in Entry
            BY <1>1, <1>3, <1>9
        <3> QED
            BY <1>12, <3>4, <3>5, OutranksIsOrder
    <2> QED
        BY <2>1, <2>2
<1>13. \E from \in [1 .. m -> 1 .. n] :
          /\ \A i \in 1 .. m : t[i] = e[from[i]]
          /\ \A i, j \in 1 .. m : i < j => from[i] # from[j]
              /\ (Outranks(t[i], t[j]) \/ t[i] = t[j])
    BY <1>3, <1>10
<1>14. IsTop(t, e, k, n, m)
    BY <1>2, <1>11, <1>12, <1>13 DEF IsTop
<1> QED
    BY <1>0, <1>1, <1>14

(* A ranking of a set: sentinels after its entries, which are in order; an *)
(* entry left out is outranked by all.                                     *)
Ranking(s, k, M) ==
    /\ s \in Seq(Entry) /\ Len(s) = k
    /\ \A i \in 1 .. k : s[i] = Sentinel \/ s[i] \in M
    /\ \A i, j \in 1 .. k : i < j /\ s[j] # Sentinel => Outranks(s[i], s[j])
    /\ \A x \in M : \/ \E i \in 1 .. k : s[i] = x
                    \/ \A i \in 1 .. k : Outranks(s[i], x)

(* The entries of a column's matches have a correlation and a row.         *)
Matches(M) == \A x \in M : x \in Entry /\ x.value > InvalidValue /\ x.index >= 0

(* Every match outranks the sentinel, and the sentinel every invalid       *)
(* cell.                                                                   *)
LEMMA SentinelIsLast ==
    ASSUME NEW M, Matches(M)
    PROVE  /\ Sentinel \in Entry /\ Sentinel \notin M
           /\ \A x \in M : x \in Entry /\ Outranks(x, Sentinel) /\ ~Outranks(Sentinel, x)
           /\ \A v \in Entry : v.value = InvalidValue /\ v.index >= 0 =>
                 Outranks(Sentinel, v) /\ \A x \in M : Outranks(x, v)
<1>1. InvalidValue \in Int
    BY ValuesAreOrdered
<1>2. \A x \in M : x \in Entry /\ x.value \in Int /\ x.index \in Int
          /\ x.value > InvalidValue
    BY DEF Matches, Entry
<1>3. Sentinel \in Entry /\ Sentinel.value = InvalidValue /\ Sentinel.index = -1
    BY <1>1 DEF Sentinel, Entry
<1>4. \A v \in Entry : v.index \in Int
    BY DEF Entry
<1>5. \A x \in M : Outranks(x, Sentinel) /\ ~Outranks(Sentinel, x)
    BY <1>1, <1>2, <1>3 DEF Outranks
<1>6. Sentinel \notin M
    BY <1>1, <1>2, <1>3
<1>7. ASSUME NEW v \in Entry, v.value = InvalidValue, v.index >= 0
      PROVE  Outranks(Sentinel, v) /\ \A x \in M : Outranks(x, v)
    BY <1>1, <1>2, <1>3, <1>4, <1>7 DEF Outranks
<1> QED
    BY <1>2, <1>3, <1>5, <1>6, <1>7

(* The length of two sequences put together.                               *)
LEMMA LengthOfBoth ==
    ASSUME NEW S, NEW a \in Seq(S), NEW b \in Seq(S)
    PROVE  a \o b \in Seq(S) /\ Len(a \o b) = Len(a) + Len(b)
OBVIOUS

(* A ranking merged with the first of a tile below all it has seen ranks   *)
(* both.                                                                   *)
LEMMA MergeRanks ==
    ASSUME NEW k \in Nat, NEW M, Matches(M), NEW s, Ranking(s, k, M),
           NEW start \in Nat, \A x \in M : x.index < start,
           NEW tile \in Seq(Entry),
           \A i \in 1 .. Len(tile) : /\ tile[i].index = start + i - 1
                                     /\ tile[i].value >= InvalidValue,
           NEW N, N = {x \in {tile[i] : i \in 1 .. Len(tile)} : x.value # InvalidValue}
    PROVE  Ranking(Merged(s, TopK(tile, k)), k, M \cup N) /\ Matches(M \cup N)
<1>1. PICK h \in Nat : h = Len(tile) /\ \A i \in 1 .. h : tile[i] \in Entry
    OBVIOUS
<1>0. IsTop(TopK(tile, k), tile, k, h, Least(k, h))
    BY <1>1, TopKIsBest
<1>2. PICK l \in Nat, w \in Seq(Entry) :
         w = TopK(tile, k) /\ l = Least(k, h) /\ Len(w) = l /\ l <= k
             /\ IsTop(w, tile, k, h, l)
    BY <1>0 DEF IsTop
<1>3. PICK from \in [1 .. l -> 1 .. h] :
         /\ \A i \in 1 .. l : w[i] = tile[from[i]]
         /\ \A i, j \in 1 .. l : i < j => from[i] # from[j]
    BY <1>2, ZenonT(60) DEF IsTop
<1>4. \A p \in 1 .. h : \/ \E i \in 1 .. l : w[i] = tile[p]
                        \/ l = k /\ \A i \in 1 .. l : Outranks(w[i], tile[p])
    BY <1>2 DEF IsTop
<1>5. s \in Seq(Entry) /\ Len(s) = k /\ \A i \in 1 .. k : s[i] \in Entry
    BY DEF Ranking
<1>6. InvalidValue \in Int
    BY ValuesAreOrdered
<1>7. \A i \in 1 .. h : /\ tile[i].value \in Int /\ tile[i].index \in Int
                        /\ tile[i].index >= start
                        /\ tile[i].index = start + i - 1 /\ tile[i].value >= InvalidValue
    BY <1>1 DEF Entry
<1>8. Matches(M \cup N)
    <2>1. ASSUME NEW x \in N PROVE x \in Entry /\ x.value > InvalidValue /\ x.index >= 0
        <3>1. PICK i \in 1 .. h : x = tile[i] /\ x.value # InvalidValue
            BY <1>1
        <3>2. x.value \in Int /\ x.value >= InvalidValue /\ x.index \in Int
                  /\ x.index >= start
            BY <1>7, <3>1
        <3>3. x.value > InvalidValue
            BY <1>6, <3>1, <3>2, SMTT(30)
        <3>4. x.index >= 0
            BY <3>2, SMTT(30)
        <3> QED
            BY <1>1, <3>1, <3>3, <3>4
    <2> QED
        BY <2>1 DEF Matches
<1> DEFINE L == s \o w
<1>9. /\ L \in Seq(Entry) /\ Len(L) = k + l
      /\ \A i \in 1 .. k : L[i] = s[i]
      /\ \A i \in 1 .. l : L[k + i] = w[i]
    <2>1. L \in Seq(Entry) /\ Len(L) = k + l
        <3>1. L \in Seq(Entry) /\ Len(L) = Len(s) + Len(w)
            BY <1>5, LengthOfBoth
        <3> QED
            BY <1>2, <1>5, <3>1
    <2>2. \A i \in 1 .. k : L[i] = s[i]
        BY <1>2, <1>5
    <2>3. ASSUME NEW i \in 1 .. l PROVE L[k + i] = w[i]
        <3>1. k + i \in 1 .. k + l /\ ~(k + i <= k) /\ (k + i) - k = i
            BY <1>2
        <3> QED
            BY <1>2, <1>5, <3>1
    <2> QED
        BY <2>1, <2>2, <2>3
<1> HIDE DEF L
<1>10. \A q \in 1 .. k + l : \/ q \in 1 .. k /\ L[q] = s[q]
                             \/ \E i \in 1 .. l : q = k + i /\ L[q] = w[i]
                                 /\ w[i] = tile[from[i]]
    <2>1. ASSUME NEW q \in 1 .. k + l, q \notin 1 .. k
          PROVE  \E i \in 1 .. l : q = k + i /\ L[q] = w[i] /\ w[i] = tile[from[i]]
        <3>1. q - k \in 1 .. l /\ q = k + (q - k)
            BY <2>1
        <3> QED
            BY <1>3, <1>9, <3>1
    <2> QED
        BY <1>9, <2>1
<1>11. Least(k, k + l) = k
    BY DEF Least
<1>12. PICK t \in Seq(Entry) : t = Merged(s, w) /\ Len(t) = k /\ IsTop(t, L, k, k + l, k)
    <2>1. Merged(s, w) = TopK(L, k)
        BY <1>5 DEF Merged, L
    <2>2. IsTop(TopK(L, k), L, k, k + l, k)
        BY <1>9, <1>11, TopKIsBest
    <2> QED
        BY <2>1, <2>2 DEF IsTop
<1>13. PICK at \in [1 .. k -> 1 .. k + l] :
          /\ \A i \in 1 .. k : t[i] = L[at[i]]
          /\ \A i, j \in 1 .. k : i < j => at[i] # at[j]
              /\ (Outranks(t[i], t[j]) \/ t[i] = t[j])
    BY <1>12 DEF IsTop
<1>14. \A q \in 1 .. k + l : \/ \E i \in 1 .. k : t[i] = L[q]
                             \/ \A i \in 1 .. k : Outranks(t[i], L[q])
    BY <1>12 DEF IsTop
<1>15. \A Q \in SUBSET (1 .. k + l), x \in Entry :
          Cardinality(Q) >= k /\ (\A q \in Q : Outranks(L[q], x)) => \A i \in 1 .. k :
              Outranks(t[i], x)
    BY <1>12 DEF IsTop
<1>16. /\ 1 .. k \in SUBSET (1 .. k + l) /\ Cardinality(1 .. k) = k
       /\ k + 1 .. k + l \in SUBSET (1 .. k + l) /\ Cardinality(k + 1 .. k + l) = l
    <2>1. 1 \in Int /\ k \in Int /\ k + 1 \in Int /\ k + l \in Int
        OBVIOUS
    <2>2. Cardinality(1 .. k) = IF 1 > k THEN 0 ELSE k - 1 + 1
        BY <2>1, FS_Interval
    <2>3. Cardinality(k + 1 .. k + l) = IF k + 1 > k + l THEN 0 ELSE (k + l) - (k + 1) + 1
        BY <2>1, FS_Interval
    <2> QED
        BY <2>2, <2>3
<1>17. \A x \in Entry : (\A i \in 1 .. k : Outranks(s[i], x))
           => \A i \in 1 .. k : Outranks(t[i], x)
    <2>1. ASSUME NEW x \in Entry, \A i \in 1 .. k : Outranks(s[i], x)
          PROVE  \A i \in 1 .. k : Outranks(t[i], x)
        <3>1. \A q \in 1 .. k : Outranks(L[q], x)
            BY <1>9, <2>1
        <3>2. Cardinality(1 .. k) >= k
            BY <1>16
        <3> QED
            BY <1>15, <1>16, <3>1, <3>2
    <2> QED
        BY <2>1
<1>18. ASSUME NEW i \in 1 .. k PROVE t[i] = Sentinel \/ t[i] \in M \cup N
    <2>1. at[i] \in 1 .. k + l /\ t[i] = L[at[i]]
        BY <1>13
    <2>2. CASE at[i] \in 1 .. k /\ L[at[i]] = s[at[i]]
        BY <2>1, <2>2 DEF Ranking
    <2>3. CASE \E j \in 1 .. l : at[i] = k + j /\ L[at[i]] = w[j] /\ w[j] = tile[from[j]]
        <3>1. PICK j \in 1 .. l : L[at[i]] = tile[from[j]]
            BY <2>3
        <3>2. PICK p \in 1 .. h : t[i] = tile[p]
            BY <1>3, <2>1, <3>1
        <3>3. CASE tile[p].value # InvalidValue
            BY <1>1, <3>2, <3>3
        <3>4. CASE tile[p].value = InvalidValue
            <4>1. tile[p] \in Entry /\ tile[p].index >= 0
                BY <1>1, <1>7
            <4>2. \A j2 \in 1 .. k : Outranks(s[j2], tile[p])
                BY <3>4, <4>1, SentinelIsLast, SMTT(30) DEF Ranking
            <4>3. Outranks(t[i], tile[p])
                BY <1>17, <4>1, <4>2
            <4> QED
                BY <3>2, <4>1, <4>3, OutranksIsOrder
        <3> QED
            BY <3>3, <3>4
    <2> QED
        BY <1>10, <2>1, <2>2, <2>3
<1>19. ASSUME NEW p \in 1 .. k + l, NEW q \in 1 .. k + l, p < q, L[p] = L[q]
       PROVE  L[q] = Sentinel
    <2>1. \A i \in 1 .. k : s[i] = Sentinel \/ (s[i] \in M /\ s[i].index < start)
        BY DEF Ranking
    <2>2. Sentinel.index < start
        BY DEF Sentinel
    <2>3. \A i \in 1 .. k : s[i].index < start
        BY <2>1, <2>2
    <2>4. CASE p \in 1 .. k /\ q \in 1 .. k
        <3>1. L[p] = s[p] /\ L[q] = s[q] /\ s[p] \in Entry
            BY <1>5, <1>9, <2>4
        <3>2. ~Outranks(s[p], s[q])
            BY <1>19, <3>1, OutranksIsOrder
        <3> QED
            BY <1>19, <2>4, <3>1, <3>2 DEF Ranking
    <2>5. CASE p \in 1 .. k /\ q \notin 1 .. k
        <3>1. PICK j \in 1 .. l : L[q] = tile[from[j]]
            BY <1>10, <2>5
        <3>2. from[j] \in 1 .. h
            BY <1>3
        <3>3. L[q].index >= start
            BY <1>7, <3>1, <3>2
        <3>4. L[p].index < start
            BY <1>9, <2>3, <2>5
        <3>5. L[q].index \in Int
            BY <1>7, <3>1, <3>2
        <3> QED
            BY <1>19, <3>3, <3>4, <3>5, SMTT(30)
    <2>6. CASE p \notin 1 .. k
        <3>1. q \notin 1 .. k
            BY <1>19, <2>6
        <3>2. PICK i \in 1 .. l : p = k + i /\ L[p] = w[i] /\ w[i] = tile[from[i]]
            BY <1>10, <2>6
        <3>3. PICK j \in 1 .. l : q = k + j /\ L[q] = w[j] /\ w[j] = tile[from[j]]
            BY <1>10, <3>1
        <3>4. i < j
            BY <1>19, <3>2, <3>3
        <3>5. from[i] \in 1 .. h /\ from[j] \in 1 .. h /\ from[i] # from[j]
            BY <1>3, <3>4
        <3>6. PICK a \in 1 .. h, b \in 1 .. h : a = from[i] /\ b = from[j] /\ a # b
            BY <3>5
        <3>7. tile[a].index = start + a - 1 /\ tile[b].index = start + b - 1
            BY <1>7
        <3>8. start + a - 1 = start + b - 1
            BY <1>19, <3>2, <3>3, <3>6, <3>7
        <3>9. a = b
            BY <3>8
        <3> QED
            BY <3>6, <3>9
    <2> QED
        BY <2>4, <2>5, <2>6
<1>20. ASSUME NEW i \in 1 .. k, NEW j \in 1 .. k, i < j, t[j] # Sentinel
       PROVE  Outranks(t[i], t[j])
    <2>1. /\ at[i] \in 1 .. k + l /\ at[j] \in 1 .. k + l /\ at[i] # at[j]
          /\ t[i] = L[at[i]] /\ t[j] = L[at[j]] /\ (Outranks(t[i], t[j]) \/ t[i] = t[j])
        BY <1>13, <1>20
    <2>2. at[i] < at[j] \/ at[j] < at[i]
        BY <2>1
    <2>3. t[i] # t[j]
        BY <1>19, <1>20, <2>1, <2>2
    <2> QED
        BY <2>1, <2>3
<1>21. ASSUME NEW x \in M \cup N
       PROVE  \/ \E i \in 1 .. k : t[i] = x
              \/ \A i \in 1 .. k : Outranks(t[i], x)
    <2>1. x \in Entry
        BY <1>8 DEF Matches
    <2>2. CASE x \in M
        <3>1. CASE \E i \in 1 .. k : s[i] = x
            <4>1. PICK i \in 1 .. k : s[i] = x
                BY <3>1
            <4>2. i \in 1 .. k + l /\ L[i] = x
                BY <1>9, <4>1
            <4> QED
                BY <1>14, <4>2
        <3>2. CASE \A i \in 1 .. k : Outranks(s[i], x)
            BY <1>17, <2>1, <3>2
        <3> QED
            BY <2>2, <3>1, <3>2 DEF Ranking
    <2>3. CASE x \in N
        <3>1. PICK p \in 1 .. h : x = tile[p]
            BY <1>1, <2>3
        <3>2. CASE \E i \in 1 .. l : w[i] = tile[p]
            <4>1. PICK i \in 1 .. l : w[i] = tile[p]
                BY <3>2
            <4>2. k + i \in 1 .. k + l /\ L[k + i] = x
                BY <1>9, <3>1, <4>1
            <4> QED
                BY <1>14, <4>2
        <3>3. CASE l = k /\ \A i \in 1 .. l : Outranks(w[i], tile[p])
            <4>1. \A q \in k + 1 .. k + l : Outranks(L[q], x)
                <5>1. ASSUME NEW q \in k + 1 .. k + l PROVE Outranks(L[q], x)
                    <6>1. q - k \in 1 .. l /\ q = k + (q - k)
                        OBVIOUS
                    <6>2. L[q] = w[q - k]
                        BY <1>9, <6>1
                    <6> QED
                        BY <3>1, <3>3, <6>1, <6>2
                <5> QED
                    BY <5>1
            <4>2. Cardinality(k + 1 .. k + l) >= k
                BY <1>16, <3>3
            <4> QED
                BY <1>15, <1>16, <2>1, <4>1, <4>2
        <3> QED
            BY <1>4, <3>2, <3>3
    <2> QED
        BY <2>2, <2>3
<1>22. Ranking(t, k, M \cup N)
    BY <1>12, <1>18, <1>20, <1>21 DEF Ranking
<1> QED
    BY <1>2, <1>8, <1>12, <1>22

SeenMatches(c) == Valued(Down(c), SeenDown(c))

NearestInv ==
    /\ nearest = [c \in Columns |-> nearest[c]]
    /\ \A c \in Columns : Ranking(nearest[c], job.k, SeenMatches(c))

(* The valid cells a column has seen, as entries.                          *)
LEMMA SeenAreMatches ==
    ASSUME Progress, NEW c \in Columns
    PROVE  /\ \A x \in SeenMatches(c) : \E r \in SeenDown(c) :
                 x = [value |-> Cell(r, c), index |-> r] /\ Cell(r, c) # InvalidValue
           /\ \A r \in SeenDown(c) : Cell(r, c) # InvalidValue =>
                 [value |-> Cell(r, c), index |-> r] \in SeenMatches(c)
           /\ Matches(SeenMatches(c))
<1>1. SeenDown(c) \subseteq Rows /\ Rows \subseteq Nat
    <2>1. job.rows \in Nat
        BY JobsAssumption DEF Progress
    <2> QED
        BY <2>1 DEF SeenDown, Rows, Positions
<1>2. \A r \in SeenDown(c) : Down(c)[r] = Cell(r, c)
    BY <1>1 DEF Down
<1>3. \A x \in SeenMatches(c) : \E r \in SeenDown(c) :
         x = [value |-> Cell(r, c), index |-> r] /\ Cell(r, c) # InvalidValue
    BY <1>2 DEF SeenMatches, Valued, Invalid
<1>4. \A r \in SeenDown(c) : Cell(r, c) # InvalidValue =>
         [value |-> Cell(r, c), index |-> r] \in SeenMatches(c)
    BY <1>2 DEF SeenMatches, Valued, Invalid
<1>5. ASSUME NEW x \in SeenMatches(c)
      PROVE  x \in Entry /\ x.value > InvalidValue /\ x.index >= 0
    <2>1. PICK r \in SeenDown(c) : x = [value |-> Cell(r, c), index |-> r]
              /\ Cell(r, c) # InvalidValue
        BY <1>3
    <2>2. r \in Rows /\ r \in Nat
        BY <1>1
    <2>3. Cellwise(Cell(r, c))
        BY <2>2, CellsAreCellwise DEF Progress
    <2>4. Cell(r, c) \in Int /\ InvalidValue <= Cell(r, c) /\ InvalidValue \in Int
        BY <2>3, ValuesAreOrdered DEF Cellwise
    <2>5. Cell(r, c) > InvalidValue
        BY <2>1, <2>4
    <2> QED
        BY <2>1, <2>2, <2>4, <2>5 DEF Entry
<1> QED
    BY <1>3, <1>4, <1>5 DEF Matches

(* Sentinels rank nothing.                                                 *)
LEMMA InitNearest == Init => NearestInv
<1> SUFFICES ASSUME Init PROVE NearestInv
    OBVIOUS
<1>1. \A c \in Columns : SeenMatches(c) = {}
    BY NothingIsSeen DEF SeenMatches, SeenDown, Valued
<1>2. job.k \in Nat
    BY JobsAssumption DEF Init
<1>3. Sentinel \in Entry
    BY ValuesAreOrdered DEF Sentinel, Entry
<1>4. Unranked \in Seq(Entry) /\ Len(Unranked) = job.k /\ \A i \in 1 .. job.k :
          Unranked[i] = Sentinel
    BY <1>2, <1>3 DEF Unranked
<1>5. Ranking(Unranked, job.k, {})
    BY <1>4 DEF Ranking
<1>6. nearest = [c \in Columns |-> Unranked]
    BY DEF Init
<1> QED
    BY <1>1, <1>5, <1>6 DEF NearestInv

(* A column's nearest after a tile.                                        *)
LEMMA ColumnIsRanked ==
    ASSUME Progress, NearestInv, Reduce, NEW c \in Columns
    PROVE  Ranking(nearest'[c], job.k, SeenMatches(c)')
<1>1. /\ job.rows \in Nat \ {0} /\ job.columns \in Nat \ {0}
      /\ row_start \in Nat /\ col_start \in Nat
      /\ row_end \in Nat /\ row_start < row_end /\ row_end <= job.rows
      /\ col_end \in Nat /\ col_start < col_end /\ col_end <= job.columns
    BY CornerIsInside DEF Reduce
<1>2. job' = job /\ Rows' = Rows /\ Columns' = Columns /\ \A r : Cell(r, c)' = Cell(r, c)
    BY ViewIsKept DEF Reduce
<1>3. SeenMatches(c)' = Valued(Down(c), SeenDown(c)')
    <2>1. Down(c)' = Down(c)
        BY <1>2 DEF Down
    <2> QED
        BY <2>1 DEF SeenMatches, Valued, Invalid, InvalidValue
<1>4. Ranking(nearest[c], job.k, SeenMatches(c))
    BY DEF NearestInv
<1>5. CASE ~(col_start <= c /\ c < col_end)
    <2>1. nearest'[c] = nearest[c]
        BY <1>5 DEF Reduce, ReduceNearest
    <2>2. SeenDown(c)' = SeenDown(c)
        BY <1>5, ColumnOfTile
    <2> QED
        BY <1>3, <1>4, <2>1, <2>2 DEF SeenMatches
<1>6. CASE col_start <= c /\ c < col_end
    <2> DEFINE rows == Positions(row_start, row_end)
               h == row_end - row_start
               tile == [i \in 1 .. h |-> [value |-> Cell(row_start + i - 1, c), index |-> row_start + i - 1]]
               N == {x \in {tile[i] : i \in 1 .. Len(tile)} : x.value # InvalidValue}
    <2>1. SeenDown(c)' = SeenDown(c) \cup rows /\ SeenDown(c) = Positions(0, row_start)
              /\ rows \in SUBSET Rows
        BY <1>6, ColumnOfTile
    <2>2. h \in Nat /\ \A i \in 1 .. h : row_start + i - 1 \in rows
        BY <1>1 DEF Positions
    <2>3. ASSUME NEW i \in 1 .. h
          PROVE  /\ tile[i] = [value |-> Cell(row_start + i - 1, c), index |-> row_start + i - 1]
                 /\ tile[i] \in Entry /\ tile[i].value >= InvalidValue
        <3>1. PICK r \in rows : r = row_start + i - 1
            BY <2>2
        <3>2. r \in Int
            BY <1>1 DEF Positions
        <3>3. Cellwise(Cell(r, c))
            BY <2>1, CellsAreCellwise DEF Progress
        <3>4. Cell(r, c) \in Int /\ InvalidValue <= Cell(r, c) /\ InvalidValue \in Int
            BY <3>3, ValuesAreOrdered DEF Cellwise
        <3>5. tile[i] = [value |-> Cell(r, c), index |-> r]
            BY <3>1
        <3> HIDE DEF tile
        <3> QED
            BY <3>1, <3>2, <3>4, <3>5 DEF Entry
    <2>4. tile \in Seq(Entry) /\ Len(tile) = h
        BY <2>2, <2>3
    <2>5. nearest'[c] = Merged(nearest[c], TopK(tile, job.k))
        BY <1>6 DEF Reduce, ReduceNearest, LocalTop
    <2>6. Valued(Down(c), rows) = N
        <3>1. \A r \in rows : Down(c)[r] = Cell(r, c)
            BY <2>1 DEF Down
        <3>2. \A r \in rows : \E i \in 1 .. h : r = row_start + i - 1
            <4>1. ASSUME NEW r \in rows
                  PROVE  r - row_start + 1 \in 1 .. h /\ r = row_start + (r - row_start + 1) - 1
                BY <1>1 DEF Positions
            <4> QED
                BY <4>1
        <3>3. ASSUME NEW x PROVE x \in Valued(Down(c), rows) <=>
                    \E r \in rows : x = [value |-> Cell(r, c), index |-> r]
                        /\ Cell(r, c) # InvalidValue
            BY <3>1 DEF Valued, Invalid
        <3>4. ASSUME NEW x PROVE x \in N <=>
                    \E i \in 1 .. h : x = tile[i] /\ tile[i].value # InvalidValue
            BY <2>4
        <3> HIDE DEF N
        <3>5. ASSUME NEW x \in Valued(Down(c), rows) PROVE x \in N
            <4>1. PICK r \in rows : x = [value |-> Cell(r, c), index |-> r]
                      /\ Cell(r, c) # InvalidValue
                BY <3>3
            <4>2. PICK i \in 1 .. h : r = row_start + i - 1
                BY <3>2
            <4>3. tile[i] = x /\ tile[i].value # InvalidValue
                BY <2>3, <4>1, <4>2
            <4> QED
                BY <3>4, <4>3
        <3>6. ASSUME NEW x \in N PROVE x \in Valued(Down(c), rows)
            <4>1. PICK i \in 1 .. h : x = tile[i] /\ tile[i].value # InvalidValue
                BY <3>4
            <4>2. PICK r \in rows : r = row_start + i - 1
                BY <2>2
            <4>3. x = [value |-> Cell(r, c), index |-> r] /\ Cell(r, c) # InvalidValue
                BY <2>3, <4>1, <4>2
            <4> QED
                BY <3>3, <4>3
        <3> QED
            BY <3>5, <3>6
    <2>7. SeenMatches(c)' = SeenMatches(c) \cup N
        <3>1. \A A, B : Valued(Down(c), A \cup B) = Valued(Down(c), A) \cup Valued(Down(c), B)
            BY DEF Valued
        <3> HIDE DEF N
        <3> QED
            BY <1>3, <2>1, <2>6, <3>1 DEF SeenMatches
    <2>8. Matches(SeenMatches(c)) /\ \A x \in SeenMatches(c) : x.index < row_start
        <3>1. \A r \in SeenDown(c) : r < row_start
            BY <1>1, <2>1 DEF Positions
        <3> QED
            BY <3>1, SeenAreMatches
    <2>9. \A i \in 1 .. Len(tile) : tile[i].index = row_start + i - 1
              /\ tile[i].value >= InvalidValue
        BY <2>3, <2>4
    <2>10. job.k \in Nat
        BY JobsAssumption DEF Progress
    <2>11. PICK E \in Seq(Entry), S \in {N} : E = tile /\ S = N
        BY <2>4
    <2> HIDE DEF tile, N
    <2>12. S = {x \in {E[i] : i \in 1 .. Len(E)} : x.value # InvalidValue}
        BY <2>11 DEF N
    <2>13. \A i \in 1 .. Len(E) : E[i].index = row_start + i - 1
               /\ E[i].value >= InvalidValue
        BY <2>9, <2>11
    <2>14. Ranking(Merged(nearest[c], TopK(E, job.k)), job.k, SeenMatches(c) \cup S)
        BY <1>1, <1>4, <2>8, <2>10, <2>12, <2>13, MergeRanks
    <2> QED
        BY <2>5, <2>7, <2>11, <2>14
<1> QED
    BY <1>5, <1>6

(* Every step keeps the rankings.                                          *)
LEMMA NextNearest == Progress /\ NearestInv /\ [Next]_vars => NearestInv'
<1> SUFFICES ASSUME Progress, NearestInv, [Next]_vars PROVE NearestInv'
    OBVIOUS
<1>1. CASE Reduce
    <2>1. Columns' = Columns /\ job' = job
        BY <1>1 DEF Reduce, Columns
    <2>2. nearest' = [c \in Columns |-> nearest'[c]]
        BY <1>1 DEF Reduce, ReduceNearest
    <2>3. \A c \in Columns : Ranking(nearest'[c], job.k, SeenMatches(c)')
        BY <1>1, ColumnIsRanked
    <2> QED
        BY <2>1, <2>2, <2>3 DEF NearestInv, Ranking, Sentinel, InvalidValue
<1>2. CASE UNCHANGED <<job, corner, reducers>>
    <2>1. /\ job' = job /\ Rows' = Rows /\ Columns' = Columns
          /\ \A r, c : Cell(r, c)' = Cell(r, c) /\ (Seen(r, c)' <=> Seen(r, c))
        BY <1>2, ViewIsKept DEF corner
    <2>2. \A c : Down(c)' = Down(c) /\ SeenDown(c)' = SeenDown(c)
        BY <2>1 DEF Down, SeenDown
    <2>3. \A c : SeenMatches(c)' = SeenMatches(c)
        BY <2>2 DEF SeenMatches, Valued, Invalid, InvalidValue
    <2>4. nearest' = nearest
        BY <1>2 DEF reducers
    <2> QED
        BY <2>1, <2>3, <2>4 DEF NearestInv, Ranking, Sentinel, InvalidValue
<1> QED
    BY <1>1, <1>2 DEF Next, Finish, vars

(* The first entries of a sequence without repetition are as many as       *)
(* their places.                                                           *)
LEMMA FirstOfRanking ==
    ASSUME NEW s, NEW i \in Nat, \A h, j \in 1 .. i : h < j => s[h] # s[j]
    PROVE  LET S == {s[h] : h \in 1 .. i}
           IN  IsFiniteSet(S) /\ Cardinality(S) = i
<1> DEFINE S == {s[h] : h \in 1 .. i}
           f == [h \in 1 .. i |-> s[h]]
<1>1. IsFiniteSet(1 .. i) /\ Cardinality(1 .. i) = i
    <2>1. 1 \in Int /\ i \in Int
        OBVIOUS
    <2>2. IsFiniteSet(1 .. i) /\ Cardinality(1 .. i) = IF 1 > i THEN 0 ELSE i - 1 + 1
        BY <2>1, FS_Interval
    <2> QED
        BY <2>2
<1>2. \A h, j \in 1 .. i : s[h] = s[j] => h = j
    <2>1. ASSUME NEW h \in 1 .. i, NEW j \in 1 .. i, s[h] = s[j], h # j PROVE FALSE
        <3>1. h < j \/ j < h
            BY <2>1
        <3> QED
            BY <2>1, <3>1
    <2> QED
        BY <2>1
<1>3. f \in Bijection(1 .. i, S)
    BY <1>2 DEF Bijection, Injection, Surjection, IsInjective
<1> QED
    BY <1>1, <1>3, FS_Bijection DEF ExistsBijection

Ranked(s, k, P) ==
    /\ \A i \in 1 .. k : s[i] \in P <=> i <= Least(k, Cardinality(P))
    /\ \A h, i \in 1 .. k : h < i /\ s[i] \in P => Outranks(s[h], s[i])
    /\ \A x \in P : LET rank == Cardinality({y \in P : Outranks(y, x)}) + 1
                    IN  rank <= k => s[rank] = x

(* A ranking holds the best that pass, each at its rank, and no other      *)
(* passes.                                                                 *)
LEMMA RankedByRank ==
    ASSUME NEW k \in Nat, NEW M, Matches(M), NEW s, Ranking(s, k, M), NEW th \in Int,
           NEW P, P = {x \in M : x.value > th}, IsFiniteSet(P)
    PROVE  Ranked(s, k, P)
<1>1. /\ Sentinel \in Entry /\ Sentinel \notin M
      /\ \A x \in M : x \in Entry /\ ~Outranks(Sentinel, x)
    BY SentinelIsLast
<1>2. \A i \in 1 .. k : s[i] \in Entry /\ (s[i] = Sentinel \/ s[i] \in M)
    BY <1>1 DEF Ranking
<1>3. \A i, j \in 1 .. k : i < j /\ s[j] \in P => Outranks(s[i], s[j])
    BY <1>1 DEF Ranking
<1>4. ASSUME NEW i \in 1 .. k, NEW x \in P, Outranks(s[i], x) PROVE s[i] \in P
    <2>1. s[i] \in M
        BY <1>1, <1>2, <1>4
    <2>2. s[i].value \in Int /\ x.value \in Int /\ x.value > th
        BY <1>1, <2>1 DEF Entry
    <2>3. s[i].value >= x.value
        BY <1>4, <2>2 DEF Outranks
    <2> QED
        BY <2>1, <2>2, <2>3
<1>5. \A i, j \in 1 .. k : i < j /\ s[j] \in P => s[i] \in P /\ s[i] # s[j]
    <2>1. ASSUME NEW i \in 1 .. k, NEW j \in 1 .. k, i < j, s[j] \in P
          PROVE  s[i] \in P /\ s[i] # s[j]
        <3>1. Outranks(s[i], s[j])
            BY <1>3, <2>1
        <3>2. s[i] \in P
            BY <1>4, <2>1, <3>1
        <3> QED
            BY <1>2, <3>1, <3>2, OutranksIsOrder
    <2> QED
        BY <2>1
<1>6. ASSUME NEW x \in P, ~ \E i \in 1 .. k : s[i] = x
      PROVE  \A i \in 1 .. k : s[i] \in P /\ Outranks(s[i], x)
    <2>1. \A i \in 1 .. k : Outranks(s[i], x)
        BY <1>6 DEF Ranking
    <2> QED
        BY <1>4, <2>1
<1>7. ASSUME NEW i \in 0 .. k, i > 0 => s[i] \in P
      PROVE  LET S == {s[h] : h \in 1 .. i}
             IN  S \subseteq P /\ IsFiniteSet(S) /\ Cardinality(S) = i
    <2>1. \A h \in 1 .. i : h \in 1 .. k /\ s[h] \in P
        <3>1. ASSUME NEW h \in 1 .. i PROVE h \in 1 .. k /\ s[h] \in P
            <4>1. i \in 1 .. k /\ h \in 1 .. k /\ s[i] \in P
                BY <1>7
            <4>2. h = i \/ h < i
                OBVIOUS
            <4> QED
                BY <1>5, <4>1, <4>2
        <3> QED
            BY <3>1
    <2>2. \A h, j \in 1 .. i : h < j => s[h] # s[j]
        BY <1>5, <2>1
    <2>3. i \in Nat
        OBVIOUS
    <2> QED
        BY <2>1, <2>2, <2>3, FirstOfRanking
<1>8. Cardinality(P) \in Nat
    BY FS_CardinalityType
<1>9. ASSUME NEW i \in 1 .. k, s[i] \in P PROVE i <= Cardinality(P)
    <2>1. i \in 0 .. k
        OBVIOUS
    <2>2. {s[h] : h \in 1 .. i} \subseteq P /\ Cardinality({s[h] : h \in 1 .. i}) = i
        BY <1>7, <1>9, <2>1
    <2>3. Cardinality({s[h] : h \in 1 .. i}) <= Cardinality(P)
        BY <2>2, FS_Subset
    <2> QED
        BY <2>2, <2>3
<1>10. ASSUME NEW i \in 1 .. k, s[i] \notin P PROVE ~(i <= Cardinality(P))
    <2>1. \A x \in P : \E j \in 1 .. i - 1 : s[j] = x
        <3>1. ASSUME NEW x \in P PROVE \E j \in 1 .. i - 1 : s[j] = x
            <4>1. PICK j \in 1 .. k : s[j] = x
                BY <1>6, <1>10
            <4>2. ~(i < j) /\ i # j
                BY <1>5, <1>10, <4>1
            <4>3. j \in 1 .. i - 1
                BY <4>2
            <4> QED
                BY <4>1, <4>3
        <3> QED
            BY <3>1
    <2>2. \E n \in Nat : n < i /\ P = {s[h] : h \in 1 .. n} /\ Cardinality(P) = n
        <3> DEFINE D == {j \in 1 .. i - 1 : s[j] \in P}
        <3>1. CASE D = {}
            <4>1. P = {}
                BY <2>1, <3>1
            <4>2. Cardinality(P) = 0
                BY <4>1, FS_EmptySet
            <4>3. {s[h] : h \in 1 .. 0} = {}
                OBVIOUS
            <4> QED
                BY <4>1, <4>2, <4>3
        <3>2. CASE D # {}
            <4>1. D \subseteq Int /\ i \in Int /\ \A j \in D : j <= i
                OBVIOUS
            <4>2. Max(D) \in D /\ \A j \in D : j <= Max(D)
                BY <3>2, <4>1, MaxIsGreatest
            <4>3. PICK n \in D : \A j \in D : j <= n
                BY <4>2
            <4>4. n \in 0 .. k /\ n \in Nat /\ n < i /\ s[n] \in P
                BY <4>3
            <4>5. {s[h] : h \in 1 .. n} \subseteq P
                      /\ Cardinality({s[h] : h \in 1 .. n}) = n
                BY <1>7, <4>4
            <4>6. P \subseteq {s[h] : h \in 1 .. n}
                <5>1. ASSUME NEW x \in P PROVE x \in {s[h] : h \in 1 .. n}
                    <6>1. PICK j \in 1 .. i - 1 : s[j] = x
                        BY <2>1
                    <6>2. j \in D
                        BY <6>1
                    <6>3. j \in 1 .. n
                        BY <4>3, <4>4, <6>2
                    <6> QED
                        BY <6>1, <6>3
                <5> QED
                    BY <5>1
            <4>7. P = {s[h] : h \in 1 .. n}
                BY <4>5, <4>6
            <4> QED
                BY <4>4, <4>5, <4>7
        <3> QED
            BY <3>1, <3>2
    <2> QED
        BY <1>8, <2>2
<1>11. \A i \in 1 .. k : s[i] \in P <=> i <= Least(k, Cardinality(P))
    <2>1. \A i \in 1 .. k : i <= Least(k, Cardinality(P)) <=> i <= Cardinality(P)
        BY <1>8 DEF Least
    <2> QED
        BY <1>9, <1>10, <2>1
<1>12. ASSUME NEW x \in P, NEW R, R = {y \in P : Outranks(y, x)}, Cardinality(R) + 1 <= k
       PROVE  s[Cardinality(R) + 1] = x
    <2>1. R \subseteq P /\ IsFiniteSet(R) /\ Cardinality(R) \in Nat
        BY <1>12, FS_Subset, FS_CardinalityType
    <2>2. CASE ~ \E i \in 1 .. k : s[i] = x
        <3>1. \A i \in 1 .. k : s[i] \in P /\ Outranks(s[i], x)
            BY <1>6, <2>2
        <3>2. k \in 0 .. k /\ (k > 0 => s[k] \in P)
            BY <3>1
        <3>3. {s[h] : h \in 1 .. k} \subseteq P /\ Cardinality({s[h] : h \in 1 .. k}) = k
            BY <1>7, <3>2
        <3>4. {s[h] : h \in 1 .. k} \subseteq R
            BY <1>12, <3>1
        <3>5. k <= Cardinality(R)
            BY <2>1, <3>3, <3>4, FS_Subset
        <3> QED
            BY <1>12, <2>1, <3>5
    <2>3. CASE \E i \in 1 .. k : s[i] = x
        <3>1. PICK i \in 1 .. k : s[i] = x
            BY <2>3
        <3>2. R = {s[h] : h \in 1 .. i - 1}
            <4>1. ASSUME NEW h \in 1 .. i - 1 PROVE s[h] \in R
                <5>1. h \in 1 .. k /\ h < i
                    OBVIOUS
                <5> QED
                    BY <1>3, <1>5, <1>12, <3>1, <5>1
            <4>2. ASSUME NEW y \in R PROVE y \in {s[h] : h \in 1 .. i - 1}
                <5>1. y \in P /\ Outranks(y, x) /\ y \in Entry /\ x \in Entry
                    BY <1>1, <1>12
                <5>2. ~Outranks(x, y) /\ x # y
                    BY <5>1, OutranksIsOrder
                <5>3. PICK h \in 1 .. k : s[h] = y
                    BY <1>6, <3>1, <5>1, <5>2
                <5>4. ~(i < h) /\ i # h
                    BY <1>3, <3>1, <5>1, <5>2, <5>3
                <5>5. h \in 1 .. i - 1
                    BY <5>4
                <5> QED
                    BY <5>3, <5>5
            <4> QED
                BY <4>1, <4>2
        <3>3. i - 1 \in 0 .. k /\ (i - 1 > 0 => s[i - 1] \in P)
            <4>1. i - 1 > 0 => i - 1 \in 1 .. k /\ i - 1 < i
                OBVIOUS
            <4> QED
                BY <1>5, <3>1, <4>1
        <3>4. Cardinality({s[h] : h \in 1 .. i - 1}) = i - 1
            BY <1>7, <3>3
        <3>5. Cardinality(R) + 1 = i
            BY <3>2, <3>4
        <3> QED
            BY <3>1, <3>5
    <2> QED
        BY <2>2, <2>3
<1> QED
    BY <1>3, <1>11, <1>12 DEF Ranked

(* This is what the property says: the entries above the threshold are     *)
(* reported and no other, and each is at its rank.                         *)
LEMMA NearestInvSuffices == Progress /\ NearestInv => NearestAreNearest
<1> SUFFICES ASSUME Progress, NearestInv, NEW c \in Columns
    PROVE  LET matches == {r \in Rows : Seen(r, c) /\ Cell(r, c) > job.threshold
                                            /\ Cell(r, c) # InvalidValue}
               rank(r) == Cardinality({s \in matches :
                             Outranks([value |-> Cell(s, c), index |-> s],
                                      [value |-> Cell(r, c), index |-> r])}) + 1
           IN  /\ Reported(c) = 1 .. Least(job.k, Cardinality(matches))
               /\ \A r \in matches :
                     rank(r) <= job.k =>
                         nearest[c][rank(r)] = [value |-> Cell(r, c), index |-> r]
    BY DEF NearestAreNearest
<1> DEFINE matches == {r \in Rows : Seen(r, c) /\ Cell(r, c) > job.threshold
                                       /\ Cell(r, c) # InvalidValue}
           entry(r) == [value |-> Cell(r, c), index |-> r]
<1>1. PICK k \in Nat, th \in Int, M \in {SeenMatches(c)}, s \in {nearest[c]} :
         k = job.k /\ th = job.threshold /\ M = SeenMatches(c) /\ s = nearest[c]
    BY JobsAssumption DEF Progress
<1>2. Ranking(s, k, M) /\ Matches(M)
    BY <1>1, SeenAreMatches DEF NearestInv
<1>3. \A x \in M : \E r \in SeenDown(c) : x = entry(r) /\ Cell(r, c) # InvalidValue
    BY <1>1, SeenAreMatches
<1>4. \A r \in SeenDown(c) : Cell(r, c) # InvalidValue => entry(r) \in M
    BY <1>1, SeenAreMatches
<1>5. PICK P : P = {x \in M : x.value > th}
    OBVIOUS
<1>6. P = {entry(r) : r \in matches} /\ matches \subseteq Rows
    <2>1. \A r \in matches : entry(r) \in P
        BY <1>1, <1>4, <1>5 DEF SeenDown
    <2>2. ASSUME NEW x \in P PROVE \E r \in matches : x = entry(r)
        <3>1. PICK r \in SeenDown(c) : x = entry(r) /\ Cell(r, c) # InvalidValue
            BY <1>3, <1>5
        <3>2. r \in matches
            BY <1>1, <1>5, <3>1 DEF SeenDown
        <3> QED
            BY <3>1, <3>2
    <2> QED
        BY <2>1, <2>2
<1>7. IsFiniteSet(matches)
    <2>1. job.rows \in Nat
        BY JobsAssumption DEF Progress
    <2>2. IsFiniteSet(Rows)
        BY <2>1, FS_Interval DEF Rows, Positions
    <2> QED
        BY <1>6, <2>2, FS_Subset
<1>8. ASSUME NEW A \in SUBSET matches
      PROVE  LET B == {entry(r) : r \in A}
             IN  IsFiniteSet(B) /\ Cardinality(B) = Cardinality(A)
    <2> DEFINE B == {entry(r) : r \in A}
               f == [r \in A |-> entry(r)]
    <2>1. IsFiniteSet(A)
        BY <1>7, FS_Subset
    <2>2. \A r, q \in A : entry(r) = entry(q) => r = q
        OBVIOUS
    <2>3. f \in Bijection(A, B)
        BY <2>2 DEF Bijection, Injection, Surjection, IsInjective
    <2> QED
        BY <2>1, <2>3, FS_Bijection DEF ExistsBijection
<1>9. IsFiniteSet(P) /\ Cardinality(P) = Cardinality(matches)
    BY <1>6, <1>8
<1>0. Ranked(s, k, P)
    BY <1>2, <1>5, <1>9, RankedByRank
<1>10. /\ \A i \in 1 .. k : s[i] \in P <=> i <= Least(k, Cardinality(P))
       /\ \A h, i \in 1 .. k : h < i /\ s[i] \in P => Outranks(s[h], s[i])
       /\ \A x \in P : LET rank == Cardinality({y \in P : Outranks(y, x)}) + 1
                       IN  rank <= k => s[rank] = x
    BY <1>0 DEF Ranked
<1>11. ASSUME NEW r \in matches,
              Cardinality({q \in matches : Outranks(entry(q), entry(r))}) + 1 <= k
       PROVE  s[Cardinality({q \in matches : Outranks(entry(q), entry(r))}) + 1] = entry(r)
    <2> DEFINE A == {q \in matches : Outranks(entry(q), entry(r))}
    <2>1. {y \in P : Outranks(y, entry(r))} = {entry(q) : q \in A}
        BY <1>6
    <2>2. Cardinality({y \in P : Outranks(y, entry(r))}) = Cardinality(A)
        BY <1>8, <2>1
    <2>3. entry(r) \in P
        BY <1>6
    <2> QED
        BY <1>10, <1>11, <2>2, <2>3
<1> DEFINE passes(i) == s[i].value > th /\ s[i].value >= -Scale /\ s[i].index >= 0
<1>12. Reported(c) = {i \in 1 .. k : passes(i) /\ \A h \in 1 .. i - 1 : passes(h) => s[h].index # s[i].index}
    BY <1>1 DEF Reported
<1>13. ASSUME NEW i \in 1 .. k PROVE passes(i) <=> s[i] \in P
    <2>1. s[i] = Sentinel \/ s[i] \in M
        BY <1>2 DEF Ranking
    <2>2. Sentinel \notin M
        BY <1>2, SentinelIsLast
    <2>3. Sentinel.index = -1
        BY DEF Sentinel
    <2>4. \A x \in M : x.value >= -Scale /\ x.index >= 0
        <3>1. ASSUME NEW x \in M PROVE x.value >= -Scale
            <4>1. PICK r \in SeenDown(c) : x = entry(r) /\ Cell(r, c) # InvalidValue
                BY <1>3
            <4>2. r \in Rows
                BY DEF SeenDown
            <4>3. IsCorrelation(Cell(r, c)) /\ Cell(r, c) \in Int
                BY <4>1, <4>2, CellsAreProper DEF Progress
            <4> QED
                BY <4>1, <4>3, ValuesAreOrdered DEF IsCorrelation
        <3> QED
            BY <1>2, <3>1 DEF Matches
    <2>5. CASE s[i] = Sentinel
        BY <1>5, <2>2, <2>3, <2>5
    <2>6. CASE s[i] \in M
        BY <1>5, <2>4, <2>6
    <2> QED
        BY <2>1, <2>5, <2>6
<1>14. ASSUME NEW i \in 1 .. k, s[i] \in P, NEW h \in 1 .. i - 1, s[h] \in P
       PROVE  s[h].index # s[i].index
    <2>1. h \in 1 .. k /\ h < i
        OBVIOUS
    <2>2. Outranks(s[h], s[i])
        BY <1>10, <1>14, <2>1
    <2>3. PICK r \in matches, q \in matches : s[h] = entry(r) /\ s[i] = entry(q)
        BY <1>6, <1>14
    <2>4. s[i] \in Entry
        BY <1>2, <1>5, <1>14 DEF Matches
    <2>5. r # q
        BY <2>2, <2>3, <2>4, OutranksIsOrder
    <2> QED
        BY <2>3, <2>5
<1> HIDE DEF passes
<1>15. \A i \in 1 .. k : i \in Reported(c) <=> s[i] \in P
    <2>1. ASSUME NEW i \in 1 .. k, s[i] \in P PROVE i \in Reported(c)
        <3>1. \A h \in 1 .. i - 1 : h \in 1 .. k
            OBVIOUS
        <3>2. \A h \in 1 .. i - 1 : passes(h) => s[h].index # s[i].index
            BY <1>13, <1>14, <2>1, <3>1
        <3> QED
            BY <1>12, <1>13, <2>1, <3>2
    <2> QED
        BY <1>12, <1>13, <2>1
<1>16. Reported(c) = 1 .. Least(k, Cardinality(matches))
    <2>1. Reported(c) \subseteq 1 .. k
        BY <1>12
    <2>2. Cardinality(P) \in Nat
        BY <1>9, FS_CardinalityType
    <2>3. PICK n \in Nat : n = Least(k, Cardinality(P)) /\ n <= k
        BY <2>2 DEF Least
    <2>4. \A i \in 1 .. k : i \in Reported(c) <=> i <= n
        BY <1>10, <1>15, <2>3
    <2>5. Reported(c) = 1 .. n
        <3>1. \A i \in 1 .. n : i \in 1 .. k /\ i <= n
            BY <2>3
        <3>2. \A i \in 1 .. k : i <= n => i \in 1 .. n
            OBVIOUS
        <3> QED
            BY <2>1, <2>4, <3>1, <3>2
    <2> QED
        BY <1>9, <2>3, <2>5
<1> HIDE DEF matches
<1> QED
    BY <1>1, <1>11, <1>16 DEF matches

----------------------------------------------------------------------------
(* The invariant and the theorems. *)
PendingInv == pending \in 0 .. InFlightTiles - 1

IInv ==
    /\ Progress
    /\ BestInv
    /\ SumInv
    /\ SummaryInv
    /\ NearestInv
    /\ PendingInv

(* The invariant at the start.                                             *)
LEMMA InitIInv == Init => IInv
<1>1. Init => PendingInv
    BY ReducersAssumption DEF Init, PendingInv
<1> QED
    BY <1>1, InitProgress, InitBest, InitSum, InitSummary, InitNearest DEF IInv

(* The invariant is kept.                                                  *)
LEMMA NextIInv == IInv /\ [Next]_vars => IInv'
<1>1. PendingInv /\ [Next]_vars => PendingInv'
    BY ReducersAssumption DEF PendingInv, Next, Reduce, Schedule, Finish, vars
<1> QED
    BY <1>1, NextProgress, NextBest, NextSum, NextSummary, NextNearest DEF IInv

(* The inductive invariant of the traversal and the five reducers: after   *)
(* any number of tiles each column and row holds its best match, its sum,  *)
(* its maxima and its ranking of what has been seen.                       *)
THEOREM Invariance == Spec => []IInv
BY InitIInv, NextIInv, PTL DEF Spec

(* A best match is the sentinel or a correlation with its index.           *)
LEMMA BestAreProper ==
    ASSUME Progress, BestInv
    PROVE  column_best \in [Columns -> ProperEntry] /\ row_best \in [Rows -> ProperEntry]
<1>1. Rows \subseteq Nat /\ Columns \subseteq Nat
    <2>1. job.rows \in Nat /\ job.columns \in Nat
        BY JobsAssumption DEF Progress
    <2> QED
        BY <2>1 DEF Rows, Columns, Positions
<1>2. Sentinel \in ProperEntry
    BY ValuesAreOrdered DEF Sentinel, ProperEntry, Entry
<1>3. ASSUME NEW r \in Rows, NEW c \in Columns, NEW i \in Nat, Cell(r, c) # InvalidValue
      PROVE  [value |-> Cell(r, c), index |-> i] \in ProperEntry
    <2>1. Cell(r, c) \in Int /\ IsCorrelation(Cell(r, c))
        BY <1>3, CellsAreProper DEF Progress
    <2> QED
        BY <2>1 DEF ProperEntry, Entry
<1>4. ASSUME NEW c \in Columns PROVE column_best[c] \in ProperEntry
    <2>1. IsBestOf(column_best[c], Valued(Down(c), SeenDown(c)))
        BY DEF BestInv
    <2>2. ASSUME NEW e \in Valued(Down(c), SeenDown(c)) PROVE e \in ProperEntry
        <3>1. PICK r \in SeenDown(c) : e = [value |-> Down(c)[r], index |-> r]
                  /\ Down(c)[r] # InvalidValue
            BY DEF Valued, Invalid
        <3>2. r \in Rows /\ r \in Nat /\ Down(c)[r] = Cell(r, c)
            BY <1>1 DEF SeenDown, Down
        <3> QED
            BY <1>3, <3>1, <3>2
    <2> QED
        BY <1>2, <2>1, <2>2 DEF IsBestOf
<1>5. ASSUME NEW r \in Rows PROVE row_best[r] \in ProperEntry
    <2>1. IsBestOf(row_best[r], Valued(Along(r), SeenAlong(r)))
        BY DEF BestInv
    <2>2. ASSUME NEW e \in Valued(Along(r), SeenAlong(r)) PROVE e \in ProperEntry
        <3>1. PICK c \in SeenAlong(r) : e = [value |-> Along(r)[c], index |-> c]
                  /\ Along(r)[c] # InvalidValue
            BY DEF Valued, Invalid
        <3>2. c \in Columns /\ c \in Nat /\ Along(r)[c] = Cell(r, c)
            BY <1>1 DEF SeenAlong, Along
        <3> QED
            BY <1>3, <3>1, <3>2
    <2> QED
        BY <1>2, <2>1, <2>2 DEF IsBestOf
<1>6. column_best = [c \in Columns |-> column_best[c]]
          /\ row_best = [r \in Rows |-> row_best[r]]
    BY DEF BestInv
<1> QED
    BY <1>4, <1>5, <1>6

(* The types follow.                                                       *)
LEMMA IInvTypes == IInv => TypeOK
<1> SUFFICES ASSUME IInv PROVE TypeOK
    OBVIOUS
<1>1. row_start \in Rows /\ col_start \in 0 .. job.columns
    BY DEF IInv, Progress
<1>2. column_best \in [Columns -> ProperEntry] /\ row_best \in [Rows -> ProperEntry]
    BY BestAreProper DEF IInv
<1>3. sums \in [Columns -> Int]
    <2>1. sums = [c \in Columns |-> sums[c]]
        BY DEF IInv, SumInv
    <2>2. ASSUME NEW c \in Columns PROVE sums[c] \in Int
        <3>1. SeenDown(c) \in SUBSET Rows /\ {} \in SUBSET Rows /\ SeenDown(c) \cap {} = {}
            BY DEF SeenDown
        <3>2. Total(c, SeenDown(c)) \in Int
            BY <3>1, TotalOfUnion DEF IInv, Progress
        <3> QED
            BY <3>2 DEF IInv, SumInv
    <2> QED
        BY <2>1, <2>2
<1>4. ASSUME NEW bin \in Bins
      PROVE  summary[bin] = InvalidValue \/ IsCorrelation(summary[bin])
    <2> DEFINE A == {InvalidValue} \cup CellsAt(Counted(bin))
    <2>1. \A p \in Counted(bin) : Cellwise(Cell(p[1], p[2]))
        BY CellsAreCellwise DEF IInv, Progress, Counted
    <2>2. \A x \in A : Cellwise(x)
        BY <2>1, ValuesAreOrdered DEF CellsAt, Cellwise, Invalid
    <2>3. A \subseteq Int /\ A # {} /\ Scale \in Int /\ \A x \in A : x <= Scale
        <3>1. \A x \in A : x <= Scale
            BY <2>2, ValuesAreOrdered
        <3>2. \A x \in A : x \in Int
            BY <2>2 DEF Cellwise
        <3>3. A # {} /\ Scale \in Int
            BY ValuesAreOrdered
        <3> QED
            BY <3>1, <3>2, <3>3
    <2>4. summary[bin] = Max(A)
        BY DEF IInv, SummaryInv
    <2> HIDE DEF A
    <2>5. Max(A) \in A
        BY <2>3, MaxIsGreatest
    <2> QED
        BY <2>2, <2>4, <2>5 DEF Cellwise, Invalid
<1>5. \A c \in Columns : Len(nearest[c]) = job.k
    BY DEF IInv, NearestInv, Ranking
<1>6. pending \in 0 .. InFlightTiles - 1
    BY DEF IInv, PendingInv
<1> QED
    BY <1>1, <1>2, <1>3, <1>4, <1>5, <1>6 DEF TypeOK

(* The state stays well-typed: a profile holds the sentinel or a           *)
(* correlation with its index, whatever the tiles.                         *)
THEOREM TypeCorrect == Spec => []TypeOK
BY Invariance, IInvTypes, PTL

(* _strict_update: after every tile each column and each row holds the     *)
(* best of the cells it has seen, at the lowest index of a tie, for every  *)
(* matrix, budget and shape of tiles.                                      *)
THEOREM FirstBestIsKept == Spec => []BestIsFirst
<1>1. IInv => BestIsFirst
    BY BestInvSuffices DEF IInv
<1> QED
    BY <1>1, Invariance, PTL

(* The sums above the threshold: each cell that has been seen is counted   *)
(* once, whatever tile it came in.                                         *)
THEOREM SumsAreComplete == Spec => []SumIsComplete
<1>1. IInv => SumIsComplete
    BY SumInvSuffices DEF IInv
<1> QED
    BY <1>1, Invariance, PTL

(* The matrix summary: each cell counts in the bin it scales down to and   *)
(* in no other, for every size of matrix and of summary.                   *)
THEOREM BinsAreRight == Spec => []SummaryIsBinned
<1>1. IInv => SummaryIsBinned
    BY SummaryInvSuffices DEF IInv
<1> QED
    BY <1>1, Invariance, PTL

(* The k nearest neighbours: what is reported of a column is its k best    *)
(* above the threshold of what it has seen, in order, though a tile only   *)
(* passes on its own k first and a tile may be lower than k.               *)
THEOREM RankingIsRight == Spec => []NearestAreNearest
<1>1. IInv => NearestAreNearest
    BY NearestInvSuffices DEF IInv
<1> QED
    BY <1>1, Invariance, PTL

(* _portable_tile_shape: a tile of more than one cell is within the        *)
(* memory budget, for every budget and cost of a window and of a cell.     *)
THEOREM TilesAreAffordable == Spec => []ShapeIsAffordable
<1>1. IInv => ShapeIsAffordable
    BY ShapeFits DEF IInv, Progress, ShapeIsAffordable
<1> QED
    BY <1>1, Invariance, PTL
=============================================================================
